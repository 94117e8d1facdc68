--------------------------- MODULE CommandsProofs ---------------------------
(***************************************************************************)
(* Theorems of Commands, for any number of runs and any command lines:     *)
(* main drives keygen and derive as KeyFiles says, a tuple has one key in  *)
(* all commands and a key tells the tuple of a plain name, no passphrase   *)
(* goes unchecked, and verify accepts exactly what was signed.  First what *)
(* they rest on: the salts of Identity determine what went into them.      *)
(***************************************************************************)
EXTENDS Commands, KeyFilesProofs, WellFoundedInduction

-----------------------------------------------------------------------------
(* The salts of Identity, for every name whose namespace does not hold the  *)
(* separator that follows it.                                               *)

\* A name without separator x.
Free(n, x) == \A i \in 1 .. Len(n) : n[i] # x

\* The two halves of a concatenation.
LEMMA Halves ==
    ASSUME NEW S, NEW n \in Seq(S), NEW u \in Seq(S)
    PROVE  /\ n \o u \in Seq(S)
           /\ Len(n \o u) = Len(n) + Len(u)
           /\ \A i \in 1 .. Len(n) : (n \o u)[i] = n[i]
           /\ \A j \in 1 .. Len(u) : (n \o u)[Len(n) + j] = u[j]
  <1>1. /\ n \o u \in Seq(S)
        /\ Len(n \o u) = Len(n) + Len(u)
        /\ \A i \in 1 .. Len(n) + Len(u) :
              (n \o u)[i] = IF i <= Len(n) THEN n[i] ELSE u[i - Len(n)]
    BY ConcatProperties
  <1>2. Len(n) \in Nat /\ Len(u) \in Nat
    OBVIOUS
  <1>3. ASSUME NEW i \in 1 .. Len(n) PROVE (n \o u)[i] = n[i]
    BY <1>1, <1>2
  <1>4. ASSUME NEW j \in 1 .. Len(u) PROVE (n \o u)[Len(n) + j] = u[j]
    <2>1. Len(n) + j \in 1 .. Len(n) + Len(u) /\ ~(Len(n) + j <= Len(n))
      BY <1>2
    <2>2. (Len(n) + j) - Len(n) = j
      BY <1>2
    <2> QED
      BY <1>1, <2>1, <2>2
  <1> QED
    BY <1>1, <1>3, <1>4

\* Two equal sequences cut at the same place.
LEMMA CutAlike ==
    ASSUME NEW S, NEW n \in Seq(S), NEW m \in Seq(S), NEW u \in Seq(S), NEW v \in Seq(S),
           Len(n) = Len(m), n \o u = m \o v
    PROVE  n = m /\ u = v
  <1> DEFINE w == n \o u
  <1>1. \A i \in 1 .. Len(n) : w[i] = n[i]
    BY Halves
  <1>2. w = m \o v
    OBVIOUS
  <1> HIDE DEF w
  <1>3. \A i \in 1 .. Len(m) : w[i] = m[i]
    BY <1>2, Halves
  <1>4. n = m
    BY <1>1, <1>3, SeqEqual
  <1> QED
    BY <1>4, ConcatSimplifications

\* What stands before the first x determines itself and what follows.
LEMMA SplitAtFirst ==
    ASSUME NEW S, NEW x, NEW n \in Seq(S), NEW m \in Seq(S),
           NEW u \in Seq(S), NEW v \in Seq(S), Free(n, x), Free(m, x),
           Len(u) > 0, u[1] = x, Len(v) > 0, v[1] = x,
           n \o u = m \o v
    PROVE  n = m /\ u = v
  <1> DEFINE w == n \o u
  <1>1. /\ \A i \in 1 .. Len(n) : w[i] = n[i]
        /\ \A j \in 1 .. Len(u) : w[Len(n) + j] = u[j]
    BY Halves
  <1>2. w = m \o v
    OBVIOUS
  <1> HIDE DEF w
  <1>3. /\ \A i \in 1 .. Len(m) : w[i] = m[i]
        /\ \A j \in 1 .. Len(v) : w[Len(m) + j] = v[j]
    BY <1>2, Halves
  <1>4. Len(n) \in Nat /\ Len(m) \in Nat /\ 1 \in 1 .. Len(u) /\ 1 \in 1 .. Len(v)
    OBVIOUS
  <1>5. w[Len(n) + 1] = x /\ w[Len(m) + 1] = x
    BY <1>1, <1>3, <1>4
  <1>6. ~(Len(n) < Len(m))
    <2>1. Len(n) < Len(m) => Len(n) + 1 \in 1 .. Len(m)
      BY <1>4
    <2> QED
      BY <1>3, <1>5, <2>1 DEF Free
  <1>7. ~(Len(m) < Len(n))
    <2>1. Len(m) < Len(n) => Len(m) + 1 \in 1 .. Len(n)
      BY <1>4
    <2> QED
      BY <1>1, <1>5, <2>1 DEF Free
  <1>8. Len(n) = Len(m)
    BY <1>4, <1>6, <1>7
  <1> QED
    BY <1>8, CutAlike

\* Concatenation, for the steps that only rearrange.
Cat(s, t) == s \o t

LEMMA CatLaws ==
    ASSUME NEW S, NEW s \in Seq(S), NEW t \in Seq(S), NEW u \in Seq(S)
    PROVE  /\ Cat(s, t) \in Seq(S)
           /\ Cat(Cat(s, t), u) = Cat(s, Cat(t, u))
           /\ Cat(s, t) = Cat(s, u) => t = u
  <1>1. Cat(s, t) \in Seq(S)
    BY ConcatProperties DEF Cat
  <1>2. Cat(Cat(s, t), u) = Cat(s, Cat(t, u))
    BY ConcatAssociative DEF Cat
  <1>3. Cat(s, t) = Cat(s, u) => t = u
    BY ConcatSimplifications DEF Cat
  <1> QED
    BY <1>1, <1>2, <1>3

LEMMA Regroup ==
    ASSUME NEW S, NEW p \in Seq(S), NEW n \in Seq(S), NEW u \in Seq(S), NEW t \in Seq(S)
    PROVE  Cat(Cat(Cat(p, n), u), t) = Cat(p, Cat(n, Cat(u, t)))
  <1>1. Cat(p, n) \in Seq(S) /\ Cat(u, t) \in Seq(S)
    BY CatLaws
  <1>2. Cat(Cat(Cat(p, n), u), t) = Cat(Cat(p, n), Cat(u, t))
    BY <1>1, CatLaws
  <1>3. Cat(Cat(p, n), Cat(u, t)) = Cat(p, Cat(n, Cat(u, t)))
    BY <1>1, CatLaws
  <1> QED
    BY <1>2, <1>3

\* A salt is a prefix p, a namespace n, a fixed number of pieces u that begin with
\* a separator x, and the rest s.
LEMMA SaltSplit ==
    ASSUME NEW S, NEW x, NEW p \in Seq(S), NEW n \in Seq(S), NEW m \in Seq(S),
           NEW u \in Seq(S), NEW v \in Seq(S), NEW s \in Seq(S), NEW t \in Seq(S),
           Free(n, x), Free(m, x),
           Len(u) > 0, Len(v) = Len(u), u[1] = x, v[1] = x,
           Cat(Cat(Cat(p, n), u), s) = Cat(Cat(Cat(p, m), v), t)
    PROVE  n = m /\ u = v /\ s = t
  <1> DEFINE y == Cat(u, s)
             z == Cat(v, t)
  <1>1. /\ y \in Seq(S) /\ z \in Seq(S)
        /\ Cat(n, y) \in Seq(S) /\ Cat(m, z) \in Seq(S)
    BY CatLaws
  <1>2. Len(y) > 0 /\ y[1] = x
    <2>1. /\ Len(y) = Len(u) + Len(s) /\ \A i \in 1 .. Len(u) : y[i] = u[i]
      BY Halves DEF Cat
    <2>2. Len(u) \in Nat /\ Len(s) \in Nat /\ 1 \in 1 .. Len(u)
      BY LenProperties
    <2> HIDE DEF y
    <2>3. y[1] = u[1]
      BY <2>1, <2>2
    <2> QED
      BY <2>1, <2>2, <2>3
  <1>3. Len(z) > 0 /\ z[1] = x
    <2>1. /\ Len(z) = Len(v) + Len(t) /\ \A i \in 1 .. Len(v) : z[i] = v[i]
      BY Halves DEF Cat
    <2>2. Len(v) \in Nat /\ Len(t) \in Nat /\ 1 \in 1 .. Len(v)
      BY LenProperties
    <2> HIDE DEF z
    <2>3. z[1] = v[1]
      BY <2>1, <2>2
    <2> QED
      BY <2>1, <2>2, <2>3
  <1>4. Cat(n, y) = Cat(m, z)
    <2>1. Cat(p, Cat(n, y)) = Cat(p, Cat(m, z))
      BY Regroup
    <2> HIDE DEF y, z
    <2> QED
      BY <1>1, <2>1, CatLaws
  <1>5. n = m /\ y = z
    <2> HIDE DEF y, z
    <2>1. n \o y = m \o z
      BY <1>4 DEF Cat
    <2> QED
      BY <1>1, <1>2, <1>3, <2>1, SplitAtFirst
  <1>6. u = v /\ s = t
    <2>1. u \o s = v \o t
      BY <1>5 DEF Cat
    <2> QED
      BY <2>1, CutAlike
  <1> QED
    BY <1>5, <1>6

\* No sub-identity, for an AES key, is the empty one.
AesSubId(sub_id) == IF sub_id = None THEN << >> ELSE sub_id

\* The salt of an identity determines namespace, version and sub-identity, as long
\* as no namespace contains the ":v" that ends it in the salt.
THEOREM DeriveSaltInjective ==
    ASSUME NEW n \in Name, NEW m \in Name, NEW v \in Version, NEW w \in Version,
           NEW s \in Name \cup {None}, NEW t \in Name \cup {None},
           Free(n, ":v"), Free(m, ":v"),
           derive_salt(n, v, s) = derive_salt(m, w, t)
    PROVE  n = m /\ v = w /\ s = t
  <1> DEFINE p == <<"CryDNA-v1:">>
             u == <<":v", be32(v)>>
             x == <<":v", be32(w)>>
             c == <<":sub:">>
             y == IF s = None THEN << >> ELSE c \o s
             z == IF t = None THEN << >> ELSE c \o t
  <1>1. p \in Seq(Piece)
    BY PieceAssumption
  <1>2. u \in Seq(Piece) /\ Len(u) = 2 /\ u[1] = ":v" /\ u[2] = be32(v)
    BY PieceAssumption
  <1>3. x \in Seq(Piece) /\ Len(x) = 2 /\ x[1] = ":v" /\ x[2] = be32(w)
    BY PieceAssumption
  <1>4. c \in Seq(Piece) /\ Len(c) = 1
    BY PieceAssumption
  <1>5. Cat(Cat(Cat(p, n), u), y) = Cat(Cat(Cat(p, m), x), z)
    BY DEF derive_salt, Cat
  <1>6. n \in Seq(Piece) /\ m \in Seq(Piece)
    BY DEF Name
  <1> HIDE DEF p, u, x, c
  <1>7. s # None => s \in Seq(Piece) /\ c \o s \in Seq(Piece) /\ Len(c \o s) > 0
    <2> SUFFICES ASSUME s # None PROVE s \in Seq(Piece) /\ c \o s \in Seq(Piece) /\ Len(c \o s) > 0
      OBVIOUS
    <2>1. s \in Seq(Piece)
      BY DEF Name
    <2>2. c \o s \in Seq(Piece) /\ Len(c \o s) = 1 + Len(s)
      BY <1>4, <2>1, ConcatProperties
    <2> QED
      BY <2>1, <2>2
  <1>8. t # None => t \in Seq(Piece) /\ c \o t \in Seq(Piece) /\ Len(c \o t) > 0
    <2> SUFFICES ASSUME t # None PROVE t \in Seq(Piece) /\ c \o t \in Seq(Piece) /\ Len(c \o t) > 0
      OBVIOUS
    <2>1. t \in Seq(Piece)
      BY DEF Name
    <2>2. c \o t \in Seq(Piece) /\ Len(c \o t) = 1 + Len(t)
      BY <1>4, <2>1, ConcatProperties
    <2> QED
      BY <2>1, <2>2
  <1>9. y \in Seq(Piece) /\ z \in Seq(Piece)
    BY <1>7, <1>8, EmptySeq
  <1>10. n = m /\ u = x /\ y = z
    <2> HIDE DEF y, z
    <2>1. Len(u) > 0 /\ Len(x) = Len(u) /\ u[1] = ":v" /\ x[1] = ":v"
      BY <1>2, <1>3
    <2>2. u \in Seq(Piece) /\ x \in Seq(Piece)
      BY <1>2, <1>3
    <2> QED
      BY ONLY <1>1, <1>5, <1>6, <1>9, <2>1, <2>2, SaltSplit, Free(n, ":v"), Free(m, ":v")
  <1>11. v = w
    BY <1>2, <1>3, <1>10, PieceAssumption
  <1>12. s = t
    <2>1. Len(<< >>) = 0
      BY EmptySeq
    <2>2. s = None <=> t = None
      <3>1. s = None => Len(y) = 0
        BY <2>1
      <3>2. t = None => Len(z) = 0
        BY <2>1
      <3>3. s # None => Len(y) > 0
        BY <1>7
      <3>4. t # None => Len(z) > 0
        BY <1>8
      <3> HIDE DEF y, z
      <3> QED
        BY <1>10, <3>1, <3>2, <3>3, <3>4
    <2>3. CASE s # None
      BY <1>4, <1>7, <1>8, <1>10, <2>2, <2>3, ConcatSimplifications
    <2> QED
      BY <2>2, <2>3
  <1> QED
    BY <1>10, <1>11, <1>12

\* The salt of a derived AES key determines namespace and version, and the
\* sub-identity but for the difference between none and an empty one.
THEOREM AesSaltInjective ==
    ASSUME NEW n \in Name, NEW m \in Name, NEW v \in Version, NEW w \in Version,
           NEW s \in Name \cup {None}, NEW t \in Name \cup {None},
           Free(n, "|ver="), Free(m, "|ver="),
           aes_salt(n, v, s) = aes_salt(m, w, t)
    PROVE  n = m /\ v = w /\ AesSubId(s) = AesSubId(t)
  <1> DEFINE p == <<"cry:derive:aes256gcm|ns=">>
             u == <<"|ver=", decimal(v), "|sub=">>
             x == <<"|ver=", decimal(w), "|sub=">>
             y == AesSubId(s)
             z == AesSubId(t)
  <1>1. p \in Seq(Piece)
    BY PieceAssumption
  <1>2. u \in Seq(Piece) /\ Len(u) = 3 /\ u[1] = "|ver=" /\ u[2] = decimal(v)
    BY PieceAssumption
  <1>3. x \in Seq(Piece) /\ Len(x) = 3 /\ x[1] = "|ver=" /\ x[2] = decimal(w)
    BY PieceAssumption
  <1>4. Cat(Cat(Cat(p, n), u), y) = Cat(Cat(Cat(p, m), x), z)
    BY DEF aes_salt, AesSubId, Cat
  <1>5. n \in Seq(Piece) /\ m \in Seq(Piece)
    BY DEF Name
  <1>6. y \in Seq(Piece) /\ z \in Seq(Piece)
    BY EmptySeq DEF AesSubId, Name
  <1> HIDE DEF p, u, x, y, z
  <1>7. n = m /\ u = x /\ y = z
    <2>1. Len(u) > 0 /\ Len(x) = Len(u) /\ u[1] = "|ver=" /\ x[1] = "|ver="
      BY <1>2, <1>3
    <2>2. u \in Seq(Piece) /\ x \in Seq(Piece)
      BY <1>2, <1>3
    <2> QED
      BY ONLY <1>1, <1>4, <1>5, <1>6, <2>1, <2>2, SaltSplit, Free(n, "|ver="), Free(m, "|ver=")
  <1>8. v = w
    BY <1>2, <1>3, <1>7, PieceAssumption
  <1> QED
    BY <1>7, <1>8 DEF y, z

-----------------------------------------------------------------------------
(* The inductive invariant.                                                 *)

Domains ==
    /\ DOMAIN stage = Run /\ DOMAIN typed = Run /\ DOMAIN pass = Run
    /\ DOMAIN seen = Run /\ DOMAIN ident = Run /\ DOMAIN signature = Run
    /\ DOMAIN given = Run /\ DOMAIN result = Run

\* The key a run makes, by its command.
KeyFor(r, a, p) ==
    CASE a.cmd = "keygen" -> KeygenKey(r, a)
      [] a.cmd = "derive" -> DeriveKey(a, p)
      [] a.cmd = "ssh" -> SshKey(a, p)
      [] OTHER -> SignKey(a, p)

\* A passphrase comes from one of the run's own sources.
Sourced(r) == pass[r] \in Passphrases(args[r]) \cup {<< >>}

\* No key before the work, no result before the end.
Phase(r) ==
    /\ stage[r] \notin {"keys"} \cup Ended =>
          pc[r] = "idle" /\ key[r] = NoKey /\ touched[r] = {}
    /\ stage[r] # "exit" => ident[r] = NoKey /\ result[r] = "none"
    /\ args[r].cmd = "verify" => stage[r] \in {"read", "work"} \cup Ended
    /\ stage[r] = "keys" => args[r].cmd \in {"keygen", "derive"}

\* A key is that of the command line and the passphrase.
Keyed(r) ==
    /\ key[r] # NoKey => /\ args[r].cmd \in {"keygen", "derive"}
                         /\ key[r] = KeyFor(r, args[r], pass[r])
    /\ ident[r] # NoKey => /\ args[r].cmd \in {"sign", "ssh"}
                           /\ ident[r] = KeyFor(r, args[r], pass[r])

\* A printed signature is one over the document the run read.
Signing(r) == r \in Signed => signature[r] = sign_content(ident[r], seen[r])

\* verify is given what runs of sign printed; its answer is VerifiedMeansSigned.
Genuine(g) ==
    /\ g.key \in Signed /\ g.sig \in Signed
    /\ g.kshape \in Shape /\ g.sshape \in Shape

Agrees(v, g) ==
    /\ {g.kshape, g.sshape} \subseteq {"lower", "upper", "plus"}
    /\ ident[g.key] = ident[g.sig]
    /\ seen[v] = seen[g.sig]

Verifying(v) ==
    args[v].cmd = "verify" =>
        /\ stage[v] = "work" => Genuine(given[v])
        /\ result[v] \notin {"none", "Io"} =>
              Genuine(given[v]) /\ (result[v] = "Ok" <=> Agrees(v, given[v]))

RunInv(r) == Sourced(r) /\ Phase(r) /\ Keyed(r) /\ Signing(r) /\ Verifying(r)

CInv == IInv /\ Domains /\ \A r \in Run : RunInv(r)

LEMMA CInitCInv == CInit => CInv
  <1> SUFFICES ASSUME CInit PROVE CInv
    OBVIOUS
  <1>1. IInv
    BY InitIInv DEF CInit
  <1>2. Domains
    BY DEF CInit, Domains
  <1>3. ASSUME NEW r \in Run PROVE RunInv(r)
    <2>1. /\ stage[r] = First(args[r]) /\ pass[r] = << >> /\ ident[r] = NoKey
          /\ result[r] = IF args[r].cmd = "help" THEN "Ok" ELSE "none"
          /\ pc[r] = "idle" /\ key[r] = NoKey /\ touched[r] = {}
      BY DEF CInit, Init
    <2>2. args[r].cmd = "help" => stage[r] = "exit"
      BY <2>1 DEF First
    <2>3. args[r].cmd = "verify" => stage[r] = "read"
      BY <2>1 DEF First
    <2>4. Sourced(r) /\ Keyed(r)
      BY <2>1 DEF Sourced, Keyed
    <2>5. Phase(r)
      BY <2>1, <2>2, <2>3 DEF Phase, First
    <2>6. Signing(r) /\ Verifying(r)
      BY <2>1, <2>3 DEF Signing, Verifying, Signed
    <2> QED
      BY <2>4, <2>5, <2>6 DEF RunInv
  <1> QED
    BY <1>1, <1>2, <1>3 DEF CInv

-----------------------------------------------------------------------------
(* What a step leaves alone.                                                *)

Same(q) ==
    /\ stage'[q] = stage[q] /\ typed'[q] = typed[q] /\ pass'[q] = pass[q]
    /\ seen'[q] = seen[q] /\ ident'[q] = ident[q] /\ signature'[q] = signature[q]
    /\ given'[q] = given[q] /\ result'[q] = result[q]
    /\ pc'[q] = pc[q] /\ key'[q] = key[q] /\ touched'[q] = touched[q]

\* A step of keygen or derive is about one run.
LEMMA KeyFrame ==
    ASSUME TypeOK, NEW r \in Run,
           \/ Begin(r) \/ Check(r) \/ Guard(r) \/ Create(r) \/ Write(r) \/ Chmod(r)
           \/ Fails(r) \/ WriteFails(r) \/ Killed(r) \/ \E k \in Key : Obtain(r, k)
    PROVE  /\ args' = args
           /\ \A q \in Run \ {r} : /\ pc'[q] = pc[q] /\ key'[q] = key[q]
                                   /\ touched'[q] = touched[q]
  <1>1. /\ args' = args
        /\ \A q \in Run \ {r} : key'[q] = key[q] /\ touched'[q] = touched[q]
    BY DEF TypeOK, Begin, Check, Guard, Create, Write, Chmod, Fails, WriteFails, Killed,
           Obtain, history
  <1>2. \E l : pc' = [pc EXCEPT ![r] = l] \/ pc' = pc
    BY DEF Begin, Check, Guard, Create, Write, Chmod, Fails, WriteFails, Killed,
           Obtain, Goto, Advance
  <1>3. \A q \in Run \ {r} : pc'[q] = pc[q]
    BY <1>2 DEF TypeOK
  <1> QED
    BY <1>1, <1>3

LEMMA KeyForIsKey ==
    ASSUME TypeOK, NEW r \in Run, Sourced(r),
           args[r].cmd \in {"keygen", "derive", "sign", "ssh"}
    PROVE  KeyFor(r, args[r], pass[r]) \in Key
  <1>1. PICK s \in Scenario : args = s.args
    BY DEF TypeOK
  <1>2. pass[r] \in Passphrases(s.args[r]) \cup {<< >>}
    BY <1>1 DEF Sourced
  <1>3. /\ args[r].cmd = "keygen" => KeygenKey(r, args[r]) \in Key
        /\ args[r].cmd = "derive" => DeriveKey(args[r], pass[r]) \in Key
        /\ args[r].cmd = "sign" => SignKey(args[r], pass[r]) \in Key
        /\ args[r].cmd = "ssh" => SshKey(args[r], pass[r]) \in Key
    BY <1>1, <1>2, CommandAssumption
  <1> QED
    BY <1>3 DEF KeyFor

\* keygen and derive obtain the key of their command.
LEMMA KeysObtain ==
    ASSUME NEW r \in Run, Keys(r)
    PROVE  /\ stage[r] = "keys" /\ UNCHANGED cli
           /\ \/ Check(r) \/ Guard(r) \/ Create(r) \/ Write(r) \/ Chmod(r)
              \/ /\ args[r].cmd \in {"keygen", "derive"}
                 /\ Obtain(r, KeyFor(r, args[r], pass[r]))
  BY DEF Keys, KeyFor

\* A step of main is a step of KeyFiles or none.
LEMMA StepSimulated ==
    ASSUME CInv, [CNext]_allvars
    PROVE  [Next]_vars
  <1>1. ASSUME NEW r \in Run, CallKeys(r) PROVE [Next]_vars
    BY <1>1 DEF CallKeys, Next
  <1>2. ASSUME NEW r \in Run, Keys(r) PROVE [Next]_vars
    <2>1. args[r].cmd \in {"keygen", "derive"} => KeyFor(r, args[r], pass[r]) \in Key
      BY KeyForIsKey DEF CInv, IInv, RunInv
    <2>2. Step(r)
      BY <1>2, <2>1, KeysObtain DEF Step
    <2> QED
      BY <2>2 DEF Next
  <1>3. ASSUME NEW r \in Run, KeysFail(r) PROVE [Next]_vars
    BY <1>3 DEF KeysFail, Next
  <1>4. ASSUME NEW r \in Run, Kill(r) PROVE [Next]_vars
    BY <1>4 DEF Kill, Next
  <1>5. ASSUME NEW r \in Run,
               \/ ReadOpenssh(r) \/ ConfirmOpenssh(r) \/ TakeOption(r) \/ TakeFirstLine(r)
               \/ Prompt(r) \/ Confirm(r) \/ InputFails(r) \/ ReadDocument(r) \/ Sign(r)
               \/ Verify(r) \/ Operate(r) \/ KeysReturn(r)
        PROVE  UNCHANGED vars
    BY <1>5 DEF ReadOpenssh, ConfirmOpenssh, TakeOption, TakeFirstLine, Prompt, Confirm,
           InputFails, ReadDocument, Sign, Verify, Operate, KeysReturn
  <1>6. ASSUME Edit \/ Terminating \/ UNCHANGED allvars PROVE UNCHANGED vars
    BY <1>6 DEF Edit, Terminating, allvars
  <1> QED
    BY <1>1, <1>2, <1>3, <1>4, <1>5, <1>6 DEF CNext, CStep

\* A step of one run happens before it has ended, and is about that run.
LEMMA Frame ==
    ASSUME CInv, NEW r \in Run, CStep(r) \/ Kill(r)
    PROVE  /\ stage[r] \notin Ended
           /\ Domains'
           /\ args' = args
           /\ \A q \in Run \ {r} : Same(q)
  <1> USE DEF CInv
  <1>1. /\ TypeOK
        /\ args[r].cmd \in {"keygen", "derive"} => KeyFor(r, args[r], pass[r]) \in Key
    BY KeyForIsKey DEF IInv, RunInv
  <1>2. ASSUME CallKeys(r) \/ Keys(r) \/ KeysFail(r) \/ Kill(r)
        PROVE  /\ stage[r] \notin Ended /\ Domains' /\ args' = args
               /\ \A q \in Run \ {r} : Same(q)
    <2>1. \/ Begin(r) \/ Check(r) \/ Guard(r) \/ Create(r) \/ Write(r) \/ Chmod(r)
          \/ Fails(r) \/ WriteFails(r) \/ Killed(r) \/ (\E k \in Key : Obtain(r, k))
          \/ UNCHANGED vars
      BY <1>1, <1>2, KeysObtain DEF CallKeys, KeysFail, Kill
    <2>2. /\ args' = args
          /\ \A q \in Run \ {r} : /\ pc'[q] = pc[q] /\ key'[q] = key[q]
                                  /\ touched'[q] = touched[q]
      <3>1. CASE UNCHANGED vars
        BY <3>1 DEF vars, history
      <3>2. CASE ~UNCHANGED vars
        BY <1>1, <2>1, <3>2, KeyFrame
      <3> QED
        BY <3>1, <3>2
    <2>3. /\ \E l : stage' = [stage EXCEPT ![r] = l] \/ stage' = stage
          /\ UNCHANGED <<typed, pass, seen, ident, signature, given, result>>
          /\ stage[r] \notin Ended
      BY <1>2 DEF CallKeys, Keys, KeysFail, Kill, Enter, cli, Ended
    <2> QED
      BY <2>2, <2>3 DEF Domains, Same
  <1>3. ASSUME \/ ReadOpenssh(r) \/ ConfirmOpenssh(r) \/ TakeOption(r) \/ TakeFirstLine(r)
               \/ Prompt(r) \/ Confirm(r) \/ InputFails(r) \/ ReadDocument(r) \/ Sign(r)
               \/ Verify(r) \/ Operate(r) \/ KeysReturn(r)
        PROVE  /\ stage[r] \notin Ended /\ Domains' /\ args' = args
               /\ \A q \in Run \ {r} : Same(q)
    <2>1. UNCHANGED vars /\ stage[r] \notin Ended
      BY <1>3 DEF ReadOpenssh, ConfirmOpenssh, TakeOption, TakeFirstLine, Prompt, Confirm,
           InputFails, ReadDocument, Sign, Verify, Operate, KeysReturn, Ended
    <2>2. /\ \E l : stage' = [stage EXCEPT ![r] = l]
          /\ \E l : result' = [result EXCEPT ![r] = l] \/ result' = result
          /\ \E l : typed' = [typed EXCEPT ![r] = l] \/ typed' = typed
          /\ \E l : pass' = [pass EXCEPT ![r] = l] \/ pass' = pass
      BY <1>3 DEF ReadOpenssh, ConfirmOpenssh, TakeOption, TakeFirstLine, Prompt, Confirm,
           InputFails, ReadDocument, Sign, Verify, Operate, KeysReturn,
           Enter, Return, Type, Take
    <2>3. /\ \E l : seen' = [seen EXCEPT ![r] = l] \/ seen' = seen
          /\ \E l : ident' = [ident EXCEPT ![r] = l] \/ ident' = ident
          /\ \E l : signature' = [signature EXCEPT ![r] = l] \/ signature' = signature
          /\ \E l : given' = [given EXCEPT ![r] = l] \/ given' = given
      BY <1>3 DEF ReadOpenssh, ConfirmOpenssh, TakeOption, TakeFirstLine, Prompt, Confirm,
           InputFails, ReadDocument, Sign, Verify, Operate, KeysReturn
    <2> QED
      BY <2>1, <2>2, <2>3 DEF Domains, Same, vars, history
  <1> QED
    BY <1>2, <1>3 DEF CStep

LEMMA OthersKeep ==
    ASSUME CInv, NEW r \in Run, CStep(r) \/ Kill(r), NEW q \in Run \ {r}
    PROVE  RunInv(q)'
  <1>1. /\ stage[r] \notin Ended /\ args' = args
        /\ \A x \in Run \ {r} : Same(x)
    BY Frame
  <1>2. RunInv(q) /\ Same(q)
    BY <1>1 DEF CInv
  <1>3. Sourced(q)' /\ Phase(q)' /\ Keyed(q)'
    BY <1>1, <1>2 DEF RunInv, Same, Sourced, Phase, Keyed
  <1>4. \A s \in Signed : s \in Run \ {r} /\ s \in Signed'
    BY <1>1 DEF CInv, RunInv, Phase, Signed, Same, Ended
  <1>5. Signing(q)'
    BY <1>1, <1>2 DEF RunInv, Same, Signing, Signed
  <1>6. Verifying(q)'
    <2>1. Genuine(given[q]) => Genuine(given[q])' /\ (Agrees(q, given[q])' <=> Agrees(q, given[q]))
      BY <1>1, <1>2, <1>4 DEF Genuine, Agrees, Same
    <2> QED
      BY <1>1, <1>2, <2>1 DEF RunInv, Same, Verifying
  <1> QED
    BY <1>3, <1>5, <1>6 DEF RunInv

-----------------------------------------------------------------------------
(* The steps of main.                                                       *)

\* Passphrases.
LEMMA PassphraseSteps ==
    ASSUME CInv, NEW r \in Run,
           \/ ReadOpenssh(r) \/ ConfirmOpenssh(r) \/ TakeOption(r) \/ TakeFirstLine(r)
           \/ Prompt(r) \/ Confirm(r)
    PROVE  RunInv(r)'
  <1>1. RunInv(r) /\ Domains
    BY DEF CInv
  <1>2. /\ UNCHANGED vars
        /\ UNCHANGED <<document, seen, ident, signature, given, edits>>
        /\ stage[r] \in {"openssh", "openssh confirm", "pass", "confirm"}
    BY DEF ReadOpenssh, ConfirmOpenssh, TakeOption, TakeFirstLine, Prompt, Confirm
  <1>3. /\ \E l \in {"openssh confirm", "pass", "confirm", "work", "exit"} :
              stage' = [stage EXCEPT ![r] = l] /\ (l # "exit" => result' = result)
        /\ \E e \in {"EmptyPassphrase", "PassphraseMismatch"} :
              result' = result \/ result' = [result EXCEPT ![r] = e]
    BY DEF ReadOpenssh, ConfirmOpenssh, TakeOption, TakeFirstLine, Prompt, Confirm,
           Enter, Return, Take
  <1>4. \/ pass' = pass
        \/ \E p \in Passphrases(args[r]) : pass' = [pass EXCEPT ![r] = p]
    BY DEF ReadOpenssh, ConfirmOpenssh, TakeOption, TakeFirstLine, Prompt, Confirm,
           Take, Passphrases, Source
  <1>5. /\ args' = args /\ pc' = pc /\ key' = key /\ touched' = touched
    BY <1>2 DEF vars, history
  <1>6. /\ args[r].cmd # "verify"
        /\ pc[r] = "idle" /\ key[r] = NoKey /\ touched[r] = {}
        /\ ident[r] = NoKey /\ result[r] = "none"
    BY <1>1, <1>2 DEF RunInv, Phase, Ended
  <1>7. Sourced(r)'
    BY <1>1, <1>4, <1>5 DEF RunInv, Sourced, Domains, Passphrases
  <1>8. Phase(r)'
    BY <1>1, <1>2, <1>3, <1>5, <1>6 DEF Phase, Domains, Ended
  <1>9. Keyed(r)'
    BY <1>2, <1>5, <1>6 DEF Keyed
  <1>10. Signing(r)' /\ Verifying(r)'
    BY <1>1, <1>3, <1>5, <1>6 DEF Signing, Verifying, Signed, Domains
  <1> QED
    BY <1>7, <1>8, <1>9, <1>10 DEF RunInv

LEMMA InputFailsStep ==
    ASSUME CInv, NEW r \in Run, InputFails(r)
    PROVE  RunInv(r)'
  <1>1. RunInv(r) /\ Domains
    BY DEF CInv
  <1>2. /\ UNCHANGED vars
        /\ UNCHANGED <<pass, seen, ident, signature, given>>
        /\ stage[r] \in {"openssh", "openssh confirm", "confirm", "read", "pass"}
        /\ stage' = [stage EXCEPT ![r] = "exit"]
        /\ result' = [result EXCEPT ![r] = "Io"]
    BY DEF InputFails, Return
  <1>3. /\ args' = args /\ pc' = pc /\ key' = key /\ touched' = touched
    BY <1>2 DEF vars, history
  <1>4. stage'[r] = "exit" /\ result'[r] = "Io" /\ ident[r] = NoKey
    BY <1>1, <1>2 DEF RunInv, Phase, Domains
  <1>5. Sourced(r)' /\ Keyed(r)'
    BY <1>1, <1>2, <1>3 DEF RunInv, Sourced, Keyed
  <1>6. Phase(r)'
    BY <1>3, <1>4 DEF Phase, Ended
  <1>7. Signing(r)' /\ Verifying(r)'
    BY <1>4 DEF Signing, Verifying, Signed
  <1> QED
    BY <1>5, <1>6, <1>7 DEF RunInv

\* The document.
LEMMA ReadDocumentStep ==
    ASSUME CInv, NEW r \in Run, ReadDocument(r)
    PROVE  RunInv(r)'
  <1>1. RunInv(r) /\ Domains
    BY DEF CInv
  <1>2. /\ UNCHANGED vars
        /\ UNCHANGED <<pass, ident, signature, result>>
        /\ stage[r] = "read"
        /\ \/ /\ args[r].cmd = "sign" /\ given' = given
              /\ stage' = [stage EXCEPT ![r] = "pass"]
           \/ /\ args[r].cmd = "verify"
              /\ stage' = [stage EXCEPT ![r] = "work"]
              /\ \E k, s \in Signed, x, y \in Shape :
                    given' = [given EXCEPT ![r] = [key |-> k, sig |-> s,
                                                   kshape |-> x, sshape |-> y]]
    BY DEF ReadDocument, Enter
  <1>3. /\ args' = args /\ pc' = pc /\ key' = key /\ touched' = touched
    BY <1>2 DEF vars, history
  <1>4. /\ pc[r] = "idle" /\ key[r] = NoKey /\ touched[r] = {}
        /\ ident[r] = NoKey /\ result[r] = "none"
    BY <1>1, <1>2 DEF RunInv, Phase, Ended
  <1>5. Sourced(r)' /\ Keyed(r)'
    BY <1>1, <1>2, <1>3, <1>4 DEF RunInv, Sourced, Keyed
  <1>6. Phase(r)'
    BY <1>1, <1>2, <1>3, <1>4 DEF Phase, Domains, Ended
  <1>7. Signing(r)'
    BY <1>2, <1>4 DEF Signing, Signed
  <1>8. Verifying(r)'
    <2>1. Signed' = Signed
      BY <1>2, <1>3 DEF Signed
    <2>2. args[r].cmd = "verify" => Genuine(given[r])'
      BY <1>1, <1>2, <2>1 DEF Genuine, Domains
    <2> QED
      BY <1>2, <1>3, <1>4, <2>2 DEF Verifying
  <1> QED
    BY <1>5, <1>6, <1>7, <1>8 DEF RunInv

\* The work of sign.
LEMMA SignStep ==
    ASSUME CInv, NEW r \in Run, Sign(r)
    PROVE  RunInv(r)'
  <1> DEFINE id == KeyFor(r, args[r], pass[r])
             text == sign_content(id, seen[r])
  <1>1. RunInv(r) /\ Domains
    BY DEF CInv
  <1>2. /\ UNCHANGED vars
        /\ UNCHANGED <<pass, seen, given>>
        /\ stage[r] = "work" /\ args[r].cmd = "sign"
        /\ ident' = [ident EXCEPT ![r] = id]
        /\ signature' = [signature EXCEPT ![r] = text]
        /\ stage' = [stage EXCEPT ![r] = "exit"]
        /\ result' = [result EXCEPT ![r] = "Ok"]
    BY DEF Sign, Return, KeyFor
  <1>3. /\ args' = args /\ pc' = pc /\ key' = key /\ touched' = touched
    BY <1>2 DEF vars, history
  <1> HIDE DEF text
  <1>4. /\ stage'[r] = "exit" /\ ident'[r] = id /\ signature'[r] = text
        /\ key[r] = NoKey
    <2> HIDE DEF id
    <2> QED
      BY <1>1, <1>2 DEF RunInv, Phase, Domains, Ended
  <1>5. Sourced(r)'
    BY <1>1, <1>2, <1>3 DEF RunInv, Sourced
  <1>6. Keyed(r)'
    <2>1. id' = id
      BY <1>2, <1>3
    <2>2. key'[r] = NoKey /\ args'[r].cmd = "sign"
      BY <1>2, <1>3, <1>4
    <2>3. ident'[r] = KeyFor(r, args'[r], pass'[r])
      BY <1>2, <1>3, <1>4
    <2> QED
      BY <2>2, <2>3 DEF Keyed
  <1>7. Phase(r)'
    BY <1>2, <1>3, <1>4 DEF Phase, Ended
  <1>8. Signing(r)'
    <2>1. text = sign_content(ident'[r], seen'[r])
      BY <1>2, <1>4 DEF text
    <2> QED
      BY <1>4, <2>1 DEF Signing
  <1>9. Verifying(r)'
    BY <1>2, <1>3 DEF Verifying
  <1> QED
    BY <1>5, <1>6, <1>7, <1>8, <1>9 DEF RunInv

\* The check of verify, for texts that come from runs of sign.
LEMMA VerifyAnswer ==
    ASSUME CInv, NEW v, NEW g, Genuine(g)
    PROVE  /\ verify_content_signature(
                  [bytes_to_hex(ident[g.key]) EXCEPT !.shape = g.kshape],
                  seen[v],
                  [bytes_to_hex(signature[g.sig]) EXCEPT !.shape = g.sshape]) = "Ok"
              <=> Agrees(v, g)
  <1>1. signature[g.sig] = [by |-> ident[g.sig], over |-> seen[g.sig]]
    BY DEF CInv, RunInv, Signing, Genuine, Signed, sign_content
  <1>2. [by |-> ident[g.sig], over |-> seen[g.sig]]
            = [by |-> ident[g.key], over |-> seen[v]]
        <=> ident[g.sig] = ident[g.key] /\ seen[g.sig] = seen[v]
    OBVIOUS
  <1>3. ASSUME NEW b, NEW x \in Shape
        PROVE  /\ [bytes_to_hex(b) EXCEPT !.shape = x].shape = x
               /\ [bytes_to_hex(b) EXCEPT !.shape = x].bytes = b
    BY DEF bytes_to_hex
  <1>4. ASSUME NEW t, t.shape \in Shape
        PROVE  hex_to_array(t) = "Ok" <=> t.shape \in {"lower", "upper", "plus"}
    BY <1>4 DEF hex_to_array, Shape
  <1> DEFINE k == [bytes_to_hex(ident[g.key]) EXCEPT !.shape = g.kshape]
             s == [bytes_to_hex(signature[g.sig]) EXCEPT !.shape = g.sshape]
  <1>5. /\ k.shape = g.kshape /\ k.bytes = ident[g.key]
        /\ s.shape = g.sshape /\ s.bytes = signature[g.sig]
        /\ g.kshape \in Shape /\ g.sshape \in Shape
    BY <1>3 DEF Genuine
  <1> HIDE DEF k, s
  <1>6. /\ hex_to_array(k) = "Ok" <=> g.kshape \in {"lower", "upper", "plus"}
        /\ hex_to_array(s) = "Ok" <=> g.sshape \in {"lower", "upper", "plus"}
    BY <1>4, <1>5
  <1>7. s.bytes = sign_content(k.bytes, seen[v])
        <=> ident[g.key] = ident[g.sig] /\ seen[v] = seen[g.sig]
    BY <1>1, <1>2, <1>5 DEF sign_content
  <1>8. verify_content_signature(k, seen[v], s) = "Ok" <=> Agrees(v, g)
    BY <1>6, <1>7 DEF verify_content_signature, Agrees
  <1> QED
    BY <1>8 DEF k, s

\* The work of verify.
LEMMA VerifyStep ==
    ASSUME CInv, NEW r \in Run, Verify(r)
    PROVE  RunInv(r)'
  <1> DEFINE g == given[r]
             e == verify_content_signature(
                      [bytes_to_hex(ident[g.key]) EXCEPT !.shape = g.kshape],
                      seen[r],
                      [bytes_to_hex(signature[g.sig]) EXCEPT !.shape = g.sshape])
  <1>1. RunInv(r) /\ Domains
    BY DEF CInv
  <1>2. /\ UNCHANGED vars
        /\ UNCHANGED <<pass, seen, ident, signature, given>>
        /\ stage[r] = "work" /\ args[r].cmd = "verify"
        /\ stage' = [stage EXCEPT ![r] = "exit"]
        /\ result' = [result EXCEPT ![r] = e]
    BY DEF Verify, Return
  <1>3. Genuine(g)
    BY <1>1, <1>2 DEF RunInv, Verifying
  <1>4. e = "Ok" <=> Agrees(r, g)
    BY <1>3, VerifyAnswer
  <1> HIDE DEF e, g
  <1>5. /\ args' = args /\ pc' = pc /\ key' = key /\ touched' = touched
    BY <1>2 DEF vars, history
  <1>6. stage'[r] = "exit" /\ result'[r] = e /\ result[r] = "none"
    BY <1>1, <1>2 DEF RunInv, Phase, Domains
  <1>7. Sourced(r)' /\ Keyed(r)'
    BY <1>1, <1>2, <1>5 DEF RunInv, Sourced, Keyed
  <1>8. Phase(r)'
    BY <1>2, <1>5, <1>6 DEF Phase, Ended
  <1>9. Signing(r)'
    BY <1>2, <1>5 DEF Signing, Signed
  <1>10. Verifying(r)'
    <2>1. \A s \in Signed : s # r /\ s \in Signed'
      BY <1>1, <1>2, <1>5, <1>6 DEF Signed, Domains
    <2>2. Genuine(g)'
      BY <1>2, <1>3, <2>1 DEF Genuine, g
    <2>3. Agrees(r, g)' <=> Agrees(r, g)
      BY <1>2 DEF Agrees, g
    <2>4. g' = given'[r] /\ (result'[r] = "Ok" <=> Agrees(r, g)')
      BY <1>4, <1>6, <2>3 DEF g
    <2> QED
      BY <1>6, <2>2, <2>4 DEF Verifying, g
  <1> QED
    BY <1>7, <1>8, <1>9, <1>10 DEF RunInv

\* encrypt, decrypt, bench and ssh.
LEMMA OperateStep ==
    ASSUME CInv, NEW r \in Run, Operate(r)
    PROVE  RunInv(r)'
  <1> DEFINE id == KeyFor(r, args[r], pass[r])
  <1>1. RunInv(r) /\ Domains
    BY DEF CInv
  <1>2. /\ UNCHANGED vars
        /\ UNCHANGED <<pass, seen, signature, given>>
        /\ stage[r] = "work" /\ args[r].cmd \in {"encrypt", "decrypt", "bench", "ssh"}
        /\ ident' = IF args[r].cmd = "ssh" THEN [ident EXCEPT ![r] = id] ELSE ident
        /\ stage' = [stage EXCEPT ![r] = "exit"]
    BY DEF Operate, Return, KeyFor
  <1>3. /\ args' = args /\ pc' = pc /\ key' = key /\ touched' = touched
    BY <1>2 DEF vars, history
  <1>4. /\ stage'[r] = "exit" /\ key[r] = NoKey /\ ident[r] = NoKey
        /\ ident'[r] = IF args[r].cmd = "ssh" THEN id ELSE NoKey
    <2> HIDE DEF id
    <2> QED
      BY <1>1, <1>2 DEF RunInv, Phase, Domains, Ended
  <1>5. Sourced(r)'
    BY <1>1, <1>2, <1>3 DEF RunInv, Sourced
  <1>6. Keyed(r)'
    <2>1. key'[r] = NoKey
      BY <1>3, <1>4
    <2>2. ident'[r] # NoKey =>
              args'[r].cmd = "ssh" /\ ident'[r] = KeyFor(r, args'[r], pass'[r])
      BY <1>2, <1>3, <1>4
    <2> QED
      BY <2>1, <2>2 DEF Keyed
  <1>7. Phase(r)'
    BY <1>2, <1>3, <1>4 DEF Phase, Ended
  <1>8. Signing(r)' /\ Verifying(r)'
    BY <1>2, <1>3 DEF Signing, Signed, Verifying
  <1> QED
    BY <1>5, <1>6, <1>7, <1>8 DEF RunInv

\* keygen and derive.
LEMMA KeysSteps ==
    ASSUME CInv, NEW r \in Run,
           CallKeys(r) \/ Keys(r) \/ KeysFail(r) \/ KeysReturn(r) \/ Kill(r)
    PROVE  RunInv(r)'
  <1> DEFINE id == KeyFor(r, args[r], pass[r])
  <1>1. RunInv(r) /\ Domains /\ TypeOK
    BY DEF CInv, IInv
  <1>2. /\ stage[r] \notin Ended
        /\ args' = args
    BY Frame DEF CStep
  <1>3. UNCHANGED <<pass, seen, ident, signature, given>>
    BY DEF CallKeys, Keys, KeysFail, KeysReturn, Kill, cli
  <1>4. ident[r] = NoKey /\ result[r] = "none"
    BY <1>1, <1>2 DEF RunInv, Phase, Ended
  <1>5. \/ key'[r] = key[r]
        \/ args[r].cmd \in {"keygen", "derive"} /\ key'[r] = id
    <2>1. CASE Keys(r) /\ Obtain(r, id)
      <3>1. args[r].cmd \in {"keygen", "derive"}
        BY <1>1, <2>1, KeysObtain DEF RunInv, Phase
      <3>2. key' = [key EXCEPT ![r] = id]
        BY <2>1 DEF Obtain
      <3> HIDE DEF id
      <3> QED
        BY <1>1, <3>1, <3>2 DEF TypeOK
    <2>2. CASE ~(Keys(r) /\ Obtain(r, id))
      <3>1. key' = key
        BY <2>2, KeysObtain DEF CallKeys, KeysFail, KeysReturn, Kill, vars, history,
               Begin, Check, Guard, Create, Write, Chmod, Fails, WriteFails, Killed
      <3> QED
        BY <3>1
    <2> QED
      BY <2>1, <2>2
  <1>6. Sourced(r)'
    BY <1>1, <1>2, <1>3 DEF RunInv, Sourced
  <1>7. Keyed(r)'
    <2>1. ident'[r] = NoKey
      BY <1>3, <1>4
    <2>2. id = KeyFor(r, args'[r], pass'[r])
      BY <1>2, <1>3
    <2>3. key'[r] # NoKey =>
              args'[r].cmd \in {"keygen", "derive"} /\ key'[r] = KeyFor(r, args'[r], pass'[r])
      BY <1>1, <1>2, <1>5, <2>2 DEF RunInv, Keyed
    <2> QED
      BY <2>1, <2>3 DEF Keyed
  <1>8. CASE CallKeys(r) \/ Keys(r) \/ KeysFail(r)
    <2>1. /\ args[r].cmd \in {"keygen", "derive"}
          /\ stage'[r] = "keys" /\ result' = result
      BY <1>1, <1>8 DEF CallKeys, Keys, KeysFail, Enter, cli, Domains, RunInv, Phase
    <2>2. Phase(r)' /\ Signing(r)' /\ Verifying(r)'
      BY <1>2, <1>3, <1>4, <2>1 DEF Phase, Signing, Signed, Verifying, Ended
    <2> QED
      BY <1>6, <1>7, <2>2 DEF RunInv
  <1>9. CASE KeysReturn(r)
    <2>1. args[r].cmd \in {"keygen", "derive"} /\ stage'[r] = "exit"
      BY <1>1, <1>9 DEF KeysReturn, Return, Domains, RunInv, Phase
    <2>2. Phase(r)' /\ Signing(r)' /\ Verifying(r)'
      BY <1>2, <2>1 DEF Phase, Signing, Signed, Verifying, Ended
    <2> QED
      BY <1>6, <1>7, <2>2 DEF RunInv
  <1>10. CASE Kill(r)
    <2>1. stage'[r] = "killed" /\ result' = result
      BY <1>1, <1>10 DEF Kill, Domains
    <2>2. Phase(r)' /\ Signing(r)' /\ Verifying(r)'
      BY <1>2, <1>3, <1>4, <2>1 DEF Phase, Signing, Signed, Verifying, Ended
    <2> QED
      BY <1>6, <1>7, <2>2 DEF RunInv
  <1> QED
    BY <1>8, <1>9, <1>10

LEMMA CNextCInv == CInv /\ [CNext]_allvars => CInv'
  <1> SUFFICES ASSUME CInv, [CNext]_allvars PROVE CInv'
    OBVIOUS
  <1>1. IInv'
    BY StepSimulated, NextIInv DEF CInv
  <1>2. ASSUME NEW r \in Run, CStep(r) \/ Kill(r) PROVE CInv'
    <2>1. Domains'
      BY <1>2, Frame
    <2>2. RunInv(r)'
      BY <1>2, PassphraseSteps, InputFailsStep, ReadDocumentStep, SignStep, VerifyStep,
         OperateStep, KeysSteps DEF CStep
    <2>3. \A q \in Run \ {r} : RunInv(q)'
      BY <1>2, OthersKeep
    <2> QED
      BY <1>1, <2>1, <2>2, <2>3 DEF CInv
  <1>3. ASSUME Edit \/ Terminating \/ UNCHANGED allvars PROVE CInv'
    <2>1. /\ UNCHANGED vars
          /\ UNCHANGED <<stage, typed, pass, seen, ident, signature, given, result>>
      BY <1>3 DEF Edit, Terminating, allvars, cli
    <2>2. /\ args' = args /\ pc' = pc /\ key' = key /\ touched' = touched
      BY <2>1 DEF vars, history
    <2>3. Domains'
      BY <2>1 DEF CInv, Domains
    <2>4. ASSUME NEW r \in Run PROVE RunInv(r)'
      <3>1. RunInv(r)
        BY DEF CInv
      <3>2. Sourced(r)' /\ Phase(r)' /\ Keyed(r)'
        BY <2>1, <2>2, <3>1 DEF RunInv, Sourced, Phase, Keyed
      <3>3. Signing(r)' /\ Verifying(r)'
        BY <2>1, <2>2, <3>1 DEF RunInv, Signing, Signed, Verifying, Genuine, Agrees
      <3> QED
        BY <3>2, <3>3 DEF RunInv
    <2> QED
      BY <1>1, <2>3, <2>4 DEF CInv
  <1> QED
    BY <1>2, <1>3 DEF CNext

LEMMA CInvariance == CSpec => []CInv
  BY CInitCInv, CNextCInv, PTL DEF CSpec

-----------------------------------------------------------------------------
\* Whatever the users do, main drives keygen and derive as KeyFiles describes.
THEOREM MainDrivesKeyFiles == CSpec => Spec
  <1>1. CInit => Init
    BY DEF CInit
  <1> QED
    BY <1>1, StepSimulated, CInvariance, PTL DEF CSpec, Spec

\* So the commands keep what KeyFiles promises: no run of cry changes a key file
\* it found without --force, and a refused one has written nothing, unless it was
\* overtaken.
THEOREM CommandsKeepOldKeys == CSpec => []OldKeysSurvive /\ []RefusalIsClean
  BY MainDrivesKeyFiles, FoundKeysSurvive, RefusedRunsAreClean, PTL

\* verify accepts exactly what was signed, whatever happened to the document
\* between, during and after the runs of sign and verify.
THEOREM VerifyAcceptsWhatWasSigned == CSpec => []VerifiedMeansSigned
  <1>1. CInv => VerifiedMeansSigned
    BY DEF CInv, RunInv, Verifying, Agrees, VerifiedMeansSigned
  <1> QED
    BY <1>1, CInvariance, PTL
-----------------------------------------------------------------------------
(* One tuple, one key.                                                      *)

LEMMA KeyCases ==
    ASSUME NEW r, NEW a, NEW p
    PROVE  /\ a.cmd = "keygen" => KeyFor(r, a, p) = generate(r, a.algo)
           /\ IsAes(a) =>
                 KeyFor(r, a, p) = derive_aes(p, a.namespace, a.key_version, a.sub_id)
           /\ a.cmd # "keygen" /\ ~IsAes(a) =>
                 KeyFor(r, a, p) = derive(p, a.namespace, a.key_version, a.sub_id)
  BY DEF KeyFor, KeygenKey, DeriveKey, SshKey, SignKey, IsAes

\* Tuples are compared by their parts.
LEMMA TupleParts ==
    ASSUME NEW r, NEW q, NEW c, NEW d
    PROVE  Tuple(r, c) = Tuple(q, d) =>
               /\ IsAes(args[r]) = IsAes(args[q]) /\ c = d
               /\ args[r].namespace = args[q].namespace
               /\ args[r].key_version = args[q].key_version
               /\ args[r].sub_id = args[q].sub_id
  <1>1. ASSUME NEW x, NEW y
        PROVE  /\ Tuple(x, y).aes = IsAes(args[x]) /\ Tuple(x, y).passphrase = y
               /\ Tuple(x, y).namespace = args[x].namespace
               /\ Tuple(x, y).version = args[x].key_version
               /\ Tuple(x, y).sub_id = args[x].sub_id
    BY Zenon DEF Tuple
  <1> DEFINE t == Tuple(r, c)
             u == Tuple(q, d)
  <1>2. /\ t.aes = IsAes(args[r]) /\ t.passphrase = c /\ t.namespace = args[r].namespace
        /\ t.version = args[r].key_version /\ t.sub_id = args[r].sub_id
    BY <1>1
  <1>3. /\ u.aes = IsAes(args[q]) /\ u.passphrase = d /\ u.namespace = args[q].namespace
        /\ u.version = args[q].key_version /\ u.sub_id = args[q].sub_id
    BY <1>1
  <1> HIDE DEF t, u
  <1>4. t = u => /\ IsAes(args[r]) = IsAes(args[q]) /\ c = d
                 /\ args[r].namespace = args[q].namespace
                 /\ args[r].key_version = args[q].key_version
                 /\ args[r].sub_id = args[q].sub_id
    BY <1>2, <1>3, Zenon
  <1> QED
    BY <1>4 DEF t, u

LEMMA Longer ==
    ASSUME NEW S, NEW s \in Seq(S), NEW t \in Seq(S), Len(s) > 0
    PROVE  s \o t \in Seq(S) /\ Len(s \o t) > 0
  <1>1. s \o t \in Seq(S) /\ Len(s \o t) = Len(s) + Len(t)
    BY Halves
  <1>2. Len(s) \in Nat /\ Len(t) \in Nat
    OBVIOUS
  <1> QED
    BY <1>1, <1>2

\* A salt is not empty: three sequences after another piece.
LEMMA NotEmpty ==
    ASSUME NEW S, NEW x \in S, NEW n \in Seq(S), NEW u \in Seq(S), NEW t \in Seq(S)
    PROVE  ((<<x>> \o n) \o u) \o t # << >>
  <1>1. <<x>> \in Seq(S) /\ Len(<<x>>) > 0
    OBVIOUS
  <1>2. <<x>> \o n \in Seq(S) /\ Len(<<x>> \o n) > 0
    BY ONLY <1>1, Longer, n \in Seq(S)
  <1> DEFINE y == <<x>> \o n
  <1>3. y \in Seq(S) /\ Len(y) > 0
    BY ONLY <1>2
  <1> HIDE DEF y
  <1>4. y \o u \in Seq(S) /\ Len(y \o u) > 0
    BY ONLY <1>3, Longer, u \in Seq(S)
  <1> DEFINE z == y \o u
  <1>5. z \in Seq(S) /\ Len(z) > 0
    BY ONLY <1>4
  <1> HIDE DEF z
  <1>6. Len(z \o t) > 0
    BY ONLY <1>5, Longer, t \in Seq(S)
  <1> DEFINE c == z \o t
  <1>7. Len(c) > 0
    BY ONLY <1>6
  <1> HIDE DEF c
  <1>8. c # << >>
    BY ONLY <1>7, Len(<< >>) = 0
  <1> QED
    BY ONLY <1>8 DEF c, z, y

LEMMA SaltNotEmpty ==
    ASSUME NEW n \in Name, NEW v \in Version, NEW s \in Name \cup {None}
    PROVE  derive_salt(n, v, s) # << >> /\ aes_salt(n, v, s) # << >>
  <1> DEFINE y == IF s = None THEN << >> ELSE <<":sub:">> \o s
             z == IF s = None THEN << >> ELSE s
             u == <<":v", be32(v)>>
             w == <<"|ver=", decimal(v), "|sub=">>
  <1>1. n \in Seq(Piece) /\ u \in Seq(Piece) /\ w \in Seq(Piece)
    BY PieceAssumption DEF Name
  <1>2. y \in Seq(Piece) /\ z \in Seq(Piece)
    <2>1. CASE s = None
      BY <2>1, EmptySeq
    <2>2. CASE s # None
      <3>1. s \in Seq(Piece) /\ <<":sub:">> \in Seq(Piece)
        BY <2>2, PieceAssumption DEF Name
      <3>2. <<":sub:">> \o s \in Seq(Piece)
        BY <3>1, ConcatProperties
      <3> QED
        BY <2>2, <3>1, <3>2
    <2> QED
      BY <2>1, <2>2
  <1>3. "CryDNA-v1:" \in Piece /\ "cry:derive:aes256gcm|ns=" \in Piece
    BY PieceAssumption
  <1> HIDE DEF y, z, u, w
  <1>4. ((<<"CryDNA-v1:">> \o n) \o u) \o y # << >>
    BY <1>1, <1>2, <1>3, NotEmpty
  <1>5. ((<<"cry:derive:aes256gcm|ns=">> \o n) \o w) \o z # << >>
    BY <1>1, <1>2, <1>3, NotEmpty
  <1> QED
    BY <1>4, <1>5 DEF derive_salt, aes_salt, y, z, u, w

\* What a key was made of.
LEMMA MadeOf ==
    ASSUME CInv, NEW r \in Run, Obtained(r) # NoKey
    PROVE  /\ Obtained(r) = KeyFor(r, args[r], pass[r])
           /\ args[r].namespace \in Name /\ args[r].key_version \in Version
           /\ args[r].sub_id \in Name \cup {None}
           /\ PlainName(args[r].namespace) =>
                  Free(args[r].namespace, ":v") /\ Free(args[r].namespace, "|ver=")
  <1>1. Obtained(r) = KeyFor(r, args[r], pass[r])
    BY DEF CInv, RunInv, Keyed, Obtained
  <1>2. IsCommandLine(args[r])
    BY CommandAssumption DEF CInv, IInv, TypeOK
  <1>3. /\ args[r].namespace \in Name /\ args[r].key_version \in Version
        /\ args[r].sub_id \in Name \cup {None}
    BY <1>2 DEF IsCommandLine
  <1> QED
    BY <1>1, <1>3 DEF PlainName, Free

\* What two equal AES sub-identities were.
LEMMA AesSubIds ==
    ASSUME NEW s, NEW t, AesSubId(s) = AesSubId(t)
    PROVE  s = t \/ {s, t} = {None, << >>}
  BY DEF AesSubId

\* One tuple gives one key over all commands, generated keys are nobody else's,
\* and one key tells its kind, its passphrase and, for plain namespaces, its tuple
\* but for an AES key's empty sub-identity.
THEOREM KeysTellTuples == CSpec => []KeyTellsTuple
  <1>1. ASSUME CInv, NEW r \in Run, NEW q \in Run,
               Obtained(r) # NoKey, Obtained(q) # NoKey, r # q
        PROVE  IF "keygen" \in {args[r].cmd, args[q].cmd} THEN Obtained(r) # Obtained(q)
               ELSE /\ Tuple(r, pass[r]) = Tuple(q, pass[q]) => Obtained(r) = Obtained(q)
                    /\ Obtained(r) = Obtained(q) =>
                          /\ IsAes(args[r]) <=> IsAes(args[q])
                          /\ pass[r] = pass[q]
                          /\ PlainName(args[r].namespace) /\ PlainName(args[q].namespace) =>
                                /\ args[r].namespace = args[q].namespace
                                /\ args[r].key_version = args[q].key_version
                                /\ \/ args[r].sub_id = args[q].sub_id
                                   \/ /\ IsAes(args[r])
                                      /\ {args[r].sub_id, args[q].sub_id} = {None, << >>}
    <2> DEFINE n == args[r].namespace
               v == args[r].key_version
               s == args[r].sub_id
               m == args[q].namespace
               w == args[q].key_version
               t == args[q].sub_id
               kr == KeyFor(r, args[r], pass[r])
               kq == KeyFor(q, args[q], pass[q])
               Plain == PlainName(n) /\ PlainName(m)
    <2>1. /\ Obtained(r) = kr /\ n \in Name /\ v \in Version /\ s \in Name \cup {None}
          /\ PlainName(n) => Free(n, ":v") /\ Free(n, "|ver=")
      BY <1>1, MadeOf
    <2>2. /\ Obtained(q) = kq /\ m \in Name /\ w \in Version /\ t \in Name \cup {None}
          /\ PlainName(m) => Free(m, ":v") /\ Free(m, "|ver=")
      BY <1>1, MadeOf
    <2>3. /\ args[r].cmd = "keygen" => kr = generate(r, args[r].algo)
          /\ IsAes(args[r]) => kr = derive_aes(pass[r], n, v, s)
          /\ args[r].cmd # "keygen" /\ ~IsAes(args[r]) => kr = derive(pass[r], n, v, s)
      BY KeyCases
    <2>4. /\ args[q].cmd = "keygen" => kq = generate(q, args[q].algo)
          /\ IsAes(args[q]) => kq = derive_aes(pass[q], m, w, t)
          /\ args[q].cmd # "keygen" /\ ~IsAes(args[q]) => kq = derive(pass[q], m, w, t)
      BY KeyCases
    <2>5. IsAes(args[r]) => args[r].cmd # "keygen"
      BY DEF IsAes
    <2>6. IsAes(args[q]) => args[q].cmd # "keygen"
      BY DEF IsAes
    <2>7. Tuple(r, pass[r]) = Tuple(q, pass[q]) =>
              /\ IsAes(args[r]) = IsAes(args[q]) /\ pass[r] = pass[q]
              /\ n = m /\ v = w /\ s = t
      BY TupleParts
    <2>8. derive_salt(n, v, s) # << >> /\ aes_salt(n, v, s) # << >>
      BY <2>1, SaltNotEmpty
    <2>9. derive_salt(m, w, t) # << >> /\ aes_salt(m, w, t) # << >>
      BY <2>2, SaltNotEmpty
    <2>10. Plain /\ derive_salt(n, v, s) = derive_salt(m, w, t) => n = m /\ v = w /\ s = t
      BY <2>1, <2>2, DeriveSaltInjective
    <2>11. Plain /\ aes_salt(n, v, s) = aes_salt(m, w, t)
              => n = m /\ v = w /\ (s = t \/ {s, t} = {None, << >>})
      <3>1. Plain /\ aes_salt(n, v, s) = aes_salt(m, w, t)
                => n = m /\ v = w /\ AesSubId(s) = AesSubId(t)
        BY <2>1, <2>2, AesSaltInjective
      <3> QED
        BY <3>1, AesSubIds
    <2> SUFFICES IF "keygen" \in {args[r].cmd, args[q].cmd} THEN kr # kq
                 ELSE /\ Tuple(r, pass[r]) = Tuple(q, pass[q]) => kr = kq
                      /\ kr = kq =>
                            /\ IsAes(args[r]) <=> IsAes(args[q])
                            /\ pass[r] = pass[q]
                            /\ Plain => /\ n = m /\ v = w
                                        /\ \/ s = t
                                           \/ IsAes(args[r]) /\ {s, t} = {None, << >>}
      BY <2>1, <2>2
    <2> HIDE DEF kr, kq, n, v, s, m, w, t, Plain
    <2>12. CASE args[r].cmd = "keygen"
      <3>1. kr # kq
        BY <1>1, <2>3, <2>4, <2>9, <2>12 DEF generate, derive, derive_aes
      <3> QED
        BY <2>12, <3>1
    <2>13. CASE args[r].cmd # "keygen" /\ args[q].cmd = "keygen"
      <3>1. kr # kq
        BY <2>3, <2>4, <2>8, <2>13 DEF generate, derive, derive_aes
      <3> QED
        BY <2>13, <3>1
    <2>14. CASE /\ args[r].cmd # "keygen" /\ args[q].cmd # "keygen"
                /\ IsAes(args[r]) /\ IsAes(args[q])
      <3>1. kr = kq <=> pass[r] = pass[q] /\ aes_salt(n, v, s) = aes_salt(m, w, t)
        BY <2>3, <2>4, <2>14 DEF derive_aes
      <3> QED
        BY <2>7, <2>11, <2>14, <3>1
    <2>15. CASE /\ args[r].cmd # "keygen" /\ args[q].cmd # "keygen"
                /\ ~IsAes(args[r]) /\ ~IsAes(args[q])
      <3>1. kr = kq <=> pass[r] = pass[q] /\ derive_salt(n, v, s) = derive_salt(m, w, t)
        BY <2>3, <2>4, <2>15 DEF derive
      <3> QED
        BY <2>7, <2>10, <2>15, <3>1
    <2>16. CASE /\ args[r].cmd # "keygen" /\ args[q].cmd # "keygen"
                /\ ~(IsAes(args[r]) <=> IsAes(args[q]))
      <3>1. kr # kq
        BY <2>3, <2>4, <2>16 DEF derive, derive_aes
      <3>2. Tuple(r, pass[r]) # Tuple(q, pass[q])
        BY <2>7, <2>16
      <3> QED
        BY <2>16, <3>1, <3>2
    <2> QED
      BY <2>12, <2>13, <2>14, <2>15, <2>16
  <1>2. CInv => KeyTellsTuple
    BY <1>1 DEF KeyTellsTuple
  <1> QED
    BY <1>2, CInvariance, PTL
-----------------------------------------------------------------------------
(* One call, one key in all its files.                                      *)

\* A key is of the algorithm that was asked for.
LEMMA AlgorithmOfKey ==
    ASSUME CInv, NoRsaDerived, NEW r \in Run, key[r] # NoKey
    PROVE  key[r].algo = args[r].algo
  <1>1. /\ args[r].cmd \in {"keygen", "derive"}
        /\ key[r] = KeyFor(r, args[r], pass[r])
    BY DEF CInv, RunInv, Keyed
  <1>2. args[r].algo \in KeyAlgorithm
    BY <1>1, ScenarioAssumption DEF CInv, IInv, TypeOK, IsJob
  <1>3. args[r].cmd = "derive" => args[r].algo # "Rsa"
    BY DEF NoRsaDerived
  <1>4. CASE args[r].cmd = "keygen"
    BY <1>1, <1>4, KeyCases DEF generate
  <1>5. CASE IsAes(args[r])
    BY <1>1, <1>5, KeyCases DEF derive_aes, IsAes
  <1>6. CASE args[r].cmd # "keygen" /\ ~IsAes(args[r])
    <2>1. args[r].algo = "Ed25519"
      BY <1>1, <1>2, <1>3, <1>6 DEF IsAes, KeyAlgorithm
    <2>2. key[r].algo = "Ed25519"
      BY <1>1, <1>6, KeyCases DEF derive
    <2> QED
      BY <2>1, <2>2
  <1> QED
    BY <1>4, <1>5, <1>6

\* Whenever keygen or derive has returned Ok and the other runs at its files were
\* harmless, all its files hold its one key, whole, and an Ed25519 private key has
\* mode 0600.
THEOREM KeySetsBelongTogether == CSpec => []SetBelongsTogether
  <1>1. CInv /\ NoRsaDerived => Alike
    BY AlgorithmOfKey DEF Alike
  <1> QED
    BY <1>1, CInvariance, MainDrivesKeyFiles, RsaRefused, FilesBelongTogether, PTL

-----------------------------------------------------------------------------
(* Passphrases.                                                             *)

\* Typed twice at the first two prompts.
Twice(t) == Len(t) >= 2 /\ t[1] = t[2] /\ t[1] # << >>

\* An OpenSSH key is sealed with a passphrase of its own, typed before the other.
Seals(a) == a.cmd \in {"keygen", "derive"} /\ a.openssh
SealLines(a) == IF Seals(a) THEN 2 ELSE 0

FromOption(a) == a.passphrase # None
FromPassFile(a) == ~FromOption(a) /\ a.cmd \in ReadsPassFile /\ a.pass_file # None
FromTerminal(a) ==
    ~FromOption(a) /\ (a.cmd \in ReadsPassFile => a.pass_file = None)

\* What a run that comes to its work has asked for, and what it got.
Supplied(r) ==
    LET a == args[r]
    IN  /\ FromOption(a) =>
              pass[r] = a.passphrase /\ Len(typed[r]) = SealLines(a)
        /\ FromPassFile(a) =>
              pass[r] = first_line(a.pass_file) /\ Len(typed[r]) = SealLines(a)
        /\ FromTerminal(a) =>
              /\ Len(typed[r]) = SealLines(a) + (IF a.cmd = "encrypt" THEN 2 ELSE 1)
              /\ pass[r] = typed[r][Len(typed[r])]
              /\ a.cmd = "encrypt" => typed[r][1] = typed[r][2]
        /\ pass[r] = << >> => a.cmd = "ssh" /\ FromOption(a)

Documented(r) ==
    /\ Seals(args[r]) => Twice(typed[r])
    /\ args[r].cmd \in AsksPassphrase => Supplied(r)

\* How far a run has come in asking, by where it is in main.
Asked(r) ==
    LET a == args[r]
    IN  /\ typed[r] \in Seq(Passphrase)
        /\ stage[r] = "openssh" => typed[r] = << >> /\ Seals(a)
        /\ stage[r] = "openssh confirm" =>
              Len(typed[r]) = 1 /\ typed[r][1] # << >> /\ Seals(a)
        /\ stage[r] = "read" => typed[r] = << >> /\ a.cmd \in {"sign", "verify"}
        /\ stage[r] = "pass" =>
              /\ a.cmd \in AsksPassphrase
              /\ a.cmd # "derive" => typed[r] = << >>
              /\ Len(typed[r]) = SealLines(a)
              /\ Seals(a) => Twice(typed[r])
        /\ stage[r] = "confirm" =>
              /\ a.cmd = "encrypt" /\ FromTerminal(a)
              /\ typed[r] = <<pass[r]>> /\ pass[r] # << >>
        /\ stage[r] \in {"work", "keys"} \/ result[r] = "Ok" => Documented(r)
        /\ result[r] \in Refused => touched[r] = {} /\ ident[r] = NoKey /\ pc[r] = "idle"

LEMMA AskedInit ==
    ASSUME CInit, NEW r \in Run
    PROVE  Asked(r)
  <1>1. /\ stage[r] = First(args[r]) /\ typed[r] = << >>
        /\ result[r] = IF args[r].cmd = "help" THEN "Ok" ELSE "none"
    BY DEF CInit
  <1>2. IsCommandLine(args[r])
    BY CommandAssumption DEF CInit, Init
  <1>3. args[r].cmd \in {"keygen", "derive"} => args[r].openssh \in BOOLEAN
    BY ScenarioAssumption DEF CInit, Init, IsJob
  <1>4. typed[r] \in Seq(Passphrase)
    BY <1>1, EmptySeq
  <1>5. First(args[r]) = "openssh" => Seals(args[r])
    BY DEF First, Seals
  <1>6. First(args[r]) = "read" => args[r].cmd \in {"sign", "verify"}
    BY DEF First
  <1>7. First(args[r]) = "pass" =>
            args[r].cmd \in AsksPassphrase /\ ~Seals(args[r])
    BY <1>2 DEF First, IsCommandLine, Command, AsksPassphrase, ReadsPassFile, Seals
  <1>8. First(args[r]) = "work" =>
            args[r].cmd \in {"bench", "keygen"} /\ ~Seals(args[r])
    BY DEF First, Seals
  <1>9. First(args[r]) \in {"exit", "openssh", "read", "work", "pass"}
    BY DEF First
  <1> QED
    <2>1. Len(typed[r]) = 0
      BY <1>1
    <2>2. args[r].cmd = "help" => First(args[r]) = "exit" /\ ~Seals(args[r])
      BY DEF First, Seals
    <2>3. (stage[r] = "work" \/ result[r] = "Ok") => Documented(r)
      <3>1. args[r].cmd \in {"bench", "keygen", "help"} => args[r].cmd \notin AsksPassphrase
        BY DEF AsksPassphrase, ReadsPassFile
      <3>2. result[r] = "Ok" => args[r].cmd = "help"
        BY <1>1
      <3> QED
        BY <1>1, <1>8, <2>2, <3>1, <3>2 DEF Documented
    <2>4. /\ stage[r] \notin {"openssh confirm", "confirm", "keys"}
          /\ result[r] \notin Refused
      BY <1>1, <1>9 DEF Refused
    <2>5. stage[r] = "pass" => args[r].cmd \in AsksPassphrase /\ ~Seals(args[r])
      BY <1>1, <1>7
    <2>6. stage[r] = "pass" => Len(typed[r]) = SealLines(args[r])
      BY <2>1, <2>5 DEF SealLines
    <2>7. /\ stage[r] = "openssh" => Seals(args[r])
          /\ stage[r] = "read" => args[r].cmd \in {"sign", "verify"}
      BY <1>1, <1>5, <1>6
    <2>8. typed[r] = << >>
      BY <1>1
    <2> QED
      BY <1>4, <2>3, <2>4, <2>5, <2>6, <2>7, <2>8 DEF Asked

LEMMA AskedSame ==
    ASSUME NEW q \in Run, Asked(q), Same(q), args' = args
    PROVE  Asked(q)'
  BY DEF Asked, Documented, Supplied, Same

\* One more line is typed.
LEMMA TypeOne ==
    ASSUME NEW r \in Run, DOMAIN typed = Run, typed[r] \in Seq(Passphrase),
           IsCommandLine(args[r]), NEW t \in args[r].types, Type(r, t)
    PROVE  /\ typed'[r] = Append(typed[r], t) /\ typed'[r] \in Seq(Passphrase)
           /\ Len(typed'[r]) = Len(typed[r]) + 1
           /\ typed'[r][Len(typed[r]) + 1] = t
           /\ \A i \in 1 .. Len(typed[r]) : typed'[r][i] = typed[r][i]
           /\ Twice(typed[r]) => Twice(typed'[r])
  <1>1. typed'[r] = Append(typed[r], t) /\ t \in Passphrase
    BY DEF Type, IsCommandLine
  <1> DEFINE u == typed[r]
             w == typed'[r]
  <1>2. w = Append(u, t) /\ u \in Seq(Passphrase)
    BY <1>1
  <1> HIDE DEF u, w
  <1>3. /\ w \in Seq(Passphrase) /\ Len(w) = Len(u) + 1 /\ w[Len(u) + 1] = t
        /\ \A i \in 1 .. Len(u) : w[i] = u[i]
    BY <1>1, <1>2, AppendProperties
  <1>4. Len(u) \in Nat
    BY <1>2
  <1>5. Twice(u) => Twice(w)
    BY <1>3, <1>4 DEF Twice
  <1> QED
    BY <1>1, <1>3, <1>5 DEF u, w

LEMMA AppendShort ==
    ASSUME NEW x, NEW y
    PROVE  Append(<< >>, x) = <<x>> /\ Append(<<x>>, y) = <<x, y>>
  <1> DEFINE S == {x, y}
             e == << >>
             o == <<x>>
             w == <<x, y>>
  <1>1. x \in S /\ y \in S
    OBVIOUS
  <1> HIDE DEF S
  <1>2. /\ e \in Seq(S) /\ Len(e) = 0
        /\ o \in Seq(S) /\ Len(o) = 1 /\ o[1] = x
        /\ w \in Seq(S) /\ Len(w) = 2 /\ w[1] = x /\ w[2] = y
    BY <1>1
  <1> HIDE DEF e, o, w
  <1>3. Append(e, x) = o
    <2> DEFINE a == Append(e, x)
    <2>1. a \in Seq(S) /\ Len(a) = 1 /\ a[1] = x
      BY <1>1, <1>2, AppendProperties
    <2> HIDE DEF a
    <2>2. Len(a) = Len(o) /\ \A i \in 1 .. Len(a) : a[i] = o[i]
      BY <1>2, <2>1
    <2>3. a = o
      BY ONLY <1>2, <2>1, <2>2, SeqEqual
    <2> QED
      BY <2>3 DEF a
  <1>4. Append(o, y) = w
    <2> DEFINE b == Append(o, y)
    <2>1. o \in Seq(S) /\ y \in S
      BY <1>1, <1>2
    <2>2. /\ b \in Seq(S) /\ Len(b) = Len(o) + 1 /\ b[Len(o) + 1] = y
          /\ \A i \in 1 .. Len(o) : b[i] = o[i]
      BY ONLY <2>1, AppendProperties
    <2> HIDE DEF b
    <2>3. b \in Seq(S) /\ Len(b) = 2 /\ b[1] = x /\ b[2] = y
      BY ONLY <1>2, <2>2
    <2>4. Len(b) = Len(w) /\ \A i \in 1 .. Len(b) : b[i] = w[i]
      BY <1>2, <2>3
    <2>5. b = w
      BY ONLY <1>2, <2>3, <2>4, SeqEqual
    <2> QED
      BY <2>5 DEF b
  <1> QED
    BY <1>3, <1>4 DEF e, o, w

\* The facts the steps at the prompts share.
LEMMA AskedFacts ==
    ASSUME CInv, NEW r \in Run, Asked(r)
    PROVE  /\ Domains /\ Phase(r) /\ IsCommandLine(args[r]) /\ typed[r] \in Seq(Passphrase)
           /\ DOMAIN typed = Run /\ DOMAIN pass = Run /\ DOMAIN stage = Run
           /\ DOMAIN result = Run
  BY CommandAssumption DEF CInv, Domains, RunInv, IInv, TypeOK, Asked

\* A run that is refused has done nothing yet.
LEMMA RefusedAsked ==
    ASSUME CInv, NEW r \in Run, Asked(r), UNCHANGED vars, ident' = ident,
           stage[r] \notin {"keys"} \cup Ended,
           typed'[r] \in Seq(Passphrase),
           NEW e \in Refused \cup {"Io"}, Return(r, e)
    PROVE  Asked(r)'
  <1>1. /\ Phase(r) /\ DOMAIN stage = Run /\ DOMAIN result = Run
    BY AskedFacts
  <1>2. stage'[r] = "exit" /\ result'[r] = e
    BY <1>1 DEF Return
  <1>3. touched' = touched /\ pc' = pc
    BY DEF vars, history
  <1>4. touched[r] = {} /\ pc[r] = "idle" /\ ident[r] = NoKey
    BY <1>1 DEF Phase, Ended
  <1> QED
    BY <1>2, <1>3, <1>4 DEF Asked, Refused

\* The prompts.
LEMMA ReadOpensshAsked ==
    ASSUME CInv, NEW r \in Run, Asked(r), ReadOpenssh(r)
    PROVE  Asked(r)'
  <1>1. /\ UNCHANGED <<vars, pass, ident>> /\ stage[r] = "openssh" /\ args' = args
    BY DEF ReadOpenssh, vars
  <1>2. PICK t \in args[r].types :
            /\ Type(r, t)
            /\ IF t = << >> THEN Return(r, "EmptyPassphrase")
                            ELSE Enter(r, "openssh confirm")
    BY DEF ReadOpenssh
  <1>3. /\ typed[r] = << >> /\ Seals(args[r])
        /\ Phase(r) /\ DOMAIN stage = Run
    BY <1>1, AskedFacts DEF Asked
  <1>4. /\ typed'[r] \in Seq(Passphrase)
        /\ Len(typed'[r]) = 1 /\ typed'[r][1] = t
    <2>1. /\ typed'[r] \in Seq(Passphrase)
          /\ Len(typed'[r]) = Len(typed[r]) + 1 /\ typed'[r][Len(typed[r]) + 1] = t
      BY <1>2, TypeOne, AskedFacts
    <2>2. Len(typed[r]) = 0
      BY <1>3
    <2> QED
      BY <2>1, <2>2
  <1>5. CASE t = << >>
    BY <1>1, <1>2, <1>4, <1>5, RefusedAsked DEF Refused, Ended
  <1>6. CASE t # << >>
    <2>1. stage'[r] = "openssh confirm" /\ result'[r] = "none"
      BY <1>1, <1>2, <1>3, <1>6 DEF Enter, Phase
    <2> QED
      BY <1>1, <1>3, <1>4, <1>6, <2>1 DEF Asked, Refused
  <1> QED
    BY <1>5, <1>6

LEMMA ConfirmOpensshAsked ==
    ASSUME CInv, NEW r \in Run, Asked(r), ConfirmOpenssh(r)
    PROVE  Asked(r)'
  <1>1. /\ UNCHANGED <<vars, pass, ident>> /\ stage[r] = "openssh confirm" /\ args' = args
    BY DEF ConfirmOpenssh, vars
  <1>2. PICK t \in args[r].types :
            /\ Type(r, t)
            /\ IF t # typed[r][1] THEN Return(r, "PassphraseMismatch")
               ELSE Enter(r, IF args[r].cmd = "keygen" THEN "work" ELSE "pass")
    BY DEF ConfirmOpenssh
  <1>3. /\ Len(typed[r]) = 1 /\ typed[r][1] # << >> /\ Seals(args[r])
        /\ Phase(r) /\ DOMAIN stage = Run
    BY <1>1, AskedFacts DEF Asked
  <1>4. /\ typed'[r] \in Seq(Passphrase) /\ Len(typed'[r]) = 2
        /\ typed'[r][1] = typed[r][1] /\ typed'[r][2] = t
    <2>1. /\ typed'[r] \in Seq(Passphrase)
          /\ Len(typed'[r]) = Len(typed[r]) + 1 /\ typed'[r][Len(typed[r]) + 1] = t
          /\ \A i \in 1 .. Len(typed[r]) : typed'[r][i] = typed[r][i]
      BY <1>2, TypeOne, AskedFacts
    <2> QED
      BY <1>3, <2>1
  <1>5. CASE t # typed[r][1]
    BY <1>1, <1>2, <1>4, <1>5, RefusedAsked DEF Refused, Ended
  <1>6. CASE t = typed[r][1]
    <2>1. /\ stage'[r] \in {"work", "pass"} /\ result'[r] = "none"
          /\ stage'[r] = "pass" => args[r].cmd = "derive"
          /\ stage'[r] = "work" => args[r].cmd = "keygen"
      BY <1>1, <1>2, <1>3, <1>6 DEF Enter, Phase, Seals
    <2>2. Twice(typed'[r])
      BY <1>3, <1>4, <1>6 DEF Twice
    <2> QED
      BY <1>1, <1>3, <1>4, <2>1, <2>2
         DEF Asked, Documented, SealLines, AsksPassphrase, ReadsPassFile, Refused
  <1> QED
    BY <1>5, <1>6

\* A passphrase from the command line or a file: the terminal is not asked.
LEMMA TakeAsked ==
    ASSUME CInv, NEW r \in Run, Asked(r), TakeOption(r) \/ TakeFirstLine(r)
    PROVE  Asked(r)'
  <1>1. /\ UNCHANGED <<vars, typed, ident>> /\ stage[r] = "pass" /\ args' = args
    BY DEF TakeOption, TakeFirstLine, vars
  <1>2. /\ args[r].cmd \in AsksPassphrase /\ Len(typed[r]) = SealLines(args[r])
        /\ Seals(args[r]) => Twice(typed[r])
        /\ typed[r] \in Seq(Passphrase) /\ IsCommandLine(args[r])
        /\ Phase(r) /\ DOMAIN stage = Run /\ DOMAIN pass = Run
    BY <1>1, AskedFacts DEF Asked
  <1>3. CASE Return(r, "EmptyPassphrase")
    BY <1>1, <1>2, <1>3, RefusedAsked DEF Refused, Ended
  <1>4. CASE ~Return(r, "EmptyPassphrase")
    <2>1. PICK p : /\ Take(r, p, "work")
                   /\ \/ FromOption(args[r]) /\ p = args[r].passphrase
                      \/ FromPassFile(args[r]) /\ p = first_line(args[r].pass_file)
                   /\ p = << >> => args[r].cmd = "ssh" /\ FromOption(args[r])
      <3>1. CASE TakeOption(r)
        <4>1. args[r].cmd \in {"derive", "ssh"} /\ FromOption(args[r])
          BY <3>1 DEF TakeOption, Source, FromOption
        <4> QED
          BY <1>4, <3>1, <4>1 DEF TakeOption
      <3>2. CASE TakeFirstLine(r)
        <4>1. args[r].cmd \in ReadsPassFile /\ args[r].pass_file # None
          BY <3>2 DEF TakeFirstLine, Source
        <4>2. args[r].passphrase = None
          BY <1>2, <4>1 DEF IsCommandLine, ReadsPassFile
        <4> QED
          BY <1>4, <3>2, <4>1, <4>2 DEF TakeFirstLine, FromPassFile, FromOption
      <3> QED
        BY <3>1, <3>2
    <2>2. stage'[r] = "work" /\ result'[r] = "none" /\ pass'[r] = p
      BY <1>1, <1>2, <2>1 DEF Take, Enter, Phase
    <2>3. ~FromTerminal(args[r]) /\ ~(FromOption(args[r]) /\ FromPassFile(args[r]))
      BY <2>1 DEF FromTerminal, FromPassFile
    <2>4. Supplied(r)'
      BY <1>1, <1>2, <2>1, <2>2, <2>3 DEF Supplied
    <2> QED
      BY <1>1, <1>2, <2>2, <2>4 DEF Asked, Documented, Refused
  <1> QED
    BY <1>3, <1>4

LEMMA PromptAsked ==
    ASSUME CInv, NEW r \in Run, Asked(r), Prompt(r)
    PROVE  Asked(r)'
  <1>1. UNCHANGED <<vars, ident>> /\ stage[r] = "pass" /\ args' = args
    BY DEF Prompt, vars
  <1>2. PICK t \in args[r].types :
            /\ Type(r, t)
            /\ IF t = << >> THEN Return(r, "EmptyPassphrase") /\ UNCHANGED pass
               ELSE Take(r, t, IF args[r].cmd = "encrypt" THEN "confirm" ELSE "work")
    BY DEF Prompt
  <1>3. /\ args[r].cmd \in AsksPassphrase /\ Len(typed[r]) = SealLines(args[r])
        /\ args[r].cmd # "derive" => typed[r] = << >>
        /\ Seals(args[r]) => Twice(typed[r])
        /\ Phase(r) /\ DOMAIN stage = Run /\ DOMAIN pass = Run /\ IsCommandLine(args[r])
    BY <1>1, AskedFacts DEF Asked
  <1>4. /\ typed'[r] \in Seq(Passphrase) /\ typed'[r] = Append(typed[r], t)
        /\ Len(typed'[r]) = Len(typed[r]) + 1 /\ typed'[r][Len(typed[r]) + 1] = t
        /\ Twice(typed[r]) => Twice(typed'[r])
    BY <1>2, TypeOne, AskedFacts
  <1>5. CASE t = << >>
    BY <1>1, <1>2, <1>4, <1>5, RefusedAsked DEF Refused, Ended
  <1>6. CASE t # << >>
    <2>1. /\ stage'[r] = (IF args[r].cmd = "encrypt" THEN "confirm" ELSE "work")
          /\ result'[r] = "none" /\ pass'[r] = t
      BY <1>1, <1>2, <1>3, <1>6 DEF Take, Enter, Phase
    <2>2. FromTerminal(args[r]) /\ ~FromOption(args[r]) /\ ~FromPassFile(args[r])
      <3>1. Source(args[r]) = "prompt"
        BY DEF Prompt
      <3>2. args[r].passphrase = None
        BY <1>3, <3>1 DEF Source, IsCommandLine
      <3>3. args[r].cmd \in ReadsPassFile => args[r].pass_file = None
        BY <3>1 DEF Source
      <3> QED
        BY <3>2, <3>3 DEF FromTerminal, FromOption, FromPassFile
    <2>3. CASE args[r].cmd = "encrypt"
      <3>1. typed'[r] = <<t>>
        BY <1>3, <1>4, <2>3, AppendShort
      <3> QED
        BY <1>1, <1>4, <1>6, <2>1, <2>2, <2>3, <3>1 DEF Asked, Refused
    <2>4. CASE args[r].cmd # "encrypt"
      <3>1. Len(typed'[r]) = SealLines(args[r]) + 1 /\ typed'[r][Len(typed'[r])] = t
        BY <1>3, <1>4
      <3>2. Supplied(r)'
        BY <1>1, <1>6, <2>1, <2>2, <2>4, <3>1 DEF Supplied
      <3> QED
        BY <1>1, <1>3, <1>4, <2>1, <2>4, <3>2 DEF Asked, Documented, Refused
    <2> QED
      BY <2>3, <2>4
  <1> QED
    BY <1>5, <1>6

LEMMA ConfirmAsked ==
    ASSUME CInv, NEW r \in Run, Asked(r), Confirm(r)
    PROVE  Asked(r)'
  <1>1. /\ UNCHANGED <<vars, pass, ident>> /\ stage[r] = "confirm" /\ args' = args
    BY DEF Confirm, vars
  <1>2. PICK t \in args[r].types :
            /\ Type(r, t)
            /\ IF t # pass[r] THEN Return(r, "PassphraseMismatch") ELSE Enter(r, "work")
    BY DEF Confirm
  <1>3. /\ args[r].cmd = "encrypt" /\ FromTerminal(args[r])
        /\ typed[r] = <<pass[r]>> /\ pass[r] # << >>
        /\ Phase(r) /\ DOMAIN stage = Run
    BY <1>1, AskedFacts DEF Asked
  <1>4. /\ typed'[r] \in Seq(Passphrase) /\ typed'[r] = Append(typed[r], t)
    BY <1>2, TypeOne, AskedFacts
  <1>5. CASE t # pass[r]
    BY <1>1, <1>2, <1>4, <1>5, RefusedAsked DEF Refused, Ended
  <1>6. CASE t = pass[r]
    <2>1. stage'[r] = "work" /\ result'[r] = "none"
      BY <1>1, <1>2, <1>3, <1>6 DEF Enter, Phase
    <2>2. typed'[r] = <<pass[r], pass[r]>>
      BY <1>3, <1>4, <1>6, AppendShort
    <2>3. Len(typed'[r]) = 2 /\ typed'[r][1] = pass[r] /\ typed'[r][2] = pass[r]
      BY <2>2
    <2>4. ~Seals(args[r]) /\ SealLines(args[r]) = 0
      BY <1>3 DEF Seals, SealLines
    <2>5. Supplied(r)'
      BY <1>1, <1>3, <2>3, <2>4 DEF Supplied, FromTerminal, FromPassFile
    <2> QED
      BY <1>1, <1>4, <2>1, <2>4, <2>5 DEF Asked, Documented, Refused
  <1> QED
    BY <1>5, <1>6

LEMMA ReadAsked ==
    ASSUME CInv, NEW r \in Run, Asked(r), InputFails(r) \/ ReadDocument(r)
    PROVE  Asked(r)'
  <1>1. CASE InputFails(r)
    <2>1. /\ UNCHANGED <<vars, typed, ident>> /\ Return(r, "Io")
          /\ stage[r] \notin {"keys"} \cup Ended
      BY <1>1 DEF InputFails, Ended
    <2>2. typed'[r] \in Seq(Passphrase)
      BY <2>1 DEF Asked
    <2> QED
      BY <2>1, <2>2, RefusedAsked
  <1>2. CASE ReadDocument(r)
    <2>1. /\ typed[r] = << >> /\ Phase(r) /\ DOMAIN stage = Run
          /\ typed[r] \in Seq(Passphrase) /\ stage[r] = "read"
      BY <1>2, AskedFacts DEF Asked, ReadDocument
    <2>2. /\ typed' = typed /\ args' = args
          /\ \/ args[r].cmd = "sign" /\ stage'[r] = "pass"
             \/ args[r].cmd = "verify" /\ stage'[r] = "work"
          /\ result'[r] = "none"
      BY <1>2, <2>1 DEF ReadDocument, Enter, vars, Phase
    <2>3. ~Seals(args[r]) /\ SealLines(args[r]) = 0 /\ Len(typed[r]) = 0
      BY <2>1, <2>2 DEF Seals, SealLines
    <2> QED
      BY <2>1, <2>2, <2>3 DEF Asked, Documented, AsksPassphrase, ReadsPassFile, Refused
  <1> QED
    BY <1>1, <1>2

\* The work keeps what was asked.
LEMMA WorkAsked ==
    ASSUME CInv, NEW r \in Run, Asked(r),
           \/ Sign(r) \/ Verify(r) \/ Operate(r) \/ CallKeys(r) \/ Keys(r) \/ KeysFail(r)
           \/ KeysReturn(r) \/ Kill(r)
    PROVE  Asked(r)'
  <1>1. /\ typed' = typed /\ pass' = pass
        /\ Phase(r) /\ DOMAIN stage = Run /\ DOMAIN result = Run
    BY AskedFacts DEF Sign, Verify, Operate, CallKeys, Keys, KeysFail, KeysReturn, Kill, cli
  <1>2. args' = args
    BY Frame DEF CStep
  <1>3. Documented(r) <=> Documented(r)'
    BY <1>1, <1>2 DEF Documented, Supplied
  <1>4. CASE Kill(r)
    <2>1. stage'[r] = "killed" /\ result'[r] = "none"
      BY <1>1, <1>4 DEF Kill, Phase, Ended
    <2> QED
      BY <1>1, <2>1 DEF Asked, Refused
  <1>5. CASE ~Kill(r)
    <2>1. stage[r] \in {"work", "keys"} /\ Documented(r)
      BY <1>5 DEF Sign, Verify, Operate, CallKeys, Keys, KeysFail, KeysReturn, Asked
    <2>2. stage'[r] \in {"keys", "exit"}
      BY <1>1, <1>5 DEF Sign, Verify, Operate, CallKeys, Keys, KeysFail, KeysReturn,
             Enter, Return, cli
    <2>3. result'[r] \in Refused => touched'[r] = {} /\ ident'[r] = NoKey /\ pc'[r] = "idle"
      <3>1. CASE Verify(r)
        <4>1. UNCHANGED <<vars, ident>> /\ stage[r] = "work"
          BY <3>1 DEF Verify
        <4> QED
          BY <1>1, <4>1 DEF Phase, vars, history, Ended
      <3>2. CASE CallKeys(r) \/ Keys(r) \/ KeysFail(r)
        <4>1. result'[r] = "none"
          BY <1>1, <3>2 DEF CallKeys, Keys, KeysFail, Enter, cli, Phase
        <4> QED
          BY <4>1 DEF Refused
      <3>3. CASE Sign(r) \/ Operate(r) \/ KeysReturn(r)
        <4>1. result'[r] \in {"Ok", "Failed", "FileExists"}
          BY <1>1, <3>3 DEF Sign, Operate, KeysReturn, Return
        <4> QED
          BY <4>1 DEF Refused
      <3> QED
        BY <1>5, <3>1, <3>2, <3>3
    <2> QED
      BY <1>1, <1>3, <2>1, <2>2, <2>3 DEF Asked
  <1> QED
    BY <1>4, <1>5

AllAsked == \A r \in Run : Asked(r)

LEMMA AskedStep == CInv /\ AllAsked /\ [CNext]_allvars => AllAsked'
  <1> SUFFICES ASSUME CInv, AllAsked, [CNext]_allvars PROVE AllAsked'
    OBVIOUS
  <1>1. ASSUME NEW r \in Run, CStep(r) \/ Kill(r) PROVE AllAsked'
    <2>1. Asked(r) /\ args' = args /\ \A q \in Run \ {r} : Same(q) /\ Asked(q)
      BY <1>1, Frame DEF AllAsked
    <2>2. Asked(r)'
      BY <1>1, <2>1, ReadOpensshAsked, ConfirmOpensshAsked, TakeAsked, PromptAsked,
         ConfirmAsked, ReadAsked, WorkAsked DEF CStep
    <2>3. ASSUME NEW q \in Run \ {r} PROVE Asked(q)'
      BY <2>1, AskedSame
    <2> QED
      BY <2>2, <2>3 DEF AllAsked
  <1>2. ASSUME Edit \/ Terminating \/ UNCHANGED allvars PROVE AllAsked'
    <2>1. \A q \in Run : Same(q) /\ Asked(q)
      BY <1>2 DEF Edit, Terminating, allvars, cli, vars, history, Same, AllAsked
    <2>2. args' = args
      BY <1>2 DEF Edit, Terminating, allvars, vars
    <2> QED
      BY <2>1, <2>2, AskedSame DEF AllAsked
  <1> QED
    BY <1>1, <1>2 DEF CNext

\* Whoever comes to its work has the passphrase of its --passphrase, its --pass-file
\* (but for ssh) or the terminal, in this order, has asked for nothing else, and has
\* an empty one only as ssh --passphrase ""; what seals a file or an OpenSSH key was
\* typed twice alike; and a refused run has done nothing, for any command lines and
\* runs.
THEOREM PassphrasesAreChecked == CSpec => []PassphraseAsDocumented
  <1>1. CInit => AllAsked
    BY AskedInit DEF AllAsked
  <1>2. ASSUME CInv, AllAsked PROVE PassphraseAsDocumented
    <2> SUFFICES ASSUME NEW r \in Run
                 PROVE  LET a == args[r]
                            option == a.passphrase # None
                            file == a.cmd \in ReadsPassFile /\ a.pass_file # None
                            seals == a.cmd \in {"keygen", "derive"} /\ a.openssh
                        IN  /\ stage[r] \in {"work", "keys"} \/ result[r] = "Ok" =>
                                /\ seals => typed[r][1] = typed[r][2] /\ typed[r][1] # << >>
                                /\ a.cmd \in AsksPassphrase =>
                                    /\ pass[r] = IF option THEN a.passphrase
                                                 ELSE IF file THEN first_line(a.pass_file)
                                                 ELSE typed[r][Len(typed[r])]
                                    /\ Len(typed[r]) = (IF seals THEN 2 ELSE 0)
                                                       + (IF option \/ file THEN 0
                                                          ELSE IF a.cmd = "encrypt" THEN 2 ELSE 1)
                                    /\ a.cmd = "encrypt" /\ ~file => typed[r][1] = typed[r][2]
                                    /\ pass[r] = << >> => a.cmd = "ssh" /\ option
                            /\ result[r] \in Refused =>
                                  touched[r] = {} /\ ident[r] = NoKey /\ pc[r] = "idle"
      BY DEF PassphraseAsDocumented
    <2>1. Asked(r) /\ IsCommandLine(args[r])
      BY <1>2, AskedFacts DEF AllAsked
    <2>2. args[r].cmd = "encrypt" => args[r].passphrase = None
      BY <2>1 DEF IsCommandLine
    <2>3. stage[r] \in {"work", "keys"} \/ result[r] = "Ok" => Documented(r)
      BY <2>1 DEF Asked
    <2>4. result[r] \in Refused => touched[r] = {} /\ ident[r] = NoKey /\ pc[r] = "idle"
      BY <2>1 DEF Asked
    <2> QED
      BY <2>2, <2>3, <2>4 DEF Documented, Supplied, Twice, Seals, SealLines, FromOption,
         FromPassFile, FromTerminal
  <1> QED
    BY <1>1, <1>2, AskedStep, CInvariance, PTL DEF CSpec

-----------------------------------------------------------------------------
(* Types.                                                                   *)

LEMMA LeastNatural ==
    ASSUME NEW T \in SUBSET Nat, T # {}
    PROVE  \E n \in T : \A m \in T : n <= m
  <1> DEFINE R == OpToRel(<, Nat)
  <1>1. PICK n \in T : \A m \in T : ~(<<m, n>> \in R)
    BY NatLessThanWellFounded, WFMin
  <1>2. \A m \in T : <<m, n>> \in R <=> m < n
    BY DEF OpToRel
  <1>3. \A m \in T : ~(m < n)
    BY <1>1, <1>2
  <1> QED
    BY <1>3

\* What --pass-file gives never holds an end of line, whatever the file holds:
\* there is always a first place where a line ends, if only the end of the file.
THEOREM FirstLine ==
    ASSUME NEW c \in Seq(Char)
    PROVE  first_line(c) \in Seq(Char \ EndOfLine)
  <1> DEFINE Ends(n) == /\ \A i \in 1 .. n : c[i] \notin EndOfLine
                        /\ n < Len(c) => c[n + 1] \in EndOfLine
             T == {n \in 0 .. Len(c) : n = Len(c) \/ c[n + 1] \in EndOfLine}
  <1>1. Len(c) \in Nat
    OBVIOUS
  <1>2. T \in SUBSET Nat /\ Len(c) \in T
    BY <1>1
  <1>3. PICK n \in T : \A m \in T : n <= m
    <2> HIDE DEF T
    <2> QED
      BY <1>2, LeastNatural
  <1>4. n \in 0 .. Len(c) /\ n \in Nat
    BY <1>1, <1>3
  <1>5. Ends(n)
    <2>1. ASSUME NEW i \in 1 .. n PROVE c[i] \notin EndOfLine
      <3>1. i - 1 \in 0 .. Len(c) /\ (i - 1) + 1 = i /\ i - 1 < n
        BY ONLY <1>1, <1>4, i \in 1 .. n
      <3>2. i - 1 \notin T
        <4> HIDE DEF T
        <4> QED
          BY <1>2, <1>3, <1>4, <3>1
      <3> QED
        BY <3>1, <3>2
    <2> QED
      BY <1>1, <1>3, <1>4, <2>1
  <1> DEFINE k == CHOOSE x \in 0 .. Len(c) : Ends(x)
  <1>6. k \in 0 .. Len(c) /\ Ends(k)
    <2> HIDE DEF Ends
    <2> QED
      BY <1>4, <1>5
  <1>7. first_line(c) = SubSeq(c, 1, k)
    BY DEF first_line
  <1> HIDE DEF k
  <1>8. \A i \in 1 .. k : c[i] \in Char \ EndOfLine
    BY <1>1, <1>6
  <1>9. SubSeq(c, 1, k) \in Seq(Char \ EndOfLine)
    BY <1>6, <1>8, SubSeqProperties
  <1> QED
    BY <1>7, <1>9

LEMMA SourcedIsPassphrase ==
    ASSUME TypeOK, NEW r \in Run, Sourced(r)
    PROVE  pass[r] \in Passphrase
  <1>1. IsCommandLine(args[r])
    BY CommandAssumption DEF TypeOK
  <1>2. << >> \in Passphrase
    BY EmptySeq DEF Passphrase
  <1>3. args[r].pass_file # None => first_line(args[r].pass_file) \in Passphrase
    <2>1. ASSUME NEW c \in Seq(Char) PROVE first_line(c) \in Passphrase
      <3>1. Char \ EndOfLine \subseteq Char
        OBVIOUS
      <3> QED
        BY <3>1, FirstLine DEF Passphrase
    <2> QED
      BY <1>1, <2>1 DEF IsCommandLine
  <1> QED
    BY <1>1, <1>2, <1>3 DEF Sourced, Passphrases, IsCommandLine

\* The variables that are functions of the runs.
OfRuns(f) == f = [r \in Run |-> f[r]]

Functions ==
    /\ OfRuns(stage) /\ OfRuns(typed) /\ OfRuns(pass) /\ OfRuns(seen)
    /\ OfRuns(ident) /\ OfRuns(result)

Stages == {"openssh", "openssh confirm", "pass", "confirm", "read", "work", "keys"} \cup Ended

\* The types of one run, beyond what CInv and AllAsked say.
RunTypes(r) ==
    /\ stage[r] \in Stages
    /\ seen[r] \in Document \cup {None}
    /\ result[r] \in Error \cup {"none", "Ok"}
    /\ pc[r] \in {"guard", "create", "write", "chmod", "ok"} => key[r] \in Key

TInv ==
    /\ Functions
    /\ document \in Document /\ edits \in 0 .. MaxEdits
    /\ \A r \in Run : RunTypes(r)

LEMMA TInit == CInit => TInv
  <1> SUFFICES ASSUME CInit PROVE TInv
    OBVIOUS
  <1>1. Functions
    BY DEF CInit, Functions, OfRuns
  <1>2. document \in Document /\ edits \in 0 .. MaxEdits
    BY CommandAssumption DEF CInit
  <1>3. ASSUME NEW r \in Run PROVE RunTypes(r)
    <2>1. /\ stage[r] = First(args[r]) /\ seen[r] = None /\ pc[r] = "idle"
          /\ result[r] \in {"Ok", "none"}
      BY DEF CInit, Init
    <2>2. First(args[r]) \in Stages
      BY DEF First, Stages, Ended
    <2> QED
      BY <2>1, <2>2 DEF RunTypes
  <1> QED
    BY <1>1, <1>2, <1>3 DEF TInv

\* An assignment to the entry of one run leaves a function of the runs.
LEMMA OfRunsExcept ==
    ASSUME NEW f, OfRuns(f), NEW r \in Run, NEW x
    PROVE  OfRuns([f EXCEPT ![r] = x])
  BY DEF OfRuns

LEMMA FunctionsStep ==
    ASSUME CInv, Functions, NEW r \in Run, CStep(r) \/ Kill(r)
    PROVE  Functions'
  <1>1. ASSUME CallKeys(r) \/ Keys(r) \/ KeysFail(r) \/ Kill(r)
        PROVE  /\ \E l : stage' = [stage EXCEPT ![r] = l] \/ stage' = stage
               /\ UNCHANGED <<typed, pass, seen, ident, result>>
    BY <1>1 DEF CallKeys, Keys, KeysFail, Kill, Enter, cli
  <1>2. ASSUME \/ ReadOpenssh(r) \/ ConfirmOpenssh(r) \/ TakeOption(r) \/ TakeFirstLine(r)
               \/ Prompt(r) \/ Confirm(r) \/ InputFails(r) \/ ReadDocument(r) \/ Sign(r)
               \/ Verify(r) \/ Operate(r) \/ KeysReturn(r)
        PROVE  /\ \E l : stage' = [stage EXCEPT ![r] = l]
               /\ \E l : result' = [result EXCEPT ![r] = l] \/ result' = result
               /\ \E l : typed' = [typed EXCEPT ![r] = l] \/ typed' = typed
               /\ \E l : pass' = [pass EXCEPT ![r] = l] \/ pass' = pass
               /\ \E l : seen' = [seen EXCEPT ![r] = l] \/ seen' = seen
               /\ \E l : ident' = [ident EXCEPT ![r] = l] \/ ident' = ident
    BY <1>2 DEF ReadOpenssh, ConfirmOpenssh, TakeOption, TakeFirstLine, Prompt, Confirm,
           InputFails, ReadDocument, Sign, Verify, Operate, KeysReturn,
           Enter, Return, Type, Take
  <1>3. /\ \E l : stage' = [stage EXCEPT ![r] = l] \/ stage' = stage
        /\ \E l : result' = [result EXCEPT ![r] = l] \/ result' = result
        /\ \E l : typed' = [typed EXCEPT ![r] = l] \/ typed' = typed
        /\ \E l : pass' = [pass EXCEPT ![r] = l] \/ pass' = pass
        /\ \E l : seen' = [seen EXCEPT ![r] = l] \/ seen' = seen
        /\ \E l : ident' = [ident EXCEPT ![r] = l] \/ ident' = ident
    BY <1>1, <1>2 DEF CStep
  <1> QED
    BY <1>3, OfRunsExcept DEF Functions

\* A run reads the document as it is, and returns one of the results.
LEMMA ResultTypes ==
    ASSUME CInv, TInv, NEW r \in Run, CStep(r) \/ Kill(r)
    PROVE  /\ stage'[r] \in Stages
           /\ seen'[r] \in Document \cup {None}
           /\ result'[r] \in Error \cup {"none", "Ok"}
  <1>1. Domains /\ RunTypes(r)
    BY DEF CInv, TInv
  <1>2. stage'[r] \in Stages
    BY <1>1 DEF CStep, ReadOpenssh, ConfirmOpenssh, TakeOption, TakeFirstLine, Prompt,
           Confirm, InputFails, ReadDocument, Sign, Verify, Operate, CallKeys, Keys,
           KeysFail, KeysReturn, Kill, Enter, Return, Take, cli, Domains, RunTypes,
           Stages, Ended
  <1>3. seen' = seen \/ seen' = [seen EXCEPT ![r] = document]
    BY DEF CStep, ReadOpenssh, ConfirmOpenssh, TakeOption, TakeFirstLine, Prompt,
           Confirm, InputFails, ReadDocument, Sign, Verify, Operate, CallKeys, Keys,
           KeysFail, KeysReturn, Kill, cli
  <1>4. seen'[r] \in Document \cup {None}
    BY <1>1, <1>3 DEF TInv, RunTypes, Domains
  <1>5. result'[r] \in Error \cup {"none", "Ok"}
    <2>1. CASE Verify(r)
      <3> DEFINE g == given[r]
                 k == [bytes_to_hex(ident[g.key]) EXCEPT !.shape = g.kshape]
                 s == [bytes_to_hex(signature[g.sig]) EXCEPT !.shape = g.sshape]
      <3>1. g.kshape \in Shape /\ g.sshape \in Shape
        BY <2>1 DEF Verify, CInv, RunInv, Verifying, Genuine
      <3>2. k.shape = g.kshape /\ s.shape = g.sshape
        BY DEF bytes_to_hex
      <3>3. result'[r] = verify_content_signature(k, seen[r], s)
        BY <1>1, <2>1 DEF Verify, Return, Domains
      <3> HIDE DEF g, k, s
      <3>4. \A t : t.shape \in Shape => hex_to_array(t) \in {"Ok", "InvalidFormat", "panic"}
        BY DEF hex_to_array, Shape
      <3>5. /\ hex_to_array(k) \in {"Ok", "InvalidFormat", "panic"}
            /\ hex_to_array(s) \in {"Ok", "InvalidFormat", "panic"}
        BY <3>1, <3>2, <3>4
      <3> QED
        BY <3>3, <3>5 DEF verify_content_signature, Error
    <2>2. CASE ~Verify(r)
      <3>1. \/ result' = result
            \/ \E e \in {"Io", "EmptyPassphrase", "PassphraseMismatch", "Ok", "Failed",
                         "FileExists"} : result' = [result EXCEPT ![r] = e]
        BY <2>2 DEF CStep, ReadOpenssh, ConfirmOpenssh, TakeOption, TakeFirstLine, Prompt,
               Confirm, InputFails, ReadDocument, Sign, Operate, CallKeys, Keys,
               KeysFail, KeysReturn, Kill, Enter, Return, Take, cli
      <3> QED
        BY <1>1, <3>1 DEF RunTypes, Domains, Error
    <2> QED
      BY <2>1, <2>2
  <1> QED
    BY <1>2, <1>4, <1>5

\* Whoever writes has a key.
LEMMA KeyBeforeWrite ==
    ASSUME CInv, TInv, NEW r \in Run, CStep(r) \/ Kill(r)
    PROVE  pc'[r] \in {"guard", "create", "write", "chmod", "ok"} => key'[r] \in Key
  <1> DEFINE W == {"guard", "create", "write", "chmod", "ok"}
  <1>1. /\ pc[r] \in W => key[r] \in Key
        /\ args[r].cmd \in {"keygen", "derive"} => KeyFor(r, args[r], pass[r]) \in Key
        /\ DOMAIN pc = Run /\ DOMAIN key = Run
    BY KeyForIsKey DEF CInv, TInv, RunTypes, IInv, TypeOK, RunInv
  <1>2. CASE /\ args[r].cmd \in {"keygen", "derive"}
             /\ Keys(r) /\ Obtain(r, KeyFor(r, args[r], pass[r]))
    <2> DEFINE k == KeyFor(r, args[r], pass[r])
    <2>1. key' = [key EXCEPT ![r] = k] /\ k \in Key
      BY <1>1, <1>2 DEF Obtain
    <2> HIDE DEF k
    <2> QED
      BY <1>1, <2>1
  <1>3. CASE ~(/\ args[r].cmd \in {"keygen", "derive"}
               /\ Keys(r) /\ Obtain(r, KeyFor(r, args[r], pass[r])))
    <2>1. CASE UNCHANGED vars
      BY <1>1, <2>1 DEF vars
    <2>2. CASE ~UNCHANGED vars
      <3>1. \/ Begin(r) \/ Check(r) \/ Guard(r) \/ Create(r) \/ Write(r) \/ Chmod(r)
            \/ Fails(r) \/ WriteFails(r) \/ Killed(r)
        BY <1>3, <2>2, KeysObtain DEF CStep, ReadOpenssh, ConfirmOpenssh, TakeOption,
               TakeFirstLine, Prompt, Confirm, InputFails, ReadDocument, Sign, Verify,
               Operate, CallKeys, KeysFail, KeysReturn, Kill
      <3>2. key' = key
        BY <3>1 DEF Begin, Check, Guard, Create, Write, Chmod, Fails, WriteFails, Killed
      <3>3. pc'[r] \in W => pc[r] \in W
        BY <1>1, <3>1 DEF Begin, Check, Guard, Create, Write, Chmod, Fails, WriteFails,
               Killed, Goto, Advance
      <3> QED
        BY <1>1, <3>2, <3>3
    <2> QED
      BY <2>1, <2>2
  <1> QED
    BY <1>2, <1>3

LEMMA TStep == CInv /\ TInv /\ [CNext]_allvars => TInv'
  <1> SUFFICES ASSUME CInv, TInv, [CNext]_allvars PROVE TInv'
    OBVIOUS
  <1>1. ASSUME NEW r \in Run, CStep(r) \/ Kill(r) PROVE TInv'
    <2>1. Functions'
      BY <1>1, FunctionsStep DEF TInv
    <2>2. UNCHANGED <<document, edits>>
      BY <1>1 DEF CStep, ReadOpenssh, ConfirmOpenssh, TakeOption, TakeFirstLine, Prompt,
             Confirm, InputFails, ReadDocument, Sign, Verify, Operate, CallKeys, Keys,
             KeysFail, KeysReturn, Kill, cli
    <2>3. RunTypes(r)'
      BY <1>1, ResultTypes, KeyBeforeWrite DEF RunTypes
    <2>4. ASSUME NEW q \in Run \ {r} PROVE RunTypes(q)'
      BY <1>1, Frame DEF TInv, RunTypes, Same
    <2> QED
      BY <2>1, <2>2, <2>3, <2>4 DEF TInv
  <1>2. ASSUME Edit \/ Terminating \/ UNCHANGED allvars PROVE TInv'
    <2>1. UNCHANGED <<stage, typed, pass, seen, ident, result, pc, key>>
      BY <1>2 DEF Edit, Terminating, allvars, cli, vars
    <2>2. document' \in Document /\ edits' \in 0 .. MaxEdits
      BY <1>2, CommandAssumption DEF Edit, Terminating, allvars, cli, TInv
    <2>3. Functions'
      BY <2>1 DEF TInv, Functions, OfRuns
    <2>4. \A r \in Run : RunTypes(r)'
      BY <2>1 DEF TInv, RunTypes
    <2> QED
      BY <2>2, <2>3, <2>4 DEF TInv
  <1> QED
    BY <1>1, <1>2 DEF CNext

\* Every run is somewhere in main, goes on with a passphrase, and returns Ok or
\* one of the errors; no run writes key files before it has its key.
THEOREM CommandsTypes == CSpec => []CTypeOK
  <1>1. ASSUME CInv, AllAsked, TInv PROVE CTypeOK
    <2>1. TypeOK
      BY <1>1 DEF CInv, IInv
    <2>2. ASSUME NEW S, NEW f, OfRuns(f), \A r \in Run : f[r] \in S PROVE f \in [Run -> S]
      BY <2>2 DEF OfRuns
    <2>3. typed \in [Run -> Seq(Passphrase)]
      BY <1>1, <2>2 DEF TInv, Functions, AllAsked, Asked
    <2>4. pass \in [Run -> Passphrase]
      BY <1>1, <2>1, <2>2, SourcedIsPassphrase DEF TInv, Functions, CInv, RunInv
    <2>5. ident \in [Run -> Key \cup {NoKey}]
      BY <1>1, <2>1, <2>2, KeyForIsKey DEF TInv, Functions, CInv, RunInv, Keyed
    <2>6. stage \in [Run -> Stages]
      BY <1>1, <2>2 DEF TInv, Functions, RunTypes
    <2>7. seen \in [Run -> Document \cup {None}]
      BY <1>1, <2>2 DEF TInv, Functions, RunTypes
    <2>8. result \in [Run -> Error \cup {"none", "Ok"}]
      BY <1>1, <2>2 DEF TInv, Functions, RunTypes
    <2> QED
      BY <1>1, <2>1, <2>3, <2>4, <2>5, <2>6, <2>7, <2>8 DEF TInv, RunTypes, CTypeOK, Stages
  <1>2. CInit => AllAsked
    BY AskedInit DEF AllAsked
  <1> QED
    BY <1>1, <1>2, TInit, TStep, AskedStep, CInvariance, PTL DEF CSpec
=============================================================================
