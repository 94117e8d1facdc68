----------------------------- MODULE MCCommands -----------------------------
(***************************************************************************)
(* Instances of Commands: up to three runs at a time, and five that        *)
(* only derive keys.                                                       *)
(***************************************************************************)
EXTENDS Commands, TLC

CONSTANTS r1, r2, r3, r4, r5

MCRun == {r1, r2, r3}

\* 0 and 1 hold zero bytes, which no argument can; the bytes of the third
\* version are the text "aaaa".
MCVersion == {0, 1, 1633771873}
MCbe32(v) == CASE v = 0 -> "0000" [] v = 1 -> "0001" [] OTHER -> "aaaa"
MCdecimal(v) == CASE v = 0 -> "0" [] v = 1 -> "1" [] OTHER -> "1633771873"

MCPiece == {"CryDNA-v1:", ":v", ":sub:", "cry:derive:aes256gcm|ns=", "|ver=", "|sub=",
            "0000", "0001", "aaaa", "0", "1", "1633771873", "work", "home"}

MCKey == [algo : KeyAlgorithm, from : Seq(Char) \cup Run, salt : Seq(Piece)]

work == <<"work">>
home == <<"home">>
p == <<"p">>
q == <<"q">>

\* A run without a command, and the lines of the others.
Help == [cmd |-> "help", algo |-> "Ed25519", base |-> "k", openssh |-> FALSE,
         force |-> FALSE, comment |-> 1, pass_file |-> None, passphrase |-> None,
         namespace |-> work, key_version |-> 0, sub_id |-> None, types |-> {}]

Line(cmd) == [Help EXCEPT !.cmd = cmd]
Keygen(algo, openssh, force) ==
    [Line("keygen") EXCEPT !.algo = algo, !.openssh = openssh, !.force = force, !.types = {p}]
Derive(algo, openssh, force) ==
    [Line("derive") EXCEPT !.algo = algo, !.openssh = openssh, !.force = force, !.types = {p}]
With(a, ns, v, sub) == [a EXCEPT !.namespace = ns, !.key_version = v, !.sub_id = sub]
Asks(cmd) == [Line(cmd) EXCEPT !.types = {<< >>, p, q}]
FromFile(cmd, f) == [Line(cmd) EXCEPT !.pass_file = f, !.types = {p}]

Three(a, b, c) == r1 :> a @@ r2 :> b @@ r3 :> c

OldKey == [algo |-> "Ed25519", from |-> q, salt |-> work]

\* Base "k" with the given files of an earlier run; the other base is empty.
Files(kinds) ==
    [x \in Path |-> IF x[1] = "k" /\ x[2] \in kinds THEN Whole(OldKey, 1) ELSE Absent]
Left(f) == [Files({}) EXCEPT ![<<"k", "cry_id">>] = f]

On(disk0, lines) == [args |-> lines, disk |-> disk0]

MCScenario == {
    \* two runs make a key of the same name where there is none
    On(Files({}), Three(Keygen("Ed25519", TRUE, FALSE), Keygen("Ed25519", FALSE, FALSE), Help)),
    \* the same key derived twice at a time over an old set, comments alike or not
    On(Files(Kind), Three(Derive("Ed25519", TRUE, TRUE), Derive("Ed25519", TRUE, TRUE), Help)),
    On(Files(Kind), Three(Derive("Ed25519", TRUE, TRUE),
                          [Derive("Ed25519", TRUE, TRUE) EXCEPT !.comment = 2], Help)),
    \* keys of different lengths over what a killed run left
    On(Left(Torn(2)), Three(Keygen("Rsa", TRUE, TRUE), Derive("Aes256Gcm", FALSE, TRUE), Help)),
    On(Left(Torn(0)), Three(Keygen("Aes256Gcm", FALSE, TRUE), Keygen("Rsa", FALSE, FALSE), Help)),
    On(Files({}), Three(Keygen("Aes256Gcm", FALSE, TRUE), Keygen("Aes256Gcm", FALSE, FALSE), Help)),
    \* only one file of the set is there
    On(Files({"openssh_pub"}), Three(Derive("Ed25519", TRUE, FALSE), Derive("Rsa", FALSE, FALSE),
                                     Help)),
    On(Files({"openssh_id"}), Three(Derive("Ed25519", TRUE, FALSE),
                                    [Keygen("Ed25519", FALSE, FALSE) EXCEPT !.base = "j"], Help)),
    On(Files({"cry_pub_id"}), Three(Keygen("Rsa", FALSE, FALSE), Help, Help)),
    \* everything that may be typed
    On(Files({}), Three(Asks("encrypt"), Help, Help)),
    On(Files({}), Three(Asks("decrypt"), Asks("ssh"), Help)),
    On(Files({}), Three([Asks("derive") EXCEPT !.openssh = TRUE, !.algo = "Aes256Gcm"], Help, Help)),
    On(Files({}), Three([Asks("keygen") EXCEPT !.openssh = TRUE, !.algo = "Aes256Gcm"], Help, Help)),
    \* pass-files of one line, of two, and with an empty first one
    On(Files({}), Three(FromFile("encrypt", <<"p">>), FromFile("decrypt", <<"p", "lf", "q">>),
                        FromFile("sign", <<"cr", "lf", "p">>))),
    \* --passphrase
    On(Files({}), Three([Line("ssh") EXCEPT !.passphrase = << >>],
                        [Line("derive") EXCEPT !.passphrase = << >>, !.algo = "Aes256Gcm"],
                        Line("bench"))),
    \* one tuple, three commands and three sources of the passphrase
    On(Files({}), Three(With([Line("derive") EXCEPT !.passphrase = p], work, 1, home),
                        With(FromFile("sign", <<"p", "lf">>), work, 1, home),
                        With([Line("ssh") EXCEPT !.types = {p, q}], work, 1, home))),
    \* one parameter differs
    On(Files({}), Three(With([Line("derive") EXCEPT !.passphrase = p], work, 0, None),
                        With(FromFile("sign", <<"p">>), work, 0, << >>),
                        With([Line("ssh") EXCEPT !.types = {p}], work, 1, None))),
    On(Files({}), Three(With(Derive("Aes256Gcm", FALSE, TRUE), work, 0, << >>),
                        With(Derive("Aes256Gcm", FALSE, TRUE), work, 0, None), Help)),
    On(Files({}), Three(With(Derive("Aes256Gcm", FALSE, FALSE), work, 0, None),
                        With(Derive("Aes256Gcm", FALSE, TRUE), work, 1, None), Help)),
    \* names that hold the separators: two tuples, one salt
    On(Files({}), Three(With(FromFile("sign", p), work, 1633771873,
                             <<"home", ":v", "aaaa">>),
                        With(FromFile("sign", p), <<"work", ":v", "aaaa", ":sub:", "home">>,
                             1633771873, None), Help)),
    \* signatures of two identities, and an edited document
    On(Files({}), Three(FromFile("sign", p), With(FromFile("sign", p), work, 1, None),
                        Line("verify")))}

\* Two tuples whose salts are one text; an AES key with an empty sub-identity and
\* one without; and the first tuple once more, in `cry ssh --pass-file`.
MCTupleRun == {r1, r2, r3, r4, r5}

MCScenarioTuple ==
    LET first(a) == With(a, work, 1633771873, <<"home", ":v", "aaaa">>)
        aes(base, sub) ==
            With([Derive("Aes256Gcm", FALSE, FALSE) EXCEPT !.base = base, !.passphrase = q],
                 work, 0, sub)
    IN  {On(Files({}),
            r1 :> first(FromFile("sign", p))
            @@ r2 :> With(FromFile("sign", p), <<"work", ":v", "aaaa", ":sub:", "home">>,
                          1633771873, None)
            @@ r3 :> aes("k", None)
            @@ r4 :> aes("j", << >>)
            @@ r5 :> first([FromFile("ssh", p) EXCEPT !.types = {q}]))}
=============================================================================
