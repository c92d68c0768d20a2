---------------------------- MODULE MCBzProgram ----------------------------
(***************************************************************************)
(* Instances of BzProgram: a text and its compressed forms under several   *)
(* names, of one and of two streams, damaged, cut, and with something      *)
(* behind; the command lines that undo each other; two operands with one   *)
(* output.                                                                 *)
(***************************************************************************)
EXTENDS BzFile, BzProgram

A == <<"a">>
ABz2 == <<"a", "bz2">>
ABz == <<"a", "bz">>
AOut == <<"a", "out">>
ATbz == <<"a", "tbz">>
ATar == <<"a", "tar">>
AllNames == {A, ABz2, ABz, AOut, ATbz, ATar, <<"a", "out", "bz2">>, <<"a", "tar", "bz2">>}

T1 == <<0, 0, 0, 0, 0, 1, 1>>
T2 == <<1, 0>>
Z(text) == BuffToBuffCompress(text, 100).dest
Corrupt(z) == [z EXCEPT ![2] = Token("block", <<(@.value[1] + 1) % CrcMod>>)]
Disk(files) == [n \in AllNames |-> IF n \in DOMAIN files THEN files[n] ELSE NoFile]
File1(n, f) == Disk([m \in {n} |-> f])
File2(n, f, m, g) == Disk([k \in {n, m} |-> IF k = n THEN f ELSE g])

InitialDisks ==
    {File1(A, Text(T1)), File1(A, Text(<<>>)),
     File1(A, [Text(T1) EXCEPT !.links = 1]), File1(A, [NoFile EXCEPT !.type = "dir"]),
     File1(A, [Text(T1) EXCEPT !.type = "pipe"]),
     File2(A, Text(T1), ABz2, Compressed(Z(T2))), File2(ABz2, Compressed(Z(T1)), ABz, Compressed(Z(T2))),
     File1(ABz2, Compressed(Z(T1) \o Z(T2))), File1(ABz2, Compressed(Z(T1) \o <<Junk>>)),
     File1(ABz2, Compressed(Z(T1) \o Corrupt(Z(T2)))), File1(ABz2, Compressed(Corrupt(Z(T1)))),
     File1(ABz2, Compressed(Front(Z(T1)))), File1(ABz2, Text(T2)),
     File1(ATbz, Compressed(Z(T2)))}

Line(op, src, force, keep, args) ==
    [op |-> op, src |-> src, force |-> force, keep |-> keep, noisy |-> ~force, small |-> keep,
     args |-> args]
Lines1 ==
    {Line(op, src, force, keep, args) :
        op \in {"Z", "UNZ", "TEST"}, src \in {"F2F"}, force \in BOOLEAN, keep \in BOOLEAN,
        args \in {<<A>>, <<ABz2>>, <<ABz2, ABz>>, <<ATbz>>}}
    \cup {Line("UNZ", "F2O", FALSE, FALSE, <<ABz2>>), Line("Z", "F2O", FALSE, FALSE, <<A>>)}
=============================================================================
