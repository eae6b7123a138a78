---------------------------- MODULE MCServerLoop ----------------------------
(* Instances of ServerLoop for TLC: a small rpc.conf and commands that fit it *)
(* well, badly, or not at all.                                                *)
EXTENDS ServerLoop

CONSTANTS k1, k2

A == <<"a">>
AB == <<"a", "b">>
B == <<"b">>
X == <<"x">>
List(entries) == [i \in 1 .. 15 |-> IF i % 2 = 1 THEN entries[(i + 1) \div 2] ELSE Comma]

MCConf == << [name |-> A, paramc |-> 1], [name |-> AB, paramc |-> 2], [name |-> <<"c">>, paramc |-> 1] >>
MCBinaries == {A, AB}

Call(caller, name, args) == [caller |-> caller, name |-> name, args |-> args]

MCCommands == {
    \* two parameters and requirements; a file of one of two callers
    Call(k1, AB, <<Path, X, List(<<"1", "2", "3", "4", "5", "6", "7", "8">>)>>),
    Call(k2, A, <<Path>>),
    \* empty parameters, a blank in one, too many
    Call(k1, A, << <<>> >>),
    Call(k1, AB, << X, <<>> >>),
    Call(k1, A, << <<"x", Space, "y">> >>),
    Call(k1, A, [i \in 1 .. 17 |-> X]),
    \* no such procedure; no binary
    Call(k1, B, <<X>>),
    Call(k1, <<"c">>, <<X>>)
}

=============================================================================
