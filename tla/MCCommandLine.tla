--------------------------- MODULE MCCommandLine ----------------------------
(* Two processes, started twice in all, on two names and a file with one
   other key. *)
EXTENDS CommandLine

Cmd(op, args) == [op |-> op, args |-> args, type |-> "aci", flag |-> "", force |-> FALSE]

Writers ==
    {Cmd("create", <<"a">>), [Cmd("rm", <<"a", "b">>) EXCEPT !.force = TRUE],
     [Cmd("rm", <<"a">>) EXCEPT !.flag = "b"], Cmd("use", <<"a">>)}

Others ==
    {[Cmd("create", <<"a">>) EXCEPT !.type = "local"], Cmd("rm", <<"a">>),
     Cmd("use", <<"default">>), Cmd("ls", <<>>), Cmd("show", <<>>),
     Cmd("update", <<"a">>), Cmd("inspect", <<>>), Cmd("backend", <<>>),
     Cmd("SetCurrent", <<"b">>), Cmd("List", <<>>), Cmd("Call", <<>>),
     [Cmd("Call", <<>>) EXCEPT !.flag = "b"]}

MCCommands == [p \in Process |-> IF p = "p" THEN Writers ELSE Others]

Files(a, b, current, keys) ==
    [meta |-> [a |-> a, b |-> b], config |-> [torn |-> FALSE, current |-> current, keys |-> keys]]

MCFiles == {Files("none", "aws", "", {}), Files("aci", "aws", "a", {"auths"}),
            Files("aci", "none", "", {"auths"})}
=============================================================================
