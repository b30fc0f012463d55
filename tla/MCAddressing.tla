---------------------------- MODULE MCAddressing ----------------------------
(* Instances of Addressing for TLC.                                          *)
EXTENDS Addressing

\* Two machines with two claims each, of which one is the same: m with ethernet
\* a-b and m-a with ethernet b.  The other two are their own.  The first machine
\* also has an ethernet without an ipamRef, and its node's address is not on the
\* last ethernet.
M1 == <<"m">>
M2 == <<"m", "-", "a">>
MCMachines == {M1, M2}

Eth(name, ipam, nodeIP) == [name |-> name, ipam |-> ipam, nodeIP |-> nodeIP]

MCEthernets ==
    [m \in MCMachines |->
        IF m = M1
        THEN << Eth(<<"e0">>, FALSE, FALSE), Eth(<<"e1">>, TRUE, TRUE),
                Eth(<<"a", "-", "b">>, TRUE, FALSE) >>
        ELSE << Eth(<<"b">>, TRUE, FALSE), Eth(<<"e1">>, TRUE, TRUE) >>]
=============================================================================
