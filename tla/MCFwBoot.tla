------------------------------ MODULE MCFwBoot ------------------------------
EXTENDS FwBoot
TheOptions == [c \in {"m", "b", "f", "r", "w", "s", "i", "E"} |-> "required"]
              @@ [c \in {"h", "t", "S", "P"} |-> "none"]
X == <<"x">>
Y == <<"y">>
Bad == <<"z">>
MinusB == <<"-", "b">>
Words == {<<"-", "S">>, MinusB, <<"-", "b", "x">>, <<"-", "S", "b">>, <<"-", "q">>, DashDash, X, <<"-">>}
ManyWords(max) == UNION {[1..n -> Words] : n \in 0..max}
Downloads == {<<MinusB, X>>, <<MinusB, Y>>, <<MinusB, Bad>>}
TheScenarios ==
    {[runs |-> <<w>>, posix |-> FALSE, faults |-> FALSE] : w \in ManyWords(4)}
    \cup {[runs |-> <<w>>, posix |-> TRUE, faults |-> FALSE] : w \in ManyWords(3)}
    \cup {[runs |-> <<v, w>>, posix |-> FALSE, faults |-> TRUE] : v, w \in Downloads}
TheFiles ==
    X :> <<Line("comment"), Data(0, <<1, 2>>), Data(2, <<3>>), Data(3, <<4>>), Data(1, <<6>>), Line("eof"),
           Data(5, <<7>>)>>
    @@ Y :> <<Data(4, <<5>>), Data(0, <<8, 9>>), Stub(2, 3)>>
    @@ Bad :> <<Data(0, <<0>>), Line("short"), Data(1, <<6>>)>>
TheImages == {ezusb_load_image(TheFiles, n).blocks : n \in DOMAIN TheFiles}
TheRam == [a \in 0..5 |-> 0]
=============================================================================
