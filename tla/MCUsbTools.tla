----------------------------- MODULE MCUsbTools -----------------------------
EXTENDS UsbTools
ThePayload == <<7, 0, 5, 3, 1, 6, 2, 4, 6, 1>>
TheHeader == <<5, 1, 2, 5, 0, 5, 1>>
TheFile == TheHeader \o <<0, 3, 5, 0, 0, 1, 2>> \o ThePayload
NoKey == TheHeader \o <<0, 3, 4>>
CutData == TheHeader \o <<0, 3, 5, 0, 0, 0, 4, 7, 2>>
TheStaleBytes == {0}
TheBitstream == <<1,1,1, 0,0,0, 1,0,1, 0,1,1, 0,0,1, 1,1,0, 0,1,0, 1,0,0, 1,1,0, 0,0,1>>
ASSUME FileAssumption ==
    /\ bit_read(TheFile) = {ThePayload} /\ TheBitstream = BitsOf(ThePayload)
    /\ bit_read(NoKey) = {} /\ bit_read(CutData) = {<<7, 2, 0, 0>>}
TheContents == {[a \in Cells |-> IF a < Len(ThePayload) THEN ThePayload[a + 1] ELSE 7],
                [a \in Cells |-> a % 7]}
TheFifoData == <<1, 2, 3, 4, 5, 6, 7, 1, 2, 3>>
fw(ops) == <<"fw", ops>>
spi(ops) == <<"spi", ops>>
TheSessions == {<<spi(<<"E", "W">>), spi(<<"B">>)>>,
                <<spi(<<"E", "W", "C">>), spi(<<"E", "W", "R">>)>>,
                <<spi(<<"C">>), fw({"f1"})>>,
                <<fw({"f0"}), spi(<<"R">>)>>,
                <<fw({"f1"}), fw({"f1"})>>,
                <<fw({"f1"}), spi(<<"B">>)>>,
                <<fw({"P"}), fw({"P"})>>,
                <<spi(<<"R">>), fw({"w"})>>,
                <<spi(<<"B">>), fw({"r"})>>,
                <<fw({"r"}), fw({"w", "r"})>>,
                <<spi(<<"B">>), fw({"w", "P"})>>,
                <<spi(<<"R">>), fw({"E", "w"})>>}
(* Sessions for a file without a key, and one that ends in its data.        *)
CutSessions == {<<spi(<<"E", "W", "C">>), spi(<<"R">>)>>, <<fw({"f1"}), spi(<<"C">>)>>}
EepromSessions == {[session |-> << <<"c64", <<"w", "r">> >>, <<"c64", <<"f", "r">> >> >>, style |-> 3],
                   [session |-> << <<"c21", <<"f", "r">> >>, <<"c21", <<"w", "r">> >> >>, style |-> 2]}
Scenario(s, f, mem, x, style, q) ==
    [session |-> s, file |-> f, flash |-> mem, fault |-> x, style |-> style, quick |-> q]
AllSevens == [a \in Cells |-> 7]
TheScenarios ==
    {Scenario(s, TheFile, mem, x, 3, TRUE) : s \in TheSessions, mem \in TheContents, x \in {"none", "init", "done"}}
    \cup {Scenario(s, NoKey, AllSevens, "none", 3, TRUE) : s \in CutSessions}
    \cup {Scenario(<<spi(<<"E", "W", "C">>), spi(<<"R">>)>>, CutData, AllSevens, "none", 3, TRUE)}
    \cup {Scenario(e.session, TheFile, AllSevens, "none", e.style, TRUE) : e \in EepromSessions}
    \cup {Scenario(<< <<"c64", <<"w">> >> >>, TheFile, AllSevens, "none", 3, FALSE),
          Scenario(<< <<"c21", <<"f">> >> >>, TheFile, AllSevens, "none", 2, FALSE)}
TheEepromFile == <<5, 1, 4, 0, 3, 6, 2, 5, 4>>
TheEepromMem == [i \in I2cCells |-> 7]
=============================================================================
