------------------------------ MODULE MCPciSpi ------------------------------
EXTENDS V4PciSpi
ThePayload == <<7, 0, 5, 3, 1, 6, 2, 4, 6, 1>>
TheHeader == <<5, 1, 2, 5, 0, 5, 1>>
TheFile == TheHeader \o <<0, 3, 5, 0, 0, 1, 2>> \o ThePayload
NoKey == TheHeader \o <<0, 3, 4>>
CutData == TheHeader \o <<0, 3, 5, 0, 0, 0, 4, 7, 2>>
CutLength == TheHeader \o <<0, 3, 5, 0, 0, 0>>
TheFiles == {TheFile, NoKey, CutData, CutLength}
TheStaleBytes == {0, 3}
(* bit_read on them: whole, without key, ended in the data, in the length.  *)
ASSUME BitReadAssumption ==
    /\ bit_read(TheFile) = {ThePayload} /\ bit_read(NoKey) = {}
    /\ bit_read(CutData) = {<<7, 2, 0, 0>>} /\ bit_read(CutLength) = {<<>>, <<0, 0, 0>>}
TheBefore == {[a \in Cells |-> a % 7]}
TheOps == {{Ident, ReadBack}, {Erase, Write}, {Erase, Write, ReadBack}, {Sniffer}, {Device, Erase, Write}}
=============================================================================
