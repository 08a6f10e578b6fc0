---------------------------- MODULE MCFileStream ----------------------------
(* Values for FileStream: one worker receives whole, damaged and cut bodies, the *)
(* other a plain one, so that the two meet on the shared counters.                *)
EXTENDS FileStream

MCPayload == [w \in Workers |-> IF w = 1 THEN <<1, 2>> ELSE <<3>>]

Simple(p) == Member(p, <<>>, FALSE, FALSE, FALSE)
Changed(b, i, v) == [b EXCEPT ![i] = v]
Whole == {Simple(<<1, 2>>), Member(<<1, 2>>, <<<<5, 5>>>>, TRUE, TRUE, TRUE),
          Member(<<1, 2>>, <<<<5>>>>, FALSE, FALSE, TRUE),
          Simple(<<1>>) \o Simple(<<2>>)}
Damaged == {Changed(Simple(<<1, 2>>), 3, 7),                                     \* header
            Changed(Simple(<<1, 2>>), 12, 0), Simple(<<1, 3>>),                    \* data
            Changed(Simple(<<1>>), 13, 9) \o Simple(<<2>>),                        \* CRC
            Simple(<<1, 2>>) \o <<0, 0>>,                                         \* padding
            SubSeq(Simple(<<1, 2>>), 1, 12), SubSeq(Simple(<<1, 2>>), 1, 15),      \* cut
            Member(<<1, 2>>, <<<<>>>>, FALSE, FALSE, FALSE)}                     \* empty field
MCChunkSizes == [w \in Workers |-> IF w = 1 THEN {11, 60} ELSE {60}]
MCNetworks ==
    {<<<<Whole \cup Damaged, {Simple(<<1, 2>>), Simple(<<1, 3>>)}>>, <<>>>>,
     <<<<{Simple(<<1, 2>>), Simple(<<1, 2>>) \o <<0, 0>>}, {Simple(<<1, 2>>)}>>, <<{Simple(<<3>>)}>>>>}
=============================================================================
