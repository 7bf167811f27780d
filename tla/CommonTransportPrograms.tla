----------------------- MODULE CommonTransportPrograms -----------------------
(***************************************************************************)
(* How the instances of CommonTransport for TLC put a program together.    *)
(***************************************************************************)
EXTENDS CommonTransport, SequencesExt

MCBanks == {"b0", "b1"}

OnBank(place, b) == IF b = "b0" THEN place[1] ELSE place[2]

Assemble(pages, window, place, dma, rx, mem, last) ==
    [pages     |-> pages,
     launch    |-> [p \in PageIds |-> window[p][1]],
     stop      |-> [p \in PageIds |-> window[p][2]],
     ready     |-> [p \in PageIds |-> window[p][3]],
     release   |-> [p \in PageIds |-> window[p][4]],
     base      |-> [p \in PageIds |-> [b \in Banks |-> OnBank(place[p], b)[1]]],
     count     |-> [p \in PageIds |-> [b \in Banks |-> OnBank(place[p], b)[2]]],
     control   |-> [c \in Channels |-> IF c[2] = "dma" THEN dma ELSE rx],
     mem       |-> [b \in Banks |->
                       SelectSeq(mem[b], LAMBDA p : OnBank(place[p], b)[2] > 0)],
     max_cycle |-> last]

=============================================================================
