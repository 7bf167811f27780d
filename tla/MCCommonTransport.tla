------------------------- MODULE MCCommonTransport -------------------------
(***************************************************************************)
(* CommonTransport with at most two pages on one hemisphere.               *)
(***************************************************************************)
EXTENDS CommonTransportPrograms

MCSides == {"east"}
MCSideOf == [b \in MCBanks |-> "east"]

\* <<launch, stop, ready, release>>
Windows == {<<0, 0, 0, 1>>, <<0, 1, 1, 2>>, <<1, 1, 1, 2>>,
            <<1, 2, 2, 3>>, <<2, 2, 2, 3>>}

\* <<base, count>> per bank: both banks, one bank, the same rows again.
Placements == {<< <<0, 1>>, <<0, 1>> >>, << <<0, 0>>, <<0, 2>> >>,
               << <<1, 1>>, <<1, 0>> >>}

\* Two pages, every window, placement and queue order.
TwoPagePrograms ==
    {Assemble(PageIds, window, place, dma, rx, mem, 2) :
        window \in [PageIds -> Windows],
        place \in [PageIds -> Placements],
        dma \in SetToSeqs(PageIds), rx \in SetToSeqs(PageIds),
        mem \in [Banks -> SetToSeqs(PageIds)]}

(***************************************************************************)
(* Reload: programs of one or two pages whose control queues agree, so a   *)
(* second task starts on the SRAM and completions the first one left.      *)
(***************************************************************************)
ReloadPrograms ==
    {Assemble(pages, window, place, SetToSeq(pages), SetToSeq(pages),
              [b \in Banks |-> SetToSeq(pages)], 2) :
        pages \in {{1}, {1, 2}},
        window \in [PageIds -> {<<0, 0, 0, 1>>, <<0, 1, 1, 2>>, <<1, 2, 2, 3>>}],
        place \in [PageIds -> {<< <<0, 1>>, <<0, 1>> >>}]}
=============================================================================
