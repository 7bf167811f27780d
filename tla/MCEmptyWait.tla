----------------------------- MODULE MCEmptyWait -----------------------------
EXTENDS CommonTransportPrograms

\* Three pages on two hemispheres with one bank each.
MCTwoSides == {"east", "west"}
MCSideOfBank == [b \in MCBanks |-> IF b = "b0" THEN "east" ELSE "west"]

(***************************************************************************)
(* The control queues of both hemispheres wait for every page, also for    *)
(* one that has no segment on their hemisphere (NoEmptyWait is false).     *)
(***************************************************************************)
EmptyWaitPrograms ==
    {Assemble(PageIds, window, [p \in PageIds |-> << <<p - 1, IF p # 1 THEN 1 ELSE 0>>,
                                                     <<p - 1, IF p # 3 THEN 1 ELSE 0>> >>],
              <<1, 2, 3>>, <<1, 2, 3>>, [b \in Banks |-> <<1, 2, 3>>], 2) :
        window \in [PageIds -> {<<0, 1, 1, 2>>, <<1, 2, 2, 3>>}]}
=============================================================================
