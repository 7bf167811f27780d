-------------------------- MODULE MCComputeSegments --------------------------
(***************************************************************************)
(* Programs of three packets in one VXM queue, with NOPs between them, an  *)
(* SXM queue and a MEM queue, under every set of drains: packets end at, a *)
(* cycle before and a cycle behind a drain, segments are empty, too long   *)
(* for the i-MEM or for the wait of a header, and the VXM works on behind  *)
(* a drain.  One VXM program fits as it is.                                *)
(***************************************************************************)
EXTENDS ComputeSegments

MCQueues == {"vxm", "sxm", "mem"}
MCDepth == [vxm |-> 5, sxm |-> 3, mem |-> 4]

VxmCodes ==
    {<<Packet(1, w1, s1, 0), Nop(gap), Packet(2, w2, s2, t), Packet(3, w3, 1, 0)>> :
        w1 \in {0, 1}, s1 \in {1, 2}, gap \in {1, 4}, w2 \in {0, 1}, s2 \in {1, 2},
        t \in {0, 1}, w3 \in {0, 1}} \cup
    {<<Packet(1, 1, 2, 1), Nop(1), Packet(2, 0, 1, 0)>>}

SxmCodes ==
    {<<Packet(1, 1, 1, 0)>>,
     <<Packet(1, 1, 2, 0), Packet(2, 1, 1, 0), Nop(1)>>,
     <<Packet(1, 0, 1, 0), Other>>}

MemCodes == {<<Nop(1), Other, Packet(1, 2, 2, 0)>>}

MCPrograms ==
    {[code |-> [vxm |-> v, sxm |-> s, mem |-> m], drains |-> d, maxCycle |-> 8,
      reloadable |-> TRUE] :
        v \in VxmCodes, s \in SxmCodes, m \in MemCodes, d \in SUBSET {2, 3, 6, 8}}
=============================================================================
