--------------------------- MODULE MCCommonLinker ---------------------------
(***************************************************************************)
(* Up to three transports over every image made of six issues: two reads   *)
(* of one MEM queue, a short and a long vector train, a result on the      *)
(* highest stream and an access behind most of the stops.                  *)
(***************************************************************************)
EXTENDS CommonLinker

Issue(first, last, queue, streams) ==
    [first |-> first, last |-> last, queue |-> queue, streams |-> streams]

MCImages ==
    SUBSET {Issue(1, 1, "q1", {2}),
            Issue(3, 3, "q1", {}),
            Issue(1, 3, NoQueue, {0, 1}),
            Issue(2, 7, NoQueue, {1}),
            Issue(4, 4, NoQueue, {2}),
            Issue(8, 8, "q2", {0})}

Span(start, end) == [start |-> start, end |-> end]
Use(ready, windows) == [ready |-> ready, windows |-> windows]

Page(id, start, earliest, uses, queues) ==
    [id |-> id, start |-> start, earliest |-> earliest,
     ready |-> Least({u.ready : u \in uses}), uses |-> uses, queues |-> queues, streams |-> {1, 2}]

\* Two pages of the stop 6 with different consumers, two of the stop 11, a
\* page of two uses, one without a window and one that may start too late.
First == Page(1, 1, 0, {Use(7, {Span(1, 6)})}, {"q1"})
Second == Page(2, 0, 2, {Use(9, {Span(2, 6)})}, {"q2"})
Third == Page(3, 7, 0, {Use(12, {Span(1, 6), Span(7, 11)})}, {"q1", "q2"})
Fourth == Page(4, 6, 7, {Use(11, {Span(6, 11)}), Use(12, {Span(8, 11)})}, {"q1"})
NoWindow == Page(5, 0, 0, {Use(8, {Span(5, 10)})}, {"q1"})
TooLate == Page(6, 8, 0, {Use(8, {Span(1, 6)})}, {"q2"})

MCPageSets ==
    {{First, Second}, {First, Second, Third}, {Second, Third, Fourth},
     {First, NoWindow}, {TooLate}}
=============================================================================
