----------------------------- MODULE MCMemoryPlan -----------------------------
(***************************************************************************)
(* Two slices of six rows: floors and named bindings that may nest,        *)
(* touch or leave holes, a state that may collide, and up to three         *)
(* resident tensors on one or several slices, one of them wide.            *)
(***************************************************************************)
EXTENDS MemoryPlan

MCSlices == 1 .. 2
MCCapacity == 6

Bind(exe, kind, on, first, rows, group, width) ==
    [exe |-> exe, kind |-> kind, on |-> on, first |-> first, end |-> first + rows,
     group |-> group, width |-> width]

Floor(exe, slice, rows) == [exe |-> exe, slice |-> slice, rows |-> rows]

Package(floors, bindings) == [floors |-> floors, bindings |-> bindings]

\* A resident tensor, compiled at row 0. The rows it was compiled at are read
\* only where a state may collide with them; the states below begin at 0 to 4.
Resident(on, rows, group, width) == Bind(1, "resident", on, 0, rows, group, width)

MCPackages ==
    {Package({Floor(1, 1, floor), Floor(2, 2, 1)},
             <<Bind(2, "named", {1}, first, rows, 1, 1),
               Bind(2, "named", {1, 2}, 4, 1, 2, 2),
               Resident({1, 2}, wide, 2, 2), Resident({1}, tall, 1, 1), Resident({2}, 1, 3, 1)>>) :
        floor \in 0 .. 2, first \in 0 .. 4, rows \in 1 .. 3, wide \in 1 .. 3, tall \in 1 .. 2}
    \cup
    {Package({Floor(1, 1, 2)},
             <<Bind(1, "state", {1}, first, 2, 1, 1), Bind(exe, "named", {1, 2}, 2, 2, 2, 2),
               Resident(on, 2, 2, 2), Resident({}, rows, 3, 0)>>) :
        first \in 0 .. 4, exe \in 1 .. 2, on \in {{2}, {1, 2}}, rows \in 1 .. 2}

\* Executable 2 reads a tensor through a page.
MCPagedPackages ==
    {Package({Floor(1, 1, 1), Floor(2, 2, 1)},
             <<Bind(1, "named", {1}, 1, 2, 1, 1), Bind(2, "paged", {1, 2}, first, 2, 2, 2),
               Resident({1, 2}, 2, 2, 2), Resident({1}, rows, 1, 1)>>) :
        first \in 0 .. 4, rows \in 1 .. 2}
=============================================================================
