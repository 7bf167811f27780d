--------------------------- MODULE PagedExecution ---------------------------
(***************************************************************************)
(* What weight paging promises to a computation, without queues, banks or  *)
(* transports: pages become resident as a whole, a page may be evicted     *)
(* when nothing needs it any more, and the logical cycle L is executed     *)
(* only while every page that the computation may read at L is resident.   *)
(***************************************************************************)
EXTENDS Integers

CONSTANTS
    PageIds,       \* pages
    Schedules      \* [PageIds -> [ready, release]]-records of the programs

VARIABLES
    task,          \* number of tasks begun so far
    schedule,      \* [ready, release] of the pages of the current task
    pages,         \* the pages of the current task
    L,             \* next logical cycle to execute
    resident       \* pages that are complete and intact

vars == <<task, schedule, pages, L, resident>>

Needed(l) == {p \in pages : schedule.ready[p] <= l /\ l < schedule.release[p]}

Init ==
    /\ task = 0
    /\ pages = {}
    /\ schedule \in Schedules
    /\ L = 0
    /\ resident = {}

Begin ==
    /\ task' = task + 1
    /\ pages' \in SUBSET PageIds
    /\ schedule' \in Schedules
    /\ L' = 0
    /\ resident' = {}

\* Pages come and go while L stands still, but never one that L needs goes.
Exchange ==
    /\ resident' \subseteq pages
    /\ resident \cap Needed(L) \subseteq resident'
    /\ UNCHANGED <<task, schedule, pages, L>>

\* Cycle L is executed with all it needs in place.
Execute ==
    /\ resident' \subseteq pages
    /\ Needed(L) \subseteq resident'
    /\ L' = L + 1
    /\ UNCHANGED <<task, schedule, pages>>

Next == Begin \/ Exchange \/ Execute

Spec == Init /\ [][Next]_vars
=============================================================================
