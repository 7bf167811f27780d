----------------------------- MODULE WholeProgram -----------------------------
(***************************************************************************)
(* What a program does with i-MEM of any size: on every logical cycle each *)
(* queue issues the packets that its own code places there.                *)
(***************************************************************************)
EXTENDS ComputeCode

VARIABLES
    program,     \* the linked program
    L,           \* logical cycles executed
    issued       \* per queue, <<packet, logical cycle>> of the first issues

wholeVars == <<program, L, issued>>

Init ==
    /\ program \in Programs
    /\ L = 0
    /\ issued = [q \in Queues |-> {}]

Dispatch ==
    /\ L <= program.maxCycle
    /\ issued' = [q \in Queues |->
          issued[q] \cup {<<id, L>> : id \in StartingAt(program.code[q], L)}]
    /\ L' = L + 1
    /\ UNCHANGED program

Spec == Init /\ [][Dispatch]_wholeVars
=============================================================================
