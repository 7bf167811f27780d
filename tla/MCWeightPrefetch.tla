-------------------------- MODULE MCWeightPrefetch --------------------------
(***************************************************************************)
(* WeightPrefetch with three uses of at most three pages.                  *)
(***************************************************************************)
EXTENDS WeightPrefetch

MCPages == 0 .. 2
MCBanks == 0 .. 1
MCSpots == {"low", "high"}

\* <<ready, release>>: apart, one behind the other, one inside another.
Intervals == << <<0, 2>>, <<2, 3>>, <<3, 7>>, <<4, 5>> >>

UseOf(rank) ==
    LET page == rank \div Len(Intervals)
        interval == Intervals[(rank % Len(Intervals)) + 1]
    IN  [page |-> page, ready |-> interval[1], release |-> interval[2],
         runtime |-> page = 2]

LastRank == Len(Intervals) * Cardinality(MCPages) - 1

\* Every choice of three uses, listed by page and not by cycle.
UseLists ==
    {<<UseOf(a), UseOf(b), UseOf(c)>> :
        <<a, b, c>> \in {t \in (0 .. LastRank) \X (0 .. LastRank) \X (0 .. LastRank) :
                             t[1] <= t[2] /\ t[2] <= t[3]}}

\* Page 1 shares rows with 0 and 2 in one bank; two pages side by side in one
\* bank and the third in the other.
Geometries ==
    {[bank  |-> [p \in MCPages |-> 0],
      spots |-> [p \in MCPages |-> IF p = 0 THEN {"low"}
                                   ELSE IF p = 1 THEN {"low", "high"} ELSE {"high"}]],
     [bank  |-> [p \in MCPages |-> IF p = 1 THEN 1 ELSE 0],
      spots |-> [p \in MCPages |-> IF p = 2 THEN {"high"} ELSE {"low"}]]}

NoConstants == [c \in MCBanks \X MCSpots |-> {}]
NoScratch == [b \in MCBanks |-> {}]
NoWindows == [p \in {} |-> <<0, 0>>]
NoReleases == [s \in {} |-> 0]

Plain == [constants |-> NoConstants, scratch |-> NoScratch, window |-> NoWindows,
          streams |-> NoReleases, common |-> FALSE, overlap |-> FALSE]

\* A constant without a timeline of its own (Horizon), and native scratch.
Shared == [Plain EXCEPT
    !.constants = [NoConstants EXCEPT ![<<0, "low">>] = {1, Horizon}],
    !.scratch = [NoScratch EXCEPT ![0] = {3, 4}, ![1] = {1}]]

\* One stream is idle from the start and one late; none is idle at first.
Staggered == [s \in 0 .. 2 |-> IF s = 0 THEN 6 ELSE IF s = 1 THEN 0 ELSE 3]
Late == [s \in 0 .. 2 |-> 5]

\* The exclusive ingress window of page 1; it may end behind the consumer.
OneWindow(w) == [p \in {1} |-> w]

Settings ==
    {Plain, Shared,
     [Plain EXCEPT !.common = TRUE],
     [Shared EXCEPT !.common = TRUE, !.overlap = TRUE,
                    !.window = OneWindow(<<1, 2>>)],
     [Plain EXCEPT !.streams = Staggered],
     [Shared EXCEPT !.streams = Late],
     [Plain EXCEPT !.streams = Staggered, !.window = OneWindow(<<1, 2>>)],
     [Shared EXCEPT !.common = TRUE, !.streams = Staggered,
                    !.window = OneWindow(<<1, 4>>)],
     [Plain EXCEPT !.window = OneWindow(<<2, 6>>)]}

MCPrograms ==
    {[uses |-> uses, bank |-> g.bank, spots |-> g.spots,
      bytes |-> [p \in MCPages |-> p + 1],
      constants |-> s.constants, scratch |-> s.scratch, window |-> s.window,
      streams |-> s.streams, common |-> s.common, overlap |-> s.overlap] :
        uses \in UseLists, g \in Geometries, s \in Settings}
=============================================================================
