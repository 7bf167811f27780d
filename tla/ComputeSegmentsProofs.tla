------------------------ MODULE ComputeSegmentsProofs ------------------------
(***************************************************************************)
(* Proofs about ComputeSegments: what the planner computes by its loop     *)
(* over the commands of a queue, that no reload of an accepted program     *)
(* throws, and that the segments implement the whole program.              *)
(***************************************************************************)
EXTENDS ComputeSegments, BoundedNumbers

\* Induction over the numbers up to n.
LEMMA UpTo ==
    ASSUME NEW n \in Nat, NEW S, 0 \in S, \A k \in 0 .. n - 1 : k \in S => k + 1 \in S
    PROVE  \A k \in 0 .. n : k \in S
<1> DEFINE T == {k \in 0 .. n : k \notin S}
<1>1. SUFFICES ASSUME T # {} PROVE FALSE
  OBVIOUS
<1>2. T \in SUBSET (0 .. n)
  OBVIOUS
<1>3. PICK x \in T : \A y \in T : x <= y
  <2> HIDE DEF T
  <2> QED BY <1>1, <1>2, LeastNatural
<1>4. x # 0 /\ x - 1 \in 0 .. n - 1
  OBVIOUS
<1>5. x - 1 \notin T
  BY <1>3, <1>4
<1> QED
  BY <1>4, <1>5

-----------------------------------------------------------------------------
(***************************************************************************)
(* Cycles of a queue.                                                      *)
(***************************************************************************)
LEMMA CommandType ==
    ASSUME NEW c \in Commands
    PROVE  /\ c.wait \in Nat /\ c.span \in Nat /\ c.tail \in Nat /\ c.id \in Nat
           /\ c.op \in {"packet", "nop", "other"}
           /\ c.op = "nop" => c.span = 0
  BY DEF Commands

LEMMA CommandOf ==
    ASSUME NEW code \in Seq(Commands)
    PROVE  Len(code) \in Nat /\ DOMAIN code = 1 .. Len(code)
           /\ \A k \in 1 .. Len(code) : code[k] \in Commands
  OBVIOUS

\* The recursive function exists.
LEMMA BehindEquation ==
    ASSUME NEW code \in Seq(Commands)
    PROVE  Behind(code) =
               [k \in 0 .. Len(code) |->
                   IF k = 0 THEN 0
                   ELSE Behind(code)[k - 1] + code[k].wait + code[k].span]
<1> DEFINE Def(g, n) ==
               g = [k \in 0 .. n |->
                       IF k = 0 THEN 0 ELSE g[k - 1] + code[k].wait + code[k].span]
           S == {n \in 0 .. Len(code) : \E g : Def(g, n)}
<1>1. 0 \in S
  <2>1. Def([k \in 0 .. 0 |-> 0], 0)
    OBVIOUS
  <2>2. 0 \in 0 .. Len(code)
    BY CommandOf
  <2> HIDE DEF Def
  <2> QED BY <2>1, <2>2
<1>2. ASSUME NEW n \in 0 .. Len(code) - 1, n \in S PROVE n + 1 \in S
  <2>1. PICK g : Def(g, n)
    BY <1>2
  <2> DEFINE h == [k \in 0 .. n + 1 |->
                      IF k = n + 1 THEN g[n] + code[n + 1].wait + code[n + 1].span ELSE g[k]]
  <2>2. \A k \in 0 .. n : h[k] = g[k]
    OBVIOUS
  <2>3. \A k \in 0 .. n + 1 :
            h[k] = IF k = 0 THEN 0 ELSE h[k - 1] + code[k].wait + code[k].span
    <3>1. h[n + 1] = h[n] + code[n + 1].wait + code[n + 1].span
      BY <2>2
    <3>2. \A k \in 0 .. n :
              g[k] = IF k = 0 THEN 0 ELSE g[k - 1] + code[k].wait + code[k].span
      BY <2>1
    <3>3. \A k \in 0 .. n : k # 0 => k - 1 \in 0 .. n
      OBVIOUS
    <3> HIDE DEF h
    <3> QED BY <3>1, <3>2, <3>3, <2>2
  <2>4. Def(h, n + 1)
    <3>1. h = [k \in 0 .. n + 1 |-> h[k]]
      OBVIOUS
    <3> HIDE DEF h
    <3> QED BY <3>1, <2>3
  <2> HIDE DEF Def, h
  <2> QED BY <2>4, CommandOf
<1>3. Len(code) \in S
  <2> HIDE DEF S
  <2>1. \A n \in 0 .. Len(code) : n \in S
    BY <1>1, <1>2, UpTo, CommandOf
  <2> QED BY <2>1, CommandOf
<1>4. \E g : Def(g, Len(code))
  BY <1>3
<1>5. Behind(code) = CHOOSE g : Def(g, Len(code))
  BY DEF Behind
<1>6. Def(Behind(code), Len(code))
  <2> HIDE DEF Def
  <2> QED BY <1>4, <1>5
<1> QED BY <1>6

\* Cycles add up from 0.
LEMMA BehindSteps ==
    ASSUME NEW code \in Seq(Commands)
    PROVE  /\ Behind(code)[0] = 0
           /\ \A k \in 0 .. Len(code) : Behind(code)[k] \in Nat
           /\ \A k \in 1 .. Len(code) :
                 /\ Behind(code)[k] = Behind(code)[k - 1] + code[k].wait + code[k].span
                 /\ First(code, k) = Behind(code)[k - 1] + code[k].wait
                 /\ First(code, k) \in Nat
                 /\ End(code, k) = Behind(code)[k]
                 /\ End(code, k) = First(code, k) + code[k].span
<1> DEFINE B == Behind(code)
           S == {k \in 0 .. Len(code) : B[k] \in Nat}
<1>1. \A k \in 0 .. Len(code) :
          B[k] = IF k = 0 THEN 0 ELSE B[k - 1] + code[k].wait + code[k].span
  <2> DEFINE F(g) == [k \in 0 .. Len(code) |->
                        IF k = 0 THEN 0 ELSE g[k - 1] + code[k].wait + code[k].span]
  <2>1. B = F(B)
    BY BehindEquation
  <2>2. \A k \in 0 .. Len(code) :
            F(B)[k] = IF k = 0 THEN 0 ELSE B[k - 1] + code[k].wait + code[k].span
    <3> HIDE DEF B
    <3> QED OBVIOUS
  <2> HIDE DEF B, F
  <2> QED BY <2>1, <2>2
<1>2. \A k \in 1 .. Len(code) : code[k].wait \in Nat /\ code[k].span \in Nat
  BY CommandOf, CommandType
<1>3. \A k \in 1 .. Len(code) : B[k] = B[k - 1] + code[k].wait + code[k].span
  <2> HIDE DEF B
  <2> QED BY <1>1, CommandOf
<1>4. B[0] = 0
  <2> HIDE DEF B
  <2> QED BY <1>1, CommandOf
<1>5. \A k \in 0 .. Len(code) : B[k] \in Nat
  <2>1. 0 \in S
    <3> HIDE DEF B
    <3> QED BY <1>4, CommandOf
  <2>2. ASSUME NEW k \in 0 .. Len(code) - 1, k \in S PROVE k + 1 \in S
    <3>1. k + 1 \in 1 .. Len(code) /\ (k + 1) - 1 = k /\ k + 1 \in 0 .. Len(code)
      BY CommandOf
    <3>2. B[k + 1] = B[k] + code[k + 1].wait + code[k + 1].span
      <4> HIDE DEF B
      <4> QED BY <3>1, <1>3
    <3> HIDE DEF B
    <3> QED BY <3>1, <3>2, <1>2, <2>2
  <2>3. \A k \in 0 .. Len(code) : k \in S
    <3> HIDE DEF S
    <3> QED BY <2>1, <2>2, UpTo, CommandOf
  <2> QED BY <2>3
<1>6. \A k \in 1 .. Len(code) : k - 1 \in 0 .. Len(code) /\ k \in 0 .. Len(code)
  BY CommandOf
<1> HIDE DEF B
<1>7. \A k \in 1 .. Len(code) :
          /\ First(code, k) = B[k - 1] + code[k].wait
          /\ End(code, k) = First(code, k) + code[k].span
  BY DEF First, End, B
<1> QED
  BY <1>2, <1>3, <1>4, <1>5, <1>6, <1>7 DEF B

\* A command behind the others does not move them.
LEMMA BehindAppend ==
    ASSUME NEW s \in Seq(Commands), NEW c \in Commands
    PROVE  /\ \A k \in 0 .. Len(s) : Behind(Append(s, c))[k] = Behind(s)[k]
           /\ Behind(Append(s, c))[Len(s) + 1] = Behind(s)[Len(s)] + c.wait + c.span
           /\ \A k \in 1 .. Len(s) : First(Append(s, c), k) = First(s, k)
           /\ First(Append(s, c), Len(s) + 1) = Behind(s)[Len(s)] + c.wait
<1> DEFINE t == Append(s, c)
           S == {k \in 0 .. Len(s) : Behind(t)[k] = Behind(s)[k]}
<1>1. /\ t \in Seq(Commands) /\ Len(t) = Len(s) + 1 /\ Len(s) \in Nat
      /\ \A k \in 1 .. Len(s) : t[k] = s[k]
      /\ t[Len(s) + 1] = c
  OBVIOUS
<1> HIDE DEF t
<1>2. 0 \in S
  BY <1>1, BehindSteps
<1>3. ASSUME NEW k \in 0 .. Len(s) - 1, k \in S PROVE k + 1 \in S
  <2>1. k + 1 \in 1 .. Len(s) /\ k + 1 \in 1 .. Len(t) /\ (k + 1) - 1 = k
    BY <1>1
  <2>2. /\ Behind(t)[k + 1] = Behind(t)[k] + t[k + 1].wait + t[k + 1].span
        /\ Behind(s)[k + 1] = Behind(s)[k] + s[k + 1].wait + s[k + 1].span
    BY <2>1, <1>1, BehindSteps
  <2> QED BY <2>1, <2>2, <1>1, <1>3
<1>4. \A k \in 0 .. Len(s) : k \in S
  <2> HIDE DEF S
  <2> QED BY <1>1, <1>2, <1>3, UpTo
<1>5. \A k \in 0 .. Len(s) : Behind(t)[k] = Behind(s)[k]
  BY <1>4
<1>6. /\ Len(s) + 1 \in 1 .. Len(t) /\ (Len(s) + 1) - 1 = Len(s)
      /\ Len(s) \in 0 .. Len(s)
      /\ \A k \in 1 .. Len(s) : k - 1 \in 0 .. Len(s)
  BY <1>1
<1>7. Behind(t)[Len(s) + 1] = Behind(s)[Len(s)] + c.wait + c.span
  <2>1. Behind(t)[Len(s) + 1] =
            Behind(t)[(Len(s) + 1) - 1] + t[Len(s) + 1].wait + t[Len(s) + 1].span
    BY <1>1, <1>6, BehindSteps
  <2> QED BY <2>1, <1>1, <1>5, <1>6
<1>8. \A k \in 1 .. Len(s) : First(t, k) = First(s, k)
  BY <1>1, <1>5, <1>6 DEF First
<1>9. First(t, Len(s) + 1) = Behind(s)[Len(s)] + c.wait
  BY <1>1, <1>5, <1>6 DEF First
<1> QED
  BY <1>5, <1>7, <1>8, <1>9 DEF t

-----------------------------------------------------------------------------
(***************************************************************************)
(* Intervals.                                                              *)
(***************************************************************************)
EndsType(ends) == ends \subseteq Nat \ {0}

\* The interval of a cycle is the first that ends behind it.
LEMMA PartOfCycle ==
    ASSUME NEW ends, EndsType(ends), NEW cycle \in Nat
    PROVE  /\ PartOf(ends, cycle) \in ends \cup {0}
           /\ PartOf(ends, cycle) # 0 =>
                 /\ PartOf(ends, cycle) > cycle
                 /\ \A d \in ends : d > cycle => PartOf(ends, cycle) <= d
           /\ PartOf(ends, cycle) = 0 => \A d \in ends : d <= cycle
<1>1. CASE \A e \in ends : e <= cycle
  <2>1. PartOf(ends, cycle) = 0
    BY <1>1 DEF PartOf
  <2> QED BY <2>1, <1>1
<1>2. CASE ~\A e \in ends : e <= cycle
  <2> DEFINE P(e) == e > cycle /\ \A d \in ends : d > cycle => e <= d
  <2>1. PICK e0 \in ends : ~(e0 <= cycle)
    BY <1>2
  <2>2. e0 \in Nat /\ e0 > cycle
    BY <2>1 DEF EndsType
  <2> DEFINE T == {e \in ends : e > cycle /\ e <= e0}
  <2>3. T \in SUBSET (0 .. e0) /\ T # {}
    <3>1. \A d \in T : d \in 0 .. e0
      BY <2>2 DEF EndsType
    <3>2. e0 \in T
      BY <2>2
    <3> QED BY <3>1, <3>2
  <2>4. PICK e \in T : \A d \in T : e <= d
    <3> HIDE DEF T
    <3> QED BY <2>2, <2>3, LeastNatural
  <2>5. P(e) /\ e \in ends
    <3>1. ASSUME NEW d \in ends, d > cycle PROVE e <= d
      <4>1. CASE d <= e0
        BY <3>1, <4>1, <2>4
      <4>2. CASE ~(d <= e0)
        BY <3>1, <4>2, <2>2, <2>4 DEF EndsType
      <4> QED BY <4>1, <4>2
    <3> QED BY <3>1, <2>4
  <2>6. PartOf(ends, cycle) = CHOOSE x \in ends : P(x)
    BY <1>2 DEF PartOf
  <2>7. PartOf(ends, cycle) \in ends /\ P(PartOf(ends, cycle))
    <3> HIDE DEF P
    <3> QED BY <2>5, <2>6
  <2> QED BY <2>7, EndsType(ends) DEF EndsType
<1> QED BY <1>1, <1>2

\* An interval begins at the end before it, or at 0.
LEMMA BeginOfPart ==
    ASSUME NEW ends, EndsType(ends), NEW e \in ends
    PROVE  /\ Begin(ends, e) \in ends \cup {0} /\ Begin(ends, e) \in Nat
           /\ Begin(ends, e) < e
           /\ \A d \in ends : d < e => d <= Begin(ends, e)
<1> DEFINE P(b) == b < e /\ \A d \in ends : d < e => d <= b
           T == {d \in ends \cup {0} : d < e}
<1>1. e \in Nat /\ 0 < e
  BY DEF EndsType
<1>2. T \in SUBSET (0 .. e) /\ T # {}
  <2>1. \A d \in ends \cup {0} : d \in Nat
    BY DEF EndsType
  <2>2. \A d \in T : d \in 0 .. e
    BY <1>1, <2>1
  <2>3. 0 \in T
    BY <1>1
  <2> QED BY <2>2, <2>3
<1>3. PICK b \in T : \A d \in T : b >= d
  <2> HIDE DEF T
  <2> QED BY <1>1, <1>2, GreatestNatural
<1>4. \A d \in ends : d \in Nat
  BY DEF EndsType
<1>5. P(b) /\ b \in ends \cup {0}
  BY <1>3, <1>4
<1>6. Begin(ends, e) = CHOOSE x \in ends \cup {0} : P(x)
  BY DEF Begin
<1>7. Begin(ends, e) \in ends \cup {0} /\ P(Begin(ends, e))
  <2> HIDE DEF P
  <2> QED BY <1>5, <1>6
<1> QED BY <1>7, <1>4

\* A cycle lies between the begin and the end of its interval.
LEMMA CycleInPart ==
    ASSUME NEW ends, EndsType(ends), NEW cycle \in Nat, PartOf(ends, cycle) # 0
    PROVE  /\ PartOf(ends, cycle) \in ends
           /\ Begin(ends, PartOf(ends, cycle)) <= cycle
<1> DEFINE e == PartOf(ends, cycle)
           b == Begin(ends, e)
<1>1. e \in ends /\ e > cycle /\ \A d \in ends : d > cycle => e <= d
  BY PartOfCycle
<1>2. b \in ends \cup {0} /\ b \in Nat /\ b < e /\ e \in Nat
  BY <1>1, BeginOfPart DEF EndsType
<1> HIDE DEF e, b
<1>3. b <= cycle
  BY <1>1, <1>2
<1> QED BY <1>1, <1>3 DEF e, b

\* The cycles between them lie in that interval.
LEMMA PartOfItsCycles ==
    ASSUME NEW ends, EndsType(ends), NEW e \in ends, NEW cycle \in Nat,
           Begin(ends, e) <= cycle, cycle < e
    PROVE  PartOf(ends, cycle) = e
<1> DEFINE p == PartOf(ends, cycle)
<1>1. /\ p \in ends \cup {0}
      /\ p # 0 => p > cycle /\ \A d \in ends : d > cycle => p <= d
      /\ p = 0 => \A d \in ends : d <= cycle
  BY PartOfCycle
<1>2. /\ Begin(ends, e) \in Nat /\ e \in Nat
      /\ \A d \in ends : d < e => d <= Begin(ends, e)
      /\ \A d \in ends : d \in Nat
  BY BeginOfPart DEF EndsType
<1> HIDE DEF p
<1>3. p # 0 /\ p \in ends /\ p \in Nat
  BY <1>1, <1>2
<1>4. p <= e /\ ~(p < e)
  BY <1>1, <1>2, <1>3
<1> QED BY <1>2, <1>3, <1>4 DEF p

\* The next interval begins where this one ends.
LEMMA NextPart ==
    ASSUME NEW ends, EndsType(ends), NEW s \in ends \cup {0}, PartOf(ends, s) # 0
    PROVE  Begin(ends, PartOf(ends, s)) = s
<1> DEFINE e == PartOf(ends, s)
           b == Begin(ends, e)
<1>1. s \in Nat /\ \A d \in ends : d \in Nat
  BY DEF EndsType
<1>2. e \in ends /\ e > s /\ \A d \in ends : d > s => e <= d
  BY <1>1, PartOfCycle
<1>3. /\ b \in ends \cup {0} /\ b \in Nat /\ b < e
      /\ \A d \in ends : d < e => d <= b
  BY <1>2, BeginOfPart
<1>4. b <= s
  BY <1>1, <1>2, CycleInPart
<1> HIDE DEF e, b
<1>5. s <= b
  <2>1. CASE s = 0
    BY <2>1, <1>3
  <2>2. CASE s # 0
    BY <2>2, <1>1, <1>2, <1>3
  <2> QED BY <2>1, <2>2
<1> QED BY <1>1, <1>3, <1>4, <1>5 DEF e, b

-----------------------------------------------------------------------------
(***************************************************************************)
(* Cutting a queue.                                                        *)
(***************************************************************************)
Accs(ends) == [legal : BOOLEAN, cursor : Nat, local : [ends -> Nat],
               parts : [ends -> Seq(Commands)]]

\* A packet of the code and its copy in a part that begins at a cycle.
Copy(code, j, part, i, begin) ==
    /\ code[j].op = "packet" /\ part[i].op = "packet"
    /\ part[i].id = code[j].id
    /\ part[i].span = code[j].span /\ part[i].tail = code[j].tail
    /\ First(code, j) = begin + First(part, i)

\* Behind k commands: the clock of the whole code and those of the parts, and
\* who has a copy where.
CursorRight(code, k, a) == a.cursor = Behind(code)[k]

ClocksRight(ends, a) ==
    \A e \in ends :
        /\ a.local[e] = Behind(a.parts[e])[Len(a.parts[e])]
        /\ Begin(ends, e) + a.local[e] <= e

PartsFromCode(code, ends, k, a) ==
    \A e \in ends : \A i \in 1 .. Len(a.parts[e]) : \E j \in 1 .. k :
        /\ Copy(code, j, a.parts[e], i, Begin(ends, e))
        /\ PartOf(ends, First(code, j)) = e

CodeInParts(code, ends, k, a) ==
    \A j \in 1 .. k : code[j].op = "packet" =>
        \E e \in ends :
            /\ PartOf(ends, First(code, j)) = e
            /\ End(code, j) <= e
            /\ \E i \in 1 .. Len(a.parts[e]) :
                  Copy(code, j, a.parts[e], i, Begin(ends, e))

CutInv(code, ends, k, a) ==
    /\ a \in Accs(ends)
    /\ a.legal => /\ CursorRight(code, k, a) /\ ClocksRight(ends, a)
                  /\ PartsFromCode(code, ends, k, a) /\ CodeInParts(code, ends, k, a)

\* What one command does: it is refused, waited for, or appended to a part.
Refused(acc, new) == new = [acc EXCEPT !.legal = FALSE]

Waited(acc, c, first, new) ==
    /\ acc.legal /\ c.op = "nop"
    /\ new = [acc EXCEPT !.cursor = first]

Appended(ends, acc, c, first, part, new) ==
    /\ acc.legal /\ c.op = "packet" /\ part \in ends
    /\ first + c.span <= part
    /\ Begin(ends, part) + acc.local[part] <= first
    /\ new = [legal  |-> TRUE, cursor |-> first + c.span,
              local  |-> [acc.local EXCEPT ![part] = (first + c.span) - Begin(ends, part)],
              parts  |-> [acc.parts EXCEPT ![part] =
                            Append(@, WithWait(c, first - Begin(ends, part) - acc.local[part]))]]

LEMMA CutCases ==
    ASSUME NEW ends, EndsType(ends), NEW acc \in Accs(ends), NEW c \in Commands,
           NEW first, acc.cursor + c.wait = first,
           NEW part, PartOf(ends, first) = part,
           NEW new, Cut(ends, acc, c) = new
    PROVE  \/ Refused(acc, new)
           \/ Waited(acc, c, first, new)
           \/ Appended(ends, acc, c, first, part, new)
<1> DEFINE begin == Begin(ends, part)
           wait == Rebased(first, begin, acc.local[part])
           refused == /\ c.op # "nop"
                      /\ \/ c.op = "other"
                         \/ Crosses(part, first + c.span)
                         \/ first < begin + acc.local[part]
                         \/ wait > MaxWait
<1>1. /\ acc.cursor \in Nat /\ acc.local \in [ends -> Nat] /\ acc.legal \in BOOLEAN
      /\ c.wait \in Nat /\ c.span \in Nat /\ c.op \in {"packet", "nop", "other"}
      /\ c.op = "nop" => c.span = 0
  BY CommandType DEF Accs
<1>2. new = IF ~acc.legal \/ refused THEN [acc EXCEPT !.legal = FALSE]
            ELSE IF c.op = "nop" THEN [acc EXCEPT !.cursor = first + c.span]
            ELSE [legal  |-> TRUE, cursor |-> first + c.span,
                  local  |-> [acc.local EXCEPT ![part] = (first + c.span) - begin],
                  parts  |-> [acc.parts EXCEPT ![part] = Append(@, WithWait(c, wait))]]
  <2>1. new = CutAt(ends, acc, c, first, part)
    BY DEF Cut
  <2>2. CutAt(ends, acc, c, first, part) =
            IF ~acc.legal \/ refused THEN [acc EXCEPT !.legal = FALSE]
            ELSE IF c.op = "nop" THEN [acc EXCEPT !.cursor = first + c.span]
            ELSE [legal  |-> TRUE, cursor |-> first + c.span,
                  local  |-> [acc.local EXCEPT ![part] = (first + c.span) - begin],
                  parts  |-> [acc.parts EXCEPT ![part] = Append(@, WithWait(c, wait))]]
    BY DEF CutAt
  <2> QED
    <3> HIDE DEF refused, begin, wait
    <3> QED BY Zenon, <2>1, <2>2
<1>3. CASE ~acc.legal \/ refused
  <2> HIDE DEF refused, wait, begin
  <2> QED BY <1>2, <1>3 DEF Refused
<1>4. CASE acc.legal /\ ~refused /\ c.op = "nop"
  <2>1. new = [acc EXCEPT !.cursor = first + c.span]
    <3> HIDE DEF refused, wait, begin
    <3> QED BY <1>2, <1>4
  <2>2. first + c.span = first
    BY <1>1, <1>4
  <2> QED BY <2>1, <2>2, <1>4 DEF Waited
<1>5. CASE acc.legal /\ ~refused /\ c.op # "nop"
  <2>1. new = [legal  |-> TRUE, cursor |-> first + c.span,
               local  |-> [acc.local EXCEPT ![part] = (first + c.span) - begin],
               parts  |-> [acc.parts EXCEPT ![part] = Append(@, WithWait(c, wait))]]
    <3> HIDE DEF refused, wait, begin
    <3> QED BY <1>2, <1>5
  <2>2. /\ c.op = "packet" /\ ~Crosses(part, first + c.span)
        /\ ~(first < begin + acc.local[part])
    <3> HIDE DEF wait, begin
    <3> QED BY <1>1, <1>5
  <2>3. first \in Nat
    BY <1>1
  <2>4. part \in ends \cup {0}
    BY <2>3, PartOfCycle
  <2>5. part \in ends /\ part # 0 /\ ~(first + c.span > part)
    BY <2>2, <2>4 DEF Crosses
  <2>6. part \in Nat /\ acc.local[part] \in Nat /\ begin \in Nat
    BY <2>5, <1>1, BeginOfPart DEF EndsType
  <2>7. first + c.span <= part /\ begin + acc.local[part] <= first
    <3> HIDE DEF begin, wait, refused
    <3> QED BY <2>2, <2>3, <2>5, <2>6, <1>1
  <2>8. wait = first - begin - acc.local[part]
    BY DEF Rebased
  <2> QED
    <3> HIDE DEF wait
    <3> QED BY <2>1, <2>2, <2>5, <2>7, <2>8, <1>5 DEF Appended
<1> QED
  <2> HIDE DEF refused, wait, begin
  <2> QED BY <1>1, <1>3, <1>4, <1>5

\* Copies stay when the part grows.
LEMMA CopyStays ==
    ASSUME NEW code, NEW j, NEW s \in Seq(Commands), NEW c \in Commands,
           NEW i \in 1 .. Len(s), NEW begin,
           Copy(code, j, s, i, begin)
    PROVE  Copy(code, j, Append(s, c), i, begin)
<1>1. Append(s, c)[i] = s[i]
  OBVIOUS
<1>2. First(Append(s, c), i) = First(s, i)
  BY BehindAppend
<1> QED BY <1>1, <1>2 DEF Copy

\* A copy with another wait is a command, and the same but for the wait.
LEMMA WithWaitType ==
    ASSUME NEW c \in Commands, c.op = "packet", NEW wait \in Nat
    PROVE  LET d == WithWait(c, wait)
           IN  /\ d \in Commands /\ d.wait = wait
               /\ d.op = c.op /\ d.id = c.id /\ d.span = c.span /\ d.tail = c.tail
  BY DEF WithWait, Commands

\* Nothing is cut before the first command.
LEMMA NothingCutRight ==
    ASSUME NEW ends, EndsType(ends), NEW code \in Seq(Commands)
    PROVE  CutInv(code, ends, 0, NothingCut(ends))
<1> DEFINE a == NothingCut(ends)
<1>1. /\ a.cursor = 0 /\ a.local = [e \in ends |-> 0] /\ a.parts = [e \in ends |-> <<>>]
      /\ a \in Accs(ends)
  BY DEF NothingCut, Accs
<1>2. CursorRight(code, 0, a)
  BY <1>1, BehindSteps DEF CursorRight
<1>3. ClocksRight(ends, a)
  <2>1. <<>> \in Seq(Commands) /\ Len(<<>>) = 0
    OBVIOUS
  <2>2. Behind(<<>>)[0] = 0
    BY <2>1, BehindSteps
  <2>3. \A e \in ends : Begin(ends, e) \in Nat /\ Begin(ends, e) < e /\ e \in Nat
    BY BeginOfPart DEF EndsType
  <2> HIDE DEF a
  <2>4. \A e \in ends : a.local[e] = 0 /\ a.parts[e] = <<>>
    BY <1>1
  <2> QED BY <2>1, <2>2, <2>3, <2>4 DEF ClocksRight
<1>4. PartsFromCode(code, ends, 0, a)
  <2> HIDE DEF a
  <2>1. \A e \in ends : Len(a.parts[e]) = 0
    BY <1>1
  <2> QED BY <2>1 DEF PartsFromCode
<1>5. CodeInParts(code, ends, 0, a)
  BY DEF CodeInParts
<1> QED BY <1>1, <1>2, <1>3, <1>4, <1>5 DEF CutInv

\* The arithmetic of a new wait.
LEMMA Rebasing ==
    ASSUME NEW begin \in Nat, NEW local \in Nat, NEW first \in Nat, NEW span \in Nat,
           begin + local <= first
    PROVE  /\ first - begin - local \in Nat /\ (first + span) - begin \in Nat
           /\ local + (first - begin - local) = first - begin
           /\ local + (first - begin - local) + span = (first + span) - begin
           /\ begin + (first - begin) = first
           /\ begin + ((first + span) - begin) = first + span
  OBVIOUS

\* Each command keeps the parts right.
LEMMA CutRight ==
    ASSUME NEW ends, EndsType(ends), NEW code \in Seq(Commands),
           NEW k \in 1 .. Len(code), NEW acc, CutInv(code, ends, k - 1, acc)
    PROVE  CutInv(code, ends, k, Cut(ends, acc, code[k]))
<1> DEFINE c == code[k]
           first == acc.cursor + c.wait
           part == PartOf(ends, first)
           new == Cut(ends, acc, c)
<1>1. /\ acc \in Accs(ends) /\ c \in Commands
      /\ k \in Nat /\ k - 1 \in Nat /\ k - 1 \in 0 .. Len(code) /\ k \in 0 .. Len(code)
      /\ Len(code) \in Nat
      /\ \A j \in 1 .. k : j \in 1 .. k - 1 \/ j = k
      /\ \A j \in 1 .. k - 1 : j \in 1 .. k
  BY CommandOf DEF CutInv
<1>2. /\ acc.cursor \in Nat /\ acc.local \in [ends -> Nat] /\ acc.legal \in BOOLEAN
      /\ acc.parts \in [ends -> Seq(Commands)]
      /\ c.wait \in Nat /\ c.span \in Nat /\ first \in Nat
  BY <1>1, CommandType DEF Accs
<1>3. \/ Refused(acc, new)
      \/ Waited(acc, c, first, new)
      \/ Appended(ends, acc, c, first, part, new)
  <2> HIDE DEF c
  <2> QED BY <1>1, CutCases
<1>4. /\ Behind(code)[k] = Behind(code)[k - 1] + c.wait + c.span
      /\ First(code, k) = Behind(code)[k - 1] + c.wait
      /\ End(code, k) = First(code, k) + c.span
  BY BehindSteps
<1>5. acc.legal => /\ CursorRight(code, k - 1, acc) /\ ClocksRight(ends, acc)
                   /\ PartsFromCode(code, ends, k - 1, acc)
                   /\ CodeInParts(code, ends, k - 1, acc)
  BY DEF CutInv
<1>6. acc.legal => First(code, k) = first
  BY <1>4, <1>5 DEF CursorRight
<1> HIDE DEF c, first, part, new
<1>7. CASE Refused(acc, new)
  <2>1. new \in Accs(ends) /\ ~new.legal
    BY <1>1, <1>7 DEF Refused, Accs
  <2> QED BY <2>1 DEF CutInv, new, c
<1>8. CASE Waited(acc, c, first, new)
  <2>1. /\ acc.legal /\ c.op = "nop" /\ new = [acc EXCEPT !.cursor = first]
    BY <1>8 DEF Waited
  <2>2. /\ new \in Accs(ends) /\ new.cursor = first
        /\ new.local = acc.local /\ new.parts = acc.parts
    BY <2>1, <1>1, <1>2 DEF Accs
  <2>3. c.span = 0
    BY <2>1, <1>1, CommandType
  <2>4. CursorRight(code, k, new)
    BY <1>2, <1>4, <1>6, <2>1, <2>2, <2>3 DEF CursorRight
  <2>5. ClocksRight(ends, new)
    BY <1>5, <2>1, <2>2 DEF ClocksRight
  <2>6. PartsFromCode(code, ends, k, new)
    <3>1. PartsFromCode(code, ends, k - 1, acc)
      BY <1>5, <2>1
    <3> QED BY <3>1, <1>1, <2>2 DEF PartsFromCode
  <2>7. CodeInParts(code, ends, k, new)
    <3>1. CodeInParts(code, ends, k - 1, acc)
      BY <1>5, <2>1
    <3>2. code[k].op # "packet"
      BY <2>1 DEF c
    <3> QED BY <3>1, <3>2, <1>1, <2>2 DEF CodeInParts
  <2> QED BY <2>2, <2>4, <2>5, <2>6, <2>7 DEF CutInv, new, c
<1>9. CASE Appended(ends, acc, c, first, part, new)
  <2> DEFINE begin == Begin(ends, part)
             wait == first - begin - acc.local[part]
             d == WithWait(c, wait)
             s == acc.parts[part]
  <2>1. /\ acc.legal /\ c.op = "packet" /\ part \in ends
        /\ first + c.span <= part /\ begin + acc.local[part] <= first
        /\ new.legal /\ new.cursor = first + c.span
        /\ new.local = [acc.local EXCEPT ![part] = (first + c.span) - begin]
        /\ new.parts = [acc.parts EXCEPT ![part] = Append(s, d)]
        /\ new = [legal |-> new.legal, cursor |-> new.cursor,
                  local |-> new.local, parts |-> new.parts]
    BY <1>9 DEF Appended
  <2>2. /\ begin \in Nat /\ acc.local[part] \in Nat /\ part \in Nat /\ s \in Seq(Commands)
        /\ wait \in Nat /\ (first + c.span) - begin \in Nat
    <3>1. begin \in Nat /\ acc.local[part] \in Nat /\ part \in Nat /\ s \in Seq(Commands)
      BY <2>1, <1>2, BeginOfPart DEF EndsType
    <3> HIDE DEF begin, s
    <3>2. wait \in Nat /\ (first + c.span) - begin \in Nat
      BY <3>1, <2>1, <1>2, Rebasing
    <3> QED BY <3>1, <3>2
  <2>3. /\ d \in Commands /\ d.wait = wait
        /\ d.op = "packet" /\ d.id = c.id /\ d.span = c.span /\ d.tail = c.tail
    <3> HIDE DEF wait
    <3> QED BY <1>1, <2>1, <2>2, WithWaitType
  <2> HIDE DEF begin, d, s
  <2>4. /\ Append(s, d) \in Seq(Commands) /\ Len(Append(s, d)) = Len(s) + 1
        /\ Len(s) \in Nat /\ Append(s, d)[Len(s) + 1] = d
        /\ \A i \in 1 .. Len(s) + 1 : i \in 1 .. Len(s) \/ i = Len(s) + 1
        /\ \A i \in 1 .. Len(s) : i \in 1 .. Len(s) + 1
        /\ Len(s) + 1 \in 1 .. Len(s) + 1
    BY <2>2, <2>3
  <2>5. /\ new.local[part] = (first + c.span) - begin /\ new.parts[part] = Append(s, d)
        /\ \A e \in ends : e # part => new.local[e] = acc.local[e] /\ new.parts[e] = acc.parts[e]
    BY <2>1, <1>2
  <2>6. new \in Accs(ends)
    <3>1. new.local \in [ends -> Nat] /\ new.parts \in [ends -> Seq(Commands)]
      BY <2>1, <2>2, <2>4, <1>2
    <3>2. new.cursor \in Nat /\ new.legal = TRUE
      BY <2>1, <1>2, <1>9 DEF Appended
    <3> QED BY <3>1, <3>2, <2>1 DEF Accs
  <2>7. CursorRight(code, k, new)
    BY <1>4, <1>6, <2>1 DEF CursorRight
  <2>8. acc.local[part] = Behind(s)[Len(s)] /\ begin + acc.local[part] <= part
    BY <1>5, <2>1 DEF ClocksRight, s, begin
  <2>9. /\ Behind(Append(s, d))[Len(s) + 1] = (first + c.span) - begin
        /\ First(Append(s, d), Len(s) + 1) = first - begin
    <3>1. /\ Behind(Append(s, d))[Len(s) + 1] = Behind(s)[Len(s)] + d.wait + d.span
          /\ First(Append(s, d), Len(s) + 1) = Behind(s)[Len(s)] + d.wait
      BY <2>2, <2>3, BehindAppend
    <3>2. /\ acc.local[part] + wait = first - begin
          /\ acc.local[part] + wait + c.span = (first + c.span) - begin
      <4> DEFINE l == acc.local[part]
                 sp == c.span
      <4>1. begin \in Nat /\ l \in Nat /\ first \in Nat /\ sp \in Nat /\ begin + l <= first
        BY <2>1, <2>2, <1>2
      <4> HIDE DEF l, sp
      <4>2. l + (first - begin - l) = first - begin
        BY <4>1
      <4>3. l + (first - begin - l) + sp = (first + sp) - begin
        BY <4>1
      <4> QED BY <4>2, <4>3 DEF l, sp
    <3> HIDE DEF wait
    <3> QED BY <3>1, <3>2, <2>3, <2>8
  <2>10. ClocksRight(ends, new)
    <3>1. SUFFICES ASSUME NEW e \in ends
                   PROVE  /\ new.local[e] = Behind(new.parts[e])[Len(new.parts[e])]
                          /\ Begin(ends, e) + new.local[e] <= e
      BY DEF ClocksRight
    <3>2. CASE e = part
      <4>1. new.local[e] = Behind(new.parts[e])[Len(new.parts[e])]
        BY <3>2, <2>4, <2>5, <2>9
      <4>2. Begin(ends, e) + new.local[e] <= e
        BY <3>2, <2>1, <2>2, <2>5, <1>2 DEF begin
      <4> QED BY <4>1, <4>2
    <3>3. CASE e # part
      BY <3>3, <2>5, <1>5, <2>1 DEF ClocksRight
    <3> QED BY <3>2, <3>3
  <2>11. Copy(code, k, Append(s, d), Len(s) + 1, begin)
    <3>1. First(code, k) = begin + First(Append(s, d), Len(s) + 1)
      BY <2>1, <2>2, <2>9, <1>2, <1>6
    <3> QED BY <3>1, <2>1, <2>3, <2>4 DEF Copy, c
  <2>12. part = PartOf(ends, First(code, k)) /\ End(code, k) <= part
    BY <1>4, <1>6, <2>1 DEF part
  <2>13. PartsFromCode(code, ends, k, new)
    <3>1. SUFFICES ASSUME NEW e \in ends, NEW i \in 1 .. Len(new.parts[e])
                   PROVE  \E j \in 1 .. k :
                             /\ Copy(code, j, new.parts[e], i, Begin(ends, e))
                             /\ PartOf(ends, First(code, j)) = e
      BY DEF PartsFromCode
    <3>2. PartsFromCode(code, ends, k - 1, acc)
      BY <1>5, <2>1
    <3>3. CASE e # part
      BY <3>2, <3>3, <2>5, <1>1 DEF PartsFromCode
    <3>4. CASE e = part /\ i = Len(s) + 1
      <4>1. k \in 1 .. k
        BY <1>1
      <4> QED BY <4>1, <3>4, <2>5, <2>11, <2>12 DEF begin
    <3>5. CASE e = part /\ i \in 1 .. Len(s)
      <4>1. PICK j \in 1 .. k - 1 : /\ Copy(code, j, s, i, begin)
                                    /\ PartOf(ends, First(code, j)) = e
        BY <3>2, <3>5 DEF PartsFromCode, begin, s
      <4>2. Copy(code, j, Append(s, d), i, begin)
        BY <4>1, <3>5, <2>2, <2>3, CopyStays
      <4> QED BY <4>1, <4>2, <3>5, <2>5, <1>1 DEF begin
    <3> QED BY <3>3, <3>4, <3>5, <2>4, <2>5
  <2>14. CodeInParts(code, ends, k, new)
    <3>1. SUFFICES ASSUME NEW j \in 1 .. k, code[j].op = "packet"
                   PROVE  \E e \in ends :
                             /\ PartOf(ends, First(code, j)) = e
                             /\ End(code, j) <= e
                             /\ \E i \in 1 .. Len(new.parts[e]) :
                                   Copy(code, j, new.parts[e], i, Begin(ends, e))
      BY DEF CodeInParts
    <3>2. CodeInParts(code, ends, k - 1, acc)
      BY <1>5, <2>1
    <3>3. CASE j = k
      <4>1. Len(s) + 1 \in 1 .. Len(new.parts[part])
        BY <2>4, <2>5
      <4>2. Copy(code, j, new.parts[part], Len(s) + 1, Begin(ends, part))
        BY <3>3, <2>5, <2>11 DEF begin
      <4> QED BY <3>3, <4>1, <4>2, <2>1, <2>12
    <3>4. CASE j \in 1 .. k - 1
      <4>1. PICK e \in ends :
                /\ PartOf(ends, First(code, j)) = e
                /\ End(code, j) <= e
                /\ \E i \in 1 .. Len(acc.parts[e]) :
                      Copy(code, j, acc.parts[e], i, Begin(ends, e))
        BY <3>1, <3>2, <3>4 DEF CodeInParts
      <4>2. PICK i \in 1 .. Len(acc.parts[e]) :
                Copy(code, j, acc.parts[e], i, Begin(ends, e))
        BY <4>1
      <4>3. CASE e # part
        BY <4>1, <4>2, <4>3, <2>5
      <4>4. CASE e = part
        <5>1. i \in 1 .. Len(s) /\ Copy(code, j, s, i, begin)
          BY <4>2, <4>4 DEF s, begin
        <5>2. Copy(code, j, Append(s, d), i, begin)
          BY <5>1, <2>2, <2>3, CopyStays
        <5>3. i \in 1 .. Len(new.parts[e])
          BY <5>1, <4>4, <2>4, <2>5
        <5> QED BY <5>2, <5>3, <4>1, <4>4, <2>5 DEF begin
      <4> QED BY <4>3, <4>4
    <3> QED BY <3>3, <3>4, <1>1
  <2> QED BY <2>6, <2>7, <2>10, <2>13, <2>14 DEF CutInv, new, c
<1> QED BY <1>3, <1>7, <1>8, <1>9

\* The recursive function exists.
LEMMA CuttingEquation ==
    ASSUME NEW ends, NEW code \in Seq(Commands)
    PROVE  Cutting(code, ends) =
               [k \in 0 .. Len(code) |->
                   IF k = 0 THEN NothingCut(ends)
                   ELSE Cut(ends, Cutting(code, ends)[k - 1], code[k])]
<1> DEFINE Def(g, n) ==
               g = [k \in 0 .. n |->
                       IF k = 0 THEN NothingCut(ends) ELSE Cut(ends, g[k - 1], code[k])]
           S == {n \in 0 .. Len(code) : \E g : Def(g, n)}
<1>1. 0 \in S
  <2>1. Def([k \in 0 .. 0 |-> NothingCut(ends)], 0)
    OBVIOUS
  <2>2. 0 \in 0 .. Len(code)
    BY CommandOf
  <2> HIDE DEF Def
  <2> QED BY <2>1, <2>2
<1>2. ASSUME NEW n \in 0 .. Len(code) - 1, n \in S PROVE n + 1 \in S
  <2>1. PICK g : Def(g, n)
    BY <1>2
  <2> DEFINE h == [k \in 0 .. n + 1 |->
                      IF k = n + 1 THEN Cut(ends, g[n], code[n + 1]) ELSE g[k]]
  <2>2. \A k \in 0 .. n : h[k] = g[k]
    OBVIOUS
  <2>3. \A k \in 0 .. n + 1 :
            h[k] = IF k = 0 THEN NothingCut(ends) ELSE Cut(ends, h[k - 1], code[k])
    <3>1. h[n + 1] = Cut(ends, h[n], code[n + 1])
      BY <2>2
    <3>2. \A k \in 0 .. n :
              g[k] = IF k = 0 THEN NothingCut(ends) ELSE Cut(ends, g[k - 1], code[k])
      BY <2>1
    <3>3. \A k \in 0 .. n : k # 0 => k - 1 \in 0 .. n
      OBVIOUS
    <3> HIDE DEF h
    <3> QED BY <3>1, <3>2, <3>3, <2>2
  <2>4. Def(h, n + 1)
    <3>1. h = [k \in 0 .. n + 1 |-> h[k]]
      OBVIOUS
    <3> HIDE DEF h
    <3> QED BY <3>1, <2>3
  <2> HIDE DEF Def, h
  <2> QED BY <2>4, CommandOf
<1>3. Len(code) \in S
  <2> HIDE DEF S
  <2>1. \A n \in 0 .. Len(code) : n \in S
    BY <1>1, <1>2, UpTo, CommandOf
  <2> QED BY <2>1, CommandOf
<1>4. \E g : Def(g, Len(code))
  BY <1>3
<1>5. Cutting(code, ends) = CHOOSE g : Def(g, Len(code))
  BY DEF Cutting
<1>6. Def(Cutting(code, ends), Len(code))
  <2> HIDE DEF Def
  <2> QED BY <1>4, <1>5
<1> QED BY <1>6

\* A split is right if it is legal: each part holds copies of exactly the
\* packets of its interval, at the same distance from its begin.
LEMMA SplitRight ==
    ASSUME NEW ends, EndsType(ends), NEW code \in Seq(Commands)
    PROVE  CutInv(code, ends, Len(code), Split(code, ends))
<1> DEFINE C == Cutting(code, ends)
           S == {k \in 0 .. Len(code) : CutInv(code, ends, k, C[k])}
<1>1. \A k \in 0 .. Len(code) :
          C[k] = IF k = 0 THEN NothingCut(ends) ELSE Cut(ends, C[k - 1], code[k])
  <2> DEFINE F(g) == [k \in 0 .. Len(code) |->
                        IF k = 0 THEN NothingCut(ends) ELSE Cut(ends, g[k - 1], code[k])]
  <2>1. C = F(C)
    BY CuttingEquation
  <2>2. \A k \in 0 .. Len(code) :
            F(C)[k] = IF k = 0 THEN NothingCut(ends) ELSE Cut(ends, C[k - 1], code[k])
    <3> HIDE DEF C
    <3> QED OBVIOUS
  <2> HIDE DEF C, F
  <2> QED BY <2>1, <2>2
<1> HIDE DEF C
<1>2. 0 \in S
  <2>1. C[0] = NothingCut(ends)
    BY <1>1, CommandOf
  <2> QED BY <2>1, NothingCutRight, CommandOf
<1>3. ASSUME NEW k \in 0 .. Len(code) - 1, k \in S PROVE k + 1 \in S
  <2>1. k + 1 \in 1 .. Len(code) /\ (k + 1) - 1 = k /\ k + 1 \in 0 .. Len(code)
    BY CommandOf
  <2>2. C[k + 1] = Cut(ends, C[k], code[k + 1])
    BY <1>1, <2>1
  <2>3. CutInv(code, ends, (k + 1) - 1, C[k])
    BY <1>3, <2>1
  <2>4. CutInv(code, ends, k + 1, Cut(ends, C[k], code[k + 1]))
    BY <2>1, <2>3, CutRight
  <2> QED BY <2>1, <2>2, <2>4
<1>4. \A k \in 0 .. Len(code) : k \in S
  <2> HIDE DEF S
  <2> QED BY <1>2, <1>3, UpTo, CommandOf
<1>5. CutInv(code, ends, Len(code), C[Len(code)])
  BY <1>4, CommandOf
<1> QED BY <1>5 DEF Split, C

-----------------------------------------------------------------------------
(***************************************************************************)
(* The segments of a program that was accepted.                            *)
(***************************************************************************)
LEMMA ProgramType ==
    ASSUME NEW prog \in Programs
    PROVE  /\ prog.code \in [Queues -> Seq(Commands)]
           /\ \A q \in Queues : prog.code[q] \in Seq(Commands)
           /\ prog.maxCycle \in Nat /\ prog.drains \subseteq Nat
           /\ EndsType(Ends(prog))
           /\ prog.maxCycle + 1 \in Ends(prog)
           /\ \A e \in Ends(prog) : e <= prog.maxCycle + 1
           /\ \A e \in Ends(prog) : e # prog.maxCycle + 1 => e \in Drains(prog)
<1>1. /\ prog.code \in [Queues -> Seq(Commands)]
      /\ prog.maxCycle \in Nat /\ prog.drains \subseteq Nat
  BY ProgramsAssumption
<1>2. \A d \in Drains(prog) : d \in Nat /\ 0 < d /\ d < prog.maxCycle
  BY <1>1 DEF Drains
<1>3. \A e \in Ends(prog) : e \in Nat /\ 0 < e /\ e <= prog.maxCycle + 1
  BY <1>1, <1>2 DEF Ends
<1> QED BY <1>1, <1>3 DEF Ends, EndsType

\* Parts against the whole code.
LEMMA PartsRight ==
    ASSUME NEW prog \in Programs, Planned(prog), NEW q \in Selected(prog), q \in Queues
    PROVE  LET ends == Ends(prog)
               code == prog.code[q]
               part(e) == Segments(prog)[e].code[q]
           IN  /\ \A e \in ends : part(e) \in Seq(Commands)
               /\ \A e \in ends : \A i \in 1 .. Len(part(e)) : \E j \in 1 .. Len(code) :
                     /\ Copy(code, j, part(e), i, Begin(ends, e))
                     /\ PartOf(ends, First(code, j)) = e
               /\ \A j \in 1 .. Len(code) : code[j].op = "packet" =>
                     \E e \in ends :
                        /\ PartOf(ends, First(code, j)) = e
                        /\ End(code, j) <= e
                        /\ \E i \in 1 .. Len(part(e)) :
                              Copy(code, j, part(e), i, Begin(ends, e))
<1> DEFINE ends == Ends(prog)
           code == prog.code[q]
           split == Split(code, ends)
<1>1. EndsType(ends) /\ code \in Seq(Commands)
  BY ProgramType
<1>2. CutInv(code, ends, Len(code), split)
  <2> HIDE DEF ends, code
  <2> QED BY <1>1, SplitRight
<1>3. Splits(prog)[q] = split
  BY DEF Splits
<1>4. split.legal
  BY <1>3 DEF Planned
<1>5. \A e \in ends : Segments(prog)[e].code[q] = split.parts[e]
  BY <1>3 DEF Segments
<1>6. /\ split.parts \in [ends -> Seq(Commands)]
      /\ PartsFromCode(code, ends, Len(code), split)
      /\ CodeInParts(code, ends, Len(code), split)
  BY <1>2, <1>4 DEF CutInv, Accs
<1> HIDE DEF ends, code, split
<1>7. /\ \A e \in ends : split.parts[e] \in Seq(Commands)
      /\ \A e \in ends : \A i \in 1 .. Len(split.parts[e]) : \E j \in 1 .. Len(code) :
            /\ Copy(code, j, split.parts[e], i, Begin(ends, e))
            /\ PartOf(ends, First(code, j)) = e
      /\ \A j \in 1 .. Len(code) : code[j].op = "packet" =>
            \E e \in ends :
               /\ PartOf(ends, First(code, j)) = e
               /\ End(code, j) <= e
               /\ \E i \in 1 .. Len(split.parts[e]) :
                     Copy(code, j, split.parts[e], i, Begin(ends, e))
  BY <1>6 DEF PartsFromCode, CodeInParts
<1> DEFINE part(e) == Segments(prog)[e].code[q]
<1>8. /\ \A e \in ends : part(e) \in Seq(Commands)
      /\ \A e \in ends : \A i \in 1 .. Len(part(e)) : \E j \in 1 .. Len(code) :
            /\ Copy(code, j, part(e), i, Begin(ends, e))
            /\ PartOf(ends, First(code, j)) = e
      /\ \A j \in 1 .. Len(code) : code[j].op = "packet" =>
            \E e \in ends :
               /\ PartOf(ends, First(code, j)) = e
               /\ End(code, j) <= e
               /\ \E i \in 1 .. Len(part(e)) :
                     Copy(code, j, part(e), i, Begin(ends, e))
  BY <1>5, <1>7
<1> QED BY <1>8 DEF ends, code

\* Cycles of packets and of their copies.
LEMMA CopyCycles ==
    ASSUME NEW code \in Seq(Commands), NEW j \in 1 .. Len(code),
           NEW part \in Seq(Commands), NEW i \in 1 .. Len(part),
           NEW begin \in Nat, Copy(code, j, part, i, begin)
    PROVE  /\ First(part, i) \in Nat /\ First(code, j) \in Nat
           /\ End(part, i) \in Nat /\ End(code, j) \in Nat
           /\ First(code, j) = begin + First(part, i)
           /\ End(code, j) = begin + End(part, i)
<1>1. /\ First(part, i) \in Nat /\ First(code, j) \in Nat
      /\ End(part, i) = First(part, i) + part[i].span
      /\ End(code, j) = First(code, j) + code[j].span
  BY BehindSteps
<1>2. part[i].span \in Nat /\ code[j].span \in Nat
  BY CommandOf, CommandType
<1>3. part[i].span = code[j].span /\ First(code, j) = begin + First(part, i)
  BY DEF Copy
<1> QED BY <1>1, <1>2, <1>3

\* While a segment runs its queues start what the whole code starts, and
\* issue for what the whole code issues for.
LEMMA SegmentIssues ==
    ASSUME NEW prog \in Programs, Planned(prog), NEW q \in Queues, q \in Selected(prog),
           NEW e \in Ends(prog), NEW cycle \in Nat,
           Begin(Ends(prog), e) <= cycle, cycle < e
    PROVE  LET part  == Segments(prog)[e].code[q]
               code  == prog.code[q]
               local == cycle - Begin(Ends(prog), e)
           IN  /\ StartingAt(part, local) = StartingAt(code, cycle)
               /\ \A c \in IssuingAt(part, local) : \E k \in PacketsOf(code) :
                     First(code, k) <= cycle /\ cycle < End(code, k) /\ code[k].tail = c.tail
<1> DEFINE part == Segments(prog)[e].code[q]
           code == prog.code[q]
           ends == Ends(prog)
           begin == Begin(ends, e)
           local == cycle - begin
<1>1. /\ part \in Seq(Commands) /\ code \in Seq(Commands) /\ EndsType(ends)
      /\ begin \in Nat /\ local \in Nat /\ cycle = begin + local
  <2>1. part \in Seq(Commands)
    BY PartsRight
  <2>2. code \in Seq(Commands) /\ EndsType(ends)
    BY ProgramType
  <2>3. begin \in Nat
    BY <2>2, BeginOfPart
  <2> HIDE DEF part, code, ends
  <2> QED BY <2>1, <2>2, <2>3 DEF ends
<1>2. \A i \in 1 .. Len(part) : \E j \in 1 .. Len(code) : Copy(code, j, part, i, begin)
  BY PartsRight
<1>3. \A j \in 1 .. Len(code) : code[j].op = "packet" /\ PartOf(ends, First(code, j)) = e =>
          \E i \in 1 .. Len(part) : Copy(code, j, part, i, begin)
  BY PartsRight
<1>4. PartOf(ends, cycle) = e
  BY <1>1, PartOfItsCycles
<1>5. /\ DOMAIN part = 1 .. Len(part) /\ DOMAIN code = 1 .. Len(code)
  BY <1>1, CommandOf
<1> HIDE DEF part, code, ends, begin, local
<1>6. ASSUME NEW id \in StartingAt(part, local) PROVE id \in StartingAt(code, cycle)
  <2>1. PICK i \in 1 .. Len(part) : part[i].op = "packet" /\ First(part, i) = local /\ id = part[i].id
    BY <1>5, <1>6 DEF StartingAt, PacketsOf
  <2>2. PICK j \in 1 .. Len(code) : Copy(code, j, part, i, begin)
    BY <1>2
  <2>3. First(code, j) = cycle
    BY <1>1, <2>1, <2>2, CopyCycles
  <2> QED BY <1>5, <2>1, <2>2, <2>3 DEF StartingAt, PacketsOf, Copy
<1>7. ASSUME NEW id \in StartingAt(code, cycle) PROVE id \in StartingAt(part, local)
  <2>1. PICK j \in 1 .. Len(code) : code[j].op = "packet" /\ First(code, j) = cycle /\ id = code[j].id
    BY <1>5, <1>7 DEF StartingAt, PacketsOf
  <2>2. PICK i \in 1 .. Len(part) : Copy(code, j, part, i, begin)
    BY <1>3, <1>4, <2>1
  <2>3. First(part, i) = local
    BY <1>1, <2>1, <2>2, CopyCycles
  <2> QED BY <1>5, <2>1, <2>2, <2>3 DEF StartingAt, PacketsOf, Copy
<1>8. StartingAt(part, local) = StartingAt(code, cycle)
  BY <1>6, <1>7
<1>9. ASSUME NEW c \in IssuingAt(part, local)
      PROVE  \E k \in PacketsOf(code) :
                First(code, k) <= cycle /\ cycle < End(code, k) /\ code[k].tail = c.tail
  <2>1. PICK i \in 1 .. Len(part) : /\ part[i].op = "packet" /\ First(part, i) <= local
                                    /\ local < End(part, i) /\ c = part[i]
    BY <1>5, <1>9 DEF IssuingAt, PacketsOf
  <2>2. PICK j \in 1 .. Len(code) : Copy(code, j, part, i, begin)
    BY <1>2
  <2>3. First(code, j) <= cycle /\ cycle < End(code, j)
    BY <1>1, <2>1, <2>2, CopyCycles
  <2>4. code[j].op = "packet" /\ code[j].tail = c.tail
    BY <2>1, <2>2 DEF Copy
  <2> QED BY <1>5, <2>3, <2>4 DEF PacketsOf
<1> QED BY <1>8, <1>9 DEF part, code, ends, begin, local

\* At its end, a segment has issued all it has.
LEMMA SegmentDone ==
    ASSUME NEW prog \in Programs, Planned(prog), NEW q \in Queues, q \in Selected(prog),
           NEW e \in Ends(prog)
    PROVE  LET part == Segments(prog)[e].code[q]
           IN  \A i \in DOMAIN part : Begin(Ends(prog), e) + End(part, i) <= e
<1> DEFINE part == Segments(prog)[e].code[q]
           code == prog.code[q]
           ends == Ends(prog)
           begin == Begin(ends, e)
<1>1. /\ part \in Seq(Commands) /\ code \in Seq(Commands) /\ EndsType(ends)
  BY PartsRight, ProgramType
<1>2. begin \in Nat
  BY <1>1, BeginOfPart
<1>3. /\ \A i \in 1 .. Len(part) : \E j \in 1 .. Len(code) :
            Copy(code, j, part, i, begin) /\ PartOf(ends, First(code, j)) = e
      /\ \A j \in 1 .. Len(code) : code[j].op = "packet" =>
            End(code, j) <= PartOf(ends, First(code, j))
  BY PartsRight
<1>4. DOMAIN part = 1 .. Len(part)
  BY <1>1, CommandOf
<1> HIDE DEF part, code, ends, begin
<1>5. ASSUME NEW i \in DOMAIN part PROVE begin + End(part, i) <= e
  <2>1. PICK j \in 1 .. Len(code) :
            Copy(code, j, part, i, begin) /\ PartOf(ends, First(code, j)) = e
    BY <1>3, <1>4
  <2>2. End(code, j) = begin + End(part, i)
    BY <1>1, <1>2, <1>4, <2>1, CopyCycles
  <2> QED BY <1>3, <2>1, <2>2 DEF Copy
<1> QED BY <1>5 DEF part, begin, ends

\* No packet of a queue that was cut crosses a drain.
LEMMA NothingCrosses ==
    ASSUME NEW prog \in Programs, Planned(prog), NEW q \in Queues, q \in Selected(prog),
           NEW d \in Drains(prog), NEW k \in PacketsOf(prog.code[q]),
           First(prog.code[q], k) < d
    PROVE  End(prog.code[q], k) <= d
<1> DEFINE code == prog.code[q]
           ends == Ends(prog)
           e == PartOf(ends, First(code, k))
<1>1. code \in Seq(Commands) /\ EndsType(ends) /\ d \in ends
  BY ProgramType DEF Ends
<1>2. k \in 1 .. Len(code) /\ code[k].op = "packet"
  BY <1>1, CommandOf DEF PacketsOf
<1>3. e \in ends /\ End(code, k) <= e
  BY <1>2, PartsRight
<1>4. First(code, k) \in Nat /\ End(code, k) \in Nat
  <2> HIDE DEF code
  <2>1. First(code, k) \in Nat /\ End(code, k) = Behind(code)[k] /\ Behind(code)[k] \in Nat
    <3>1. k \in 0 .. Len(code)
      BY <1>1, <1>2
    <3> QED BY <1>1, <1>2, <3>1, BehindSteps
  <2> QED BY <2>1
<1> HIDE DEF code, ends
<1>5. e <= d
  <2>1. e # 0
    BY <1>3, <1>1 DEF EndsType
  <2> QED BY <2>1, <1>1, <1>4, PartOfCycle DEF code
<1>6. e \in Nat /\ d \in Nat
  BY <1>1, <1>3 DEF EndsType
<1> HIDE DEF e
<1> QED BY <1>3, <1>4, <1>5, <1>6 DEF code

-----------------------------------------------------------------------------
(***************************************************************************)
(* The inductive invariant.                                                *)
(***************************************************************************)
TypeOK ==
    /\ program \in Programs
    /\ phase \in {"idle", "running", "broken"}
    /\ segment \in Nat /\ boundary \in Nat /\ L \in Nat /\ tail \in Nat
    /\ installed \in [Queues -> Seq(Commands)]
    /\ origin \in [Queues -> Nat]
    /\ issued \in [Queues -> SUBSET (Nat \X Nat)]

\* A queue that is cut holds its part of a segment, rebased to the begin of
\* that segment; any other queue holds all its code.
Holds(prog, e, inst, orig) ==
    \A q \in Queues :
        IF q \in Selected(prog)
        THEN inst[q] = Segments(prog)[e].code[q] /\ orig[q] = Begin(Ends(prog), e)
        ELSE inst[q] = prog.code[q] /\ orig[q] = 0

\* A cycle is one of a segment, if there are segments.
InSegment(prog, e, cycle) ==
    Selected(prog) # {} =>
        /\ Planned(prog) /\ e \in Ends(prog)
        /\ Begin(Ends(prog), e) <= cycle /\ cycle < e

\* Nothing runs before the program is loaded.
IdleInv ==
    phase = "idle" =>
        /\ segments = <<>> /\ boundary = 0 /\ L = 0 /\ tail = 0
        /\ origin = [q \in Queues |-> 0]

\* The segment that runs is the one of the logical clock, and the lengths add
\* up to its end.
SegmentInv ==
    phase # "idle" =>
        /\ Holds(program, segment, installed, origin)
        /\ Selected(program) = {} => segments = <<>>
        /\ Selected(program) # {} =>
              /\ Planned(program) /\ segments = Segments(program)
              /\ segment \in Ends(program) /\ boundary = segment
              /\ Begin(Ends(program), segment) <= L /\ L <= segment

\* The VXM is busy because of a packet of the whole code.
TailInv ==
    tail > 0 =>
        \E q \in VxmQueues : \E k \in PacketsOf(program.code[q]) :
            /\ First(program.code[q], k) < L
            /\ End(program.code[q], k) + program.code[q][k].tail >= L + tail

IInv == TypeOK /\ IdleInv /\ SegmentInv /\ TailInv /\ ReloadsSucceed

-----------------------------------------------------------------------------
\* What the queues issue in a cycle is what the whole code issues there.
LEMMA HeldCodeIssues ==
    ASSUME NEW prog \in Programs, NEW e, NEW inst, NEW orig, NEW cycle \in Nat,
           Holds(prog, e, inst, orig),
           InSegment(prog, e, cycle),
           NEW q \in Queues
    PROVE  /\ StartingAt(inst[q], cycle - orig[q]) = StartingAt(prog.code[q], cycle)
           /\ \A c \in IssuingAt(inst[q], cycle - orig[q]) : \E k \in PacketsOf(prog.code[q]) :
                 /\ First(prog.code[q], k) <= cycle /\ cycle < End(prog.code[q], k)
                 /\ prog.code[q][k].tail = c.tail
<1>1. CASE q \in Selected(prog)
  <2>1. inst[q] = Segments(prog)[e].code[q] /\ orig[q] = Begin(Ends(prog), e)
    BY <1>1 DEF Holds
  <2> QED BY <1>1, <2>1, SegmentIssues DEF InSegment
<1>2. CASE q \notin Selected(prog)
  <2>1. inst[q] = prog.code[q] /\ orig[q] = 0
    BY <1>2 DEF Holds
  <2>2. cycle - orig[q] = cycle
    BY <2>1
  <2>3. \A c \in IssuingAt(prog.code[q], cycle) : \E k \in PacketsOf(prog.code[q]) :
            /\ First(prog.code[q], k) <= cycle /\ cycle < End(prog.code[q], k)
            /\ prog.code[q][k].tail = c.tail
    BY DEF IssuingAt
  <2> QED BY <2>1, <2>2, <2>3
<1> QED BY <1>1, <1>2

\* Starting ids are numbers.
LEMMA StartingType ==
    ASSUME NEW code \in Seq(Commands), NEW cycle
    PROVE  StartingAt(code, cycle) \subseteq Nat
<1>1. \A k \in PacketsOf(code) : code[k].id \in Nat
  BY CommandOf, CommandType DEF PacketsOf
<1> QED BY <1>1 DEF StartingAt

\* The queues that are selected are queues.
LEMMA SelectedAreQueues ==
    ASSUME NEW prog PROVE Selected(prog) \subseteq Queues
  BY DEF Selected

\* Arithmetic of lengths, and of a tail that runs out.
LEMMA Lengths == \A x, y \in Nat : x + (y - x) = y /\ y - 0 = y
  OBVIOUS

LEMMA TailRunsOut ==
    ASSUME NEW l \in Nat, NEW t \in Nat, NEW l1 \in Nat, NEW t1 \in Nat, NEW e \in Nat,
           l1 \in {l, l + 1}, t1 \in {t, t - 1}, l1 = l \/ t1 = t - 1, e >= l + t
    PROVE  e >= l1 + t1
  OBVIOUS

\* The domain of the segments.
LEMMA SegmentsOf ==
    ASSUME NEW prog
    PROVE  /\ DOMAIN Segments(prog) = Ends(prog)
           /\ \A e \in Ends(prog) :
                 /\ Segments(prog)[e].length = e - Begin(Ends(prog), e)
                 /\ DOMAIN Segments(prog)[e].code = Selected(prog)
  BY DEF Segments

\* The reload at the beginning of a step leaves the segment of this cycle.
LEMMA AfterReload ==
    ASSUME IInv, phase = "running", L <= program.maxCycle, Reload
    PROVE  /\ Holds(program, segment', installed', origin')
           /\ InSegment(program, segment', L)
           /\ Selected(program) # {} => boundary' = segment'
           /\ segment' \in Nat /\ boundary' \in Nat
           /\ installed' \in [Queues -> Seq(Commands)]
           /\ origin' \in [Queues -> Nat]
<1> DEFINE ends == Ends(program)
<1>1. /\ program \in Programs /\ L \in Nat /\ segment \in Nat /\ boundary \in Nat
      /\ installed \in [Queues -> Seq(Commands)] /\ origin \in [Queues -> Nat]
  BY DEF IInv, TypeOK
<1>2. /\ Holds(program, segment, installed, origin)
      /\ Selected(program) = {} => segments = <<>>
      /\ Selected(program) # {} =>
            /\ Planned(program) /\ segments = Segments(program)
            /\ segment \in ends /\ boundary = segment
            /\ Begin(ends, segment) <= L /\ L <= segment
  BY DEF IInv, SegmentInv
<1>3. /\ EndsType(ends) /\ program.maxCycle \in Nat
      /\ program.maxCycle + 1 \in ends
      /\ \A e \in ends : e \in Nat
  BY <1>1, ProgramType DEF EndsType
<1>4. CASE ~Reloads
  <2>1. /\ segment' = segment /\ boundary' = boundary
        /\ installed' = installed /\ origin' = origin
    BY <1>4 DEF Reload
  <2>2. ASSUME Selected(program) # {} PROVE L < segment
    <3>1. CASE L # boundary
      BY <1>1, <1>2, <2>2, <3>1
    <3>2. CASE \A e \in DOMAIN segments : ~(e > segment)
      <4>1. DOMAIN segments = ends
        BY <1>2, <2>2, SegmentsOf
      <4> QED BY <4>1, <1>1, <1>2, <1>3, <2>2, <3>2
    <3> QED BY <1>4, <3>1, <3>2 DEF Reloads
  <2> QED BY <1>1, <1>2, <2>1, <2>2 DEF InSegment
<1>5. CASE Reloads
  <2>1. /\ segment' = PartOf(DOMAIN segments, segment)
        /\ boundary' = boundary + segments[segment'].length
        /\ installed' = Loaded(segments[segment'].code, installed)
        /\ origin' = [q \in Queues |-> IF q \in Selected(program) THEN L ELSE origin[q]]
    BY <1>5 DEF Reload, NextBoundary
  <2>2. PICK later \in DOMAIN segments : later > segment
    BY <1>5 DEF Reloads
  <2>3. Selected(program) # {}
    BY <1>2, <2>2
  <2>4. /\ Planned(program) /\ segments = Segments(program)
        /\ segment \in ends /\ boundary = segment /\ L = segment
    BY <1>2, <1>5, <2>3 DEF Reloads
  <2>5. DOMAIN segments = ends
    BY <2>4, SegmentsOf
  <2>6. /\ segment' = PartOf(ends, segment) /\ segment' \in ends /\ segment' > segment
    BY <2>1, <2>2, <2>5, <1>1, <1>3, PartOfCycle
  <2>7. Begin(ends, segment') = segment
    <3>1. PartOf(ends, segment) # 0
      BY <1>1, <2>6
    <3> QED BY <3>1, <2>4, <2>6, <1>3, NextPart
  <2>8. segments[segment'].length = segment' - segment
    BY <2>4, <2>6, <2>7, SegmentsOf
  <2>9. boundary' = segment'
    <3>1. boundary' = segment + (segment' - segment)
      BY <2>1, <2>4, <2>8
    <3>2. segment' \in Nat
      BY <1>3, <2>6
    <3>3. segment + (segment' - segment) = segment'
      BY <3>2, <1>1, Lengths, Zenon
    <3> QED BY <3>1, <3>3, Zenon
  <2>10. Holds(program, segment', installed', origin')
    <3>1. SUFFICES ASSUME NEW q \in Queues
                   PROVE  IF q \in Selected(program)
                          THEN /\ installed'[q] = Segments(program)[segment'].code[q]
                               /\ origin'[q] = Begin(ends, segment')
                          ELSE installed'[q] = program.code[q] /\ origin'[q] = 0
      BY DEF Holds
    <3>2. DOMAIN Segments(program)[segment'].code = Selected(program)
      BY <2>6, SegmentsOf
    <3>3. installed'[q] = IF q \in Selected(program) THEN Segments(program)[segment'].code[q]
                          ELSE installed[q]
      BY <2>1, <2>4, <3>2 DEF Loaded
    <3>4. origin'[q] = IF q \in Selected(program) THEN L ELSE origin[q]
      BY <2>1
    <3> QED BY <1>2, <2>4, <2>7, <3>3, <3>4 DEF Holds
  <2>11. installed' \in [Queues -> Seq(Commands)]
    <3>1. \A q \in Queues : q \in Selected(program) =>
              Segments(program)[segment'].code[q] \in Seq(Commands)
      BY <1>1, <2>4, <2>6, PartsRight
    <3>2. DOMAIN Segments(program)[segment'].code = Selected(program)
      BY <2>6, SegmentsOf
    <3> QED BY <1>1, <2>1, <2>4, <3>1, <3>2 DEF Loaded
  <2>12. origin' \in [Queues -> Nat]
    BY <1>1, <2>1
  <2>13. InSegment(program, segment', L)
    BY <1>1, <2>4, <2>6, <2>7 DEF InSegment
  <2> QED BY <1>1, <1>3, <2>6, <2>9, <2>10, <2>11, <2>12, <2>13
<1> QED BY <1>4, <1>5

LEMMA InitInvariant == Init => IInv
<1> SUFFICES ASSUME Init PROVE IInv
  OBVIOUS
<1>1. TypeOK
  BY DEF Init, TypeOK
<1>2. IdleInv /\ SegmentInv
  BY DEF Init, IdleInv, SegmentInv
<1>3. TailInv /\ ReloadsSucceed
  BY DEF Init, TailInv, ReloadsSucceed
<1> QED BY <1>1, <1>2, <1>3 DEF IInv

LEMMA LoadWholeInvariant == IInv /\ LoadWhole => IInv'
<1> SUFFICES ASSUME IInv, LoadWhole PROVE IInv'
  OBVIOUS
<1>1. TypeOK /\ IdleInv /\ TailInv
  BY DEF IInv
<1>2. TypeOK'
  <2>1. program.code \in [Queues -> Seq(Commands)]
    BY <1>1, ProgramType DEF TypeOK
  <2> QED BY <1>1, <2>1 DEF TypeOK, LoadWhole
<1>3. IdleInv' /\ ReloadsSucceed'
  BY DEF LoadWhole, IdleInv, ReloadsSucceed
<1>4. SegmentInv'
  BY <1>1 DEF LoadWhole, IdleInv, SegmentInv, Holds, TypeOK
<1>5. TailInv'
  BY <1>1 DEF LoadWhole, TailInv, IdleInv, TypeOK
<1> QED BY <1>2, <1>3, <1>4, <1>5 DEF IInv

LEMMA LoadSegmentedInvariant == IInv /\ LoadSegmented => IInv'
<1> SUFFICES ASSUME IInv, LoadSegmented PROVE IInv'
  OBVIOUS
<1> DEFINE ends == Ends(program)
<1>1. TypeOK /\ IdleInv
  BY DEF IInv
<1>2. /\ phase = "idle" /\ phase' = "running" /\ Selected(program) # {} /\ Planned(program)
      /\ segments' = Segments(program) /\ segment' = PartOf(ends, 0)
      /\ boundary' = segments'[segment'].length
      /\ installed' = Loaded(segments'[segment'].code, program.code)
      /\ UNCHANGED <<program, L, origin, tail, issued>>
  BY DEF LoadSegmented
<1>3. /\ L = 0 /\ tail = 0 /\ origin = [q \in Queues |-> 0] /\ program \in Programs
  BY <1>1, <1>2 DEF IdleInv, TypeOK
<1>4. EndsType(ends) /\ ends # {}
  BY <1>3, ProgramType
<1>5. segment' \in ends /\ segment' # 0 /\ segment' \in Nat
  <2>1. PICK e \in ends : e > 0 /\ e \in Nat
    BY <1>4 DEF EndsType
  <2>2. PartOf(ends, 0) # 0
    BY <2>1, <1>4, PartOfCycle
  <2> QED BY <2>2, <1>2, <1>4, PartOfCycle DEF EndsType
<1>6. Begin(ends, segment') = 0
  BY <1>2, <1>4, <1>5, NextPart
<1>7. boundary' = segment'
  <2>1. boundary' = segment' - 0
    BY <1>2, <1>5, <1>6, SegmentsOf
  <2>2. segment' - 0 = segment'
    BY <1>5, Lengths, Zenon
  <2> QED BY <2>1, <2>2, Zenon
<1>8. /\ DOMAIN Segments(program)[segment'].code = Selected(program)
      /\ \A q \in Queues : installed'[q] =
            IF q \in Selected(program) THEN Segments(program)[segment'].code[q]
            ELSE program.code[q]
  <2>1. DOMAIN Segments(program)[segment'].code = Selected(program)
    BY <1>5, SegmentsOf
  <2> QED BY <2>1, <1>2 DEF Loaded
<1>9. installed' \in [Queues -> Seq(Commands)]
  <2>1. \A q \in Queues : q \in Selected(program) =>
            Segments(program)[segment'].code[q] \in Seq(Commands)
    BY <1>2, <1>3, <1>5, PartsRight
  <2>2. \A q \in Queues : program.code[q] \in Seq(Commands)
    BY <1>3, ProgramType
  <2>3. \A q \in Queues : installed'[q] \in Seq(Commands)
    BY <1>8, <2>1, <2>2
  <2> QED BY <1>2, <2>3 DEF Loaded
<1>10. TypeOK'
  BY <1>1, <1>2, <1>5, <1>7, <1>9 DEF TypeOK
<1>11. Holds(program, segment', installed', origin')
  BY <1>2, <1>3, <1>6, <1>8 DEF Holds
<1>12. SegmentInv'
  <2>1. program' = program /\ L' = L
    BY <1>2
  <2> QED BY <2>1, <1>2, <1>3, <1>5, <1>6, <1>7, <1>11 DEF SegmentInv
<1>13. IdleInv' /\ ReloadsSucceed' /\ TailInv'
  BY <1>2, <1>3 DEF IdleInv, ReloadsSucceed, TailInv
<1> QED BY <1>10, <1>12, <1>13 DEF IInv

\* The tail of this cycle belongs to a packet that issues in it.
LEMMA IssuedTail ==
    ASSUME IInv, phase = "running", L <= program.maxCycle, Reload,
           NEW q \in VxmQueues, NEW c \in Issue(q)
    PROVE  /\ c.tail \in Nat
           /\ \E k \in PacketsOf(program.code[q]) :
                 /\ First(program.code[q], k) <= L /\ L < End(program.code[q], k)
                 /\ program.code[q][k].tail = c.tail
<1>1. program \in Programs /\ L \in Nat /\ q \in Queues
  BY ComputeAssumption DEF IInv, TypeOK
<1>2. \E k \in PacketsOf(program.code[q]) :
          /\ First(program.code[q], k) <= L /\ L < End(program.code[q], k)
          /\ program.code[q][k].tail = c.tail
  <2>1. /\ Holds(program, segment', installed', origin')
        /\ InSegment(program, segment', L)
    BY AfterReload
  <2>2. \A d \in IssuingAt(installed'[q], L - origin'[q]) : \E k \in PacketsOf(program.code[q]) :
            /\ First(program.code[q], k) <= L /\ L < End(program.code[q], k)
            /\ program.code[q][k].tail = d.tail
    BY <1>1, <2>1, HeldCodeIssues
  <2> QED BY <2>2 DEF Issue
<1>3. \A k \in PacketsOf(program.code[q]) : program.code[q][k].tail \in Nat
  BY <1>1, ProgramType, CommandOf, CommandType DEF PacketsOf
<1> QED BY <1>2, <1>3

\* Cycles of the packets of a program.
LEMMA PacketCycles ==
    ASSUME NEW prog \in Programs, NEW q \in Queues, NEW k \in PacketsOf(prog.code[q])
    PROVE  /\ First(prog.code[q], k) \in Nat /\ End(prog.code[q], k) \in Nat
           /\ prog.code[q][k].tail \in Nat
<1> DEFINE code == prog.code[q]
<1>1. code \in Seq(Commands)
  BY ProgramType
<1> HIDE DEF code
<1>2. k \in 1 .. Len(code)
  <2>1. k \in DOMAIN code
    BY DEF PacketsOf, code
  <2> QED BY <2>1, <1>1
<1>3. k \in 0 .. Len(code)
  BY <1>1, <1>2
<1>4. First(code, k) \in Nat /\ End(code, k) = Behind(code)[k] /\ Behind(code)[k] \in Nat
  BY <1>1, <1>2, <1>3, BehindSteps
<1>5. code[k].tail \in Nat
  BY <1>1, <1>2, CommandOf, CommandType
<1> QED BY <1>4, <1>5 DEF code

LEMMA StepPhysicalInvariant == IInv /\ StepPhysical => IInv'
<1> SUFFICES ASSUME IInv, StepPhysical PROVE IInv'
  OBVIOUS
<1>1. /\ phase = "running" /\ L <= program.maxCycle /\ Reload
      /\ program' = program /\ phase' = phase /\ segments' = segments
      /\ Dispatch \/ Hold
  BY DEF StepPhysical
<1>2. /\ program \in Programs /\ L \in Nat /\ tail \in Nat
      /\ issued \in [Queues -> SUBSET (Nat \X Nat)]
      /\ TypeOK /\ SegmentInv /\ TailInv
  BY DEF IInv, TypeOK
<1>3. /\ Holds(program, segment', installed', origin')
      /\ Selected(program) # {} =>
            /\ Planned(program)
            /\ segment' \in Ends(program) /\ boundary' = segment'
            /\ Begin(Ends(program), segment') <= L /\ L < segment'
      /\ segment' \in Nat /\ boundary' \in Nat
      /\ installed' \in [Queues -> Seq(Commands)]
      /\ origin' \in [Queues -> Nat]
  BY <1>1, AfterReload DEF InSegment
<1>4. /\ Selected(program) = {} => segments = <<>>
      /\ Selected(program) # {} => segments = Segments(program)
  BY <1>1, <1>2 DEF SegmentInv
<1>5. /\ L' \in Nat /\ L' \in {L, L + 1} /\ tail' \in Nat
      /\ issued' \in [Queues -> SUBSET (Nat \X Nat)]
  <2>1. TailLess \in Nat
    BY <1>2 DEF TailLess
  <2>2. CASE Dispatch
    <3>1. tail' \in Nat
      BY <2>1, <2>2, <1>1, IssuedTail DEF Dispatch, Tails
    <3>2. \A q \in Queues : StartingAt(installed'[q], L - origin'[q]) \subseteq Nat
      BY <1>3, StartingType
    <3>3. issued' \in [Queues -> SUBSET (Nat \X Nat)]
      BY <3>2, <2>2, <1>2 DEF Dispatch
    <3>4. L' = L + 1
      BY <2>2 DEF Dispatch
    <3> QED BY <3>1, <3>3, <3>4, <1>2
  <2>3. CASE Hold
    BY <2>1, <2>3, <1>2 DEF Hold
  <2> QED BY <2>2, <2>3, <1>1
<1>6. TypeOK'
  BY <1>1, <1>2, <1>3, <1>5 DEF TypeOK
<1>7. IdleInv' /\ ReloadsSucceed'
  BY <1>1 DEF IdleInv, ReloadsSucceed
<1>8. SegmentInv'
  <2>1. ASSUME Selected(program) # {}
        PROVE  Begin(Ends(program), segment') <= L' /\ L' <= segment'
    <3>1. Begin(Ends(program), segment') \in Nat
      BY <1>2, <1>3, <2>1, ProgramType, BeginOfPart
    <3> QED BY <3>1, <1>2, <1>3, <1>5, <2>1
  <2> QED BY <2>1, <1>1, <1>3, <1>4 DEF SegmentInv
<1>9. TailInv'
  <2>1. SUFFICES ASSUME tail' > 0
                 PROVE  \E q \in VxmQueues : \E k \in PacketsOf(program.code[q]) :
                           /\ First(program.code[q], k) < L'
                           /\ End(program.code[q], k) + program.code[q][k].tail >= L' + tail'
    BY <1>1 DEF TailInv
  <2>2. CASE Dispatch /\ \E q \in VxmQueues : \E c \in Issue(q) : tail' = c.tail
    <3>a. PICK q \in VxmQueues : \E c \in Issue(q) : tail' = c.tail
      BY <2>2
    <3>1. PICK c \in Issue(q) : tail' = c.tail
      BY <3>a
    <3>2. PICK k \in PacketsOf(program.code[q]) :
              /\ First(program.code[q], k) <= L /\ L < End(program.code[q], k)
              /\ program.code[q][k].tail = c.tail
      BY <1>1, <3>1, IssuedTail
    <3>3. /\ First(program.code[q], k) \in Nat /\ End(program.code[q], k) \in Nat
      BY <1>2, PacketCycles, ComputeAssumption
    <3>4. L' = L + 1
      BY <2>2 DEF Dispatch
    <3>5. First(program.code[q], k) < L'
      BY <3>2, <3>3, <3>4, <1>2
    <3>6. End(program.code[q], k) + program.code[q][k].tail >= L' + tail'
      BY <3>1, <3>2, <3>3, <3>4, <1>2, <1>5
    <3> QED BY <3>5, <3>6
  <2>3. CASE tail' \in {tail, tail - 1} /\ tail > 0 /\ (L' = L \/ tail' = tail - 1)
    <3>1. PICK q \in VxmQueues : \E k \in PacketsOf(program.code[q]) :
              /\ First(program.code[q], k) < L
              /\ End(program.code[q], k) + program.code[q][k].tail >= L + tail
      BY <1>2, <2>3 DEF TailInv
    <3>2. PICK k \in PacketsOf(program.code[q]) :
              /\ First(program.code[q], k) < L
              /\ End(program.code[q], k) + program.code[q][k].tail >= L + tail
      BY <3>1
    <3>3. /\ First(program.code[q], k) \in Nat /\ End(program.code[q], k) \in Nat
          /\ program.code[q][k].tail \in Nat
      BY <1>2, PacketCycles, ComputeAssumption
    <3>4. First(program.code[q], k) < L'
      BY <3>2, <3>3, <1>2, <1>5
    <3>5. End(program.code[q], k) + program.code[q][k].tail \in Nat
      BY <3>3
    <3>6. End(program.code[q], k) + program.code[q][k].tail >= L' + tail'
      BY <3>2, <3>5, <2>3, <1>2, <1>5, TailRunsOut
    <3> QED BY <3>4, <3>6
  <2>4. CASE Dispatch
    <3>1. tail' = TailLess \/ \E q \in VxmQueues : \E c \in Issue(q) : tail' = c.tail
      BY <2>4 DEF Dispatch, Tails
    <3>2. CASE tail' = TailLess
      BY <3>2, <2>1, <2>3, <1>2 DEF TailLess
    <3> QED BY <3>1, <3>2, <2>2, <2>4
  <2>5. CASE Hold
    BY <2>5, <2>1, <2>3, <1>2 DEF Hold, TailLess
  <2> QED BY <2>4, <2>5, <1>1
<1> QED BY <1>6, <1>7, <1>8, <1>9 DEF IInv

\* A segment that is not the last ends at a drain.
LEMMA BoundaryIsDrain ==
    ASSUME IInv, phase = "running", Reloads
    PROVE  /\ program \in Programs /\ Planned(program) /\ Selected(program) # {}
           /\ segment \in Ends(program) /\ L = segment /\ L \in Drains(program)
<1>1. program \in Programs /\ SegmentInv /\ segment \in Nat
  BY DEF IInv, TypeOK
<1>2. PICK later \in DOMAIN segments : later > segment
  BY DEF Reloads
<1>3. Selected(program) # {}
  BY <1>1, <1>2 DEF SegmentInv
<1>4. /\ Planned(program) /\ segments = Segments(program)
      /\ segment \in Ends(program) /\ L = segment
  BY <1>1, <1>3 DEF SegmentInv, Reloads
<1>5. later \in Ends(program)
  BY <1>2, <1>4, SegmentsOf
<1>6. segment # program.maxCycle + 1
  <2>1. later \in Nat /\ later <= program.maxCycle + 1 /\ program.maxCycle \in Nat
    BY <1>1, <1>5, ProgramType DEF EndsType
  <2> QED BY <2>1, <1>1, <1>2
<1>7. L \in Drains(program)
  BY <1>1, <1>4, <1>6, ProgramType
<1> QED BY <1>1, <1>3, <1>4, <1>7

\* Nothing is left to do at the end of a segment.
LEMMA BoundaryIsMet ==
    ASSUME IInv, phase = "running", Reloads
    PROVE  QueuesDone /\ (Drained(program) => VxmIdle)
<1>1. /\ program \in Programs /\ Planned(program) /\ Selected(program) # {}
      /\ segment \in Ends(program) /\ L = segment /\ L \in Drains(program)
  BY BoundaryIsDrain
<1>2. /\ SegmentInv /\ TailInv /\ L \in Nat /\ tail \in Nat
  BY DEF IInv, TypeOK
<1>3. QueuesDone
  <2>1. SUFFICES ASSUME NEW q \in Selected(program) PROVE Done(q)
    BY DEF QueuesDone
  <2>2. q \in Queues
    BY SelectedAreQueues
  <2>3. /\ installed[q] = Segments(program)[segment].code[q]
        /\ origin[q] = Begin(Ends(program), segment)
    BY <1>2, <2>2 DEF SegmentInv, Holds
  <2>4. \A k \in DOMAIN installed[q] : origin[q] + End(installed[q], k) <= segment
    BY <1>1, <2>2, <2>3, SegmentDone
  <2> QED BY <1>1, <2>4 DEF Done
<1>4. ASSUME Drained(program), tail > 0 PROVE FALSE
  <2>1. PICK q \in VxmQueues : \E k \in PacketsOf(program.code[q]) :
            /\ First(program.code[q], k) < L
            /\ End(program.code[q], k) + program.code[q][k].tail >= L + tail
    BY <1>2, <1>4 DEF TailInv
  <2>2. PICK k \in PacketsOf(program.code[q]) :
            /\ First(program.code[q], k) < L
            /\ End(program.code[q], k) + program.code[q][k].tail >= L + tail
    BY <2>1
  <2>3. q \in Queues
    BY ComputeAssumption
  <2>4. End(program.code[q], k) <= L \/ q \notin Selected(program)
    BY <1>1, <2>2, <2>3, NothingCrosses
  <2>5. End(program.code[q], k) + program.code[q][k].tail <= L
    BY <1>1, <1>4, <2>2, <2>4 DEF Drained
  <2>6. End(program.code[q], k) \in Nat /\ program.code[q][k].tail \in Nat
    BY <1>1, <2>3, PacketCycles
  <2> QED BY <2>2, <2>5, <2>6, <1>2, <1>4
<1> QED BY <1>2, <1>3, <1>4 DEF VxmIdle

LEMMA ReloadThrowsInvariant == IInv /\ ReloadThrows => IInv'
<1> SUFFICES ASSUME IInv, ReloadThrows PROVE IInv'
  OBVIOUS
<1>1. /\ phase = "running" /\ phase' = "broken" /\ Reloads /\ ~(VxmIdle /\ QueuesDone)
      /\ UNCHANGED <<program, segments, segment, boundary, L, installed, origin, tail, issued>>
  BY DEF ReloadThrows
<1>2. ~Drained(program)
  BY <1>1, BoundaryIsMet
<1>3. TypeOK /\ SegmentInv /\ TailInv
  BY DEF IInv
<1>4. TypeOK'
  BY <1>1, <1>3 DEF TypeOK
<1>5. SegmentInv'
  BY <1>1, <1>3 DEF SegmentInv
<1>6. TailInv'
  BY <1>1, <1>3 DEF TailInv
<1>7. program' = program
  BY <1>1
<1>8. ReloadsSucceed'
  <2>1. Drained(program') = Drained(program)
    BY <1>7
  <2> QED BY <1>2, <2>1 DEF ReloadsSucceed
<1>9. IdleInv'
  BY <1>1 DEF IdleInv
<1> QED BY <1>4, <1>5, <1>6, <1>8, <1>9 DEF IInv

LEMMA StutterInvariant == IInv /\ UNCHANGED vars => IInv'
  BY DEF IInv, TypeOK, IdleInv, SegmentInv, TailInv, ReloadsSucceed, vars

(***************************************************************************)
(* The inductive invariant: the segment in the i-MEM is that of the        *)
(* logical clock, boundaries add up to the ends of segments, and the VXM   *)
(* is only busy for packets of the program.                                *)
(***************************************************************************)
THEOREM Invariant == Spec => []IInv
<1>1. IInv /\ [Next]_vars => IInv'
  BY LoadWholeInvariant, LoadSegmentedInvariant, StepPhysicalInvariant,
     ReloadThrowsInvariant, StutterInvariant DEF Next
<1> QED BY <1>1, InitInvariant, PTL DEF Spec

(***************************************************************************)
(* The members of CModelRuntime that the reload reads stay in their types. *)
(***************************************************************************)
THEOREM TypeCorrect == Spec => []TypeOK
<1>1. IInv => TypeOK
  BY DEF IInv
<1> QED BY <1>1, Invariant, PTL

(***************************************************************************)
(* No reload of an accepted program throws, unless a drain was declared    *)
(* before the VXM has run out.                                             *)
(***************************************************************************)
THEOREM NoReloadThrows == Spec => []ReloadsSucceed
<1>1. IInv => ReloadsSucceed
  BY DEF IInv
<1> QED BY <1>1, Invariant, PTL

-----------------------------------------------------------------------------
\* The whole program reads its code as the segments do.
LEMMA WholeStartingAt ==
    ASSUME NEW code, NEW cycle
    PROVE  Whole!StartingAt(code, cycle) = StartingAt(code, cycle)
<1>1. Whole!Behind(code) = Behind(code)
  BY DEF Whole!Behind, Behind
<1>2. \A k : Whole!First(code, k) = First(code, k)
  BY <1>1 DEF Whole!First, First
<1>3. Whole!PacketsOf(code) = PacketsOf(code)
  BY DEF Whole!PacketsOf, PacketsOf
<1> QED BY <1>2, <1>3 DEF Whole!StartingAt, StartingAt

\* A cycle that is dispatched is one of the whole program.
LEMMA DispatchImplements ==
    ASSUME IInv, StepPhysical, Dispatch
    PROVE  Whole!Dispatch
<1>1. phase = "running" /\ L <= program.maxCycle /\ Reload /\ program' = program
  BY DEF StepPhysical
<1>2. program \in Programs /\ L \in Nat
  BY DEF IInv, TypeOK
<1>3. Holds(program, segment', installed', origin') /\ InSegment(program, segment', L)
  BY <1>1, AfterReload
<1>4. \A q \in Queues :
          StartingAt(installed'[q], L - origin'[q]) = StartingAt(program.code[q], L)
  BY <1>2, <1>3, HeldCodeIssues
<1>5. /\ issued' = [q \in Queues |->
             issued[q] \cup {<<id, L>> : id \in StartingAt(installed'[q], L - origin'[q])}]
      /\ L' = L + 1
  BY DEF Dispatch
<1>6. issued' = [q \in Queues |->
          issued[q] \cup {<<id, L>> : id \in Whole!StartingAt(program.code[q], L)}]
  BY <1>4, <1>5, WholeStartingAt
<1> QED BY <1>1, <1>5, <1>6 DEF Whole!Dispatch

LEMMA StepImplements == IInv /\ [Next]_vars => [Whole!Dispatch]_Whole!wholeVars
<1> SUFFICES ASSUME IInv, [Next]_vars PROVE [Whole!Dispatch]_Whole!wholeVars
  OBVIOUS
<1>1. CASE LoadWhole
  BY <1>1 DEF LoadWhole, Whole!wholeVars
<1>2. CASE LoadSegmented
  BY <1>2 DEF LoadSegmented, Whole!wholeVars
<1>3. CASE StepPhysical
  <2>1. CASE Dispatch
    BY <1>3, <2>1, DispatchImplements
  <2>2. CASE Hold
    BY <1>3, <2>2 DEF StepPhysical, Hold, Whole!wholeVars
  <2> QED BY <1>3, <2>1, <2>2 DEF StepPhysical
<1>4. CASE ReloadThrows
  BY <1>4 DEF ReloadThrows, Whole!wholeVars
<1>5. CASE UNCHANGED vars
  BY <1>5 DEF vars, Whole!wholeVars
<1> QED BY <1>1, <1>2, <1>3, <1>4, <1>5 DEF Next

(***************************************************************************)
(* Segments implement the whole program: whatever is held and reloaded,    *)
(* each queue issues the packets of its code, each in its logical cycle.   *)
(***************************************************************************)
THEOREM SegmentsImplementWhole == Spec => ImplementsWhole
<1>1. Init => Whole!Init
  BY DEF Init, Whole!Init
<1> QED BY <1>1, StepImplements, Invariant, PTL DEF Spec, ImplementsWhole, Whole!Spec
=============================================================================
