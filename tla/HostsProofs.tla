----------------------------- MODULE HostsProofs -----------------------------
(***************************************************************************)
(* Proofs about HostsFile for every set of appliers, requests, texts and   *)
(* other writers.  First what the edit of a text gives, for every text: it *)
(* is a loop over the lines, which the model has as a recursive function,  *)
(* and what that computes is proved by induction over the lines read, from *)
(* the principle of the least number.  Then the calls of apply_group.      *)
(***************************************************************************)
EXTENDS HostsFile, FiniteSetTheorems, TLAPS

-----------------------------------------------------------------------------
(* Numbers                                                                 *)

\* Every set of natural numbers has a least one.
LEMMA LeastNumber ==
    ASSUME NEW T \in SUBSET Nat, T # {}
    PROVE  \E n \in T : \A m \in T : n <= m
<1>. DEFINE Below == {1..n : n \in T}
<1>1. Below \subseteq FiniteSubsetsOf(Nat)
  <2>1. \A n \in T : 1..n \subseteq Nat /\ IsFiniteSet(1..n)
    BY FS_Interval
  <2>. QED
    BY <2>1 DEF FiniteSubsetsOf
<1>2. Below # {}
  OBVIOUS
<1>. HIDE DEF Below
<1>3. PICK least \in Below : \A b \in Below : <<b, least>> \notin StrictSubsetOrdering(Nat)
  BY <1>1, <1>2, FS_StrictSubsetOrderingWellFounded, WFMin
<1>4. PICK n \in T : least = 1..n
  BY <1>3 DEF Below
<1>5. ASSUME NEW m \in T, m < n PROVE FALSE
  <2>1. 1..m \subseteq 1..n /\ 1..m # 1..n /\ 1..n \subseteq Nat
    <3>1. n \in 1..n /\ n \notin 1..m
      BY <1>5
    <3>. QED
      BY <1>5, <3>1
  <2>2. 1..m \in Below
    BY DEF Below
  <2>. QED
    BY <1>3, <1>4, <2>1, <2>2 DEF StrictSubsetOrdering
<1>. QED
  BY <1>5

\* Induction over 0..N, for a set in the place of a formula.
LEMMA Induction ==
    ASSUME NEW N \in Nat, NEW S, 0 \in S, \A n \in 0..(N - 1) : n \in S => n + 1 \in S
    PROVE  0..N \subseteq S
<1>. DEFINE T == {n \in Nat : n \in 0..N /\ n \notin S}
<1>1. ASSUME T # {} PROVE FALSE
  <2>1. PICK n \in T : \A m \in T : n <= m
    <3>1. T \in SUBSET Nat
      OBVIOUS
    <3>. HIDE DEF T
    <3>. QED
      BY <1>1, <3>1, LeastNumber
  <2>2. n # 0 /\ n - 1 \in 0..(N - 1) /\ n - 1 \notin T
    BY <2>1
  <2>. QED
    BY <2>1, <2>2
<1>. QED
  BY <1>1

\* f[n] is the state of a loop after n of its m rounds.
Runs(f, m, start, round) ==
    f[0] = start /\ \A n \in 0..(m - 1) : f[n + 1] = round[n + 1][f[n]]

\* A loop of N rounds, each of which takes a state of S to a state of S, has
\* its states.
LEMMA Recursion ==
    ASSUME NEW N \in Nat, NEW S, NEW start \in S, NEW round \in [1..N -> [S -> S]]
    PROVE  \E f \in [0..N -> S] : Runs(f, N, start, round)
<1>. DEFINE M == {m \in 0..N : \E f \in [0..m -> S] : Runs(f, m, start, round)}
<1>1. 0 \in M
  <2>. DEFINE f == [n \in 0..0 |-> start]
  <2>1. f[0] = start
    OBVIOUS
  <2>2. f \in [0..0 -> S]
    OBVIOUS
  <2>. HIDE DEF f
  <2>3. Runs(f, 0, start, round)
    BY <2>1 DEF Runs
  <2>4. 0 \in 0..N
    OBVIOUS
  <2>. QED
    BY <2>2, <2>3, <2>4
<1>2. ASSUME NEW m \in 0..(N - 1), m \in M PROVE m + 1 \in M
  <2>1. PICK f \in [0..m -> S] : Runs(f, m, start, round)
    BY <1>2
  <2>. DEFINE last == round[m + 1][f[m]]
              g == [n \in 0..(m + 1) |-> IF n = m + 1 THEN last ELSE f[n]]
  <2>2. m \in Nat /\ m + 1 \in 1..N /\ m \in 0..m
    OBVIOUS
  <2>3. last \in S
    <3>1. round[m + 1] \in [S -> S] /\ f[m] \in S
      BY <2>2
    <3>. QED
      BY <3>1
  <2>. HIDE DEF last
  <2>4. g[m + 1] = last /\ \A n \in 0..m : g[n] = f[n]
    BY <2>2
  <2>5. g \in [0..(m + 1) -> S]
    BY <2>2, <2>3
  <2>6. Runs(g, m + 1, start, round)
    <3>. HIDE DEF g
    <3>1. g[0] = start
      BY <2>1, <2>2, <2>4 DEF Runs
    <3>2. ASSUME NEW n \in 0..m PROVE g[n + 1] = round[n + 1][g[n]]
      <4>1. CASE n = m
        BY <2>2, <2>4, <4>1 DEF last
      <4>2. CASE n # m
        <5>1. n \in 0..(m - 1) /\ n + 1 \in 0..m
          BY <2>2, <4>2
        <5>. QED
          BY <2>1, <2>4, <5>1 DEF Runs
      <4>. QED
        BY <4>1, <4>2
    <3>3. (m + 1) - 1 = m
      BY <2>2
    <3>. QED
      BY <3>1, <3>2, <3>3 DEF Runs
  <2>. HIDE DEF g
  <2>7. m + 1 \in 0..N
    OBVIOUS
  <2>. QED
    BY <2>5, <2>6, <2>7
<1>. HIDE DEF M
<1>3. N \in M
  <2>1. 0..N \subseteq M
    BY <1>1, <1>2, Induction
  <2>. QED
    BY <2>1
<1>. QED
  BY <1>3 DEF M

-----------------------------------------------------------------------------
(* Lines of a text                                                         *)

LEMMA EmptyText == ASSUME NEW T PROVE << >> \in Seq(T) /\ Len(<< >>) = 0 /\ 1..0 = {}
  OBVIOUS

\* The loop of LinesAt: lines[n] are those of the first n.
LinesRead(t, indices, lines) ==
    /\ lines[0] = << >>
    /\ \A n \in 0..(Len(t) - 1) :
        lines[n + 1] = IF n + 1 \in indices THEN Append(lines[n], t[n + 1]) ELSE lines[n]

LEMMA LinesLoop ==
    ASSUME NEW T, NEW t \in Seq(T), NEW indices
    PROVE  \E lines \in [0..Len(t) -> Seq(T)] :
                LinesRead(t, indices, lines) /\ LinesAt(t, indices) = lines[Len(t)]
<1>. DEFINE N == Len(t)
            Body(lines, n) == IF n = 0 THEN << >>
                              ELSE IF n \in indices THEN Append(lines[n - 1], t[n])
                              ELSE lines[n - 1]
            Is(lines) == lines = [n \in 0..N |-> Body(lines, n)]
            round == [n \in 1..N |-> [s \in Seq(T) |->
                            IF n \in indices THEN Append(s, t[n]) ELSE s]]
<1>1. N \in Nat
  OBVIOUS
<1>2. round \in [1..N -> [Seq(T) -> Seq(T)]]
  <2>1. ASSUME NEW n \in 1..N, NEW s \in Seq(T)
        PROVE  (IF n \in indices THEN Append(s, t[n]) ELSE s) \in Seq(T)
    <3>1. t[n] \in T
      OBVIOUS
    <3>. QED
      BY <3>1
  <2>. QED
    BY <2>1
<1>3. PICK f \in [0..N -> Seq(T)] : Runs(f, N, << >>, round)
  <2>. HIDE DEF round, N
  <2>. QED
    BY <1>1, <1>2, EmptyText, Recursion
<1>4. LinesRead(t, indices, f)
  <2>1. ASSUME NEW n \in 0..(N - 1)
        PROVE  f[n + 1] = IF n + 1 \in indices THEN Append(f[n], t[n + 1]) ELSE f[n]
    <3>1. n \in 0..N /\ n + 1 \in 1..N
      BY <1>1
    <3>2. f[n] \in Seq(T)
      BY <3>1
    <3>3. f[n + 1] = round[n + 1][f[n]]
      <4>. HIDE DEF round, N
      <4>. QED
        BY <1>3 DEF Runs
    <3>4. round[n + 1][f[n]] = IF n + 1 \in indices THEN Append(f[n], t[n + 1]) ELSE f[n]
      BY <3>1, <3>2
    <3>. QED
      BY <3>3, <3>4
  <2>2. f[0] = << >>
    <3>. HIDE DEF round, N
    <3>. QED
      BY <1>3 DEF Runs
  <2>. QED
    BY <2>1, <2>2 DEF LinesRead
<1>. HIDE DEF round
<1>5. Is(f)
  <2>1. ASSUME NEW n \in 0..N PROVE f[n] = Body(f, n)
    <3>1. CASE n = 0
      BY <1>4, <3>1 DEF LinesRead
    <3>2. CASE n # 0
      <4>1. n - 1 \in 0..(N - 1) /\ (n - 1) + 1 = n
        BY <1>1, <3>2
      <4>2. f[n] = IF n \in indices THEN Append(f[n - 1], t[n]) ELSE f[n - 1]
        BY <1>4, <4>1 DEF LinesRead
      <4>. QED
        BY <3>2, <4>2
    <3>. QED
      BY <3>1, <3>2
  <2>2. f = [n \in 0..N |-> f[n]]
    BY <1>3
  <2>. HIDE DEF Body, N
  <2>. QED
    BY <2>1, <2>2
<1>. DEFINE lines == CHOOSE f1 : Is(f1)
<1>6. Is(lines)
  <2>. HIDE DEF Is
  <2>. QED
    BY <1>5
<1>7. LinesAt(t, indices) = lines[N]
  BY DEF LinesAt
<1>. HIDE DEF lines
<1>8. \A n \in 0..N : lines[n] = Body(lines, n)
  <2>. HIDE DEF Body, N
  <2>. QED
    BY <1>6
<1>9. LinesRead(t, indices, lines)
  <2>1. lines[0] = << >>
    BY <1>1, <1>8
  <2>2. ASSUME NEW n \in 0..(N - 1)
        PROVE  lines[n + 1] = IF n + 1 \in indices THEN Append(lines[n], t[n + 1])
                              ELSE lines[n]
    <3>1. n + 1 \in 0..N /\ n + 1 # 0 /\ (n + 1) - 1 = n
      BY <1>1
    <3>2. lines[n + 1] = Body(lines, n + 1)
      BY <1>8, <3>1
    <3>. QED
      BY <3>1, <3>2
  <2>. QED
    BY <2>1, <2>2 DEF LinesRead
<1>10. lines = f
  <2>. DEFINE S == {n \in 0..N : lines[n] = f[n]}
  <2>1. 0 \in S
    BY <1>1, <1>4, <1>9 DEF LinesRead
  <2>2. ASSUME NEW n \in 0..(N - 1), n \in S PROVE n + 1 \in S
    <3>1. n + 1 \in 0..N
      BY <1>1
    <3>. QED
      BY <1>4, <1>9, <2>2, <3>1 DEF LinesRead
  <2>. HIDE DEF S, N
  <2>3. 0..N \subseteq S
    BY <1>1, <2>1, <2>2, Induction
  <2>4. \A n \in 0..N : lines[n] = f[n]
    BY <2>3 DEF S
  <2>5. lines = [n \in 0..N |-> lines[n]] /\ f = [n \in 0..N |-> f[n]]
    <3>. HIDE DEF Body
    <3>. QED
      BY <1>3, <1>6
  <2>. QED
    BY <2>4, <2>5
<1>. QED
  BY <1>3, <1>7, <1>9, <1>10

-----------------------------------------------------------------------------
(* What remove_managed_group leaves                                        *)

Start == [output |-> << >>, skipping |-> FALSE]

\* What the loop of remove_managed_group has after some lines of T.
Edits(T) == [output : Seq(T), skipping : BOOLEAN]

LEMMA StartEdits == ASSUME NEW T PROVE Start \in Edits(T)
BY EmptyText DEF Start, Edits

LEMMA LineEdits ==
    ASSUME NEW T, NEW s \in Edits(T), NEW line \in T, NEW g
    PROVE  RemoveLine(g, s, line) \in Edits(T)
<1>1. [s EXCEPT !.skipping = TRUE] \in Edits(T) /\ [s EXCEPT !.skipping = FALSE] \in Edits(T)
  BY DEF Edits
<1>2. Append(s.output, line) \in Seq(T)
  BY DEF Edits
<1>3. [s EXCEPT !.output = Append(@, line)] \in Edits(T)
  BY <1>2 DEF Edits
<1>. QED
  BY <1>1, <1>3 DEF RemoveLine

\* The loop of remove_managed_group: state[n] is what it has after n lines.
LinesEdited(t, g, state) ==
    /\ state[0] = Start
    /\ \A n \in 0..(Len(t) - 1) : state[n + 1] = RemoveLine(g, state[n], t[n + 1])

LEMMA RemoveLoop ==
    ASSUME NEW T, NEW t \in Seq(T), NEW g
    PROVE  \E state \in [0..Len(t) -> Edits(T)] :
                LinesEdited(t, g, state) /\ RemoveManagedGroup(t, g) = state[Len(t)].output
<1>. DEFINE N == Len(t)
            Body(state, n) == IF n = 0 THEN Start ELSE RemoveLine(g, state[n - 1], t[n])
            Is(state) == state = [n \in 0..N |-> Body(state, n)]
            round == [n \in 1..N |-> [s \in Edits(T) |-> RemoveLine(g, s, t[n])]]
<1>1. N \in Nat
  OBVIOUS
<1>2. round \in [1..N -> [Edits(T) -> Edits(T)]]
  <2>1. ASSUME NEW n \in 1..N, NEW s \in Edits(T)
        PROVE  RemoveLine(g, s, t[n]) \in Edits(T)
    <3>1. t[n] \in T
      OBVIOUS
    <3>. QED
      BY <3>1, LineEdits
  <2>. QED
    BY <2>1
<1>3. PICK f \in [0..N -> Edits(T)] : Runs(f, N, Start, round)
  <2>. HIDE DEF round, N
  <2>. QED
    BY <1>1, <1>2, StartEdits, Recursion
<1>4. LinesEdited(t, g, f)
  <2>1. ASSUME NEW n \in 0..(N - 1)
        PROVE  f[n + 1] = RemoveLine(g, f[n], t[n + 1])
    <3>1. n \in 0..N /\ n + 1 \in 1..N
      BY <1>1
    <3>2. f[n] \in Edits(T)
      BY <3>1
    <3>3. f[n + 1] = round[n + 1][f[n]]
      <4>. HIDE DEF round, N
      <4>. QED
        BY <1>3 DEF Runs
    <3>4. round[n + 1][f[n]] = RemoveLine(g, f[n], t[n + 1])
      BY <3>1, <3>2
    <3>. QED
      BY <3>3, <3>4
  <2>2. f[0] = Start
    <3>. HIDE DEF round, N
    <3>. QED
      BY <1>3 DEF Runs
  <2>. QED
    BY <2>1, <2>2 DEF LinesEdited
<1>. HIDE DEF round
<1>5. Is(f)
  <2>1. ASSUME NEW n \in 0..N PROVE f[n] = Body(f, n)
    <3>1. CASE n = 0
      BY <1>4, <3>1 DEF LinesEdited
    <3>2. CASE n # 0
      <4>1. n - 1 \in 0..(N - 1) /\ (n - 1) + 1 = n
        BY <1>1, <3>2
      <4>2. f[n] = RemoveLine(g, f[n - 1], t[n])
        BY <1>4, <4>1 DEF LinesEdited
      <4>. QED
        BY <3>2, <4>2
    <3>. QED
      BY <3>1, <3>2
  <2>2. f = [n \in 0..N |-> f[n]]
    BY <1>3
  <2>. HIDE DEF Body, N
  <2>. QED
    BY <2>1, <2>2
<1>. DEFINE state == CHOOSE f1 : Is(f1)
<1>6. Is(state)
  <2>. HIDE DEF Is
  <2>. QED
    BY <1>5
<1>7. RemoveManagedGroup(t, g) = state[N].output
  BY DEF RemoveManagedGroup, Start
<1>. HIDE DEF state
<1>8. \A n \in 0..N : state[n] = Body(state, n)
  <2>. HIDE DEF Body, N
  <2>. QED
    BY <1>6
<1>9. LinesEdited(t, g, state)
  <2>1. state[0] = Start
    BY <1>1, <1>8
  <2>2. ASSUME NEW n \in 0..(N - 1)
        PROVE  state[n + 1] = RemoveLine(g, state[n], t[n + 1])
    <3>1. n + 1 \in 0..N /\ n + 1 # 0 /\ (n + 1) - 1 = n
      BY <1>1
    <3>2. state[n + 1] = Body(state, n + 1)
      BY <1>8, <3>1
    <3>. QED
      BY <3>1, <3>2
  <2>. QED
    BY <2>1, <2>2 DEF LinesEdited
<1>10. state = f
  <2>. DEFINE S == {n \in 0..N : state[n] = f[n]}
  <2>1. 0 \in S
    BY <1>1, <1>4, <1>9 DEF LinesEdited
  <2>2. ASSUME NEW n \in 0..(N - 1), n \in S PROVE n + 1 \in S
    <3>1. n + 1 \in 0..N
      BY <1>1
    <3>. QED
      BY <1>4, <1>9, <2>2, <3>1 DEF LinesEdited
  <2>. HIDE DEF S, N
  <2>3. 0..N \subseteq S
    BY <1>1, <2>1, <2>2, Induction
  <2>4. \A n \in 0..N : state[n] = f[n]
    BY <2>3 DEF S
  <2>5. state = [n \in 0..N |-> state[n]] /\ f = [n \in 0..N |-> f[n]]
    <3>. HIDE DEF Body
    <3>. QED
      BY <1>3, <1>6
  <2>. QED
    BY <2>4, <2>5
<1>. QED
  BY <1>3, <1>7, <1>9, <1>10

\* After n lines, the loop is skipping: some BEGIN was read and no END since.
Skipping(t, g, n) ==
    \E b \in 1..n : t[b] = BeginOf(g) /\ \A k \in b..n : t[k] # EndOf(g)

KeptLines(t, g) == {i \in DOMAIN t : ~Skipping(t, g, i - 1) /\ t[i] # BeginOf(g)}

LEMMA BeginIsNoEnd == ASSUME NEW g PROVE BeginOf(g) # EndOf(g)
BY DEF BeginOf, EndOf

LEMMA SkippingStep ==
    ASSUME NEW t, NEW g, NEW n \in Nat
    PROVE  /\ ~Skipping(t, g, 0)
           /\ t[n + 1] = BeginOf(g) => Skipping(t, g, n + 1)
           /\ t[n + 1] = EndOf(g) => ~Skipping(t, g, n + 1)
           /\ t[n + 1] # BeginOf(g) /\ t[n + 1] # EndOf(g) =>
                (Skipping(t, g, n + 1) <=> Skipping(t, g, n))
<1>1. ~Skipping(t, g, 0)
  BY DEF Skipping
<1>2. ASSUME t[n + 1] = BeginOf(g) PROVE Skipping(t, g, n + 1)
  <2>1. n + 1 \in 1..(n + 1) /\ \A k \in (n + 1)..(n + 1) : k = n + 1
    OBVIOUS
  <2>. QED
    BY <1>2, <2>1, BeginIsNoEnd DEF Skipping
<1>3. ASSUME t[n + 1] = EndOf(g) PROVE ~Skipping(t, g, n + 1)
  <2>1. \A b \in 1..(n + 1) : n + 1 \in b..(n + 1)
    OBVIOUS
  <2>. QED
    BY <1>3, <2>1 DEF Skipping
<1>4. ASSUME t[n + 1] # BeginOf(g), t[n + 1] # EndOf(g), Skipping(t, g, n)
      PROVE  Skipping(t, g, n + 1)
  <2>1. PICK b \in 1..n : t[b] = BeginOf(g) /\ \A k \in b..n : t[k] # EndOf(g)
    BY <1>4 DEF Skipping
  <2>2. b \in 1..(n + 1) /\ \A k \in b..(n + 1) : k \in b..n \/ k = n + 1
    OBVIOUS
  <2>. QED
    BY <1>4, <2>1, <2>2 DEF Skipping
<1>5. ASSUME t[n + 1] # BeginOf(g), Skipping(t, g, n + 1)
      PROVE  Skipping(t, g, n)
  <2>1. PICK b \in 1..(n + 1) :
            t[b] = BeginOf(g) /\ \A k \in b..(n + 1) : t[k] # EndOf(g)
    BY <1>5 DEF Skipping
  <2>2. b # n + 1
    BY <1>5, <2>1
  <2>3. b \in 1..n /\ \A k \in b..n : k \in b..(n + 1)
    BY <2>2
  <2>. QED
    BY <2>1, <2>3 DEF Skipping
<1>. QED
  BY <1>1, <1>2, <1>3, <1>4, <1>5

\* remove_managed_group keeps the lines that no BEGIN of the group hides.
LEMMA RemoveKeepsLines ==
    ASSUME NEW T, NEW t \in Seq(T), NEW g
    PROVE  RemoveManagedGroup(t, g) = LinesAt(t, KeptLines(t, g))
<1>. DEFINE N == Len(t)
            I == KeptLines(t, g)
<1>0. N \in Nat
  OBVIOUS
<1>1. PICK state \in [0..N -> Edits(T)] :
        LinesEdited(t, g, state) /\ RemoveManagedGroup(t, g) = state[N].output
  BY RemoveLoop
<1>2. PICK lines \in [0..N -> Seq(T)] : LinesRead(t, I, lines) /\ LinesAt(t, I) = lines[N]
  BY LinesLoop
<1>. DEFINE Same(n) == state[n].output = lines[n] /\ (state[n].skipping <=> Skipping(t, g, n))
            S == {n \in 0..N : Same(n)}
<1>3. 0 \in S
  <2>1. state[0] = Start /\ lines[0] = << >>
    BY <1>1, <1>2 DEF LinesEdited, LinesRead
  <2>2. ~Skipping(t, g, 0)
    BY SkippingStep
  <2>. QED
    BY <1>0, <2>1, <2>2 DEF Start
<1>4. ASSUME NEW n \in 0..(N - 1), n \in S PROVE n + 1 \in S
  <2>. DEFINE s == state[n]
              line == t[n + 1]
  <2>1. n \in Nat /\ n \in 0..N /\ n + 1 \in 0..N /\ n + 1 \in DOMAIN t /\ (n + 1) - 1 = n
    BY <1>0
  <2>2. s \in Edits(T) /\ s.output = lines[n] /\ (s.skipping <=> Skipping(t, g, n))
    BY <1>4, <2>1
  <2>3. state[n + 1] = RemoveLine(g, s, line)
    BY <1>1 DEF LinesEdited
  <2>4. lines[n + 1] = IF n + 1 \in I THEN Append(lines[n], line) ELSE lines[n]
    BY <1>2 DEF LinesRead
  <2>5. n + 1 \in I <=> ~Skipping(t, g, n) /\ line # BeginOf(g)
    BY <2>1 DEF KeptLines
  <2>. HIDE DEF s, I, line
  <2>6. RemoveLine(g, s, line).output =
            IF s.skipping \/ line = BeginOf(g) THEN s.output ELSE Append(s.output, line)
    BY <2>2 DEF RemoveLine, Edits
  <2>7. RemoveLine(g, s, line).skipping =
            IF line = BeginOf(g) THEN TRUE
            ELSE IF line = EndOf(g) THEN FALSE
            ELSE s.skipping
    BY <2>2 DEF RemoveLine, Edits
  <2>8. state[n + 1].output = lines[n + 1]
    BY <2>2, <2>3, <2>4, <2>5, <2>6
  <2>9. state[n + 1].skipping <=> Skipping(t, g, n + 1)
    BY <2>1, <2>2, <2>3, <2>7, SkippingStep DEF line
  <2>. QED
    BY <2>1, <2>8, <2>9
<1>. HIDE DEF S, N
<1>5. N \in S
  <2>1. 0..N \subseteq S
    BY <1>0, <1>3, <1>4, Induction
  <2>. QED
    BY <1>0, <2>1
<1>. QED
  BY <1>1, <1>2, <1>5 DEF S

-----------------------------------------------------------------------------
(* What LinesAt picks                                                      *)

\* Lines a to b of a text, picked as an interval of indices.
LEMMA LinesOfInterval ==
    ASSUME NEW T, NEW t \in Seq(T), NEW a \in Nat, NEW b \in Nat,
           1 <= a, b <= Len(t), a <= b + 1
    PROVE  /\ LinesAt(t, a..b) \in Seq(T)
           /\ Len(LinesAt(t, a..b)) = b - a + 1
           /\ \A i \in 1..(b - a + 1) : LinesAt(t, a..b)[i] = t[a + i - 1]
<1>. DEFINE N == Len(t)
            Size(n) == IF n < a THEN 0 ELSE IF n <= b THEN n - a + 1 ELSE b - a + 1
<1>1. N \in Nat /\ N >= b
  OBVIOUS
<1>2. PICK lines \in [0..N -> Seq(T)] :
        LinesRead(t, a..b, lines) /\ LinesAt(t, a..b) = lines[N]
  BY LinesLoop
<1>. DEFINE Copy(n) == /\ Len(lines[n]) = Size(n)
                       /\ \A i \in 1..Size(n) : lines[n][i] = t[a + i - 1]
            S == {n \in 0..N : Copy(n)}
<1>3. 0 \in S
  <2>1. Size(0) = 0 /\ lines[0] = << >> /\ 0 \in 0..N
    BY <1>1, <1>2 DEF LinesRead
  <2>. HIDE DEF Size
  <2>. QED
    BY <2>1, EmptyText
<1>4. ASSUME NEW n \in 0..(N - 1), n \in S PROVE n + 1 \in S
  <2>. DEFINE old == lines[n]
  <2>1. n \in 0..N /\ n + 1 \in 0..N /\ n + 1 \in 1..N
    BY <1>1
  <2>2. old \in Seq(T) /\ Len(old) = Size(n) /\ \A i \in 1..Size(n) : old[i] = t[a + i - 1]
    BY <1>4, <2>1
  <2>3. lines[n + 1] = IF n + 1 \in a..b THEN Append(old, t[n + 1]) ELSE old
    BY <1>2 DEF LinesRead
  <2>. HIDE DEF old
  <2>4. CASE n + 1 \in a..b
    <3>. DEFINE m == Size(n)
    <3>1. Size(n + 1) = m + 1 /\ m = n + 1 - a /\ m \in Nat
      BY <2>4
    <3>2. t[n + 1] \in T
      BY <2>1
    <3>3. Len(old) = m /\ \A i \in 1..m : old[i] = t[a + i - 1]
      BY <2>2
    <3>. HIDE DEF Size, m
    <3>4. Append(old, t[n + 1]) \in Seq(T) /\ Len(Append(old, t[n + 1])) = m + 1
      BY <2>2, <3>2, <3>3
    <3>5. ASSUME NEW i \in 1..(m + 1)
          PROVE  Append(old, t[n + 1])[i] = t[a + i - 1]
      <4>1. CASE i \in 1..m
        BY <2>2, <3>1, <3>2, <3>3, <4>1
      <4>2. CASE i = m + 1
        <5>1. a + i - 1 = n + 1
          BY <3>1, <4>2
        <5>2. Append(old, t[n + 1])[i] = t[n + 1]
          BY <2>2, <3>1, <3>2, <3>3, <4>2
        <5>. QED
          BY <5>1, <5>2
      <4>3. i \in 1..m \/ i = m + 1
        <5>1. m \in Nat
          BY <3>1
        <5>. QED
          BY <5>1
      <4>. QED
        BY <4>1, <4>2, <4>3
    <3>6. lines[n + 1] = Append(old, t[n + 1])
      BY <2>3, <2>4
    <3>7. Copy(n + 1)
      BY <3>1, <3>4, <3>5, <3>6
    <3>. QED
      BY <2>1, <3>7
  <2>5. CASE n + 1 \notin a..b
    <3>1. Size(n + 1) = Size(n)
      BY <2>1, <2>5
    <3>. HIDE DEF Size
    <3>2. lines[n + 1] = old
      BY <2>3, <2>5
    <3>3. Copy(n + 1)
      BY <2>2, <3>1, <3>2
    <3>. QED
      BY <2>1, <3>3
  <2>. QED
    BY <2>4, <2>5
<1>. HIDE DEF S
<1>5. N \in S
  <2>1. 0..N \subseteq S
    BY <1>1, <1>3, <1>4, Induction
  <2>. QED
    BY <1>1, <2>1
<1>6. Size(N) = b - a + 1
  BY <1>1
<1>. HIDE DEF Size, N
<1>7. Copy(N) /\ lines[N] \in Seq(T)
  BY <1>1, <1>5 DEF S
<1>. QED
  BY <1>2, <1>6, <1>7

\* What is picked, is picked somewhere.
LEMMA LinesFrom ==
    ASSUME NEW T, NEW t \in Seq(T), NEW indices
    PROVE  /\ LinesAt(t, indices) \in Seq(T)
           /\ \A i \in DOMAIN LinesAt(t, indices) :
                \E k \in indices : k \in DOMAIN t /\ LinesAt(t, indices)[i] = t[k]
<1>. DEFINE N == Len(t)
<1>1. N \in Nat
  OBVIOUS
<1>2. PICK lines \in [0..N -> Seq(T)] :
        LinesRead(t, indices, lines) /\ LinesAt(t, indices) = lines[N]
  BY LinesLoop
<1>. DEFINE From(s) == \A i \in DOMAIN s : \E k \in indices : k \in DOMAIN t /\ s[i] = t[k]
            S == {n \in 0..N : From(lines[n])}
<1>3. 0 \in S
  <2>1. lines[0] = << >> /\ 0 \in 0..N
    BY <1>1, <1>2 DEF LinesRead
  <2>. QED
    BY <2>1
<1>4. ASSUME NEW n \in 0..(N - 1), n \in S PROVE n + 1 \in S
  <2>. DEFINE old == lines[n]
  <2>1. n \in 0..N /\ n + 1 \in 0..N /\ n + 1 \in DOMAIN t
    BY <1>1
  <2>2. old \in Seq(T) /\ From(old)
    BY <1>4, <2>1
  <2>3. lines[n + 1] = IF n + 1 \in indices THEN Append(old, t[n + 1]) ELSE old
    BY <1>2 DEF LinesRead
  <2>. HIDE DEF old
  <2>4. CASE n + 1 \in indices
    <3>1. t[n + 1] \in T
      BY <2>1
    <3>2. ASSUME NEW i \in DOMAIN Append(old, t[n + 1])
          PROVE  \E k \in indices : k \in DOMAIN t /\ Append(old, t[n + 1])[i] = t[k]
      <4>1. CASE i \in DOMAIN old
        BY <2>2, <3>1, <4>1
      <4>2. CASE i = Len(old) + 1
        BY <2>1, <2>2, <2>4, <3>1, <4>2
      <4>. QED
        BY <2>2, <3>1, <4>1, <4>2
    <3>3. lines[n + 1] = Append(old, t[n + 1])
      BY <2>3, <2>4
    <3>. QED
      BY <2>1, <3>2, <3>3
  <2>5. CASE n + 1 \notin indices
    BY <2>1, <2>2, <2>3, <2>5
  <2>. QED
    BY <2>4, <2>5
<1>. HIDE DEF S
<1>5. N \in S
  <2>1. 0..N \subseteq S
    BY <1>1, <1>3, <1>4, Induction
  <2>. QED
    BY <1>1, <2>1
<1>. HIDE DEF N
<1>6. From(lines[N]) /\ lines[N] \in Seq(T)
  BY <1>1, <1>5 DEF S
<1>. QED
  BY <1>2, <1>6

-----------------------------------------------------------------------------
(* The group that is written                                               *)

LEMMA SameText ==
    ASSUME NEW T, NEW s \in Seq(T), NEW u \in Seq(T), Len(s) = Len(u),
           \A i \in 1..Len(s) : s[i] = u[i]
    PROVE  s = u
<1>1. s = [i \in 1..Len(s) |-> s[i]] /\ u = [i \in 1..Len(u) |-> u[i]]
  OBVIOUS
<1>. QED
  BY <1>1

NoBegin(t, g) == \A i \in DOMAIN t : t[i] # BeginOf(g)

\* The lines of x are those of a group, and no others.
IsGroup(T, x, g) ==
    /\ x \in Seq(T)
    /\ 2 <= Len(x)
    /\ x[1] = BeginOf(g)
    /\ x[Len(x)] = EndOf(g)
    /\ \A i \in 2..(Len(x) - 1) : x[i] # BeginOf(g) /\ x[i] # EndOf(g)

LEMMA RenderedIsGroup ==
    ASSUME NEW T, NEW g, BeginOf(g) \in T, EndOf(g) \in T,
           NEW A, NEW entries \in Seq(A),
           \A i \in DOMAIN entries : [kind |-> "entry", of |-> entries[i]] \in T
    PROVE  IsGroup(T, RenderGroup(g, entries), g)
<1>. DEFINE n == Len(entries)
            lines == [i \in DOMAIN entries |-> [kind |-> "entry", of |-> entries[i]]]
            front == <<BeginOf(g)>> \o lines
            x == front \o <<EndOf(g)>>
<1>1. n \in Nat /\ DOMAIN entries = 1..n
  OBVIOUS
<1>2. BeginOf(g) \in T /\ EndOf(g) \in T
  OBVIOUS
<1>3. lines \in Seq(T) /\ Len(lines) = n
  <2>1. \A i \in 1..n : [kind |-> "entry", of |-> entries[i]] \in T
    BY <1>1
  <2>2. lines \in [1..n -> T]
    BY <1>1, <2>1
  <2>. HIDE DEF lines
  <2>3. lines \in Seq(T)
    BY <1>1, <2>2
  <2>. QED
    BY <1>1, <2>2, <2>3
<1>4. \A i \in 1..n : lines[i] # BeginOf(g) /\ lines[i] # EndOf(g)
  BY <1>1 DEF BeginOf, EndOf
<1>. HIDE DEF lines, n
<1>5. front \in Seq(T) /\ Len(front) = n + 1
  BY <1>1, <1>2, <1>3
<1>6. front[1] = BeginOf(g) /\ \A i \in 2..(n + 1) : front[i] = lines[i - 1]
  BY <1>1, <1>2, <1>3
<1>. HIDE DEF front
<1>7. x \in Seq(T) /\ Len(x) = n + 2
  BY <1>1, <1>2, <1>5
<1>8. x[n + 2] = EndOf(g) /\ \A i \in 1..(n + 1) : x[i] = front[i]
  BY <1>1, <1>2, <1>5
<1>9. x = RenderGroup(g, entries)
  BY DEF RenderGroup, front, lines
<1>. HIDE DEF x
<1>10. ASSUME NEW i \in 2..(n + 1) PROVE x[i] # BeginOf(g) /\ x[i] # EndOf(g)
  <2>1. i - 1 \in 1..n /\ i \in 1..(n + 1)
    BY <1>1
  <2>. QED
    BY <1>4, <1>6, <1>8, <2>1
<1>11. x[1] = BeginOf(g)
  BY <1>1, <1>6, <1>8
<1>12. (n + 2) - 1 = n + 1 /\ 2 <= n + 2
  BY <1>1
<1>. QED
  BY <1>7, <1>8, <1>9, <1>10, <1>11, <1>12 DEF IsGroup

LEMMA RemovedHasNoBegin ==
    ASSUME NEW T, NEW t \in Seq(T), NEW g
    PROVE  /\ RemoveManagedGroup(t, g) \in Seq(T)
           /\ NoBegin(RemoveManagedGroup(t, g), g)
<1>1. RemoveManagedGroup(t, g) = LinesAt(t, KeptLines(t, g))
  BY RemoveKeepsLines
<1>2. \A k \in KeptLines(t, g) : t[k] # BeginOf(g)
  BY DEF KeptLines
<1>. QED
  BY <1>1, <1>2, LinesFrom DEF NoBegin

\* All lines of a text, and none of them.
LEMMA AllLines ==
    ASSUME NEW T, NEW t \in Seq(T)
    PROVE  LinesAt(t, DOMAIN t) = t /\ LinesAt(t, {}) = << >>
<1>. DEFINE N == Len(t)
<1>1. N \in Nat /\ DOMAIN t = 1..N /\ 1..0 = {} /\ N - 1 + 1 = N /\ (0 - 1) + 1 = 0
  OBVIOUS
<1>2. LinesAt(t, 1..N) = t
  <2>. DEFINE all == LinesAt(t, 1..N)
              first == 1
  <2>1. N \in Nat /\ first \in Nat /\ 1 <= first /\ N <= Len(t) /\ first <= N + 1
        /\ N - first + 1 = N
    BY <1>1
  <2>. HIDE DEF N, first
  <2>2. /\ LinesAt(t, first..N) \in Seq(T)
        /\ Len(LinesAt(t, first..N)) = N
        /\ \A i \in 1..N : LinesAt(t, first..N)[i] = t[first + i - 1]
    BY <2>1, LinesOfInterval
  <2>3. \A i \in 1..N : first + i - 1 = i
    BY <2>1 DEF first
  <2>4. \A i \in 1..N : all[i] = t[i]
    BY <2>2, <2>3 DEF first
  <2>5. all = t
    <3>1. all \in Seq(T) /\ Len(all) = N
      BY <2>2 DEF first
    <3>. HIDE DEF all
    <3>. QED
      BY <2>4, <3>1, SameText DEF N
  <2>. QED
    BY <2>5
<1>3. LinesAt(t, 1..0) = << >>
  <2>. DEFINE none == LinesAt(t, 1..0)
  <2>1. none \in Seq(T) /\ Len(none) = 0 - 1 + 1
    BY <1>1, LinesOfInterval
  <2>. HIDE DEF none
  <2>2. none = << >>
    BY <1>1, <2>1
  <2>. QED
    BY <2>2 DEF none
<1>. QED
  BY <1>1, <1>2, <1>3

LEMMA NoBeginStays ==
    ASSUME NEW T, NEW t \in Seq(T), NEW g, NoBegin(t, g)
    PROVE  KeptLines(t, g) = DOMAIN t /\ RemoveManagedGroup(t, g) = t
<1>1. ASSUME NEW i \in DOMAIN t PROVE ~Skipping(t, g, i - 1)
  <2>1. \A b \in 1..(i - 1) : b \in DOMAIN t
    OBVIOUS
  <2>. QED
    BY <2>1 DEF Skipping, NoBegin
<1>2. KeptLines(t, g) = DOMAIN t
  BY <1>1 DEF KeptLines, NoBegin
<1>. QED
  BY <1>2, RemoveKeepsLines, AllLines

\* A text without the group, and the group behind it.
LEMMA AppendedGroup ==
    ASSUME NEW T, NEW u \in Seq(T), NEW g, NoBegin(u, g), NEW x, IsGroup(T, x, g)
    PROVE  /\ KeptLines(u \o x, g) = 1..Len(u)
           /\ RemoveManagedGroup(u \o x, g) = u
           /\ LinesAt(u \o x, (Len(u) + 1)..Len(u \o x)) = x
           /\ WellFormed(u \o x, g)
           /\ u \o x \in Seq(T)
           /\ Len(u \o x) = Len(u) + Len(x)
<1>. DEFINE t == u \o x
            m == Len(u)
            n == Len(x)
<1>1. x \in Seq(T) /\ n \in Nat /\ 2 <= n /\ m \in Nat
  BY DEF IsGroup
<1>2. t \in Seq(T) /\ Len(t) = m + n
  BY <1>1
<1>3. /\ \A i \in 1..m : t[i] = u[i]
      /\ \A i \in (m + 1)..(m + n) : t[i] = x[i - m]
  BY <1>1
<1>4. \A i \in 1..m : t[i] # BeginOf(g)
  BY <1>1, <1>3 DEF NoBegin
<1>5. x[1] = BeginOf(g) /\ x[n] = EndOf(g)
  BY DEF IsGroup
<1>6. \A i \in 2..(n - 1) : x[i] # BeginOf(g) /\ x[i] # EndOf(g)
  BY DEF IsGroup
<1>7. DOMAIN t = 1..(m + n)
  BY <1>2
<1>. HIDE DEF t, m, n
<1>8. t[m + 1] = BeginOf(g) /\ t[m + n] = EndOf(g)
  <2>1. m + 1 \in (m + 1)..(m + n) /\ (m + 1) - m = 1
        /\ m + n \in (m + 1)..(m + n) /\ (m + n) - m = n
    BY <1>1
  <2>. QED
    BY <1>3, <1>5, <2>1
<1>9. \A i \in (m + 2)..(m + n - 1) : t[i] # BeginOf(g) /\ t[i] # EndOf(g)
  <2>1. \A i \in (m + 2)..(m + n - 1) : i - m \in 2..(n - 1) /\ i \in (m + 1)..(m + n)
    BY <1>1
  <2>. QED
    BY <1>3, <1>6, <2>1
<1>10. ASSUME NEW i \in 1..m PROVE ~Skipping(t, g, i - 1)
  <2>1. \A b \in 1..(i - 1) : b \in 1..m
    BY <1>1
  <2>. QED
    BY <1>4, <2>1 DEF Skipping
<1>11. ASSUME NEW i \in (m + 2)..(m + n) PROVE Skipping(t, g, i - 1)
  <2>1. m + 1 \in 1..(i - 1)
    BY <1>1
  <2>2. ASSUME NEW k \in (m + 1)..(i - 1) PROVE t[k] # EndOf(g)
    <3>1. k = m + 1 \/ k \in (m + 2)..(m + n - 1)
      BY <1>1
    <3>. QED
      BY <1>8, <1>9, <3>1, BeginIsNoEnd
  <2>. QED
    BY <1>8, <2>1, <2>2 DEF Skipping
<1>12. KeptLines(t, g) = 1..m
  <2>1. ASSUME NEW i \in 1..(m + n)
        PROVE  i \in 1..m \/ i = m + 1 \/ i \in (m + 2)..(m + n)
    BY <1>1
  <2>2. \A i \in 1..m : i \in 1..(m + n)
    BY <1>1
  <2>3. \A i \in 1..m : i \in KeptLines(t, g)
    BY <1>4, <1>7, <1>10, <2>2 DEF KeptLines
  <2>4. \A i \in KeptLines(t, g) : i \in 1..m
    BY <1>7, <1>8, <1>11, <2>1 DEF KeptLines
  <2>. QED
    BY <2>3, <2>4
<1>13. RemoveManagedGroup(t, g) = u
  <2>. DEFINE kept == LinesAt(t, 1..m)
  <2>1. 1 <= 1 /\ m <= Len(t) /\ 1 <= m + 1 /\ m - 1 + 1 = m
    BY <1>1, <1>2
  <2>2. /\ kept \in Seq(T)
        /\ Len(kept) = m
        /\ \A i \in 1..m : kept[i] = t[1 + i - 1]
    BY <1>1, <1>2, <2>1, LinesOfInterval
  <2>3. \A i \in 1..m : 1 + i - 1 = i
    BY <1>1
  <2>. HIDE DEF kept
  <2>4. \A i \in 1..m : kept[i] = u[i]
    BY <1>3, <2>2, <2>3
  <2>5. kept = u
    BY <2>2, <2>4, SameText DEF m
  <2>. QED
    BY <1>2, <1>12, <2>5, RemoveKeepsLines DEF kept
<1>14. LinesAt(t, (m + 1)..(m + n)) = x
  <2>. DEFINE rest == LinesAt(t, (m + 1)..(m + n))
  <2>1. /\ rest \in Seq(T)
        /\ Len(rest) = n
        /\ \A i \in 1..n : rest[i] = t[m + 1 + i - 1]
    <3>. DEFINE first == m + 1
                last == m + n
    <3>1. first \in Nat /\ last \in Nat /\ 1 <= first /\ last <= Len(t)
          /\ first <= last + 1 /\ last - first + 1 = n
      BY <1>1, <1>2
    <3>. HIDE DEF first, last
    <3>2. /\ LinesAt(t, first..last) \in Seq(T)
          /\ Len(LinesAt(t, first..last)) = n
          /\ \A i \in 1..n : LinesAt(t, first..last)[i] = t[first + i - 1]
      BY <1>2, <3>1, LinesOfInterval
    <3>. QED
      BY <3>2 DEF first, last
  <2>2. \A i \in 1..n : m + 1 + i - 1 \in (m + 1)..(m + n) /\ (m + 1 + i - 1) - m = i
    BY <1>1
  <2>. HIDE DEF rest
  <2>3. \A i \in 1..n : rest[i] = x[i]
    BY <1>3, <2>1, <2>2
  <2>4. rest = x
    BY <1>1, <2>1, <2>3, SameText DEF n
  <2>. QED
    BY <2>4 DEF rest
<1>15. WellFormed(t, g)
  <2>1. ASSUME NEW b \in 1..(m + n) PROVE m + n \in b..(m + n)
    BY <1>1
  <2>. QED
    BY <1>2, <1>7, <1>8, <2>1 DEF WellFormed
<1>. QED
  BY <1>2, <1>12, <1>13, <1>14, <1>15 DEF t, m, n


-----------------------------------------------------------------------------
(* preview_apply                                                           *)

\* What is appended to a text from which the group was removed.
Added(j) == IF j.enabled THEN RenderGroup(j.group, j.entries) ELSE << >>

\* A request that preview_apply does not refuse.
LEMMA AddedGroup ==
    ASSUME NEW j \in Jobs, ~PreviewRaises(j)
    PROVE  /\ j.enabled => IsGroup(Line, Added(j), j.group)
           /\ Added(j) \in Seq(Line)
<1>1. j.group \in Groups /\ j.entries \in Seq(Addresses) /\ j.enabled \in BOOLEAN
  BY DEF Jobs
<1>2. CASE j.enabled
  <2>1. \A i \in DOMAIN j.entries : j.entries[i] \in Addresses \ Invalid
    BY <1>1, <1>2 DEF PreviewRaises, ValidEntries
  <2>2. \A i \in DOMAIN j.entries : [kind |-> "entry", of |-> j.entries[i]] \in Line
    BY <2>1 DEF Line, Readable
  <2>3. BeginOf(j.group) \in Line /\ EndOf(j.group) \in Line
    BY <1>1 DEF BeginOf, EndOf, Line, Readable
  <2>4. IsGroup(Line, RenderGroup(j.group, j.entries), j.group)
    BY <1>1, <2>2, <2>3, RenderedIsGroup
  <2>. QED
    BY <1>2, <2>4 DEF Added, IsGroup
<1>3. CASE ~j.enabled
  BY <1>3, EmptyText DEF Added
<1>. QED
  BY <1>2, <1>3

LEMMA PreviewIs ==
    ASSUME NEW t, NEW j
    PROVE  PreviewApply(t, j) = RemoveManagedGroup(t, j.group) \o Added(j)
BY DEF PreviewApply, Added

LEMMA PreviewText ==
    ASSUME NEW t \in Seq(Line), NEW j \in Jobs, ~PreviewRaises(j)
    PROVE  PreviewApply(t, j) \in Seq(Line)
<1>1. RemoveManagedGroup(t, j.group) \in Seq(Line)
  BY RemovedHasNoBegin
<1>2. Added(j) \in Seq(Line)
  BY AddedGroup
<1>3. RemoveManagedGroup(t, j.group) \o Added(j) \in Seq(Line)
  BY <1>1, <1>2
<1>. QED
  BY <1>3, PreviewIs

\* What is read has no line that is not UTF-8, and a text without one reads as
\* it is.
LEMMA DecodedText ==
    ASSUME NEW t \in Seq(Line)
    PROVE  Decode(t) \in Seq(Readable) /\ Decode(t) \in Seq(Line)
<1>1. ASSUME NEW line \in Line PROVE DecodeLine(line) \in Readable
  BY <1>1 DEF DecodeLine, Line, Readable
<1>2. Len(t) \in Nat /\ DOMAIN t = 1..Len(t) /\ \A i \in 1..Len(t) : t[i] \in Line
  OBVIOUS
<1>. DEFINE d == [i \in 1..Len(t) |-> DecodeLine(t[i])]
<1>3. d \in [1..Len(t) -> Readable]
  BY <1>1, <1>2
<1>4. Decode(t) = d
  BY <1>2 DEF Decode
<1>. HIDE DEF d
<1>5. d \in Seq(Readable)
  BY <1>2, <1>3
<1>6. Readable \subseteq Line
  BY DEF Line
<1>. HIDE DEF d
<1>. QED
  BY <1>4, <1>5, <1>6

LEMMA ReadableStays ==
    ASSUME NEW T, \A line \in T : line.kind # "raw", NEW t \in Seq(T)
    PROVE  Decode(t) = t
<1>1. DOMAIN t = 1..Len(t) /\ \A i \in DOMAIN t : t[i] \in T
  OBVIOUS
<1>2. \A i \in DOMAIN t : DecodeLine(t[i]) = t[i]
  BY <1>1 DEF DecodeLine
<1>3. t = [i \in DOMAIN t |-> t[i]]
  OBVIOUS
<1>. QED
  BY <1>2, <1>3 DEF Decode

\* Removing the group again leaves what the first removal left.
LEMMA RemoveAgain ==
    ASSUME NEW T, NEW t \in Seq(T), NEW j,
           j.enabled => IsGroup(T, Added(j), j.group)
    PROVE  RemoveManagedGroup(PreviewApply(t, j), j.group) = RemoveManagedGroup(t, j.group)
<1>. DEFINE g == j.group
            u == RemoveManagedGroup(t, g)
            x == Added(j)
<1>1. u \in Seq(T) /\ NoBegin(u, g)
  BY RemovedHasNoBegin
<1>2. PreviewApply(t, j) = u \o x
  BY PreviewIs
<1>3. j.enabled => IsGroup(T, x, g)
  OBVIOUS
<1>4. ~j.enabled => x = << >>
  BY DEF Added
<1>. HIDE DEF g, u, x
<1>5. RemoveManagedGroup(u \o x, g) = u
  <2>1. CASE j.enabled
    BY <1>1, <1>3, <2>1, AppendedGroup
  <2>2. CASE ~j.enabled
    <3>1. u \o << >> = u
      BY <1>1
    <3>. QED
      BY <1>1, <1>4, <2>2, <3>1, NoBeginStays
  <2>. QED
    BY <2>1, <2>2
<1>. QED
  BY <1>2, <1>5 DEF g, u

-----------------------------------------------------------------------------
(* The steps of apply_group                                                *)

Labels == {"idle", "read", "backup", "preview", "open", "write", "replace"}

\* What the steps of apply_group look at, besides texts.
Control ==
    /\ pc \in [Appliers -> Labels]
    /\ DOMAIN backups = Seconds
    /\ second \in Seconds

\* Whoever is past its own backup, with no change of the file since, finds
\* the file in a backup: perhaps in one that another applier made meanwhile
\* over its own, but then of the same text.
Kept ==
    \A a \in PastBackup \ disturbed : \E s \in Seconds : backups[s] = hosts

BackupInv == Control /\ Kept

-----------------------------------------------------------------------------
LEMMA InitBackup == Init => BackupInv
BY HostsAssumption DEF Init, BackupInv, Control, Kept, PastBackup, Labels

\* The file and the backups stay, and nobody comes past its backup.
LEMMA StillKept ==
    ASSUME BackupInv, UNCHANGED <<hosts, backups, second>>,
           pc' \in [Appliers -> Labels],
           PastBackup' \ disturbed' \subseteq PastBackup \ disturbed
    PROVE  BackupInv'
BY DEF BackupInv, Control, Kept

\* A step of one applier that ends neither its call nor its backup.
LEMMA MovesKeep ==
    ASSUME BackupInv, NEW a \in Appliers,
           \/ \E j \in Requests : Call(a, j)
           \/ Read(a) \/ Preview(a) \/ Open(a) \/ Write(a)
    PROVE  BackupInv'
<1>1. UNCHANGED <<hosts, backups, second, disturbed>>
  BY DEF Call, Read, Preview, Open, Write, files
<1>2. pc' \in [Appliers -> Labels]
  BY DEF BackupInv, Control, Labels, Call, Read, Preview, Open, Write, Goto
<1>3. PastBackup' \subseteq PastBackup
  BY DEF BackupInv, Control, PastBackup, Call, Read, Preview, Open, Write, Goto
<1> QED
  BY <1>1, <1>2, <1>3, StillKept

\* The new backup holds the file, whichever backup it replaced.
LEMMA BackupKeeps ==
    ASSUME BackupInv, NEW a \in Appliers, Backup(a)
    PROVE  BackupInv'
<1>1. Control'
  BY DEF BackupInv, Control, Labels, Backup, Goto
<1>2. backups'[second] = hosts' /\ second \in Seconds
  BY DEF BackupInv, Control, Backup
<1> QED
  BY <1>1, <1>2 DEF BackupInv, Kept

\* The end of a call: when it changed the file, everybody else past a backup
\* is disturbed.
LEMMA EndKeeps ==
    ASSUME BackupInv, NEW a \in Appliers, Ends(a),
           UNCHANGED <<backups, second>>
    PROVE  BackupInv'
<1>1. pc' \in [Appliers -> Labels]
  BY DEF BackupInv, Control, Labels, Ends, Goto
<1>2. PastBackup' = PastBackup \ {a}
  BY DEF BackupInv, Control, PastBackup, Ends, Goto
<1>3. CASE hosts' = hosts
  <2>1. PastBackup' \ disturbed' \subseteq PastBackup \ disturbed
    BY <1>2, <1>3 DEF Ends
  <2> QED
    BY <1>1, <1>3, <2>1, StillKept
<1>4. CASE hosts' # hosts
  <2>1. PastBackup' \ disturbed' = {}
    BY <1>2, <1>4 DEF Ends
  <2> QED
    BY <1>1, <2>1 DEF BackupInv, Control, Kept
<1> QED
  BY <1>3, <1>4

\* Another writer disturbs everybody past a backup.
LEMMA EditKeeps ==
    ASSUME BackupInv, Edit
    PROVE  BackupInv'
<1>1. PastBackup' \ disturbed' = {}
  BY DEF Edit, PastBackup
<1> QED
  BY <1>1 DEF Edit, BackupInv, Control, Kept

LEMMA TickKeeps ==
    ASSUME BackupInv, Tick
    PROVE  BackupInv'
BY DEF Tick, files, BackupInv, Control, Kept, PastBackup

LEMMA BackupStep == BackupInv /\ [Next]_vars => BackupInv'
<1> SUFFICES ASSUME BackupInv, [Next]_vars
             PROVE  BackupInv'
  OBVIOUS
<1>1. CASE UNCHANGED vars
  BY <1>1 DEF vars, files, locals, BackupInv, Control, Kept, PastBackup
<1>2. ASSUME NEW a \in Appliers, Reject(a) \/ Replace(a) \/ Fail(a)
      PROVE  BackupInv'
  <2>1. Ends(a) /\ UNCHANGED <<backups, second>>
    BY <1>2 DEF Reject, Replace, Fail
  <2> QED
    BY <2>1, EndKeeps
<1> QED
  BY <1>1, <1>2, MovesKeep, BackupKeeps, EditKeeps, TickKeeps DEF Next

LEMMA BackupInvAlways == Spec => []BackupInv
BY InitBackup, BackupStep, PTL DEF Spec

\* hosts_manager.py:93-106: however many windows and command lines apply groups
\* at once, under each other's backups of the same second and under other
\* writers, a text that is replaced is in a backup, unless the file changed
\* after the applier made its own.
THEOREM ReplacedIsBackedUpAlways == Spec => ReplacedIsBackedUp
<1>1. ASSUME BackupInv, NEW a \in Appliers \ disturbed, Replaces(a)
      PROVE  \E s \in Seconds : backups[s] = hosts
  BY <1>1 DEF Replaces, BackupInv, Kept, PastBackup
<1>2. BackupInv =>
        [\A a \in Appliers \ disturbed :
            Replaces(a) => \E s \in Seconds : backups[s] = hosts]_vars
  BY <1>1
<1> QED
  BY <1>2, BackupInvAlways, PTL DEF ReplacedIsBackedUp

-----------------------------------------------------------------------------
(* Types                                                                   *)

\* What an applier holds at each of its steps.
Holds(a) ==
    /\ pc[a] # "idle" => job[a] \in Jobs
    /\ pc[a] \in {"backup", "preview"} => current[a] \in Seq(Line)
    /\ pc[a] \in {"open", "write", "replace"} => updated[a] \in Seq(Line)
    /\ pc[a] = "write" => tmp \in Seq(Line)

HoldsInv == TypeOK /\ \A a \in Appliers : Holds(a)

\* A partial or a whole write is a text.
LEMMA OverText ==
    ASSUME NEW new \in Seq(Line), NEW old \in Seq(Line)
    PROVE  Over(new, old) \in Seq(Line)
<1>1. SubSeq(old, Len(new) + 1, Len(old)) \in Seq(Line)
  OBVIOUS
<1>. QED
  BY <1>1 DEF Over

LEMMA PartText ==
    ASSUME NEW new \in Seq(Line), NEW n \in 0..Len(new)
    PROVE  SubSeq(new, 1, n) \in Seq(Line)
OBVIOUS

LEMMA InitHolds == Init => HoldsInv
BY HostsAssumption DEF Init, HoldsInv, TypeOK, Holds

\* A step of a that changes no file: what the others hold stays.
LEMMA CallHolds ==
    ASSUME HoldsInv, NEW a \in Appliers, NEW j \in Requests, Call(a, j)
    PROVE  HoldsInv'
<1>1. j \in Jobs
  BY HostsAssumption
<1>2. TypeOK'
  BY <1>1 DEF HoldsInv, TypeOK, Call, Goto, files
<1>3. ASSUME NEW b \in Appliers PROVE Holds(b)'
  BY <1>1 DEF HoldsInv, TypeOK, Holds, Call, Goto, files
<1>. QED
  BY <1>2, <1>3 DEF HoldsInv

LEMMA ReadHolds ==
    ASSUME HoldsInv, NEW a \in Appliers, Read(a)
    PROVE  HoldsInv'
<1>1. Decode(hosts) \in Seq(Line)
  BY DecodedText DEF HoldsInv, TypeOK
<1>2. TypeOK'
  BY <1>1 DEF HoldsInv, TypeOK, Read, Goto, files
<1>3. ASSUME NEW b \in Appliers PROVE Holds(b)'
  BY <1>1 DEF HoldsInv, TypeOK, Holds, Read, Goto, files
<1>. QED
  BY <1>2, <1>3 DEF HoldsInv

LEMMA BackupHolds ==
    ASSUME HoldsInv, NEW a \in Appliers, Backup(a)
    PROVE  HoldsInv'
<1>1. TypeOK'
  BY DEF HoldsInv, TypeOK, Backup, Goto, locals
<1>2. ASSUME NEW b \in Appliers PROVE Holds(b)'
  BY DEF HoldsInv, TypeOK, Holds, Backup, Goto, locals
<1>. QED
  BY <1>1, <1>2 DEF HoldsInv

LEMMA PreviewHolds ==
    ASSUME HoldsInv, NEW a \in Appliers, Preview(a)
    PROVE  HoldsInv'
<1>. DEFINE text == PreviewApply(current[a], job[a])
<1>1. text \in Seq(Line)
  BY PreviewText DEF HoldsInv, Holds, Preview
<1>2. updated' = [updated EXCEPT ![a] = text]
  BY DEF Preview
<1>. HIDE DEF text
<1>3. TypeOK'
  BY <1>1, <1>2 DEF HoldsInv, TypeOK, Preview, Goto, files
<1>4. ASSUME NEW b \in Appliers PROVE Holds(b)'
  BY <1>1, <1>2 DEF HoldsInv, TypeOK, Holds, Preview, Goto, files
<1>. QED
  BY <1>3, <1>4 DEF HoldsInv

LEMMA OpenHolds ==
    ASSUME HoldsInv, NEW a \in Appliers, Open(a)
    PROVE  HoldsInv'
<1>1. tmp' \in Seq(Line)
  BY EmptyText DEF Open
<1>2. TypeOK'
  BY <1>1 DEF HoldsInv, TypeOK, Open, Goto, locals
<1>3. ASSUME NEW b \in Appliers PROVE Holds(b)'
  BY <1>1 DEF HoldsInv, TypeOK, Holds, Open, Goto, locals
<1>. QED
  BY <1>2, <1>3 DEF HoldsInv

LEMMA WriteHolds ==
    ASSUME HoldsInv, NEW a \in Appliers, Write(a)
    PROVE  HoldsInv'
<1>1. tmp' \in Seq(Line)
  BY OverText DEF HoldsInv, Holds, Write
<1>2. TypeOK'
  BY <1>1 DEF HoldsInv, TypeOK, Write, Goto, locals
<1>3. ASSUME NEW b \in Appliers PROVE Holds(b)'
  BY <1>1 DEF HoldsInv, TypeOK, Holds, Write, Goto, locals
<1>. QED
  BY <1>2, <1>3 DEF HoldsInv

\* The end of a call, however it ended: the file is a text, and so is the
\* temporary file if another applier has it open.
LEMMA EndHolds ==
    ASSUME HoldsInv, NEW a \in Appliers, Ends(a),
           UNCHANGED <<backups, second, edits>>,
           hosts' \in Seq(Line),
           tmp' \in Seq(Line) \cup {None},
           (\E b \in Appliers \ {a} : pc[b] = "write") => tmp' \in Seq(Line)
    PROVE  HoldsInv'
<1>1. disturbed' \subseteq Appliers
  <2>1. PastBackup \subseteq Appliers
    BY DEF PastBackup
  <2>. QED
    BY <2>1 DEF Ends, HoldsInv, TypeOK
<1>2. TypeOK'
  BY <1>1 DEF HoldsInv, TypeOK, Ends, Goto
<1>3. ASSUME NEW b \in Appliers PROVE Holds(b)'
  BY DEF HoldsInv, TypeOK, Holds, Ends, Goto
<1>. QED
  BY <1>2, <1>3 DEF HoldsInv

LEMMA RejectHolds ==
    ASSUME HoldsInv, NEW a \in Appliers, Reject(a)
    PROVE  HoldsInv'
BY EndHolds DEF Reject, HoldsInv, TypeOK, Holds

LEMMA ReplaceHolds ==
    ASSUME HoldsInv, NEW a \in Appliers, Replace(a)
    PROVE  HoldsInv'
BY EndHolds DEF Replace, HoldsInv, TypeOK

LEMMA FailHolds ==
    ASSUME HoldsInv, NEW a \in Appliers, Fail(a)
    PROVE  HoldsInv'
<1>1. CASE pc[a] = "write"
  <2>1. updated[a] \in Seq(Line) /\ tmp \in Seq(Line)
    BY <1>1 DEF HoldsInv, Holds
  <2>2. tmp' \in Seq(Line)
    BY <1>1, <2>1, OverText, PartText DEF Fail
  <2>. QED
    BY <2>2, EndHolds DEF Fail, HoldsInv, TypeOK
<1>2. CASE pc[a] # "write"
  BY <1>2, EndHolds DEF Fail, HoldsInv, TypeOK, Holds
<1>. QED
  BY <1>1, <1>2

LEMMA EditHolds ==
    ASSUME HoldsInv, Edit
    PROVE  HoldsInv'
<1>1. hosts' \in Seq(Line)
  BY HostsAssumption DEF Edit
<1>2. edits' \in 0..MaxEdits
  BY HostsAssumption DEF Edit, HoldsInv, TypeOK
<1>3. TypeOK'
  BY <1>1, <1>2 DEF HoldsInv, TypeOK, Edit, PastBackup, locals
<1>4. ASSUME NEW b \in Appliers PROVE Holds(b)'
  BY DEF HoldsInv, Holds, Edit, locals
<1>. QED
  BY <1>3, <1>4 DEF HoldsInv

LEMMA HoldsStep == HoldsInv /\ [Next]_vars => HoldsInv'
<1> SUFFICES ASSUME HoldsInv, [Next]_vars
             PROVE  HoldsInv'
  OBVIOUS
<1>1. CASE UNCHANGED vars
  BY <1>1 DEF vars, HoldsInv, TypeOK, Holds
<1>2. CASE Tick
  BY <1>2 DEF Tick, files, locals, HoldsInv, TypeOK, Holds
<1> QED
  BY <1>1, <1>2, CallHolds, ReadHolds, BackupHolds, PreviewHolds, RejectHolds, OpenHolds,
     WriteHolds, ReplaceHolds, FailHolds, EditHolds DEF Next

LEMMA HoldsAlways == Spec => []HoldsInv
BY InitHolds, HoldsStep, PTL DEF Spec

\* The file and what is made of it are always texts, whoever writes, and a
\* rename finds nobody who still has the temporary file open.
THEOREM TypesAlways == Spec => []TypeOK
<1>1. HoldsInv => TypeOK
  BY DEF HoldsInv
<1> QED
  BY <1>1, HoldsAlways, PTL

-----------------------------------------------------------------------------
(* Applying twice                                                          *)

LEMMA TwiceIsOnce ==
    ASSUME NEW T, NEW t \in Seq(T), NEW j, j.enabled => IsGroup(T, Added(j), j.group)
    PROVE  LET once == PreviewApply(t, j) IN
           /\ PreviewApply(once, j) = once
           /\ RemoveManagedGroup(once, j.group) = RemoveManagedGroup(t, j.group)
<1>. DEFINE once == PreviewApply(t, j)
<1>1. RemoveManagedGroup(once, j.group) = RemoveManagedGroup(t, j.group)
  BY RemoveAgain
<1>2. once = RemoveManagedGroup(t, j.group) \o Added(j)
  BY PreviewIs
<1>3. PreviewApply(once, j) = RemoveManagedGroup(once, j.group) \o Added(j)
  BY PreviewIs
<1>. HIDE DEF once
<1>4. PreviewApply(once, j) = once
  BY <1>1, <1>2, <1>3
<1>. QED
  BY <1>1, <1>4 DEF once

\* hosts_manager.py:63-90: whatever the file holds, markers in order or not,
\* and whatever is asked for, refused entries included, applying a group twice
\* is applying it once, and disabling it afterwards is disabling it.
THEOREM GroupIsReversibleAlways == Spec => []GroupIsReversible
<1>. DEFINE T == Readable \cup [kind : {"entry"}, of : Addresses]
<1>1. ASSUME NEW j \in Jobs
      PROVE  (j.enabled => IsGroup(T, Added(j), j.group)) /\ Added(j) \in Seq(T)
  <2>1. j.group \in Groups /\ j.entries \in Seq(Addresses)
    BY DEF Jobs
  <2>2. \A i \in DOMAIN j.entries : j.entries[i] \in Addresses
    BY <2>1
  <2>3. \A i \in DOMAIN j.entries : [kind |-> "entry", of |-> j.entries[i]] \in T
    BY <2>2
  <2>4. BeginOf(j.group) \in T /\ EndOf(j.group) \in T
    BY <2>1 DEF BeginOf, EndOf, Readable
  <2>. HIDE DEF T
  <2>5. IsGroup(T, RenderGroup(j.group, j.entries), j.group)
    BY <2>1, <2>3, <2>4, RenderedIsGroup
  <2>6. RenderGroup(j.group, j.entries) \in Seq(T)
    BY <2>5 DEF IsGroup
  <2>. QED
    BY <2>5, <2>6, EmptyText DEF Added
<1>2. ASSUME NEW t \in Seq(Line) PROVE Decode(t) \in Seq(T)
  <2>1. Readable \subseteq T
    OBVIOUS
  <2>. HIDE DEF T
  <2>. QED
    BY <2>1, DecodedText
<1>3. \A line \in T : line.kind # "raw"
  BY DEF Readable
<1>. HIDE DEF T
<1>4. HoldsInv => GroupIsReversible
  <2>1. SUFFICES ASSUME HoldsInv, NEW j \in Requests
                 PROVE  LET once == PreviewApply(Decode(hosts), j) IN
                        /\ PreviewApply(Decode(once), j) = once
                        /\ RemoveManagedGroup(Decode(once), j.group)
                                = RemoveManagedGroup(Decode(hosts), j.group)
    BY DEF GroupIsReversible
  <2>. DEFINE read == Decode(hosts)
              once == PreviewApply(read, j)
  <2>2. j \in Jobs
    BY HostsAssumption
  <2>3. read \in Seq(T)
    BY <1>2, <2>1 DEF HoldsInv, TypeOK
  <2>. HIDE DEF read
  <2>4. /\ PreviewApply(once, j) = once
        /\ RemoveManagedGroup(once, j.group) = RemoveManagedGroup(read, j.group)
    BY <1>1, <2>2, <2>3, TwiceIsOnce
  <2>5. once \in Seq(T)
    <3>1. RemoveManagedGroup(read, j.group) \in Seq(T)
      BY <2>3, RemovedHasNoBegin
    <3>2. Added(j) \in Seq(T)
      BY <1>1, <2>2
    <3>3. once = RemoveManagedGroup(read, j.group) \o Added(j)
      BY PreviewIs
    <3>. HIDE DEF once
    <3>. QED
      BY <3>1, <3>2, <3>3
  <2>. HIDE DEF once
  <2>6. Decode(once) = once
    BY <1>3, <2>5, ReadableStays
  <2>. QED
    BY <2>4, <2>6 DEF once, read
<1>. QED
  BY <1>4, HoldsAlways, PTL

-----------------------------------------------------------------------------
(* Outside and inside a group                                              *)

\* In a text whose markers are in order, the loop hides what is in the group.
LEMMA OutsideIsKept ==
    ASSUME NEW T, NEW t \in Seq(T), NEW g, WellFormed(t, g)
    PROVE  {i \in DOMAIN t : ~InGroup(t, g, i)} = KeptLines(t, g)
<1>. DEFINE N == Len(t)
<1>1. N \in Nat /\ DOMAIN t = 1..N
  OBVIOUS
<1>. HIDE DEF N
<1>2. ASSUME NEW b \in 1..N, NEW i \in b..N, t[b] = BeginOf(g),
             \A k \in b..(i - 1) : t[k] # EndOf(g)
      PROVE  InGroup(t, g, i)
  <2>. DEFINE Ends0 == {e \in b..N : t[e] = EndOf(g)}
  <2>1. PICK e0 \in b..N : t[e0] = EndOf(g)
    BY <1>1, <1>2 DEF WellFormed, N
  <2>2. Ends0 \in SUBSET Nat /\ Ends0 # {}
    BY <1>1, <2>1
  <2>3. PICK e \in Ends0 : \A m \in Ends0 : e <= m
    <3>. HIDE DEF Ends0
    <3>. QED
      BY <2>2, LeastNumber
  <2>4. e \in b..N /\ t[e] = EndOf(g)
    OBVIOUS
  <2>5. \A k \in b..(e - 1) : t[k] # EndOf(g)
    <3>1. \A k \in b..(e - 1) : k \in b..N /\ ~(e <= k)
      BY <1>1, <2>4
    <3>. QED
      BY <2>3, <3>1
  <2>6. i <= e
    <3>1. ~(i <= e) => e \in b..(i - 1)
      BY <1>1, <2>4
    <3>. QED
      BY <1>2, <2>4, <3>1
  <2>7. b \in 1..i /\ e \in i..N
    BY <1>1, <2>4, <2>6
  <2>. HIDE DEF Ends0
  <2>. QED
    BY <1>2, <2>4, <2>5, <2>7 DEF InGroup, N
<1>3. ASSUME NEW i \in 1..N, t[i] = BeginOf(g) PROVE InGroup(t, g, i)
  <2>1. i \in i..N /\ \A k \in i..(i - 1) : FALSE
    BY <1>1
  <2>. QED
    BY <1>2, <1>3, <2>1
<1>4. ASSUME NEW i \in 1..N, Skipping(t, g, i - 1) PROVE InGroup(t, g, i)
  <2>1. PICK b \in 1..(i - 1) : t[b] = BeginOf(g) /\ \A k \in b..(i - 1) : t[k] # EndOf(g)
    BY <1>4 DEF Skipping
  <2>2. b \in 1..N /\ i \in b..N
    BY <1>1
  <2>. QED
    BY <1>2, <2>1, <2>2
<1>5. ASSUME NEW i \in 1..N, InGroup(t, g, i)
      PROVE  Skipping(t, g, i - 1) \/ t[i] = BeginOf(g)
  <2>1. PICK b \in 1..i, e \in i..N :
            t[b] = BeginOf(g) /\ \A k \in b..(e - 1) : t[k] # EndOf(g)
    BY <1>5 DEF InGroup, N
  <2>2. CASE b = i
    BY <2>1, <2>2
  <2>3. CASE b # i
    <3>1. b \in 1..(i - 1) /\ \A k \in b..(i - 1) : k \in b..(e - 1)
      BY <1>1, <2>3
    <3>. QED
      BY <2>1, <3>1 DEF Skipping
  <2>. QED
    BY <2>2, <2>3
<1>. QED
  BY <1>1, <1>3, <1>4, <1>5 DEF KeptLines

\* The lines a text has outside the group are those remove_managed_group leaves.
LEMMA OutsideIsRemoved ==
    ASSUME NEW T, NEW t \in Seq(T), NEW g, WellFormed(t, g)
    PROVE  Outside(t, g) = RemoveManagedGroup(t, g)
BY OutsideIsKept, RemoveKeepsLines DEF Outside

LEMMA InsideIsHidden ==
    ASSUME NEW T, NEW t \in Seq(T), NEW g, WellFormed(t, g)
    PROVE  Inside(t, g) = LinesAt(t, DOMAIN t \ KeptLines(t, g))
<1>1. {i \in DOMAIN t : InGroup(t, g, i)} = DOMAIN t \ KeptLines(t, g)
  BY OutsideIsKept
<1>. QED
  BY <1>1 DEF Inside

\* What an apply leaves of a text, outside the group and inside.
LEMMA ApplyIsExact ==
    ASSUME NEW T, NEW t \in Seq(T), NEW j, WellFormed(t, j.group),
           j.enabled => IsGroup(T, Added(j), j.group)
    PROVE  /\ Outside(PreviewApply(t, j), j.group) = Outside(t, j.group)
           /\ Inside(PreviewApply(t, j), j.group) = Added(j)
<1>. DEFINE g == j.group
            u == RemoveManagedGroup(t, g)
            x == Added(j)
<1>1. u \in Seq(T) /\ NoBegin(u, g)
  BY RemovedHasNoBegin
<1>2. PreviewApply(t, j) = u \o x
  BY PreviewIs
<1>3. Outside(t, g) = u
  BY OutsideIsRemoved
<1>4. j.enabled => IsGroup(T, x, g)
  OBVIOUS
<1>5. ~j.enabled => x = << >>
  BY DEF Added
<1>. HIDE DEF g, u, x
<1>6. CASE j.enabled
  <2>. DEFINE s == u \o x
              m == Len(u)
              n == Len(s)
  <2>1. /\ KeptLines(s, g) = 1..m
        /\ RemoveManagedGroup(s, g) = u
        /\ LinesAt(s, (m + 1)..n) = x
        /\ WellFormed(s, g)
        /\ s \in Seq(T)
        /\ n = m + Len(x)
    BY <1>1, <1>4, <1>6, AppendedGroup
  <2>2. m \in Nat /\ n \in Nat /\ m <= n /\ DOMAIN s = 1..n
    <3>1. m \in Nat /\ Len(x) \in Nat
      BY <1>1, <1>4, <1>6 DEF IsGroup
    <3>. HIDE DEF s, m
    <3>2. n \in Nat /\ DOMAIN s = 1..n
      BY <2>1
    <3>. HIDE DEF n
    <3>. QED
      BY <2>1, <3>1, <3>2
  <2>. HIDE DEF s, m, n
  <2>3. DOMAIN s \ KeptLines(s, g) = (m + 1)..n
    BY <2>1, <2>2
  <2>4. Outside(s, g) = u
    BY <2>1, OutsideIsRemoved
  <2>5. Inside(s, g) = x
    BY <2>1, <2>3, InsideIsHidden
  <2>. QED
    BY <1>2, <1>3, <2>4, <2>5 DEF s, g, x
<1>7. CASE ~j.enabled
  <2>1. u \o x = u
    <3>1. u \o << >> = u
      BY <1>1
    <3>. QED
      BY <1>5, <1>7, <3>1
  <2>2. WellFormed(u, g)
    BY <1>1 DEF WellFormed, NoBegin
  <2>3. KeptLines(u, g) = DOMAIN u /\ RemoveManagedGroup(u, g) = u
    BY <1>1, NoBeginStays
  <2>4. Outside(u, g) = u
    BY <1>1, <2>2, <2>3, OutsideIsRemoved
  <2>5. Inside(u, g) = << >>
    <3>1. DOMAIN u \ KeptLines(u, g) = {}
      BY <2>3
    <3>2. LinesAt(u, {}) = << >>
      BY <1>1, AllLines
    <3>. QED
      BY <1>1, <2>2, <3>1, <3>2, InsideIsHidden
  <2>. QED
    BY <1>2, <1>3, <1>5, <1>7, <2>1, <2>4, <2>5 DEF g, x
<1>. QED
  BY <1>6, <1>7

-----------------------------------------------------------------------------
(* One applier at a time                                                   *)

\* The text to write is the edit of the text read, by a request that was not
\* refused.
Edited(a) ==
    pc[a] \in {"open", "write", "replace"} =>
        /\ ~PreviewRaises(job[a])
        /\ updated[a] = PreviewApply(current[a], job[a])

\* The temporary file is empty once opened, and whole once written.
Written(a) ==
    /\ pc[a] = "write" => tmp = << >>
    /\ pc[a] = "replace" => tmp = updated[a]

OneAtWork == \A a, b \in Appliers : pc[a] # "idle" /\ pc[b] # "idle" => a = b

\* The second half needs appliers one at a time: another one truncates the
\* temporary file of the first, or renames its own in its place.
WorkInv ==
    /\ HoldsInv
    /\ \A a \in Appliers : Edited(a)
    /\ Alone => OneAtWork /\ \A a \in Appliers : Written(a)

LEMMA InitWork == Init => WorkInv
BY InitHolds DEF Init, WorkInv, Edited, Written, OneAtWork

LEMMA WholeWrite ==
    ASSUME NEW new \in Seq(Line)
    PROVE  Over(new, << >>) = new
<1>1. SubSeq(<< >>, Len(new) + 1, Len(<< >>)) = << >>
  OBVIOUS
<1>2. new \o << >> = new
  OBVIOUS
<1>. QED
  BY <1>1, <1>2 DEF Over

\* What an applier has computed stays with it.
LEMMA EditedStep ==
    ASSUME WorkInv, [Next]_vars, NEW a \in Appliers
    PROVE  Edited(a)'
<1>. USE DEF WorkInv, HoldsInv, TypeOK, Edited, Goto
<1>1. ASSUME UNCHANGED <<pc, job, current, updated>> PROVE Edited(a)'
  BY <1>1
<1>2. CASE UNCHANGED vars
  BY <1>1, <1>2 DEF vars
<1>3. CASE Edit \/ Tick
  BY <1>1, <1>3 DEF Edit, Tick, locals
<1>4. ASSUME NEW b \in Appliers, NEW j \in Requests, Call(b, j) PROVE Edited(a)'
  BY <1>4 DEF Call
<1>5. ASSUME NEW b \in Appliers, Read(b) \/ Backup(b) PROVE Edited(a)'
  BY <1>5 DEF Read, Backup, locals
<1>6. ASSUME NEW b \in Appliers, Preview(b) PROVE Edited(a)'
  BY <1>6 DEF Preview
<1>7. ASSUME NEW b \in Appliers, Open(b) \/ Write(b) PROVE Edited(a)'
  BY <1>7 DEF Open, Write, locals
<1>8. ASSUME NEW b \in Appliers, Reject(b) \/ Replace(b) \/ Fail(b) PROVE Edited(a)'
  <2>1. Ends(b)
    BY <1>8 DEF Reject, Replace, Fail
  <2>. QED
    BY <2>1 DEF Ends
<1>. QED
  BY <1>2, <1>3, <1>4, <1>5, <1>6, <1>7, <1>8 DEF Next

LEMMA AloneStep ==
    ASSUME WorkInv, [Next]_vars, Alone
    PROVE  OneAtWork' /\ \A a \in Appliers : Written(a)'
<1>. USE DEF WorkInv, HoldsInv, TypeOK, OneAtWork, Written, Goto
<1>1. CASE UNCHANGED vars
  BY <1>1 DEF vars
<1>2. CASE Edit \/ Tick
  BY <1>2 DEF Edit, Tick, locals, files
<1>3. ASSUME NEW b \in Appliers, NEW j \in Requests, Call(b, j)
      PROVE  OneAtWork' /\ \A a \in Appliers : Written(a)'
  BY <1>3 DEF Call, files
<1>4. ASSUME NEW b \in Appliers, Read(b) \/ Backup(b)
      PROVE  OneAtWork' /\ \A a \in Appliers : Written(a)'
  BY <1>4 DEF Read, Backup, locals, files
<1>5. ASSUME NEW b \in Appliers, Preview(b)
      PROVE  OneAtWork' /\ \A a \in Appliers : Written(a)'
  BY <1>5 DEF Preview, files
<1>6. ASSUME NEW b \in Appliers, Open(b)
      PROVE  OneAtWork' /\ \A a \in Appliers : Written(a)'
  BY <1>6 DEF Open, locals
<1>7. ASSUME NEW b \in Appliers, Write(b)
      PROVE  OneAtWork' /\ \A a \in Appliers : Written(a)'
  <2>1. tmp = << >> /\ updated[b] \in Seq(Line)
    BY <1>7 DEF Write, Holds
  <2>2. tmp' = updated[b]
    BY <1>7, <2>1, WholeWrite DEF Write
  <2>. QED
    BY <1>7, <2>2 DEF Write, locals
<1>8. ASSUME NEW b \in Appliers, Reject(b) \/ Replace(b) \/ Fail(b)
      PROVE  OneAtWork' /\ \A a \in Appliers : Written(a)'
  <2>1. Ends(b) /\ pc[b] # "idle"
    BY <1>8 DEF Reject, Replace, Fail
  <2>2. \A a \in Appliers : pc'[a] = "idle"
    BY <2>1 DEF Ends
  <2>. QED
    BY <2>2
<1>. QED
  BY <1>1, <1>2, <1>3, <1>4, <1>5, <1>6, <1>7, <1>8 DEF Next

LEMMA WorkStep == WorkInv /\ [Next]_vars => WorkInv'
<1> SUFFICES ASSUME WorkInv, [Next]_vars
             PROVE  WorkInv'
  OBVIOUS
<1>1. HoldsInv'
  BY HoldsStep DEF WorkInv
<1> QED
  BY <1>1, EditedStep, AloneStep DEF WorkInv

LEMMA WorkAlways == Spec => []WorkInv
BY InitWork, WorkStep, PTL DEF Spec

\* A step that looks like the rename of an applier is one.
LEMMA ReplacesIsReplace ==
    ASSUME WorkInv, [Next]_vars, NEW a \in Appliers, Replaces(a)
    PROVE  Replace(a)
<1>. USE DEF WorkInv, HoldsInv, TypeOK, Replaces, Goto
<1>1. ~ UNCHANGED vars /\ ~ UNCHANGED pc
  BY DEF vars
<1>2. ~ Edit /\ ~ Tick
  BY <1>1 DEF Edit, Tick, files
<1>3. ASSUME NEW b \in Appliers, \/ \E j \in Requests : Call(b, j)
                                 \/ Read(b) \/ Backup(b) \/ Preview(b)
                                 \/ Open(b) \/ Write(b) \/ Reject(b) \/ Fail(b)
      PROVE  FALSE
  BY <1>3 DEF Call, Read, Backup, Preview, Open, Write, Reject, Fail, files
<1>4. ASSUME NEW b \in Appliers, Replace(b) PROVE Replace(a)
  BY <1>4 DEF Replace, Ends
<1>. QED
  BY <1>1, <1>2, <1>3, <1>4 DEF Next

\* hosts_manager.py:108-113: one applier at a time, and whatever fails or dies
\* at whatever moment and whoever else writes, the file changes only to a text
\* another program leaves there or to the whole text the applier rendered.
THEOREM AtomicReplaceAlways ==
    ASSUME Alone
    PROVE  Spec => AtomicReplace
<1>1. ASSUME WorkInv, [Next]_vars, hosts' # hosts
      PROVE  \/ edits' # edits
             \/ \E a \in Appliers : Replaces(a) /\ hosts' = updated[a]
  <2>1. CASE Edit
    BY <2>1 DEF Edit, WorkInv, HoldsInv, TypeOK
  <2>2. ASSUME NEW a \in Appliers, Replace(a)
        PROVE  Replaces(a) /\ hosts' = updated[a]
    BY <1>1, <2>2 DEF Replace, Replaces, Ends, Goto, WorkInv, HoldsInv, TypeOK, Written
  <2>3. Edit \/ \E a \in Appliers : Replace(a)
    BY <1>1 DEF Next, vars, Call, Read, Backup, Preview, Reject, Open, Write, Fail, Tick, files
  <2>. QED
    BY <2>1, <2>2, <2>3
<1>2. WorkInv /\ [Next]_vars =>
        [hosts' # hosts =>
            \/ edits' # edits
            \/ \E a \in Appliers : Replaces(a) /\ hosts' = updated[a]]_vars
  BY <1>1
<1>. QED
  BY <1>2, WorkAlways, PTL DEF AtomicReplace, Spec

\* hosts_manager.py:63-104: one applier at a time, applying any group to any
\* file whose markers of that group are in order, and that nobody else changed
\* meanwhile, leaves every line outside the group as it was read, bytes that are
\* not UTF-8 replaced, and in it the entries asked for, and no others.
THEOREM OnlyTheGroupChangesAlways ==
    ASSUME Alone
    PROVE  Spec => OnlyTheGroupChanges
<1>1. ASSUME WorkInv, [Next]_vars, NEW a \in Appliers, Replaces(a),
             current[a] = Decode(hosts), WellFormed(Decode(hosts), job[a].group)
      PROVE  /\ Outside(hosts', job[a].group) = Outside(Decode(hosts), job[a].group)
             /\ Inside(hosts', job[a].group) =
                    IF job[a].enabled THEN RenderGroup(job[a].group, job[a].entries)
                    ELSE << >>
  <2>. DEFINE j == job[a]
              read == Decode(hosts)
  <2>1. Replace(a)
    BY <1>1, ReplacesIsReplace
  <2>2. hosts' = PreviewApply(read, j) /\ ~PreviewRaises(j) /\ j \in Jobs
    BY <1>1, <2>1 DEF Replace, WorkInv, HoldsInv, Holds, Edited, Written
  <2>3. read \in Seq(Line)
    BY <1>1, DecodedText DEF WorkInv, HoldsInv, TypeOK
  <2>. HIDE DEF j, read
  <2>4. j.enabled => IsGroup(Line, Added(j), j.group)
    BY <2>2, AddedGroup
  <2>5. WellFormed(read, j.group)
    BY <1>1 DEF j, read
  <2>. QED
    BY <2>2, <2>3, <2>4, <2>5, ApplyIsExact DEF Added, j, read
<1>2. WorkInv /\ [Next]_vars =>
        [\A a \in Appliers :
            LET j == job[a]
                read == Decode(hosts)
            IN
            Replaces(a) /\ current[a] = read /\ WellFormed(read, j.group) =>
                /\ Outside(hosts', j.group) = Outside(read, j.group)
                /\ Inside(hosts', j.group) =
                        IF j.enabled THEN RenderGroup(j.group, j.entries) ELSE <<>>]_vars
  BY <1>1
<1>. QED
  BY <1>2, WorkAlways, PTL DEF OnlyTheGroupChanges, Spec
=============================================================================
