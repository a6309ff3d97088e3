---------------------------- MODULE ManagedProofs ----------------------------
(***************************************************************************)
(* Proofs about ManagedConfig for every file, policy, network and edit.    *)
(* The rules of a configuration are read by a loop, which the model has as *)
(* a recursive function; what the loop computes is proved by induction     *)
(* over the rules read, from the principle of the least number.            *)
(***************************************************************************)
EXTENDS ManagedConfig, FiniteSetTheorems, TLAPS

-----------------------------------------------------------------------------
(* Numbers                                                                 *)

\* Every set of natural numbers has a least one.
LEMMA LeastNumber ==
    ASSUME NEW T \in SUBSET Nat, T # {}
    PROVE  \E n \in T : \A m \in T : n <= m
<1>. DEFINE Below == {1..n : n \in T}
<1>1. Below \subseteq FiniteSubsetsOf(Nat)
  <2>1. \A n \in T : 1..n \subseteq Nat /\ IsFiniteSet(1..n)
    BY FS_Interval
  <2>. QED
    BY <2>1 DEF FiniteSubsetsOf
<1>2. Below # {}
  OBVIOUS
<1>. HIDE DEF Below
<1>3. PICK least \in Below : \A b \in Below : <<b, least>> \notin StrictSubsetOrdering(Nat)
  BY <1>1, <1>2, FS_StrictSubsetOrderingWellFounded, WFMin
<1>4. PICK n \in T : least = 1..n
  BY <1>3 DEF Below
<1>5. ASSUME NEW m \in T, m < n PROVE FALSE
  <2>1. 1..m \subseteq 1..n /\ 1..m # 1..n /\ 1..n \subseteq Nat
    <3>1. n \in 1..n /\ n \notin 1..m
      BY <1>5
    <3>. QED
      BY <1>5, <3>1
  <2>2. 1..m \in Below
    BY DEF Below
  <2>. QED
    BY <1>3, <1>4, <2>1, <2>2 DEF StrictSubsetOrdering
<1>. QED
  BY <1>5

\* Induction over 0..N, for a set in the place of a formula.
LEMMA Induction ==
    ASSUME NEW N \in Nat, NEW S, 0 \in S, \A n \in 0..(N - 1) : n \in S => n + 1 \in S
    PROVE  0..N \subseteq S
<1>. DEFINE T == {n \in Nat : n \in 0..N /\ n \notin S}
<1>1. ASSUME T # {} PROVE FALSE
  <2>1. PICK n \in T : \A m \in T : n <= m
    <3>1. T \in SUBSET Nat
      OBVIOUS
    <3>. HIDE DEF T
    <3>. QED
      BY <1>1, <3>1, LeastNumber
  <2>2. n # 0 /\ n - 1 \in 0..(N - 1) /\ n - 1 \notin T
    BY <2>1
  <2>. QED
    BY <2>1, <2>2
<1>. QED
  BY <1>1

LEMMA LeastOf ==
    ASSUME NEW T \in SUBSET Nat, T # {}
    PROVE  Min(T) \in T /\ \A m \in T : Min(T) <= m
  BY LeastNumber DEF Min

LEMMA LeastIs ==
    ASSUME NEW T \in SUBSET Nat, NEW n \in T, \A m \in T : n <= m
    PROVE  Min(T) = n
<1>1. Min(T) \in T /\ \A m \in T : Min(T) <= m
  BY LeastOf
<1>. DEFINE least == Min(T)
<1>2. least \in T /\ least <= n
  BY <1>1
<1>. HIDE DEF least
<1>3. least = n
  BY <1>2
<1>. QED
  BY <1>3 DEF least

LEMMA ADay == Longest \in Nat /\ 15 < Longest
  BY SMT DEF Longest

LEMMA ClampRange ==
    ASSUME NEW s \in Int
    PROVE  Clamp(s) \in 15..Longest /\ (s \in 15..Longest => Clamp(s) = s)
  BY ADay, SMT DEF Clamp, Larger, Smaller

-----------------------------------------------------------------------------
(* One rule                                                                *)

Whens == UNION {[D -> Values] : D \in SUBSET Keys}

LEMMA ConditionsAreNormal ==
    ASSUME NEW when \in Whens
    PROVE  /\ Conditions(when) \in Whens
           /\ Conditions(Conditions(when)) = Conditions(when)
<1>. DEFINE counts == {j \in DOMAIN when : j # "bssid" \/ when[j] \notin Unparsable}
            known == [k \in counts |-> IF k = "bssid" THEN Folded[when[k]] ELSE when[k]]
<1>1. Conditions(when) = known
  BY DEF Conditions
<1>2. counts \subseteq Keys /\ \A k \in counts : when[k] \in Values
  BY DEF Whens
<1>3. \A k \in counts : known[k] \in Values
  BY <1>2, ManagedAssumption
<1>4. known \in Whens
  <2>1. known \in [counts -> Values] /\ counts \in SUBSET Keys
    BY <1>2, <1>3
  <2>. HIDE DEF counts, known
  <2>. QED
    BY <2>1 DEF Whens
<1>5. \A k \in counts : k # "bssid" \/ known[k] \notin Unparsable
  BY <1>2, ManagedAssumption
<1>6. \A k \in counts : k = "bssid" => Folded[known[k]] = known[k]
  BY <1>2, ManagedAssumption
<1>7. {j \in DOMAIN known : j # "bssid" \/ known[j] \notin Unparsable} = counts
  BY <1>5
<1>8. Conditions(known) = [k \in counts |-> IF k = "bssid" THEN Folded[known[k]] ELSE known[k]]
  <2>. HIDE DEF counts, known
  <2>. QED
    BY <1>7 DEF Conditions
<1>9. \A k \in counts : (IF k = "bssid" THEN Folded[known[k]] ELSE known[k]) = known[k]
  BY <1>6
<1>10. Conditions(known) = known
  BY <1>8, <1>9
<1>. QED
  BY <1>1, <1>4, <1>10

\* The rules a normal configuration may have.
NormalForms ==
    {r \in Rules : /\ Usable(r) /\ NormalRule(r) = r
                   /\ {r.enabled, r.auto_apply} \subseteq BOOLEAN}

LEMMA ParseBoolIsStable ==
    ASSUME NEW raw, NEW default \in BOOLEAN
    PROVE  /\ ParseBool(raw, default) \in BOOLEAN
           /\ ParseBool(ParseBool(raw, default), default) = ParseBool(raw, default)
  BY DEF ParseBool

LEMMA NormalRuleIsNormal ==
    ASSUME NEW r \in Rules, Usable(r)
    PROVE  /\ NormalRule(r) \in NormalForms
           /\ NormalRule(r).when = Conditions(r.when)
           /\ NormalRule(r).enabled = ParseBool(r.enabled, TRUE)
<1>. DEFINE n == NormalRule(r)
            on == ParseBool(r.enabled, TRUE)
            auto == ParseBool(r.auto_apply, FALSE)
            when == Conditions(r.when)
<1>1. n = [r EXCEPT !.enabled = on, !.auto_apply = auto, !.when = when]
  BY DEF NormalRule
<1>2. /\ on \in BOOLEAN /\ ParseBool(on, TRUE) = on
      /\ auto \in BOOLEAN /\ ParseBool(auto, FALSE) = auto
  BY ParseBoolIsStable
<1>3. when \in Whens /\ Conditions(when) = when
  BY ConditionsAreNormal DEF Rules, Whens
<1>4. DOMAIN when # {} /\ r.name # NoName
  BY DEF Usable
<1>. HIDE DEF on, auto, when, n
<1>5. /\ n \in Rules
      /\ n.name = r.name /\ n.enabled = on /\ n.auto_apply = auto /\ n.when = when
  BY <1>1, <1>2, <1>3 DEF Rules, Whens
<1>6. Usable(n)
  BY <1>3, <1>4, <1>5, ManagedAssumption DEF Usable
<1>7. NormalRule(n) = n
  <2>1. NormalRule(n) = [n EXCEPT !.enabled = on, !.auto_apply = auto, !.when = when]
    BY <1>2, <1>3, <1>5 DEF NormalRule
  <2>2. [n EXCEPT !.enabled = on, !.auto_apply = auto, !.when = when] = n
    BY <1>5 DEF Rules
  <2>. QED
    BY <2>1, <2>2
<1>8. {n.enabled, n.auto_apply} \subseteq BOOLEAN
  BY <1>2, <1>5
<1>. QED
  BY <1>5, <1>6, <1>7, <1>8 DEF NormalForms, n, on, when

-----------------------------------------------------------------------------
(* The loop over the rules                                                 *)

\* normal[n] is the list after n rules of the loop of NormalRules, n up to m.
Reads(rules, normal, m) ==
    normal = [n \in 0..m |->
                IF n = 0 THEN << >>
                ELSE IF Usable(rules[n]) THEN Append(normal[n - 1], NormalRule(rules[n]))
                ELSE normal[n - 1]]

\* The recursive definition of NormalRules defines such a function.
LEMMA LoopEnds ==
    ASSUME NEW rules \in Seq(Rules \cup {Junk})
    PROVE  \E normal : /\ Reads(rules, normal, Len(rules))
                       /\ NormalRules(rules) = normal[Len(rules)]
<1>. DEFINE S == {m \in 0..Len(rules) : \E f : Reads(rules, f, m)}
<1>1. 0 \in S
  <2>. DEFINE f == [n \in 0..0 |-> << >>]
  <2>1. Reads(rules, f, 0)
    BY DEF Reads
  <2>. QED
    BY <2>1
<1>2. ASSUME NEW m \in 0..(Len(rules) - 1), m \in S PROVE m + 1 \in S
  <2>1. PICK f : Reads(rules, f, m)
    BY <1>2
  <2>. DEFINE last == IF Usable(rules[m + 1]) THEN Append(f[m], NormalRule(rules[m + 1]))
                      ELSE f[m]
              g == [n \in 0..(m + 1) |-> IF n = m + 1 THEN last ELSE f[n]]
              Body(n) == IF n = 0 THEN << >>
                         ELSE IF Usable(rules[n]) THEN Append(g[n - 1], NormalRule(rules[n]))
                         ELSE g[n - 1]
  <2>2. m \in Nat /\ m + 1 # 0
    OBVIOUS
  <2>3. \A n \in 0..(m + 1) : g[n] = Body(n)
    <3>1. g[m] = f[m] /\ g[m + 1] = last
      BY <2>2
    <3>2. \A n \in 0..m : g[n] = f[n] /\ n \in 0..(m + 1) /\ n # m + 1
      BY <2>2
    <3>. HIDE DEF g
    <3>3. g[m + 1] = Body(m + 1)
      BY <2>2, <3>1
    <3>4. ASSUME NEW n \in 0..m PROVE g[n] = Body(n)
      <4>1. f[n] = IF n = 0 THEN << >>
                   ELSE IF Usable(rules[n]) THEN Append(f[n - 1], NormalRule(rules[n]))
                   ELSE f[n - 1]
        BY <2>1 DEF Reads
      <4>2. n # 0 => n - 1 \in 0..m
        BY <2>2
      <4>. QED
        BY <3>2, <4>1, <4>2
    <3>5. \A n \in 0..(m + 1) : n = m + 1 \/ n \in 0..m
      BY <2>2
    <3>. QED
      BY <3>3, <3>4, <3>5
  <2>4. g = [n \in 0..(m + 1) |-> Body(n)]
    <3>1. g = [n \in 0..(m + 1) |-> g[n]]
      OBVIOUS
    <3>. HIDE DEF g, Body
    <3>. QED
      BY <2>3, <3>1
  <2>5. Reads(rules, g, m + 1)
    <3>. HIDE DEF g
    <3>. QED
      BY <2>4 DEF Reads
  <2>. QED
    BY <2>2, <2>5
<1>. HIDE DEF S
<1>3. Len(rules) \in S
  <2>1. Len(rules) \in Nat
    OBVIOUS
  <2>2. \A m \in 0..(Len(rules) - 1) : m \in S => m + 1 \in S
    BY <1>2
  <2>3. 0..Len(rules) \subseteq S
    BY <1>1, <2>1, <2>2, Induction
  <2>. QED
    BY <2>1, <2>3
<1>4. \E f : Reads(rules, f, Len(rules))
  BY <1>3 DEF S
<1>. DEFINE normal == CHOOSE f : Reads(rules, f, Len(rules))
<1>5. Reads(rules, normal, Len(rules))
  BY <1>4
<1>6. NormalRules(rules) = normal[Len(rules)]
  BY DEF NormalRules, Reads
<1>. QED
  BY <1>5, <1>6

\* One round of the loop.
LEMMA LoopStep ==
    ASSUME NEW rules, NEW normal, Reads(rules, normal, Len(rules)), Len(rules) \in Nat
    PROVE  /\ normal[0] = << >>
           /\ \A n \in 0..(Len(rules) - 1) :
                /\ Usable(rules[n + 1]) =>
                        normal[n + 1] = Append(normal[n], NormalRule(rules[n + 1]))
                /\ ~Usable(rules[n + 1]) => normal[n + 1] = normal[n]
<1>1. normal[0] = << >>
  BY DEF Reads
<1>2. ASSUME NEW n \in 0..(Len(rules) - 1)
      PROVE  normal[n + 1] = IF Usable(rules[n + 1])
                             THEN Append(normal[n], NormalRule(rules[n + 1]))
                             ELSE normal[n]
  <2>1. n + 1 \in 0..Len(rules) /\ n + 1 # 0 /\ (n + 1) - 1 = n
    OBVIOUS
  <2>. DEFINE i == n + 1
  <2>2. normal[i] = IF i = 0 THEN << >>
                    ELSE IF Usable(rules[i]) THEN Append(normal[i - 1], NormalRule(rules[i]))
                    ELSE normal[i - 1]
    <3>. HIDE DEF i
    <3>. QED
      BY <2>1 DEF Reads, i
  <2>. QED
    BY <2>1, <2>2
<1>. QED
  BY <1>1, <1>2

LEMMA EmptyList == ASSUME NEW T PROVE << >> \in Seq(T) /\ Len(<< >>) = 0 /\ 1..0 = {}
  OBVIOUS

\* What the loop keeps is normal.
LEMMA RulesAreNormal ==
    ASSUME NEW rules \in Seq(Rules \cup {Junk})
    PROVE  NormalRules(rules) \in Seq(NormalForms)
<1>1. PICK normal : Reads(rules, normal, Len(rules)) /\ NormalRules(rules) = normal[Len(rules)]
  BY LoopEnds
<1>2. Len(rules) \in Nat
  OBVIOUS
<1>. DEFINE S == {n \in 0..Len(rules) : normal[n] \in Seq(NormalForms)}
<1>3. 0 \in S
  <2>1. normal[0] = << >>
    BY <1>1, <1>2, LoopStep
  <2>2. normal[0] \in Seq(NormalForms) /\ 0 \in 0..Len(rules)
    BY <1>2, <2>1, EmptyList
  <2>. QED
    BY <2>1, <2>2, EmptyList
<1>4. ASSUME NEW n \in 0..(Len(rules) - 1), n \in S PROVE n + 1 \in S
  <2>1. n + 1 \in 1..Len(rules)
    BY <1>2
  <2>2. rules[n + 1] \in Rules \cup {Junk}
    BY <2>1
  <2>3. CASE Usable(rules[n + 1])
    <3>1. NormalRule(rules[n + 1]) \in NormalForms
      BY <2>2, <2>3, NormalRuleIsNormal DEF Usable
    <3>2. normal[n + 1] = Append(normal[n], NormalRule(rules[n + 1]))
      BY <1>1, <1>2, <2>3, LoopStep
    <3>3. normal[n] \in Seq(NormalForms)
      BY <1>4
    <3>4. normal[n + 1] \in Seq(NormalForms)
      BY <3>1, <3>2, <3>3
    <3>. QED
      BY <2>1, <3>4
  <2>4. CASE ~Usable(rules[n + 1])
    BY <1>1, <1>2, <1>4, <2>1, <2>4, LoopStep
  <2>. QED
    BY <2>3, <2>4
<1>. HIDE DEF S
<1>5. 0..Len(rules) \subseteq S
  BY <1>2, <1>3, <1>4, Induction
<1>6. Len(rules) \in S
  BY <1>2, <1>5
<1>. QED
  BY <1>1, <1>6 DEF S

\* Normal rules are kept as they are.
LEMMA NormalRulesStay ==
    ASSUME NEW rules \in Seq(NormalForms)
    PROVE  NormalRules(rules) = rules
<1>1. rules \in Seq(Rules \cup {Junk}) /\ Len(rules) \in Nat
  BY DEF NormalForms
<1>2. PICK normal : Reads(rules, normal, Len(rules)) /\ NormalRules(rules) = normal[Len(rules)]
  BY <1>1, LoopEnds
<1>. DEFINE Copy(n) == /\ normal[n] \in Seq(NormalForms)
                       /\ Len(normal[n]) = n
                       /\ \A i \in 1..n : normal[n][i] = rules[i]
            S == {n \in 0..Len(rules) : Copy(n)}
<1>3. 0 \in S
  <2>1. normal[0] = << >>
    BY <1>1, <1>2, LoopStep
  <2>2. normal[0] \in Seq(NormalForms) /\ 0 \in 0..Len(rules)
    BY <1>1, <2>1, EmptyList
  <2>. QED
    BY <2>1, <2>2, EmptyList
<1>4. ASSUME NEW n \in 0..(Len(rules) - 1), n \in S PROVE n + 1 \in S
  <2>1. n + 1 \in 1..Len(rules) /\ n \in Nat
    BY <1>1
  <2>2. rules[n + 1] \in NormalForms
    BY <2>1
  <2>3. Usable(rules[n + 1]) /\ NormalRule(rules[n + 1]) = rules[n + 1]
    BY <2>2 DEF NormalForms
  <2>4. normal[n + 1] = Append(normal[n], rules[n + 1])
    <3>1. normal[n + 1] = Append(normal[n], NormalRule(rules[n + 1]))
      <4>1. \A m \in 0..(Len(rules) - 1) :
              Usable(rules[m + 1]) => normal[m + 1] = Append(normal[m], NormalRule(rules[m + 1]))
        BY <1>1, <1>2, LoopStep
      <4>2. Usable(rules[n + 1])
        BY <2>3
      <4>. QED
        BY <4>1, <4>2
    <3>2. NormalRule(rules[n + 1]) = rules[n + 1]
      BY <2>3
    <3>. QED
      BY <3>1, <3>2
  <2>5. Copy(n)
    BY <1>4
  <2>6. Copy(n + 1)
    BY <2>1, <2>2, <2>4, <2>5
  <2>. HIDE DEF Copy
  <2>. QED
    BY <2>1, <2>6
<1>. HIDE DEF S
<1>5. 0..Len(rules) \subseteq S
  BY <1>1, <1>3, <1>4, Induction
<1>6. Copy(Len(rules))
  BY <1>1, <1>5 DEF S
<1>. QED
  BY <1>1, <1>2, <1>6

AreHits(hits, kept, F) == hits = {i \in 1..Len(kept) : kept[i] \in F}

AreFits(fits, rules, F) ==
    fits = {i \in 1..Len(rules) : Usable(rules[i]) /\ NormalRule(rules[i]) \in F}

\* Of the rules that are kept and in F, the first in the list is the first in
\* the file.
LEMMA FirstIsKept ==
    ASSUME NEW rules \in Seq(Rules \cup {Junk}), NEW F,
           NEW hits, AreHits(hits, NormalRules(rules), F),
           NEW fits, AreFits(fits, rules, F)
    PROVE  \/ hits = {} /\ fits = {}
           \/ \E h \in hits, f \in fits :
                /\ \A i \in hits : h <= i
                /\ \A i \in fits : f <= i
                /\ NormalRules(rules)[h] = NormalRule(rules[f])
<1>1. PICK normal : Reads(rules, normal, Len(rules)) /\ NormalRules(rules) = normal[Len(rules)]
  BY LoopEnds
<1>2. Len(rules) \in Nat
  OBVIOUS
<1>. DEFINE Hits(n) == {i \in 1..Len(normal[n]) : normal[n][i] \in F}
            FitsTo(n) == {i \in 1..n : Usable(rules[i]) /\ NormalRule(rules[i]) \in F}
            Agree(n) ==
                \/ Hits(n) = {} /\ FitsTo(n) = {}
                \/ \E h \in Hits(n), f \in FitsTo(n) :
                    /\ \A i \in Hits(n) : h <= i
                    /\ \A i \in FitsTo(n) : f <= i
                    /\ normal[n][h] = NormalRule(rules[f])
            S == {n \in 0..Len(rules) : normal[n] \in Seq(NormalForms) /\ Agree(n)}
<1>3. 0 \in S
  <2>1. normal[0] = << >>
    BY <1>1, <1>2, LoopStep
  <2>2. normal[0] \in Seq(NormalForms) /\ 0 \in 0..Len(rules)
    BY <1>2, <2>1, EmptyList
  <2>. QED
    BY <2>1, <2>2, EmptyList
<1>4. ASSUME NEW n \in 0..(Len(rules) - 1), n \in S PROVE n + 1 \in S
  <2>1. n + 1 \in 1..Len(rules) /\ n \in Nat
    BY <1>2
  <2>2. rules[n + 1] \in Rules \cup {Junk}
    BY <2>1
  <2>3. normal[n] \in Seq(NormalForms) /\ Agree(n)
    BY <1>4
  <2>4. CASE ~Usable(rules[n + 1])
    <3>1. normal[n + 1] = normal[n]
      BY <1>1, <1>2, <2>4, LoopStep
    <3>2. FitsTo(n + 1) = FitsTo(n)
      BY <2>1, <2>4
    <3>3. Hits(n + 1) = Hits(n)
      BY <3>1
    <3>4. Agree(n + 1)
      <4>. HIDE DEF Hits, FitsTo
      <4>. QED
        BY <2>3, <3>1, <3>2, <3>3
    <3>. HIDE DEF Agree
    <3>. QED
      BY <2>1, <2>3, <3>1, <3>4
  <2>5. CASE Usable(rules[n + 1])
    <3>. DEFINE new == NormalRule(rules[n + 1])
                k == Len(normal[n]) + 1
    <3>1. new \in NormalForms
      BY <2>2, <2>5, NormalRuleIsNormal DEF Usable
    <3>2. normal[n + 1] = Append(normal[n], new)
      BY <1>1, <1>2, <2>5, LoopStep
    <3>3. /\ Len(normal[n + 1]) = k /\ k \in Nat /\ normal[n + 1][k] = new
          /\ \A i \in 1..Len(normal[n]) : normal[n + 1][i] = normal[n][i]
          /\ normal[n + 1] \in Seq(NormalForms)
      BY <2>3, <3>1, <3>2
    <3>. HIDE DEF new
    <3>4. Hits(n + 1) = IF new \in F THEN Hits(n) \cup {k} ELSE Hits(n)
      <4>. DEFINE m == Len(normal[n])
      <4>1. m \in Nat /\ k = m + 1
        BY <2>3
      <4>. HIDE DEF m, k
      <4>2. 1..k = 1..m \cup {k} /\ k \notin 1..m
        BY <4>1
      <4>3. \A i \in 1..m : normal[n + 1][i] = normal[n][i]
        BY <3>3 DEF m
      <4>4. Hits(n) = {i \in 1..m : normal[n][i] \in F}
        BY DEF m
      <4>5. Hits(n + 1) = {i \in 1..k : normal[n + 1][i] \in F}
        BY <3>3
      <4>. HIDE DEF Hits
      <4>. QED
        BY <3>3, <4>2, <4>3, <4>4, <4>5
    <3>5. FitsTo(n + 1) = IF new \in F THEN FitsTo(n) \cup {n + 1} ELSE FitsTo(n)
      BY <2>1, <2>5 DEF new
    <3>6. /\ \A i \in Hits(n) : i \in Int /\ i <= k /\ normal[n + 1][i] = normal[n][i]
          /\ \A i \in FitsTo(n) : i \in Int /\ i <= n + 1
      BY <2>1, <2>3, <3>3
    <3>7. Agree(n + 1)
      <4>. HIDE DEF Hits, FitsTo, k
      <4>1. CASE new \notin F
        BY <2>3, <3>4, <3>5, <3>6, <4>1
      <4>2. CASE new \in F /\ Hits(n) = {} /\ FitsTo(n) = {}
        <5>1. Hits(n + 1) = {k} /\ FitsTo(n + 1) = {n + 1} /\ k <= k /\ n + 1 <= n + 1
          BY <2>1, <3>3, <3>4, <3>5, <4>2
        <5>. QED
          BY <3>3, <5>1 DEF new
      <4>3. CASE new \in F /\ ~(Hits(n) = {} /\ FitsTo(n) = {})
        <5>1. PICK h \in Hits(n), f \in FitsTo(n) :
                    /\ \A i \in Hits(n) : h <= i
                    /\ \A i \in FitsTo(n) : f <= i
                    /\ normal[n][h] = NormalRule(rules[f])
          BY <2>3, <4>3
        <5>2. h \in Hits(n + 1) /\ f \in FitsTo(n + 1)
          BY <3>4, <3>5, <4>3
        <5>3. /\ \A i \in Hits(n + 1) : h <= i
              /\ \A i \in FitsTo(n + 1) : f <= i
          BY <3>4, <3>5, <3>6, <4>3, <5>1
        <5>. QED
          BY <3>6, <5>1, <5>2, <5>3
      <4>. QED
        BY <4>1, <4>2, <4>3
    <3>. HIDE DEF Agree
    <3>. QED
      BY <2>1, <3>3, <3>7
  <2>. QED
    BY <2>4, <2>5
<1>. HIDE DEF S
<1>5. 0..Len(rules) \subseteq S
  BY <1>2, <1>3, <1>4, Induction
<1>. HIDE DEF Agree
<1>6. Agree(Len(rules))
  BY <1>2, <1>5 DEF S
<1>7. hits = Hits(Len(rules)) /\ fits = FitsTo(Len(rules))
  BY <1>1 DEF AreHits, AreFits
<1>. HIDE DEF Hits, FitsTo
<1>. QED
  BY <1>1, <1>6, <1>7 DEF Agree

-----------------------------------------------------------------------------
(* A configuration                                                         *)

RawSettings(s) ==
    /\ s = [k \in Settings |-> s[k]]
    /\ s.interval = Junk \/ s.interval \in Int
    /\ \A k \in Settings \ {"interval"} : s[k] \in BOOLEAN \cup {Junk}

\* Settings that normalize_config leaves as they are.
SettledSettings(s) ==
    /\ s = [k \in Settings |-> s[k]]
    /\ s.interval \in 15..Longest
    /\ \A k \in Switches : s[k] \in BOOLEAN

LEMMA SixtyIsInRange == 60 \in 15..Longest
  BY SMT DEF Longest

LEMMA SettingsAre ==
    /\ Switches \subseteq Settings /\ "interval" \notin Switches
    /\ Settings = Switches \cup {"interval", "proxy_locked"}
    /\ "proxy_locked" \notin Switches
  BY DEF Settings, Shown, Switches

LEMMA NormalSettingsAre ==
    ASSUME NEW s
    PROVE  /\ NormalSettings(s) = [k \in Settings |-> NormalSettings(s)[k]]
           /\ \A k \in Switches : NormalSettings(s)[k] = ParseBool(s[k], k # "auto_ddns")
           /\ NormalSettings(s).interval = IF s.interval = Junk THEN 60 ELSE Clamp(s.interval)
           /\ NormalSettings(s).proxy_locked = s.proxy_locked
<1>. DEFINE Value(k) == CASE k \in Switches -> ParseBool(s[k], k # "auto_ddns")
                          [] k = "interval" -> IF s[k] = Junk THEN 60 ELSE Clamp(s[k])
                          [] OTHER -> s[k]
<1>1. NormalSettings(s) = [k \in Settings |-> Value(k)]
  BY DEF NormalSettings
<1>2. \A k \in Switches : Value(k) = ParseBool(s[k], k # "auto_ddns")
  BY SettingsAre
<1>3. Value("interval") = IF s["interval"] = Junk THEN 60 ELSE Clamp(s["interval"])
  BY SettingsAre
<1>4. Value("proxy_locked") = s["proxy_locked"]
  BY SettingsAre
<1>. HIDE DEF Value
<1>. QED
  BY <1>1, <1>2, <1>3, <1>4, SettingsAre

LEMMA NormalSettingsSettle ==
    ASSUME NEW s, RawSettings(s)
    PROVE  RawSettings(NormalSettings(s)) /\ SettledSettings(NormalSettings(s))
<1>. DEFINE t == NormalSettings(s)
<1>1. t.interval \in 15..Longest /\ t.interval \in Int
  <2>1. t.interval = IF s.interval = Junk THEN 60 ELSE Clamp(s.interval)
    BY NormalSettingsAre
  <2>. DEFINE interval == s.interval
              sixty == 60
  <2>2. interval \in Int \ {Junk} => Clamp(interval) \in 15..Longest
    BY ClampRange
  <2>3. interval = Junk \/ interval \in Int
    BY DEF RawSettings
  <2>4. sixty \in 15..Longest
    BY SixtyIsInRange
  <2>5. t.interval = IF interval = Junk THEN sixty ELSE Clamp(interval)
    BY <2>1
  <2>. HIDE DEF interval, sixty
  <2>6. t.interval \in 15..Longest
    BY <2>2, <2>3, <2>4, <2>5
  <2>7. 15..Longest \subseteq Int
    BY ADay
  <2>. QED
    BY <2>6, <2>7
<1>2. \A k \in Switches : t[k] \in BOOLEAN
  BY NormalSettingsAre, ParseBoolIsStable
<1>3. t.proxy_locked \in BOOLEAN \cup {Junk}
  BY NormalSettingsAre, SettingsAre DEF RawSettings
<1>4. t = [k \in Settings |-> t[k]]
  BY NormalSettingsAre
<1>. HIDE DEF t
<1>5. RawSettings(t)
  BY <1>1, <1>2, <1>3, <1>4, SettingsAre DEF RawSettings
<1>6. SettledSettings(t)
  BY <1>1, <1>2, <1>4 DEF SettledSettings
<1>. QED
  BY <1>5, <1>6 DEF t

LEMMA SettledSettingsStay ==
    ASSUME NEW s, SettledSettings(s) PROVE NormalSettings(s) = s
<1>. DEFINE t == NormalSettings(s)
<1>1. t.interval = s.interval
  <2>1. s.interval # Junk /\ s.interval \in Int
    BY ManagedAssumption, ADay DEF SettledSettings
  <2>. QED
    BY <2>1, NormalSettingsAre, ClampRange DEF SettledSettings
<1>2. \A k \in Switches : t[k] = s[k]
  BY NormalSettingsAre DEF SettledSettings, ParseBool
<1>3. t.proxy_locked = s.proxy_locked
  BY NormalSettingsAre
<1>4. t = [k \in Settings |-> t[k]]
  BY NormalSettingsAre
<1>. HIDE DEF t
<1>5. \A k \in Settings : t[k] = s[k]
  BY <1>1, <1>2, <1>3, SettingsAre
<1>6. t = s
  BY <1>4, <1>5 DEF SettledSettings
<1>. QED
  BY <1>6 DEF t

Profiles == UNION {[D -> Servers] : D \in SUBSET DnsNames}

ValidProfiles == UNION {[D -> Servers \ BadServers] : D \in (SUBSET DnsNames) \ {{}}}

LEMMA ValidProfilesStay ==
    ASSUME NEW dns \in ValidProfiles
    PROVE  /\ NormalDns(dns) = dns /\ dns \in Profiles
           /\ DOMAIN dns # {} /\ DOMAIN dns \subseteq DnsNames
           /\ \A n \in DOMAIN dns : dns[n] \in Servers \ BadServers
<1>1. PICK D \in (SUBSET DnsNames) \ {{}} : dns \in [D -> Servers \ BadServers]
  BY DEF ValidProfiles
<1>2. dns \in [D -> Servers] /\ DOMAIN dns = D
  BY <1>1
<1>3. {n \in D : dns[n] \notin BadServers} = D
  BY <1>1
<1>4. NormalDns(dns) = Restrict(dns, D)
  BY <1>1, <1>2, <1>3 DEF NormalDns
<1>5. Restrict(dns, D) = dns
  BY <1>2 DEF Restrict
<1>6. dns \in Profiles
  BY <1>2 DEF Profiles
<1>. QED
  BY <1>1, <1>2, <1>4, <1>5, <1>6

LEMMA NormalDnsIsValid ==
    ASSUME NEW dns \in Profiles PROVE NormalDns(dns) \in ValidProfiles
<1>. DEFINE valid == {n \in DOMAIN dns : dns[n] \notin BadServers}
<1>1. CASE valid = {}
  <2>1. NormalDns(dns) = DefaultDns
    BY <1>1 DEF NormalDns
  <2>. QED
    BY <2>1, ManagedAssumption DEF ValidProfiles
<1>2. CASE valid # {}
  <2>1. valid \in (SUBSET DnsNames) \ {{}} /\ \A n \in valid : dns[n] \in Servers \ BadServers
    BY <1>2 DEF Profiles
  <2>2. NormalDns(dns) = [n \in valid |-> dns[n]]
    BY <1>2 DEF NormalDns, Restrict
  <2>. HIDE DEF valid
  <2>3. NormalDns(dns) \in [valid -> Servers \ BadServers]
    BY <2>1, <2>2
  <2>. QED
    BY <2>1, <2>3 DEF ValidProfiles
<1>. QED
  BY <1>1, <1>2

\* Configurations that normalize_config changes in the list of plugins at most.
SettledConfig(c) ==
    /\ RawConfig(c)
    /\ SettledSettings(c.settings)
    /\ c.dns \in ValidProfiles
    /\ c.rules \in Seq(NormalForms)

LEMMA NormalizeIs ==
    ASSUME NEW c
    PROVE  /\ Normalize(c) = [settings |-> Normalize(c).settings, plugins |-> Normalize(c).plugins,
                              dns |-> Normalize(c).dns, rules |-> Normalize(c).rules]
           /\ Normalize(c).settings = NormalSettings(c.settings)
           /\ Normalize(c).plugins = Listed(c.plugins)
           /\ Normalize(c).dns = NormalDns(c.dns)
           /\ Normalize(c).rules = NormalRules(c.rules)
  BY DEF Normalize, Listed

LEMMA NormalizeSettles ==
    ASSUME NEW c, RawConfig(c)
    PROVE  SettledConfig(Normalize(c)) /\ Normalize(c).plugins \subseteq Plugins
<1>. DEFINE n == Normalize(c)
<1>1. RawSettings(n.settings) /\ SettledSettings(n.settings)
  <2>1. RawSettings(c.settings)
    BY DEF RawConfig, RawSettings
  <2>. QED
    BY <2>1, NormalizeIs, NormalSettingsSettle
<1>2. n.plugins \subseteq Plugins
  BY NormalizeIs DEF RawConfig, Listed
<1>3. n.dns \in ValidProfiles
  <2>1. c.dns \in Profiles
    BY DEF RawConfig, Profiles
  <2>. QED
    BY <2>1, NormalizeIs, NormalDnsIsValid
<1>4. n.rules \in Seq(NormalForms)
  <2>1. c.rules \in Seq(Rules \cup {Junk})
    BY DEF RawConfig
  <2>. QED
    BY <2>1, NormalizeIs, RulesAreNormal
<1>5. n = [settings |-> n.settings, plugins |-> n.plugins, dns |-> n.dns, rules |-> n.rules]
  BY NormalizeIs
<1>. HIDE DEF n
<1>6. n.rules \in Seq(Rules \cup {Junk})
  BY <1>4 DEF NormalForms
<1>7. n.dns \in Profiles
  BY <1>3, ValidProfilesStay
<1>8. RawConfig(n)
  BY <1>1, <1>2, <1>5, <1>6, <1>7 DEF RawConfig, RawSettings, Profiles
<1>. QED
  BY <1>1, <1>2, <1>3, <1>4, <1>8 DEF SettledConfig, n

LEMMA SettledStays ==
    ASSUME NEW c, SettledConfig(c)
    PROVE  /\ Normalize(c).settings = c.settings
           /\ Normalize(c).plugins = Listed(c.plugins)
           /\ Normalize(c).dns = c.dns
           /\ Normalize(c).rules = c.rules
  BY NormalizeIs, SettledSettingsStay, ValidProfilesStay, NormalRulesStay DEF SettledConfig

LEMMA NormalizeIsStable ==
    ASSUME NEW c, RawConfig(c)
    PROVE  Normalize(Normalize(c)) = Normalize(c)
<1>. DEFINE n == Normalize(c)
<1>1. SettledConfig(n)
  BY NormalizeSettles
<1>2. Listed(n.plugins) = n.plugins
  BY NormalizeIs DEF Listed
<1>3. n = [settings |-> n.settings, plugins |-> n.plugins, dns |-> n.dns, rules |-> n.rules]
  BY NormalizeIs
<1>. HIDE DEF n
<1>4. /\ Normalize(n).settings = n.settings /\ Normalize(n).plugins = n.plugins
      /\ Normalize(n).dns = n.dns /\ Normalize(n).rules = n.rules
  BY <1>1, <1>2, SettledStays
<1>5. Normalize(n) = n
  BY <1>3, <1>4, NormalizeIs
<1>. QED
  BY <1>5 DEF n

LEMMA SettledIsSafe ==
    ASSUME NEW c, SettledConfig(c) PROVE SafeConfigs(c)
<1>1. /\ DOMAIN c.dns \subseteq DnsNames /\ DOMAIN c.dns # {}
      /\ \A n \in DOMAIN c.dns : c.dns[n] \in Servers \ BadServers
  BY ValidProfilesStay DEF SettledConfig
<1>2. ASSUME NEW i \in DOMAIN c.rules
      PROVE  /\ c.rules[i].name # NoName /\ DOMAIN c.rules[i].when # {}
             /\ {c.rules[i].enabled, c.rules[i].auto_apply} \subseteq BOOLEAN
  <2>. DEFINE r == c.rules[i]
  <2>1. r \in NormalForms
    BY DEF SettledConfig
  <2>2. r \in Rules /\ Usable(r) /\ NormalRule(r) = r /\ {r.enabled, r.auto_apply} \subseteq BOOLEAN
    BY <2>1 DEF NormalForms
  <2>. HIDE DEF r
  <2>3. r.when = Conditions(r.when)
    BY <2>2, NormalRuleIsNormal
  <2>4. r.name # NoName /\ DOMAIN r.when # {}
    BY <2>2, <2>3 DEF Usable
  <2>. QED
    BY <2>2, <2>4 DEF r
<1>3. c.settings.interval \in 15..Longest /\ \A k \in Switches : c.settings[k] \in BOOLEAN
  BY DEF SettledConfig, SettledSettings
<1>4. c.plugins \in (SUBSET Plugins) \cup {Junk}
  BY DEF SettledConfig, RawConfig
<1>. QED
  BY <1>1, <1>2, <1>3, <1>4 DEF SafeConfigs

-----------------------------------------------------------------------------
(* Machine policy                                                          *)

Minimum == "MinimumCheckIntervalSeconds"

LEMMA PoliciesAre ==
    ASSUME NEW values \in Registries
    PROVE  LET p == NormalPolicies(values) IN
           /\ DOMAIN p \subseteq PolicyNames
           /\ \A n \in DOMAIN p \ {Minimum} : p[n] \in BOOLEAN
           /\ Minimum \in DOMAIN p => p[Minimum] \in 15..Longest
<1>. DEFINE set == {m \in DOMAIN values : m # Minimum \/ values[m] # Junk}
            p == NormalPolicies(values)
<1>1. p = [n \in set |-> IF n = Minimum THEN Clamp(values[n]) ELSE ParseBool(values[n], FALSE)]
  BY DEF NormalPolicies, Minimum
<1>2. set \subseteq PolicyNames
  BY ManagedAssumption
<1>3. \A n \in set \ {Minimum} : p[n] \in BOOLEAN
  BY <1>1, ParseBoolIsStable
<1>4. Minimum \in set => p[Minimum] \in 15..Longest
  BY <1>1, ClampRange, ManagedAssumption DEF Minimum
<1>5. DOMAIN p = set
  BY <1>1
<1>. HIDE DEF set, p
<1>. QED
  BY <1>2, <1>3, <1>4, <1>5 DEF p

\* No policy speaks of these settings.
Others == {"metered", "battery", "tray", "auto_ddns"}

\* What the overrides leave, field by field.
LEMMA ApplyPolicyIs ==
    ASSUME NEW c, NEW values
    PROVE  LET p == NormalPolicies(values)
               n == Normalize(c)
               a == ApplyPolicy(c, values)
               Forced(name, old) == IF name \in DOMAIN p THEN p[name] ELSE old
           IN  /\ a = [settings |-> a.settings, plugins |-> a.plugins,
                       dns |-> a.dns, rules |-> a.rules]
               /\ a.settings = [k \in Settings |-> a.settings[k]]
               /\ a.dns = n.dns /\ a.rules = n.rules
               /\ a.plugins = IF "DisablePlugins" \notin DOMAIN p THEN n.plugins
                              ELSE IF p["DisablePlugins"] THEN {} ELSE Junk
               /\ a.settings.interval =
                    Larger(n.settings.interval, Forced(Minimum, n.settings.interval))
               /\ a.settings.rollback =
                    Forced("ForceRollbackOnConnectivityLoss", n.settings.rollback)
               /\ a.settings.proxy_locked =
                    Forced("DisableProxyChanges", n.settings.proxy_locked)
               /\ \A k \in Others : a.settings[k] = n.settings[k]
<1>. DEFINE p == NormalPolicies(values)
            n == Normalize(c)
            s == n.settings
            Forced(name, old) == IF name \in DOMAIN p THEN p[name] ELSE old
            plugins == IF "DisablePlugins" \notin DOMAIN p THEN n.plugins
                       ELSE IF p["DisablePlugins"] THEN {} ELSE Junk
            interval == Larger(s.interval, Forced(Minimum, s.interval))
            rollback == Forced("ForceRollbackOnConnectivityLoss", s.rollback)
            locked == Forced("DisableProxyChanges", s.proxy_locked)
            a == [n EXCEPT !.plugins = plugins,
                           !.settings.interval = interval,
                           !.settings.rollback = rollback,
                           !.settings.proxy_locked = locked]
<1>1. n = [settings |-> s, plugins |-> n.plugins, dns |-> n.dns, rules |-> n.rules]
  BY NormalizeIs
<1>2. s = [k \in Settings |-> s[k]]
  BY NormalizeIs, NormalSettingsAre
<1>3. ApplyPolicy(c, values) = a
  <2>1. a = [n EXCEPT !.plugins = IF "DisablePlugins" \notin DOMAIN p THEN @
                                  ELSE IF p["DisablePlugins"] THEN {} ELSE Junk,
                      !.settings.interval = Larger(@, Forced(Minimum, @)),
                      !.settings.rollback = Forced("ForceRollbackOnConnectivityLoss", @),
                      !.settings.proxy_locked = Forced("DisableProxyChanges", @)]
    BY <1>1, <1>2 DEF Settings, Shown, Switches
  <2>. QED
    BY <2>1 DEF ApplyPolicy, Minimum
<1>. DEFINE Record(settings, list) ==
                [settings |-> settings, plugins |-> list, dns |-> n.dns, rules |-> n.rules]
            s1 == [s EXCEPT !.interval = interval]
            s2 == [s1 EXCEPT !.rollback = rollback]
            s3 == [s2 EXCEPT !.proxy_locked = locked]
            n1 == [n EXCEPT !.plugins = plugins]
            n2 == [n1 EXCEPT !.settings.interval = interval]
            n3 == [n2 EXCEPT !.settings.rollback = rollback]
            n4 == [n3 EXCEPT !.settings.proxy_locked = locked]
<1>4. a = n4
  OBVIOUS
<1>. HIDE DEF plugins, interval, rollback, locked, n
<1>5. n1 = Record(s, plugins)
  BY <1>1
<1>. HIDE DEF n1
<1>6. n2 = Record(s1, plugins)
  BY <1>5
<1>. HIDE DEF n2, s1
<1>7. n3 = Record(s2, plugins)
  BY <1>6
<1>. HIDE DEF n3, s2
<1>8. n4 = Record(s3, plugins)
  BY <1>7
<1>. HIDE DEF n4, s3
<1>9. /\ s3 = [k \in Settings |-> s3[k]]
      /\ s3.interval = interval /\ s3.rollback = rollback /\ s3.proxy_locked = locked
      /\ \A k \in Others : s3[k] = s[k]
  BY <1>2 DEF s1, s2, s3, Settings, Shown, Switches, Others
<1>10. ApplyPolicy(c, values) = Record(s3, plugins)
  BY <1>3, <1>4, <1>8
<1>. HIDE DEF Forced, p
<1>. QED
  BY <1>9, <1>10 DEF plugins, interval, rollback, locked, n, Forced, p

LEMMA LargerIsInRange ==
    ASSUME NEW a \in 15..Longest, NEW b \in 15..Longest
    PROVE  Larger(a, b) \in 15..Longest /\ Larger(a, b) >= a /\ Larger(a, b) >= b
           /\ Larger(a, b) \in {a, b}
  BY ADay DEF Larger

\* A configuration with the policy in it is one to work with, at once.
LEMMA PolicySettles ==
    ASSUME NEW c, RawConfig(c), NEW values \in Registries
    PROVE  SettledConfig(ApplyPolicy(c, values))
<1>. DEFINE p == NormalPolicies(values)
            n == Normalize(c)
            a == ApplyPolicy(c, values)
<1>1. /\ a = [settings |-> a.settings, plugins |-> a.plugins, dns |-> a.dns, rules |-> a.rules]
      /\ a.settings = [k \in Settings |-> a.settings[k]]
      /\ a.dns = n.dns /\ a.rules = n.rules
  BY ApplyPolicyIs
<1>2. SettledConfig(n) /\ n.plugins \subseteq Plugins
  BY NormalizeSettles
<1>3. a.settings.interval \in 15..Longest
  <2>1. /\ n.settings.interval \in 15..Longest
        /\ Minimum \in DOMAIN p => p[Minimum] \in 15..Longest
    BY <1>2, PoliciesAre DEF SettledConfig, SettledSettings
  <2>2. a.settings.interval =
            Larger(n.settings.interval,
                   IF Minimum \in DOMAIN p THEN p[Minimum] ELSE n.settings.interval)
    BY ApplyPolicyIs
  <2>. HIDE DEF a, n, p
  <2>. QED
    BY <2>1, <2>2, LargerIsInRange
<1>4. /\ \A k \in Switches : n.settings[k] \in BOOLEAN
      /\ n.settings.proxy_locked \in BOOLEAN \cup {Junk}
  BY <1>2, SettingsAre DEF SettledConfig, SettledSettings, RawConfig
<1>5. \A k \in {"ForceRollbackOnConnectivityLoss", "DisableProxyChanges"} :
            k \in DOMAIN p => p[k] \in BOOLEAN
  BY PoliciesAre DEF Minimum
<1>6. /\ a.settings.rollback \in BOOLEAN
      /\ a.settings.proxy_locked \in BOOLEAN \cup {Junk}
  <2>1. /\ a.settings.rollback = IF "ForceRollbackOnConnectivityLoss" \in DOMAIN p
                                 THEN p["ForceRollbackOnConnectivityLoss"]
                                 ELSE n.settings.rollback
        /\ a.settings.proxy_locked = IF "DisableProxyChanges" \in DOMAIN p
                                     THEN p["DisableProxyChanges"]
                                     ELSE n.settings.proxy_locked
    BY ApplyPolicyIs
  <2>2. n.settings.rollback \in BOOLEAN
    BY <1>4 DEF Switches
  <2>. HIDE DEF a, n, p
  <2>. QED
    BY <1>4, <1>5, <2>1, <2>2
<1>7. \A k \in Switches : a.settings[k] \in BOOLEAN
  <2>1. \A k \in Others : a.settings[k] = n.settings[k]
    BY ApplyPolicyIs
  <2>2. Others \subseteq Switches /\ Switches = Others \cup {"rollback"}
    BY DEF Others, Switches
  <2>. HIDE DEF a, n
  <2>. QED
    BY <1>4, <1>6, <2>1, <2>2
<1>8. a.plugins = Junk \/ a.plugins \subseteq Plugins
  <2>1. a.plugins = n.plugins \/ a.plugins = {} \/ a.plugins = Junk
    BY ApplyPolicyIs
  <2>. QED
    BY <1>2, <2>1
<1>. HIDE DEF a, n
<1>9. RawConfig(a)
  <2>1. a.settings.interval \in Int
    BY <1>3, ADay
  <2>2. \A k \in Settings \ {"interval"} : a.settings[k] \in BOOLEAN \cup {Junk}
    BY <1>6, <1>7, SettingsAre
  <2>3. a.dns \in UNION {[D -> Servers] : D \in SUBSET DnsNames} /\ a.rules \in Seq(Rules \cup {Junk})
    BY <1>1, <1>2 DEF SettledConfig, RawConfig
  <2>. QED
    BY <1>1, <1>8, <2>1, <2>2, <2>3 DEF RawConfig
<1>10. SettledSettings(a.settings)
  BY <1>1, <1>3, <1>7 DEF SettledSettings
<1>11. SettledConfig(a)
  BY <1>1, <1>2, <1>9, <1>10 DEF SettledConfig
<1>. QED
  BY <1>11 DEF a

-----------------------------------------------------------------------------
(* The copies                                                              *)

WidgetsShow(w) ==
    /\ w = [k \in Shown |-> w[k]]
    /\ w.interval \in Int
    /\ \A k \in Switches : w[k] \in BOOLEAN

\* Whatever the file holds and whoever writes it, a copy in memory is one that
\* normalize_config leaves alone; only the list of plugins may be missing.
CopiesInv ==
    /\ RawConfig(file)
    /\ registry \in Registries
    /\ enabled \subseteq Plugins
    /\ url \in BOOLEAN
    /\ outside \in 0..MaxOutside
    /\ merged # Nothing =>
        /\ window = Nothing
        /\ SettledConfig(merged.config)
    /\ \/ window = Nothing /\ monitor = Nothing /\ widgets = Nothing
       \/ SettledConfig(window) /\ SettledConfig(monitor) /\ WidgetsShow(widgets)

LEMMA ShownAreShown ==
    ASSUME NEW c, SettledConfig(c) PROVE WidgetsShow(ShownOf(c))
<1>1. ShownOf(c) = [k \in Shown |-> c.settings[k]] /\ Shown = Switches \cup {"interval"}
  BY DEF ShownOf, Shown
<1>2. c.settings.interval \in Int /\ \A k \in Switches : c.settings[k] \in BOOLEAN
  BY ADay DEF SettledConfig, SettledSettings
<1>. QED
  BY <1>1, <1>2 DEF WidgetsShow

LEMMA CopiesInit == Init => CopiesInv
  BY ManagedAssumption DEF Init, CopiesInv

LEMMA CopiesMerge ==
    ASSUME CopiesInv, Merge PROVE CopiesInv'
<1>1. SettledConfig(Normalize(file)) /\ RawConfig(Normalize(file))
  BY NormalizeSettles DEF CopiesInv, SettledConfig
<1>2. merged'.config = ApplyPolicy(Normalize(file), registry)
  BY DEF Merge
<1>3. SettledConfig(merged'.config)
  BY <1>1, <1>2, PolicySettles DEF CopiesInv
<1>4. window' = Nothing
  BY DEF Merge, Running
<1>. QED
  BY <1>3, <1>4 DEF CopiesInv, Merge

LEMMA CopiesStart ==
    ASSUME CopiesInv, Start PROVE CopiesInv'
<1>1. SettledConfig(window')
  BY DEF CopiesInv, Start
<1>2. SettledConfig(monitor')
  BY <1>1, NormalizeSettles DEF Start, SettledConfig
<1>3. WidgetsShow(widgets')
  BY <1>1, ShownAreShown DEF Start
<1>4. enabled' \subseteq Plugins
  BY <1>1 DEF Start, Listed, SettledConfig, RawConfig
<1>. QED
  BY <1>1, <1>2, <1>3, <1>4 DEF CopiesInv, Start

LEMMA CopiesTaken ==
    ASSUME CopiesInv, Uncaught \/ Quit \/ Reload \/ Sync PROVE CopiesInv'
<1>1. CASE Quit
  BY <1>1 DEF Quit, CopiesInv
<1>2. SettledConfig(Normalize(file))
  BY NormalizeSettles DEF CopiesInv
<1>3. CASE Reload
  BY <1>2, <1>3 DEF Reload, Running, CopiesInv
<1>4. CASE Sync
  BY <1>4 DEF Sync, Running, CopiesInv
<1>5. CASE Uncaught
  BY <1>5 DEF Uncaught, CopiesInv
<1>. QED
  BY <1>1, <1>3, <1>4, <1>5

LEMMA CopiesOutside ==
    ASSUME CopiesInv, EditFile \/ SetPolicy PROVE CopiesInv'
<1>1. outside' \in 0..MaxOutside
  BY ManagedAssumption DEF EditFile, SetPolicy, Outside, CopiesInv
<1>2. CASE EditFile
  BY <1>1, <1>2, ManagedAssumption DEF EditFile, Outside, CopiesInv
<1>3. CASE SetPolicy
  BY <1>1, <1>3 DEF SetPolicy, Outside, CopiesInv
<1>. QED
  BY <1>2, <1>3

\* The settings that save_settings writes.
Written(w, s) ==
    [k \in Settings |-> CASE k = "interval" -> Clamp(w[k])
                          [] k \in Switches -> w[k]
                          [] OTHER -> s[k]]

WithSettings(c, s) ==
    [settings |-> s, plugins |-> c.plugins, dns |-> c.dns, rules |-> c.rules]

WithDns(c, dns) ==
    [settings |-> c.settings, plugins |-> c.plugins, dns |-> dns, rules |-> c.rules]

LEMMA WrittenIs ==
    ASSUME NEW w, WidgetsShow(w), NEW s, SettledSettings(s), RawSettings(s)
    PROVE  /\ Written(w, s).interval = Clamp(w.interval)
           /\ \A k \in Switches : Written(w, s)[k] = w[k]
           /\ Written(w, s).proxy_locked = s.proxy_locked
           /\ SettledSettings(Written(w, s)) /\ RawSettings(Written(w, s))
<1>. DEFINE t == Written(w, s)
<1>1. /\ t.interval = Clamp(w.interval) /\ t.proxy_locked = s.proxy_locked
      /\ \A k \in Switches : t[k] = w[k]
      /\ t = [k \in Settings |-> t[k]]
  BY SettingsAre DEF Written
<1>2. t.interval \in 15..Longest /\ t.interval \in Int
  BY <1>1, ClampRange, ADay DEF WidgetsShow
<1>3. /\ \A k \in Switches : t[k] \in BOOLEAN
      /\ t.proxy_locked \in BOOLEAN \cup {Junk}
  BY <1>1, SettingsAre DEF WidgetsShow, RawSettings
<1>. HIDE DEF t
<1>4. SettledSettings(t) /\ RawSettings(t)
  BY <1>1, <1>2, <1>3, SettingsAre DEF SettledSettings, RawSettings
<1>. QED
  BY <1>1, <1>4 DEF t

LEMMA SettingsSettle ==
    ASSUME NEW c, SettledConfig(c), NEW s, SettledSettings(s), RawSettings(s)
    PROVE  SettledConfig(WithSettings(c, s))
  BY DEF SettledConfig, RawConfig, WithSettings, RawSettings

LEMMA DnsSettle ==
    ASSUME NEW c, SettledConfig(c), NEW dns \in ValidProfiles
    PROVE  SettledConfig(WithDns(c, dns))
<1>1. dns \in UNION {[D -> Servers] : D \in SUBSET DnsNames}
  BY ValidProfilesStay DEF Profiles
<1>. QED
  BY <1>1 DEF SettledConfig, RawConfig, WithDns

LEMMA SaveSettingsIs ==
    ASSUME CopiesInv, NEW e \in Edits, SaveSettings(e[1], e[2])
    PROVE  /\ SettledConfig(window) /\ WidgetsShow(widgets) /\ WidgetsShow(widgets')
           /\ \A k \in Shown \ {e[1], "auto_ddns"} : widgets'[k] = widgets[k]
           /\ ~url => widgets'["auto_ddns"] = FALSE
           /\ url /\ e[1] # "auto_ddns" => widgets'["auto_ddns"] = widgets["auto_ddns"]
           /\ window' = WithSettings(window, Written(widgets', window.settings))
           /\ SettledConfig(window')
           /\ file' = Normalize(window') /\ monitor' = Normalize(window')
           /\ UNCHANGED <<registry, merged, enabled, url, outside>>
<1>1. SettledConfig(window) /\ WidgetsShow(widgets) /\ window # Nothing
  BY DEF CopiesInv, SaveSettings, Running
<1>2. \/ e[1] = "interval" /\ e[2] \in Int
      \/ e[1] \in Switches /\ e[2] \in BOOLEAN
  BY ManagedAssumption
<1>. DEFINE set == [widgets EXCEPT ![e[1]] = e[2]]
<1>3. widgets' = [set EXCEPT !["auto_ddns"] = set["auto_ddns"] /\ url]
  <2>1. widgets' = Toggled(widgets, e[1], e[2])
    BY DEF SaveSettings
  <2>2. Toggled(widgets, e[1], e[2]) = [set EXCEPT !["auto_ddns"] = set["auto_ddns"] /\ url]
    BY Zenon DEF Toggled
  <2>. QED
    BY <2>1, <2>2
<1>4. Shown = Switches \cup {"interval"} /\ "auto_ddns" \in Switches /\ "auto_ddns" # "interval"
  BY DEF Shown, Switches
<1>5. /\ set = [k \in Shown |-> set[k]]
      /\ set[e[1]] = e[2]
      /\ \A k \in Shown \ {e[1]} : set[k] = widgets[k]
  BY <1>1, <1>2, <1>4 DEF WidgetsShow
<1>6. /\ set["interval"] \in Int
      /\ \A k \in Switches : set[k] \in BOOLEAN
  <2>1. set["interval"] \in Int
    BY <1>1, <1>2, <1>4, <1>5, SettingsAre DEF WidgetsShow
  <2>2. ASSUME NEW k \in Switches PROVE set[k] \in BOOLEAN
    <3>1. CASE k = e[1]
      BY <1>2, <1>5, <3>1, SettingsAre
    <3>2. CASE k # e[1]
      BY <1>1, <1>4, <1>5, <3>2 DEF WidgetsShow
    <3>. QED
      BY <3>1, <3>2
  <2>. QED
    BY <2>1, <2>2
<1>. HIDE DEF set
<1>7. /\ widgets' = [k \in Shown |-> widgets'[k]]
      /\ widgets'["auto_ddns"] = (set["auto_ddns"] /\ url)
      /\ \A k \in Shown \ {"auto_ddns"} : widgets'[k] = set[k]
  BY <1>3, <1>4, <1>5
<1>71. url \in BOOLEAN /\ set["auto_ddns"] \in BOOLEAN
  BY <1>4, <1>6 DEF CopiesInv
<1>72. /\ widgets'["auto_ddns"] \in BOOLEAN
       /\ ~url => widgets'["auto_ddns"] = FALSE
       /\ url => widgets'["auto_ddns"] = set["auto_ddns"]
  BY <1>7, <1>71, Zenon
<1>73. /\ widgets'["interval"] \in Int
       /\ \A k \in Switches : widgets'[k] \in BOOLEAN
  <2>1. widgets'["interval"] = set["interval"]
    BY <1>4, <1>7
  <2>2. \A k \in Switches \ {"auto_ddns"} : widgets'[k] = set[k]
    BY <1>4, <1>7
  <2>. QED
    BY <1>6, <1>72, <2>1, <2>2
<1>8. WidgetsShow(widgets')
  BY <1>7, <1>73 DEF WidgetsShow
<1>9. window' = WithSettings(window, Written(widgets', window.settings))
  <2>. DEFINE written == Written(widgets', window.settings)
  <2>1. window' = [window EXCEPT !.settings = written]
    BY DEF SaveSettings, Written
  <2>2. window = [settings |-> window.settings, plugins |-> window.plugins,
                  dns |-> window.dns, rules |-> window.rules]
    BY <1>1 DEF SettledConfig, RawConfig
  <2>. HIDE DEF written
  <2>3. window' = WithSettings(window, written)
    BY <2>1, <2>2 DEF WithSettings
  <2>. QED
    BY <2>3 DEF written
<1>10. SettledConfig(window')
  <2>1. SettledSettings(window.settings) /\ RawSettings(window.settings)
    BY <1>1 DEF SettledConfig, RawConfig, RawSettings
  <2>. QED
    BY <1>1, <1>8, <1>9, <2>1, WrittenIs, SettingsSettle
<1>11. /\ \A k \in Shown \ {e[1], "auto_ddns"} : widgets'[k] = widgets[k]
       /\ ~url => widgets'["auto_ddns"] = FALSE
       /\ url /\ e[1] # "auto_ddns" => widgets'["auto_ddns"] = widgets["auto_ddns"]
  BY <1>4, <1>5, <1>7, <1>72
<1>. QED
  BY <1>1, <1>8, <1>9, <1>10, <1>11 DEF SaveSettings, Store

LEMMA CopiesSaved ==
    ASSUME CopiesInv, NEW e \in Edits, SaveSettings(e[1], e[2]) PROVE CopiesInv'
<1>1. SettledConfig(Normalize(window'))
  BY SaveSettingsIs, NormalizeSettles DEF SettledConfig
<1>2. merged' = Nothing
  BY SaveSettingsIs DEF CopiesInv, SaveSettings, Running
<1>. QED
  BY <1>1, <1>2, SaveSettingsIs DEF CopiesInv, SettledConfig

\* Both handlers of the update URL store the window's copy, with the automatic
\* update off when the URL is cleared.
TurnedOff(s) == [s EXCEPT !.auto_ddns = FALSE]

LEMMA TurnedOffIs ==
    ASSUME NEW s, SettledSettings(s), RawSettings(s)
    PROVE  /\ SettledSettings(TurnedOff(s)) /\ RawSettings(TurnedOff(s))
           /\ TurnedOff(s).auto_ddns = FALSE
           /\ \A k \in Settings \ {"auto_ddns"} : TurnedOff(s)[k] = s[k]
<1>. DEFINE t == TurnedOff(s)
<1>1. "auto_ddns" \in Switches /\ "auto_ddns" # "interval"
  BY DEF Switches
<1>2. /\ t = [k \in Settings |-> t[k]]
      /\ t["auto_ddns"] = FALSE
      /\ \A k \in Settings \ {"auto_ddns"} : t[k] = s[k]
  BY <1>1, SettingsAre DEF TurnedOff, SettledSettings
<1>. HIDE DEF t
<1>3. \A k \in Switches : t[k] \in BOOLEAN
  BY <1>2, SettingsAre DEF SettledSettings
<1>4. t.interval = s.interval /\ t.proxy_locked = s.proxy_locked
  BY <1>1, <1>2, SettingsAre
<1>5. SettledSettings(t) /\ RawSettings(t)
  BY <1>2, <1>3, <1>4, SettingsAre DEF SettledSettings, RawSettings
<1>. QED
  BY <1>2, <1>5 DEF t

LEMMA UrlIs ==
    ASSUME CopiesInv, SaveUrl \/ ClearUrl
    PROVE  /\ SettledConfig(window) /\ WidgetsShow(widgets)
           /\ SettledConfig(window') /\ WidgetsShow(widgets')
           /\ window' \in {window, WithSettings(window, TurnedOff(window.settings))}
           /\ file' = Normalize(window') /\ monitor' = Normalize(window')
           /\ url' \in BOOLEAN
           /\ UNCHANGED <<registry, merged, enabled, outside>>
<1>1. SettledConfig(window) /\ WidgetsShow(widgets) /\ url \in BOOLEAN
  BY DEF CopiesInv, SaveUrl, ClearUrl, Running
<1>2. CASE SaveUrl
  BY <1>1, <1>2 DEF SaveUrl, Store
<1>3. CASE ClearUrl
  <2>. DEFINE off == TurnedOff(window.settings)
  <2>1. SettledSettings(window.settings) /\ RawSettings(window.settings)
    BY <1>1 DEF SettledConfig, RawConfig, RawSettings
  <2>2. window' = [window EXCEPT !.settings = off]
    BY <1>3 DEF ClearUrl, TurnedOff
  <2>3. window = [settings |-> window.settings, plugins |-> window.plugins,
                  dns |-> window.dns, rules |-> window.rules]
    BY <1>1 DEF SettledConfig, RawConfig
  <2>4. SettledSettings(off) /\ RawSettings(off)
    BY <2>1, TurnedOffIs
  <2>. HIDE DEF off
  <2>5. window' = WithSettings(window, off)
    BY <2>2, <2>3 DEF WithSettings
  <2>6. SettledConfig(window')
    BY <1>1, <2>4, <2>5, SettingsSettle
  <2>7. WidgetsShow(widgets')
    <3>1. widgets' = [widgets EXCEPT !["auto_ddns"] = FALSE]
      BY <1>3 DEF ClearUrl
    <3>2. "auto_ddns" # "interval" /\ "auto_ddns" \in Shown
      BY DEF Shown, Switches
    <3>3. /\ widgets' = [k \in Shown |-> widgets'[k]]
          /\ widgets'["auto_ddns"] = FALSE
          /\ \A k \in Shown \ {"auto_ddns"} : widgets'[k] = widgets[k]
      BY <1>1, <3>1, <3>2 DEF WidgetsShow
    <3>4. Shown = Switches \cup {"interval"}
      BY DEF Shown
    <3>5. \A k \in Switches : widgets'[k] \in BOOLEAN
      BY <1>1, <3>3, <3>4 DEF WidgetsShow
    <3>6. widgets'["interval"] \in Int
      BY <1>1, <3>2, <3>3, <3>4 DEF WidgetsShow
    <3>. QED
      BY <3>3, <3>5, <3>6 DEF WidgetsShow
  <2>8. url' \in BOOLEAN
    BY <1>1, <1>3 DEF ClearUrl
  <2>. QED
    BY <1>1, <1>3, <2>5, <2>6, <2>7, <2>8 DEF ClearUrl, Store, off
<1>. QED
  BY <1>2, <1>3

LEMMA CopiesUrl ==
    ASSUME CopiesInv, SaveUrl \/ ClearUrl PROVE CopiesInv'
<1>1. SettledConfig(Normalize(window'))
  BY UrlIs, NormalizeSettles DEF SettledConfig
<1>2. merged' = Nothing
  BY UrlIs DEF CopiesInv, SaveUrl, ClearUrl, Running
<1>. QED
  BY <1>1, <1>2, UrlIs DEF CopiesInv, SettledConfig

\* The profiles after a save or a deletion are valid ones, and they differ
\* from the others in n.
LEMMA ProfileSaved ==
    ASSUME NEW dns \in ValidProfiles, NEW n \in DnsNames,
           NEW servers \in Servers, servers \notin BadServers
    PROVE  /\ WithProfile(dns, n, servers) \in ValidProfiles
           /\ \A m \in DnsNames \ {n} :
                /\ m \in DOMAIN WithProfile(dns, n, servers) <=> m \in DOMAIN dns
                /\ m \in DOMAIN dns => WithProfile(dns, n, servers)[m] = dns[m]
<1>. DEFINE D == DOMAIN dns
            new == WithProfile(dns, n, servers)
<1>1. D \in (SUBSET DnsNames) \ {{}} /\ \A m \in D : dns[m] \in Servers \ BadServers
  BY ValidProfilesStay
<1>2. new = [m \in {n} \cup D |-> IF m = n THEN servers ELSE dns[m]]
  BY DEF WithProfile
<1>. HIDE DEF D, new
<1>3. new \in [{n} \cup D -> Servers \ BadServers] /\ {n} \cup D \in (SUBSET DnsNames) \ {{}}
  BY <1>1, <1>2
<1>4. new \in ValidProfiles
  BY <1>3 DEF ValidProfiles
<1>5. \A m \in DnsNames \ {n} : (m \in DOMAIN new <=> m \in D) /\ (m \in D => new[m] = dns[m])
  BY <1>2
<1>. QED
  BY <1>4, <1>5 DEF D, new

LEMMA ProfileDeleted ==
    ASSUME NEW dns \in ValidProfiles, NEW n, DOMAIN dns # {n}
    PROVE  LET new == Restrict(dns, DOMAIN dns \ {n}) IN
           /\ new \in ValidProfiles
           /\ \A m \in DnsNames \ {n} :
                /\ m \in DOMAIN new <=> m \in DOMAIN dns
                /\ m \in DOMAIN dns => new[m] = dns[m]
<1>. DEFINE D == DOMAIN dns \ {n}
            new == Restrict(dns, D)
<1>1. D \in (SUBSET DnsNames) \ {{}} /\ \A m \in D : dns[m] \in Servers \ BadServers
  BY ValidProfilesStay
<1>2. new = [m \in D |-> dns[m]]
  BY DEF Restrict
<1>3. \A m \in DnsNames \ {n} : m \in D <=> m \in DOMAIN dns
  OBVIOUS
<1>. HIDE DEF D, new
<1>4. new \in [D -> Servers \ BadServers]
  BY <1>1, <1>2
<1>5. new \in ValidProfiles
  BY <1>1, <1>4 DEF ValidProfiles
<1>. QED
  BY <1>2, <1>3, <1>5 DEF D, new

\* Both handlers store the window's copy with other valid profiles.
StoresDns(dns) ==
    /\ dns \in ValidProfiles
    /\ window # Nothing /\ SettledConfig(window) /\ WidgetsShow(widgets)
    /\ file' = Normalize(WithDns(window, dns)) /\ monitor' = file' /\ window' = file'
    /\ UNCHANGED <<registry, merged, enabled, url, outside, widgets>>

LEMMA StoreDnsIs ==
    ASSUME SettledConfig(window), NEW dns, StoreDns(dns)
    PROVE  /\ file' = Normalize(WithDns(window, dns)) /\ monitor' = file' /\ window' = file'
           /\ UNCHANGED <<registry, merged, enabled, url, outside, widgets>>
<1>1. window = [settings |-> window.settings, plugins |-> window.plugins,
                dns |-> window.dns, rules |-> window.rules]
  BY DEF SettledConfig, RawConfig
<1>2. [window EXCEPT !.dns = dns] = WithDns(window, dns)
  BY <1>1 DEF WithDns
<1>. QED
  BY <1>2 DEF StoreDns, Store

LEMMA CopiesStored ==
    ASSUME CopiesInv, NEW dns, StoresDns(dns) PROVE CopiesInv'
<1>1. SettledConfig(file')
  BY DnsSettle, NormalizeSettles DEF StoresDns, SettledConfig
<1>. QED
  BY <1>1 DEF CopiesInv, StoresDns, SettledConfig

LEMMA SaveDnsIs ==
    ASSUME CopiesInv, NEW n \in DnsNames, NEW servers \in Servers, SaveDns(n, servers)
    PROVE  StoresDns(WithProfile(window.dns, n, servers))
<1>1. /\ window # Nothing /\ SettledConfig(window) /\ WidgetsShow(widgets)
      /\ servers \notin BadServers
  BY DEF CopiesInv, SaveDns, Running
<1>. DEFINE dns == WithProfile(window.dns, n, servers)
<1>2. dns \in ValidProfiles
  BY <1>1, ProfileSaved DEF SettledConfig
<1>3. StoreDns(dns)
  BY DEF SaveDns
<1>. HIDE DEF dns
<1>4. StoresDns(dns)
  BY <1>1, <1>2, <1>3, StoreDnsIs DEF StoresDns
<1>. QED
  BY <1>4 DEF dns

LEMMA DeleteDnsIs ==
    ASSUME CopiesInv, NEW n \in DnsNames, DeleteDns(n)
    PROVE  StoresDns(Restrict(window.dns, DOMAIN window.dns \ {n})) /\ DOMAIN window.dns # {n}
<1>1. /\ window # Nothing /\ SettledConfig(window) /\ WidgetsShow(widgets)
      /\ DOMAIN window.dns # {n}
  BY DEF CopiesInv, DeleteDns, Running
<1>. DEFINE dns == Restrict(window.dns, DOMAIN window.dns \ {n})
<1>2. dns \in ValidProfiles
  BY <1>1, ProfileDeleted DEF SettledConfig
<1>3. StoreDns(dns)
  BY DEF DeleteDns
<1>. HIDE DEF dns
<1>4. StoresDns(dns)
  BY <1>1, <1>2, <1>3, StoreDnsIs DEF StoresDns
<1>. QED
  BY <1>1, <1>4 DEF dns

LEMMA CopiesNext == CopiesInv /\ [Next]_vars => CopiesInv'
<1>. SUFFICES ASSUME CopiesInv, [Next]_vars PROVE CopiesInv'
  OBVIOUS
<1>1. CASE UNCHANGED vars
  BY <1>1 DEF vars, CopiesInv
<1>2. ASSUME NEW n \in DnsNames, NEW servers \in Servers, SaveDns(n, servers) PROVE CopiesInv'
  BY <1>2, SaveDnsIs, CopiesStored
<1>3. ASSUME NEW n \in DnsNames, DeleteDns(n) PROVE CopiesInv'
  BY <1>3, DeleteDnsIs, CopiesStored
<1>. QED
  BY <1>1, <1>2, <1>3, CopiesMerge, CopiesStart, CopiesTaken, CopiesSaved, CopiesUrl,
     CopiesOutside DEF Next

LEMMA CopiesAlways == Spec => []CopiesInv
  BY CopiesInit, CopiesNext, PTL DEF Spec

\* core.py:273, enterprise_policy.py:69: whatever the file holds, another
\* program leaves in it or the policy key says, a copy in memory can be used as
\* it is: an interval in range, switches that are switches, at least one DNS
\* profile and valid ones only, rules with a name and a condition.
THEOREM TypesAlways == Spec => []TypeOK
<1>1. CopiesInv => TypeOK
  BY SettledIsSafe DEF CopiesInv, TypeOK, WidgetsShow
<1>. QED
  BY <1>1, CopiesAlways, PTL

\* core.py:273: what normalize_config returned it leaves alone, for every file
\* and every copy in memory; so what is saved is what a load gives.
THEOREM LoadIsStableAlways == Spec => []LoadIsStable
<1>1. CopiesInv => LoadIsStable
  BY NormalizeIsStable DEF CopiesInv, LoadIsStable, SettledConfig
<1>. QED
  BY <1>1, CopiesAlways, PTL

-----------------------------------------------------------------------------
(* The rules read from a copy                                              *)

\* The normal rules that apply to a network of these conditions.
Applicable(known) == {r \in NormalForms : r.enabled = TRUE /\ Holds(r.when, known)}

\* A rule fits, as the file has it, if it is kept and its normal form applies.
LEMMA FitsIs ==
    ASSUME NEW r \in Rules, NEW context
    PROVE  Fits(r, context) <=> Usable(r) /\ NormalRule(r) \in Applicable(Conditions(context))
<1>. DEFINE known == Conditions(context)
            when == Conditions(r.when)
            counts == DOMAIN r.when \ (IF "bssid" \in DOMAIN r.when /\ r.when["bssid"] \in Unparsable
                                       THEN {"bssid"} ELSE {})
<1>1. r.when \in Whens /\ r # Junk /\ r.enabled \in BOOLEAN \cup {Junk}
  BY ManagedAssumption DEF Rules, Whens
<1>2. DOMAIN when = counts
  BY DEF Conditions
<1>3. ASSUME NEW k \in counts
      PROVE  Same(k, r.when[k], known[k]) <=> Same(k, when[k], known[k])
  <2>1. r.when[k] \in Values
    BY <1>1 DEF Whens
  <2>2. when[k] = IF k = "bssid" THEN Folded[r.when[k]] ELSE r.when[k]
    BY DEF Conditions
  <2>3. CASE k = "bssid"
    <3>1. Folded[when[k]] = Folded[r.when[k]]
      BY <2>1, <2>2, <2>3, ManagedAssumption
    <3>. HIDE DEF when, known, counts
    <3>. QED
      BY <2>3, <3>1 DEF Same
  <2>4. CASE k # "bssid"
    BY <2>2, <2>4
  <2>. QED
    BY <2>3, <2>4
<1>. HIDE DEF when, counts, known
<1>4. Holds(when, known) <=> \A k \in counts : k \in DOMAIN known /\ Same(k, r.when[k], known[k])
  BY <1>2, <1>3 DEF Holds
<1>5. Fits(r, context) <=> /\ r.name # NoName /\ r.enabled # FALSE
                           /\ counts # {}
                           /\ Holds(when, known)
  BY <1>4 DEF Fits, counts, known
<1>6. Usable(r) <=> r.name # NoName /\ counts # {}
  BY <1>1, <1>2 DEF Usable, when
<1>7. Usable(r) => /\ NormalRule(r) \in NormalForms
                   /\ NormalRule(r).when = when
                   /\ NormalRule(r).enabled = TRUE <=> r.enabled # FALSE
  <2>1. ParseBool(r.enabled, TRUE) = TRUE <=> r.enabled # FALSE
    BY <1>1 DEF ParseBool
  <2>. QED
    BY <2>1, NormalRuleIsNormal DEF when
<1>. QED
  BY <1>5, <1>6, <1>7 DEF Applicable, known

LEMMA MatchIsFirst ==
    ASSUME NEW c, RawConfig(c), NEW context
    PROVE  LET fits == {i \in DOMAIN c.rules : c.rules[i] # Junk /\ Fits(c.rules[i], context)}
           IN  Match(c, context) =
                    IF fits = {} THEN Nothing ELSE NormalRule(c.rules[Min(fits)])
<1>. DEFINE F == Applicable(Conditions(context))
            rules == Normalize(c).rules
            hits == {i \in DOMAIN rules :
                        rules[i].enabled /\ Holds(rules[i].when, Conditions(context))}
            fits == {i \in DOMAIN c.rules : c.rules[i] # Junk /\ Fits(c.rules[i], context)}
<1>1. c.rules \in Seq(Rules \cup {Junk}) /\ rules = NormalRules(c.rules)
  BY NormalizeIs DEF RawConfig
<1>2. rules \in Seq(NormalForms)
  BY <1>1, RulesAreNormal
<1>3. hits = {i \in 1..Len(rules) : rules[i] \in F}
  <2>1. ASSUME NEW i \in DOMAIN rules
        PROVE  rules[i].enabled /\ Holds(rules[i].when, Conditions(context)) <=> rules[i] \in F
    <3>. DEFINE r == rules[i]
    <3>1. r \in NormalForms
      BY <1>2
    <3>2. r.enabled \in BOOLEAN
      BY <3>1 DEF NormalForms
    <3>. HIDE DEF r
    <3>3. r.enabled <=> r.enabled = TRUE
      BY <3>2
    <3>4. r.enabled /\ Holds(r.when, Conditions(context)) <=> r \in F
      BY <3>1, <3>3 DEF Applicable
    <3>. QED
      BY <3>4 DEF r
  <2>2. DOMAIN rules = 1..Len(rules)
    BY <1>2
  <2>. HIDE DEF F
  <2>. QED
    BY <2>1, <2>2
<1>4. fits = {i \in 1..Len(c.rules) : Usable(c.rules[i]) /\ NormalRule(c.rules[i]) \in F}
  <2>1. ASSUME NEW i \in DOMAIN c.rules
        PROVE  c.rules[i] # Junk /\ Fits(c.rules[i], context)
                    <=> Usable(c.rules[i]) /\ NormalRule(c.rules[i]) \in F
    <3>1. c.rules[i] \in Rules \cup {Junk}
      BY <1>1
    <3>2. CASE c.rules[i] = Junk
      BY <3>2 DEF Usable
    <3>3. CASE c.rules[i] \in Rules
      <4>1. c.rules[i] # Junk
        BY <3>3, ManagedAssumption
      <4>. QED
        BY <3>3, <4>1, FitsIs
    <3>. QED
      BY <3>1, <3>2, <3>3
  <2>2. DOMAIN c.rules = 1..Len(c.rules)
    BY <1>1
  <2>. HIDE DEF F
  <2>. QED
    BY <2>1, <2>2
<1>5. \/ hits = {} /\ fits = {}
      \/ \E h \in hits, f \in fits :
            /\ \A i \in hits : h <= i
            /\ \A i \in fits : f <= i
            /\ rules[h] = NormalRule(c.rules[f])
  <2>. HIDE DEF F, hits, fits, rules
  <2>1. AreHits(hits, NormalRules(c.rules), F) /\ AreFits(fits, c.rules, F)
    BY <1>1, <1>3, <1>4 DEF AreHits, AreFits
  <2>. QED
    BY <1>1, <2>1, FirstIsKept
<1>6. hits \in SUBSET Nat /\ fits \in SUBSET Nat
  <2>1. Len(rules) \in Nat /\ Len(c.rules) \in Nat
    BY <1>1, <1>2
  <2>. HIDE DEF F, hits, fits, rules
  <2>. QED
    BY <1>3, <1>4, <2>1
<1>7. Match(c, context) = IF hits = {} THEN Nothing ELSE rules[Min(hits)]
  BY DEF Match
<1>. HIDE DEF hits, fits, F, rules
<1>8. Match(c, context) = IF fits = {} THEN Nothing ELSE NormalRule(c.rules[Min(fits)])
  <2>1. CASE hits = {} /\ fits = {}
    BY <1>7, <2>1
  <2>2. CASE ~(hits = {} /\ fits = {})
    <3>1. PICK h \in hits, f \in fits :
            /\ \A i \in hits : h <= i
            /\ \A i \in fits : f <= i
            /\ rules[h] = NormalRule(c.rules[f])
      BY <1>5, <2>2
    <3>2. Min(hits) = h /\ Min(fits) = f
      BY <1>6, <3>1, LeastIs
    <3>. QED
      BY <1>7, <3>1, <3>2
  <2>. QED
    BY <2>1, <2>2
<1>. QED
  BY <1>8 DEF fits

\* core.py:437: for any list of rules and any network, the rule that is found
\* is the first usable one of the file whose conditions all hold, and none is
\* found when there is none.
THEOREM FirstUsableRuleAlways == Spec => []FirstUsableRule
<1>1. CopiesInv => FirstUsableRule
  BY MatchIsFirst DEF CopiesInv, FirstUsableRule
<1>. QED
  BY <1>1, CopiesAlways, PTL

LEMMA PausesAreShown ==
    ASSUME NEW s, s.interval \in Int, NEW asked, NEW other
    PROVE  /\ Paused(s, asked) /\ AsTight(asked, other) =>
                Reduced(s, other) /\ Sleep(s, other) >= 300
           /\ Sleep(s, other) >= s.interval
           /\ ~(other.metered \/ other.on_battery \/ other.battery_saver) =>
                Sleep(s, other) = s.interval
<1>1. Paused(s, asked) /\ AsTight(asked, other) => Reduced(s, other)
  BY DEF Paused, AsTight, Reduced, SavesData, SavesPower
<1>2. ~(other.metered \/ other.on_battery \/ other.battery_saver) => ~Reduced(s, other)
  BY DEF Reduced, SavesData, SavesPower
<1>. DEFINE interval == s.interval
            slow == Larger(interval, 300)
<1>3. Sleep(s, other) = IF Reduced(s, other) THEN slow ELSE interval
  BY DEF Sleep
<1>4. slow >= 300 /\ slow >= interval /\ interval >= interval
  BY DEF Larger
<1>. HIDE DEF slow, interval
<1>5. CASE Reduced(s, other)
  BY <1>2, <1>3, <1>4, <1>5 DEF interval
<1>6. CASE ~Reduced(s, other)
  BY <1>1, <1>3, <1>4, <1>6 DEF interval
<1>. QED
  BY <1>1, <1>5, <1>6

\* monitor_service.py:158-161, 199-200, 299-300: for every interval, all switches
\* and every three observations of one poll, an update that waits is shown as
\* reduced mode and the monitor polls at most every five minutes, where the
\* reason to wait is observed there too.
THEOREM PausedIsShownAlways == Spec => []PausedIsShown
<1>1. CopiesInv => PausedIsShown
  <2>. SUFFICES ASSUME CopiesInv, Running
                PROVE  LET s == Normalize(monitor).settings IN
                       \A asked, other \in Observations :
                            /\ Paused(s, asked) /\ AsTight(asked, other) =>
                                    Reduced(s, other) /\ Sleep(s, other) >= 300
                            /\ Sleep(s, other) >= monitor.settings.interval
                            /\ ~(other.metered \/ other.on_battery \/ other.battery_saver) =>
                                    Sleep(s, other) = monitor.settings.interval
    BY DEF PausedIsShown
  <2>. DEFINE s == Normalize(monitor).settings
  <2>1. s = monitor.settings /\ s.interval \in Int
    <3>1. SettledConfig(monitor)
      BY DEF CopiesInv, Running
    <3>2. monitor.settings.interval \in Int
      BY <3>1, ADay DEF SettledConfig, SettledSettings
    <3>. QED
      BY <3>1, <3>2, SettledStays
  <2>. HIDE DEF s
  <2>2. \A asked, other \in Observations :
            /\ Paused(s, asked) /\ AsTight(asked, other) =>
                    Reduced(s, other) /\ Sleep(s, other) >= 300
            /\ Sleep(s, other) >= s.interval
            /\ ~(other.metered \/ other.on_battery \/ other.battery_saver) =>
                    Sleep(s, other) = s.interval
    BY <2>1, PausesAreShown
  <2>. QED
    BY <2>1, <2>2 DEF s
<1>. QED
  BY <1>1, CopiesAlways, PTL

-----------------------------------------------------------------------------
(* The start                                                               *)

\* No policy key holds DisablePlugins at anything but TRUE: what it does then
\* is README, section 4.
OnlyDisables ==
    \A values \in Registries :
        "DisablePlugins" \in DOMAIN values => values["DisablePlugins"] = TRUE

LEMMA MergeIs ==
    ASSUME CopiesInv, [Next]_vars, merged = Nothing, merged' # Nothing
    PROVE  Merge
<1>1. ASSUME NEW n \in DnsNames, NEW servers \in Servers, SaveDns(n, servers) PROVE FALSE
  BY <1>1 DEF SaveDns, StoreDns, Store
<1>2. ASSUME NEW n \in DnsNames, DeleteDns(n) PROVE FALSE
  BY <1>2 DEF DeleteDns, StoreDns, Store
<1>3. ASSUME NEW e \in Edits, SaveSettings(e[1], e[2]) PROVE FALSE
  BY <1>3 DEF SaveSettings, Store
<1>4. ~(Uncaught \/ Start \/ Quit \/ Reload \/ Sync)
  BY DEF Uncaught, Start, Quit, Reload, Sync
<1>5. ~(SaveUrl \/ ClearUrl \/ EditFile \/ SetPolicy \/ UNCHANGED vars)
  BY DEF SaveUrl, ClearUrl, Store, EditFile, SetPolicy, Outside, vars
<1>. QED
  BY <1>1, <1>2, <1>3, <1>4, <1>5 DEF Next

LEMMA MergeIsPolicy ==
    ASSUME OnlyDisables, CopiesInv, Merge
    PROVE  PolicyStep
<1>. DEFINE p == NormalPolicies(registry)
            user == Normalize(file)
            a == merged'.config
<1>1. RawConfig(file) /\ RawConfig(user) /\ registry \in Registries /\ SettledConfig(user)
  BY NormalizeSettles DEF CopiesInv, SettledConfig
<1>2. Normalize(user) = user
  BY <1>1, NormalizeIsStable
<1>3. a = ApplyPolicy(user, registry) /\ merged'.managed = ManagedBy(user, registry)
  BY DEF Merge
<1>4. "DisablePlugins" \in DOMAIN p => p["DisablePlugins"] = TRUE
  BY <1>1 DEF OnlyDisables, NormalPolicies, ParseBool
<1>. HIDE DEF user
<1>. DEFINE b == ApplyPolicy(user, registry)
            n == Normalize(user)
<1>5. /\ b = [settings |-> b.settings, plugins |-> b.plugins, dns |-> b.dns, rules |-> b.rules]
      /\ b.settings = [k \in Settings |-> b.settings[k]]
      /\ b.dns = n.dns /\ b.rules = n.rules
      /\ b.plugins = IF "DisablePlugins" \notin DOMAIN p THEN n.plugins
                     ELSE IF p["DisablePlugins"] THEN {} ELSE Junk
      /\ \A k \in Others : b.settings[k] = n.settings[k]
      /\ b.settings.interval =
            Larger(n.settings.interval, IF Minimum \in DOMAIN p THEN p[Minimum] ELSE n.settings.interval)
      /\ b.settings.rollback =
            IF "ForceRollbackOnConnectivityLoss" \in DOMAIN p
            THEN p["ForceRollbackOnConnectivityLoss"] ELSE n.settings.rollback
      /\ b.settings.proxy_locked =
            IF "DisableProxyChanges" \in DOMAIN p
            THEN p["DisableProxyChanges"] ELSE n.settings.proxy_locked
  BY ApplyPolicyIs
<1>. HIDE DEF b, n, a
<1>6. b = a /\ n = user
  BY <1>2, <1>3 DEF b, n, a
<1>7. user.plugins = Listed(user.plugins)
  BY NormalizeIs DEF Listed, user
<1>. HIDE DEF p
<1>8. /\ "DisablePlugins" \in DOMAIN p /\ p["DisablePlugins"] = TRUE => Listed(a.plugins) = {}
      /\ ~("DisablePlugins" \in DOMAIN p /\ p["DisablePlugins"] = TRUE) => Listed(a.plugins) = user.plugins
  <2>1. CASE "DisablePlugins" \in DOMAIN p
    <3>1. p["DisablePlugins"] = TRUE
      BY <1>4, <2>1
    <3>2. p["DisablePlugins"]
      BY <3>1
    <3>3. a.plugins = {}
      BY <1>5, <1>6, <2>1, <3>2
    <3>. QED
      BY <1>7, <2>1, <3>1, <3>3 DEF Listed
  <2>2. CASE "DisablePlugins" \notin DOMAIN p
    BY <1>5, <1>6, <1>7, <2>2
  <2>. QED
    BY <2>1, <2>2
<1>9. /\ a.settings.interval >= user.settings.interval
      /\ Minimum \in DOMAIN p =>
            /\ a.settings.interval >= p[Minimum]
            /\ a.settings.interval \in {p[Minimum], user.settings.interval}
      /\ Minimum \notin DOMAIN p => a.settings.interval = user.settings.interval
  <2>. DEFINE mine == user.settings.interval
  <2>1. mine \in 15..Longest
    BY <1>1 DEF SettledConfig, SettledSettings
  <2>2. Minimum \in DOMAIN p => p[Minimum] \in 15..Longest
    BY <1>1, PoliciesAre DEF p
  <2>. HIDE DEF mine
  <2>3. CASE Minimum \in DOMAIN p
    <3>1. a.settings.interval = Larger(mine, p[Minimum])
      BY <1>5, <1>6, <2>3 DEF mine
    <3>. QED
      BY <2>1, <2>2, <2>3, <3>1, LargerIsInRange DEF mine
  <2>4. CASE Minimum \notin DOMAIN p
    <3>1. a.settings.interval = Larger(mine, mine)
      BY <1>5, <1>6, <2>4 DEF mine
    <3>2. Larger(mine, mine) \in {mine, mine} /\ Larger(mine, mine) >= mine
      BY <2>1, LargerIsInRange
    <3>. QED
      BY <2>4, <3>1, <3>2 DEF mine
  <2>. QED
    BY <2>3, <2>4
<1>10. ASSUME merged'.managed = {} PROVE a = user
  <2>. DEFINE mine == user.settings.interval
  <2>1. \A m \in DOMAIN p : m = Minimum /\ ~(mine < p[m])
    <3>1. merged'.managed =
            {Target(m) : m \in {x \in DOMAIN p : x = Minimum => mine < p[x]}}
      BY <1>2, <1>3 DEF ManagedBy, p, Minimum, user
    <3>. QED
      BY <1>10, <3>1
  <2>2. mine \in 15..Longest /\ mine \in Int
    BY <1>1, ADay DEF SettledConfig, SettledSettings
  <2>3. Minimum \in DOMAIN p => p[Minimum] \in 15..Longest /\ p[Minimum] \in Int
    BY <1>1, PoliciesAre, ADay DEF p
  <2>4. /\ "DisablePlugins" # Minimum
        /\ "ForceRollbackOnConnectivityLoss" # Minimum
        /\ "DisableProxyChanges" # Minimum
    BY DEF Minimum
  <2>5. a.settings.interval = mine
    <3>. HIDE DEF mine
    <3>1. Minimum \in DOMAIN p => a.settings.interval = Larger(mine, p[Minimum])
      BY <1>5, <1>6 DEF mine
    <3>2. Minimum \notin DOMAIN p => a.settings.interval = Larger(mine, mine)
      BY <1>5, <1>6 DEF mine
    <3>3. Larger(mine, mine) = mine
      BY DEF Larger
    <3>4. Minimum \in DOMAIN p => Larger(mine, p[Minimum]) = mine
      BY <2>1, <2>2, <2>3 DEF Larger
    <3>. QED
      BY <3>1, <3>2, <3>3, <3>4
  <2>6. /\ a.settings.rollback = user.settings.rollback
        /\ a.settings.proxy_locked = user.settings.proxy_locked
        /\ \A k \in Others : a.settings[k] = user.settings[k]
        /\ a.plugins = user.plugins
    BY <1>5, <1>6, <2>1, <2>4
  <2>7. \A k \in Settings : a.settings[k] = user.settings[k]
    BY <2>5, <2>6 DEF Settings, Shown, Switches, Others
  <2>8. user.settings = [k \in Settings |-> user.settings[k]]
    BY <1>1 DEF SettledConfig, SettledSettings
  <2>9. user = [settings |-> user.settings, plugins |-> user.plugins,
                dns |-> user.dns, rules |-> user.rules]
    BY <1>1 DEF RawConfig
  <2>10. /\ a = [settings |-> a.settings, plugins |-> a.plugins, dns |-> a.dns, rules |-> a.rules]
         /\ a.settings = [k \in Settings |-> a.settings[k]]
         /\ a.dns = user.dns /\ a.rules = user.rules
    BY <1>5, <1>6
  <2>11. a.settings = user.settings
    BY <2>7, <2>8, <2>10
  <2>. QED
    BY <2>6, <2>9, <2>10, <2>11
<1>. QED
  BY <1>5, <1>6, <1>8, <1>9, <1>10 DEF PolicyStep, p, a, user, Minimum, Others

\* enterprise_policy.py:69: for every file and every policy that is set (but
\* DisablePlugins at 0), what apply_policy_overrides returns has exactly the
\* policies in it: none is weaker, nothing else of the user's file is changed,
\* and nothing at all where it reports nothing managed.
THEOREM PolicyAtStartAlways ==
    ASSUME OnlyDisables PROVE Spec => PolicyAtStart
<1>1. CopiesInv /\ [Next]_vars => [PolicyStep]_vars
  <2>1. CASE merged = Nothing /\ merged' # Nothing
    BY <2>1, MergeIs, MergeIsPolicy
  <2>2. CASE ~(merged = Nothing /\ merged' # Nothing)
    BY <2>2 DEF PolicyStep
  <2>. QED
    BY <2>1, <2>2
<1>. QED
  BY <1>1, CopiesAlways, PTL DEF Spec, PolicyAtStart

-----------------------------------------------------------------------------
(* A save in the window                                                    *)

LEMMA OneAtMost ==
    ASSUME NEW x, NEW D \in SUBSET {x} PROVE Cardinality(D) <= 1
<1>1. D = {} \/ D = {x}
  OBVIOUS
<1>2. Cardinality({}) = 0 /\ Cardinality({x}) = 1
  BY FS_EmptySet, FS_Singleton
<1>. QED
  BY <1>1, <1>2

\* Normal forms of settled copies of one list of plugins and one of rules.
LEMMA DifferInSettings ==
    ASSUME NEW a, NEW b, NEW x, NEW off,
           a.plugins = b.plugins, a.rules = b.rules, a.dns = b.dns,
           \A k \in Settings \ ({x} \cup off) : a.settings[k] = b.settings[k]
    PROVE  Cardinality(Differences(a, b) \ off) <= 1
<1>1. Differences(a, b) \ off \subseteq {x}
  BY DEF Differences
<1>. QED
  BY <1>1, OneAtMost

\* What is in the file after a copy was saved.
LEMMA SavedIs ==
    ASSUME NEW c, SettledConfig(c), NEW saved, saved = Normalize(c)
    PROVE  /\ Normalize(saved).settings = c.settings
           /\ Normalize(saved).plugins = Listed(c.plugins)
           /\ Normalize(saved).dns = c.dns
           /\ Normalize(saved).rules = c.rules
<1>1. RawConfig(c)
  BY DEF SettledConfig
<1>2. Normalize(saved) = Normalize(c)
  BY <1>1, NormalizeIsStable
<1>. QED
  BY <1>2, SettledStays

\* The window and its settings tab show the file.
UpToDate == window = Normalize(file) /\ widgets = ShownOf(window)

LEMMA UpToDateIs ==
    ASSUME CopiesInv, UpToDate
    PROVE  SettledConfig(window) /\ Listed(window.plugins) = window.plugins
<1>1. SettledConfig(Normalize(file))
  BY NormalizeSettles DEF CopiesInv
<1>2. Listed(Normalize(file).plugins) = Normalize(file).plugins
  BY NormalizeIs DEF Listed
<1>. QED
  BY <1>1, <1>2 DEF UpToDate

Off == IF url THEN {} ELSE {"auto_ddns"}

ChangesOne(new, old) ==
    /\ Cardinality(Differences(new, old) \ Off) <= 1
    /\ new.settings.auto_ddns => url \/ old.settings.auto_ddns

LEMMA SettingsChangeOne ==
    ASSUME CopiesInv, UpToDate, NEW e \in Edits, SaveSettings(e[1], e[2])
    PROVE  ChangesOne(Normalize(file'), window)
<1>. DEFINE t == Written(widgets', window.settings)
            c == WithSettings(window, t)
            new == Normalize(file')
            s == window.settings
<1>1. /\ SettledConfig(window) /\ WidgetsShow(widgets')
      /\ \A k \in Shown \ {e[1], "auto_ddns"} : widgets'[k] = widgets[k]
      /\ ~url => widgets'["auto_ddns"] = FALSE
      /\ url /\ e[1] # "auto_ddns" => widgets'["auto_ddns"] = widgets["auto_ddns"]
  BY SaveSettingsIs
<1>2. window' = c /\ SettledConfig(c) /\ file' = Normalize(c)
  BY SaveSettingsIs
<1>3. \A k \in Shown : widgets[k] = s[k]
  BY DEF UpToDate, ShownOf
<1>4. SettledSettings(s) /\ RawSettings(s)
  BY <1>1 DEF SettledConfig, RawConfig, RawSettings
<1>5. /\ t.interval = Clamp(widgets'.interval) /\ t.proxy_locked = s.proxy_locked
      /\ \A k \in Switches : t[k] = widgets'[k]
  BY <1>1, <1>4, WrittenIs
<1>. HIDE DEF t, s
<1>6. Shown = Switches \cup {"interval"} /\ "auto_ddns" \in Switches /\ "interval" # "auto_ddns"
  BY DEF Shown, Switches
<1>7. "interval" # e[1] => t.interval = s.interval
  <2>1. s.interval \in 15..Longest /\ s.interval \in Int
    BY <1>4, ADay DEF SettledSettings
  <2>2. Clamp(s.interval) = s.interval
    BY <2>1, ClampRange
  <2>. QED
    BY <1>1, <1>3, <1>5, <1>6, <2>2
<1>8. \A k \in Switches \ {e[1], "auto_ddns"} : t[k] = s[k]
  BY <1>1, <1>3, <1>5, <1>6
<1>9. /\ url /\ e[1] # "auto_ddns" => t["auto_ddns"] = s["auto_ddns"]
      /\ ~url => t["auto_ddns"] = FALSE
  BY <1>1, <1>3, <1>5, <1>6
<1>10. \A k \in Settings \ ({e[1]} \cup Off) : t[k] = s[k]
  <2>1. url \/ "auto_ddns" \in Off
    BY DEF Off
  <2>. QED
    BY <1>5, <1>7, <1>8, <1>9, <2>1, SettingsAre
<1>11. /\ c.settings = t /\ c.plugins = window.plugins
       /\ c.dns = window.dns /\ c.rules = window.rules
  BY DEF WithSettings
<1>. HIDE DEF c
<1>12. new.settings = t /\ new.plugins = window.plugins /\ new.dns = window.dns
       /\ new.rules = window.rules
  BY <1>2, <1>11, SavedIs, UpToDateIs
<1>. HIDE DEF new
<1>13. Cardinality(Differences(new, window) \ Off) <= 1
  BY <1>10, <1>12, DifferInSettings DEF s
<1>14. new.settings.auto_ddns => url
  BY <1>9, <1>12
<1>. QED
  BY <1>13, <1>14 DEF ChangesOne, new

\* Where a save touches the automatic update at most, it turns it off.
LEMMA UrlChangesOne ==
    ASSUME CopiesInv, UpToDate, SaveUrl \/ ClearUrl
    PROVE  ChangesOne(Normalize(file'), window)
<1>. DEFINE new == Normalize(file')
            c == window'
<1>1. /\ SettledConfig(window) /\ SettledConfig(c)
      /\ c \in {window, WithSettings(window, TurnedOff(window.settings))}
      /\ file' = Normalize(c)
  BY UrlIs
<1>2. SettledSettings(window.settings) /\ RawSettings(window.settings)
  BY <1>1 DEF SettledConfig, RawConfig, RawSettings
<1>. HIDE DEF c
<1>3. /\ c.plugins = window.plugins /\ c.dns = window.dns /\ c.rules = window.rules
      /\ c.settings = window.settings \/ c.settings = TurnedOff(window.settings)
  BY <1>1 DEF WithSettings
<1>4. /\ \A k \in Settings \ {"auto_ddns"} : c.settings[k] = window.settings[k]
      /\ c.settings.auto_ddns => window.settings.auto_ddns
  BY <1>2, <1>3, TurnedOffIs
<1>5. new.settings = c.settings /\ new.plugins = window.plugins /\ new.dns = window.dns
      /\ new.rules = window.rules
  BY <1>1, <1>3, SavedIs, UpToDateIs
<1>. HIDE DEF new
<1>6. Cardinality(Differences(new, window) \ Off) <= 1
  BY <1>4, <1>5, DifferInSettings
<1>. QED
  BY <1>4, <1>5, <1>6 DEF ChangesOne, new

LEMMA DifferInDns ==
    ASSUME NEW a, NEW b, NEW x, NEW off,
           a.plugins = b.plugins, a.rules = b.rules, a.settings = b.settings,
           DOMAIN a.dns \subseteq DnsNames, DOMAIN b.dns \subseteq DnsNames,
           \A m \in DnsNames \ {x} :
                /\ m \in DOMAIN a.dns <=> m \in DOMAIN b.dns
                /\ m \in DOMAIN b.dns => a.dns[m] = b.dns[m]
    PROVE  Cardinality(Differences(a, b) \ off) <= 1
<1>1. Differences(a, b) \ off \subseteq {x}
  BY DEF Differences
<1>. QED
  BY <1>1, OneAtMost

LEMMA DnsChangesOne ==
    ASSUME CopiesInv, UpToDate, NEW dns, StoresDns(dns), NEW n,
           \A m \in DnsNames \ {n} :
                /\ m \in DOMAIN dns <=> m \in DOMAIN window.dns
                /\ m \in DOMAIN window.dns => dns[m] = window.dns[m]
    PROVE  ChangesOne(Normalize(file'), window)
<1>. DEFINE c == WithDns(window, dns)
            new == Normalize(file')
<1>1. SettledConfig(c) /\ file' = Normalize(c)
  BY DnsSettle DEF StoresDns
<1>2. c.settings = window.settings /\ c.plugins = window.plugins
      /\ c.dns = dns /\ c.rules = window.rules
  BY DEF WithDns
<1>3. DOMAIN dns \subseteq DnsNames /\ DOMAIN window.dns \subseteq DnsNames
  BY ValidProfilesStay DEF StoresDns, SettledConfig
<1>. HIDE DEF c
<1>4. new.settings = window.settings /\ new.plugins = window.plugins
      /\ new.dns = dns /\ new.rules = window.rules
  BY <1>1, <1>2, SavedIs, UpToDateIs
<1>. HIDE DEF new
<1>5. Cardinality(Differences(new, window) \ Off) <= 1
  BY <1>3, <1>4, DifferInDns
<1>. QED
  BY <1>4, <1>5 DEF ChangesOne, new

LEMMA SavesChangeOne ==
    ASSUME CopiesInv, [Next]_vars
    PROVE  OneChangeStep
<1>. SUFFICES ASSUME file' # file, outside' = outside, UpToDate
              PROVE  ChangesOne(Normalize(file'), window)
  BY DEF OneChangeStep, UpToDate, ChangesOne, Off
<1>1. ASSUME NEW n \in DnsNames, NEW servers \in Servers, SaveDns(n, servers)
      PROVE  ChangesOne(Normalize(file'), window)
  <2>. DEFINE dns == WithProfile(window.dns, n, servers)
  <2>1. StoresDns(dns)
    BY <1>1, SaveDnsIs
  <2>2. window.dns \in ValidProfiles /\ servers \notin BadServers
    BY <1>1, <2>1 DEF StoresDns, SettledConfig, SaveDns
  <2>3. \A m \in DnsNames \ {n} :
            /\ m \in DOMAIN dns <=> m \in DOMAIN window.dns
            /\ m \in DOMAIN window.dns => dns[m] = window.dns[m]
    BY <2>2, ProfileSaved
  <2>. HIDE DEF dns
  <2>. QED
    BY <2>1, <2>3, DnsChangesOne
<1>2. ASSUME NEW n \in DnsNames, DeleteDns(n)
      PROVE  ChangesOne(Normalize(file'), window)
  <2>. DEFINE dns == Restrict(window.dns, DOMAIN window.dns \ {n})
  <2>1. StoresDns(dns) /\ DOMAIN window.dns # {n}
    BY <1>2, DeleteDnsIs
  <2>2. window.dns \in ValidProfiles
    BY <2>1 DEF StoresDns, SettledConfig
  <2>3. \A m \in DnsNames \ {n} :
            /\ m \in DOMAIN dns <=> m \in DOMAIN window.dns
            /\ m \in DOMAIN window.dns => dns[m] = window.dns[m]
    BY <2>1, <2>2, ProfileDeleted
  <2>. HIDE DEF dns
  <2>. QED
    BY <2>1, <2>3, DnsChangesOne
<1>3. ~(Merge \/ Uncaught \/ Start \/ Quit \/ Reload \/ Sync \/ EditFile \/ SetPolicy \/ UNCHANGED vars)
  <2>1. outside \in Int
    BY ManagedAssumption DEF CopiesInv
  <2>2. ~(EditFile \/ SetPolicy)
    BY <2>1 DEF EditFile, SetPolicy, Outside
  <2>. QED
    BY <2>2 DEF Merge, Uncaught, Start, Quit, Reload, Sync, vars
<1>. QED
  BY <1>1, <1>2, <1>3, SettingsChangeOne, UrlChangesOne DEF Next

\* gui.py:1280-1358, 1753-1781: for every configuration and every edit, a save
\* from a window that shows the file changes one setting or one DNS profile of
\* the file at most, and besides turns the automatic update off where no update
\* URL is found.
THEOREM SaveChangesOneThingAlways == Spec => SaveChangesOneThing
<1>1. CopiesInv /\ [Next]_vars => [OneChangeStep]_vars
  BY SavesChangeOne
<1>. QED
  BY <1>1, CopiesAlways, PTL DEF Spec, SaveChangesOneThing
=============================================================================
