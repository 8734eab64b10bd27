------------------------- MODULE ReportedRunProofs -------------------------
(***************************************************************************)
(* Proofs about ReportedRun, for every set of invocations and every number *)
(* of departures: whatever goes wrong in a run, its observations are in    *)
(* the order of the plan and are kept, and a verdict has the evidence that *)
(* it needs.  SafeInv is the inductive invariant; each of its parts says   *)
(* what one kind of observation may be at which step.                      *)
(***************************************************************************)
EXTENDS ReportedRun, WellFoundedInduction, FiniteSetTheorems, SequenceTheorems, TLAPS

-----------------------------------------------------------------------------
(* Induction, for a set instead of a predicate, as in IndexListingProofs   *)

(* A set of natural numbers has a least element.                           *)
LEMMA LeastElement ==
  ASSUME NEW S \in SUBSET Nat, S # {}
  PROVE  \E least \in S : \A n \in S : least <= n
<1> DEFINE Less == OpToRel(<, Nat)
<1>1. IsWellFoundedOn(Less, Nat)
  BY NatLessThanWellFounded
<1>2. \A n, least \in Nat : n < least => <<n, least>> \in Less
  BY DEF OpToRel
<1> HIDE DEF Less
<1>3. PICK least \in S : \A n \in S : ~(<<n, least>> \in Less)
  BY <1>1, WFMin
<1>4. ASSUME NEW n \in S
      PROVE  least <= n
  <2>1. n \in Nat /\ least \in Nat
    BY <1>3
  <2>2. ~(n < least)
    BY <2>1, <1>2, <1>3
  <2> QED BY <2>1, <2>2
<1> QED BY <1>3, <1>4

(* The principle of induction, for the set of numbers that are good.       *)
LEMMA SetInduction ==
  ASSUME NEW S, 0 \in S, \A n \in Nat : n \in S => n + 1 \in S
  PROVE  Nat \subseteq S
<1> SUFFICES ASSUME Nat \ S # {} PROVE FALSE
  OBVIOUS
<1>1. PICK least \in Nat \ S : \A n \in Nat \ S : least <= n
  BY LeastElement
<1>2. least # 0 /\ least - 1 \in Nat /\ least - 1 \in S
  BY <1>1
<1> QED BY <1>1, <1>2

-----------------------------------------------------------------------------
(* Picked *)

\* The function that Picked is defined with, for the first n positions.
Piece(s, P, n) == IF n \in P THEN <<s[n]>> ELSE <<>>
IsKept(s, P, n, kept) ==
  kept = [k \in 0 .. n |-> IF k = 0 THEN <<>> ELSE kept[k - 1] \o Piece(s, P, k)]

LEMMA KeptExists ==
  ASSUME NEW s, NEW P, NEW n \in Nat
  PROVE  \E kept : IsKept(s, P, n, kept)
<1> DEFINE S == {m \in Nat : \E kept : IsKept(s, P, m, kept)}
<1>1. 0 \in S
  <2> DEFINE kept == [k \in 0 .. 0 |-> <<>>]
  <2>1. kept = [k \in 0 .. 0 |-> IF k = 0 THEN <<>> ELSE kept[k - 1] \o Piece(s, P, k)]
    OBVIOUS
  <2> HIDE DEF kept
  <2>2. IsKept(s, P, 0, kept)
    BY <2>1 DEF IsKept
  <2> QED BY <2>2
<1>2. ASSUME NEW m \in Nat, m \in S
      PROVE  m + 1 \in S
  <2>1. PICK kept : IsKept(s, P, m, kept)
    BY <1>2
  <2>2. /\ kept = [k \in 0 .. m |-> kept[k]]
        /\ \A k \in 0 .. m : kept[k] = IF k = 0 THEN <<>> ELSE kept[k - 1] \o Piece(s, P, k)
    BY <2>1 DEF IsKept
  <2> DEFINE next == [k \in 0 .. m + 1 |-> IF k = m + 1 THEN kept[m] \o Piece(s, P, m + 1) ELSE kept[k]]
  <2>3. \A k \in 0 .. m : next[k] = kept[k]
    OBVIOUS
  <2>4. next[m + 1] = kept[m] \o Piece(s, P, m + 1)
    OBVIOUS
  <2>5. next = [k \in 0 .. m + 1 |-> next[k]]
    OBVIOUS
  <2> HIDE DEF next
  <2>6. \A k \in 0 .. m + 1 : next[k] = IF k = 0 THEN <<>> ELSE next[k - 1] \o Piece(s, P, k)
    <3> SUFFICES ASSUME NEW k \in 0 .. m + 1
                 PROVE  next[k] = IF k = 0 THEN <<>> ELSE next[k - 1] \o Piece(s, P, k)
      OBVIOUS
    <3>1. CASE k = m + 1
      <4>1. k # 0 /\ k - 1 = m /\ m \in 0 .. m
        BY <3>1
      <4> QED BY <3>1, <4>1, <2>3, <2>4
    <3>2. CASE k # m + 1 /\ k # 0
      <4>1. k \in 0 .. m /\ k - 1 \in 0 .. m
        BY <3>2
      <4> QED BY <3>2, <4>1, <2>2, <2>3
    <3>3. CASE k = 0
      <4>1. 0 \in 0 .. m
        OBVIOUS
      <4> QED BY <3>3, <4>1, <2>2, <2>3
    <3> QED BY <3>1, <3>2, <3>3
  <2>7. IsKept(s, P, m + 1, next)
    BY <2>5, <2>6 DEF IsKept
  <2> QED BY <2>7
<1>3. Nat \subseteq S
  BY <1>1, <1>2, SetInduction
<1> QED BY <1>3

LEMMA PickedIsKept ==
  ASSUME NEW s, NEW P, Len(s) \in Nat
  PROVE  \E kept : IsKept(s, P, Len(s), kept) /\ Picked(s, P) = kept[Len(s)]
<1> DEFINE chosen == CHOOSE kept : IsKept(s, P, Len(s), kept)
<1>1. IsKept(s, P, Len(s), chosen)
  BY KeptExists
<1>2. Picked(s, P) = chosen[Len(s)]
  BY DEF Picked, IsKept, Piece
<1> QED BY <1>1, <1>2

\* f leads from the elements of q to their positions in s.
Leads(f, q, s, P) ==
  /\ f \in [1 .. Len(q) -> P]
  /\ \A i, j \in 1 .. Len(q) : i < j => f[i] < f[j]
  /\ \A i \in 1 .. Len(q) : q[i] = s[f[i]]
  /\ \A p \in P : \E i \in 1 .. Len(q) : f[i] = p

(* Picked returns the elements at the positions, in order, and no other.   *)
LEMMA PickedIs ==
  ASSUME NEW E, NEW s \in Seq(E), NEW P \in SUBSET (1 .. Len(s))
  PROVE  Picked(s, P) \in Seq(E) /\ \E f : Leads(f, Picked(s, P), s, P)
<1>1. PICK kept : IsKept(s, P, Len(s), kept) /\ Picked(s, P) = kept[Len(s)]
  BY PickedIsKept
<1>2. /\ kept[0] = <<>>
      /\ \A k \in 1 .. Len(s) : kept[k] = kept[k - 1] \o Piece(s, P, k)
  <2>1. \A k \in 0 .. Len(s) : kept[k] = IF k = 0 THEN <<>> ELSE kept[k - 1] \o Piece(s, P, k)
    BY <1>1 DEF IsKept
  <2>2. 0 \in 0 .. Len(s) /\ \A k \in 1 .. Len(s) : k \in 0 .. Len(s) /\ k # 0
    OBVIOUS
  <2> QED BY <2>1, <2>2
<1> DEFINE Good(n) == n <= Len(s) => /\ kept[n] \in Seq(E)
                                     /\ \E f : Leads(f, kept[n], s, P \cap 1 .. n)
           S == {n \in Nat : Good(n)}
<1>3. Good(0)
  <2>1. kept[0] = <<>>
    BY <1>2
  <2> DEFINE f == [i \in {} |-> 0]
  <2>2. Leads(f, <<>>, s, P \cap 1 .. 0)
    BY DEF Leads
  <2> HIDE DEF f
  <2>3. \E g : Leads(g, kept[0], s, P \cap 1 .. 0)
    BY <2>1, <2>2
  <2>4. kept[0] \in Seq(E)
    BY <2>1
  <2> QED BY <2>3, <2>4
<1>4. ASSUME NEW n \in Nat, Good(n)
      PROVE  Good(n + 1)
  <2> SUFFICES ASSUME n + 1 <= Len(s)
               PROVE  /\ kept[n + 1] \in Seq(E)
                      /\ \E f : Leads(f, kept[n + 1], s, P \cap 1 .. n + 1)
    OBVIOUS
  <2> DEFINE q == kept[n]
  <2>1. q \in Seq(E) /\ \E f : Leads(f, q, s, P \cap 1 .. n)
    <3>1. n <= Len(s)
      OBVIOUS
    <3> QED BY <1>4, <3>1
  <2>2. PICK f : Leads(f, q, s, P \cap 1 .. n)
    BY <2>1
  <2>3. kept[n + 1] = q \o Piece(s, P, n + 1)
    <3> DEFINE m == n + 1
    <3>1. m \in 1 .. Len(s) /\ m - 1 = n
      OBVIOUS
    <3> HIDE DEF m
    <3>2. kept[m] = kept[m - 1] \o Piece(s, P, m)
      BY <1>2, <3>1
    <3> QED BY <3>1, <3>2 DEF m
  <2> HIDE DEF q
  <2>4. CASE n + 1 \notin P
    <3>1. kept[n + 1] = q
      BY <2>1, <2>3, <2>4 DEF Piece
    <3>2. P \cap 1 .. n + 1 = P \cap 1 .. n
      BY <2>4
    <3> QED BY <2>1, <2>2, <3>1, <3>2
  <2>5. CASE n + 1 \in P
    <3>1. kept[n + 1] = Append(q, s[n + 1])
      BY <2>1, <2>3, <2>5 DEF Piece
    <3>2. s[n + 1] \in E
      OBVIOUS
    <3> DEFINE r == Append(q, s[n + 1])
               g == [i \in 1 .. Len(q) + 1 |-> IF i = Len(q) + 1 THEN n + 1 ELSE f[i]]
    <3>3. r \in Seq(E) /\ Len(r) = Len(q) + 1 /\ Len(q) \in Nat
      BY <2>1, <3>2
    <3>4. \A i \in 1 .. Len(q) : r[i] = q[i] /\ g[i] = f[i] /\ f[i] \in P \cap 1 .. n
      BY <2>1, <2>2, <3>2 DEF Leads
    <3>5. r[Len(q) + 1] = s[n + 1] /\ g[Len(q) + 1] = n + 1
      BY <2>1, <3>2
    <3>6. g \in [1 .. Len(q) + 1 -> P \cap 1 .. n + 1]
      <4> SUFFICES ASSUME NEW i \in 1 .. Len(q) + 1
                   PROVE  g[i] \in P \cap 1 .. n + 1
        OBVIOUS
      <4>1. CASE i = Len(q) + 1
        BY <4>1, <3>5, <2>5
      <4>2. CASE i # Len(q) + 1
        <5>1. i \in 1 .. Len(q)
          BY <4>2, <3>3
        <5>2. g[i] \in P \cap 1 .. n
          BY <5>1, <3>4
        <5> QED BY <5>2
      <4> QED BY <4>1, <4>2
    <3> HIDE DEF r, g
    <3>7. \A i, j \in 1 .. Len(r) : i < j => g[i] < g[j]
      <4> SUFFICES ASSUME NEW i \in 1 .. Len(r), NEW j \in 1 .. Len(r), i < j
                   PROVE  g[i] < g[j]
        OBVIOUS
      <4>1. i \in 1 .. Len(q) /\ g[i] = f[i] /\ f[i] \in 1 .. n
        BY <3>3, <3>4
      <4>2. CASE j = Len(q) + 1
        BY <4>1, <4>2, <3>5
      <4>3. CASE j # Len(q) + 1
        <5>1. j \in 1 .. Len(q) /\ g[j] = f[j]
          BY <4>3, <3>3, <3>4
        <5> QED BY <4>1, <5>1, <2>2 DEF Leads
      <4> QED BY <4>2, <4>3
    <3>8. \A i \in 1 .. Len(r) : r[i] = s[g[i]]
      BY <2>2, <3>3, <3>4, <3>5 DEF Leads
    <3>9. ASSUME NEW p \in P \cap 1 .. n + 1
          PROVE  \E i \in 1 .. Len(r) : g[i] = p
      <4>1. CASE p = n + 1
        BY <3>3, <3>5, <4>1
      <4>2. CASE p # n + 1
        <5>1. p \in P \cap 1 .. n
          BY <4>2
        <5>2. PICK i \in 1 .. Len(q) : f[i] = p
          BY <2>2, <5>1 DEF Leads
        <5> QED BY <5>2, <3>3, <3>4
      <4> QED BY <4>1, <4>2
    <3>10. Leads(g, r, s, P \cap 1 .. n + 1)
      BY <3>3, <3>6, <3>7, <3>8, <3>9 DEF Leads
    <3> QED BY <3>1, <3>3, <3>10 DEF r
  <2> QED BY <2>4, <2>5
<1>5. Nat \subseteq S
  <2> HIDE DEF Good
  <2>1. 0 \in S /\ \A n \in Nat : n \in S => n + 1 \in S
    BY <1>3, <1>4
  <2> HIDE DEF S
  <2> QED BY <2>1, SetInduction
<1>6. Len(s) \in Nat /\ Len(s) <= Len(s) /\ P \cap 1 .. Len(s) = P
  <2>1. Len(s) \in Nat
    OBVIOUS
  <2>2. Len(s) <= Len(s)
    BY <2>1
  <2>3. P \cap 1 .. Len(s) = P
    OBVIOUS
  <2> QED BY <2>1, <2>2, <2>3
<1>7. kept[Len(s)] \in Seq(E) /\ \E f : Leads(f, kept[Len(s)], s, P \cap 1 .. Len(s))
  BY <1>5, <1>6
<1> QED BY <1>1, <1>6, <1>7

(* What Picked has to be used.                                             *)
LEMMA PickedFacts ==
  ASSUME NEW E, NEW s \in Seq(E), NEW P \in SUBSET (1 .. Len(s)),
         \A i, j \in P : s[i] = s[j] => i = j
  PROVE  LET q == Picked(s, P)
         IN /\ q \in Seq(E)
            /\ \A x : x \in Range(q) <=> \E i \in P : s[i] = x
            /\ \A i, j \in 1 .. Len(q) : q[i] = q[j] => i = j
            /\ \A i, j \in 1 .. Len(q) : i < j =>
                 \E k, l \in P : k < l /\ q[i] = s[k] /\ q[j] = s[l]
<1> DEFINE q == Picked(s, P)
<1>1. PICK f : q \in Seq(E) /\ Leads(f, q, s, P)
  BY PickedIs
<1> HIDE DEF q
<1>2. \A i, j \in 1 .. Len(q) : q[i] = q[j] => i = j
  <2> SUFFICES ASSUME NEW i \in 1 .. Len(q), NEW j \in 1 .. Len(q), q[i] = q[j], i < j
               PROVE  FALSE
    BY <1>1
  <2>1. f[i] \in P /\ f[j] \in P /\ f[i] < f[j]
    BY <1>1 DEF Leads
  <2>2. s[f[i]] = s[f[j]]
    BY <1>1 DEF Leads
  <2>3. f[i] = f[j] /\ f[i] \in 1 .. Len(s)
    BY <2>1, <2>2
  <2> QED BY <2>1, <2>3
<1>3. \A i, j \in 1 .. Len(q) : i < j =>
        \E k, l \in P : k < l /\ q[i] = s[k] /\ q[j] = s[l]
  BY <1>1 DEF Leads
<1>4. ASSUME NEW x
      PROVE  x \in Range(q) <=> \E i \in P : s[i] = x
  <2>1. x \in Range(q) <=> \E i \in 1 .. Len(q) : q[i] = x
    BY <1>1 DEF Range
  <2>2. ASSUME NEW i \in 1 .. Len(q), q[i] = x
        PROVE  \E p \in P : s[p] = x
    <3>1. f[i] \in P /\ s[f[i]] = x
      BY <1>1, <2>2 DEF Leads
    <3> QED BY <3>1
  <2>3. ASSUME NEW p \in P, s[p] = x
        PROVE  \E i \in 1 .. Len(q) : q[i] = x
    <3>1. PICK i \in 1 .. Len(q) : f[i] = p
      BY <1>1 DEF Leads
    <3>2. q[i] = s[f[i]]
      BY <1>1 DEF Leads
    <3> QED BY <2>3, <3>1, <3>2
  <2> QED BY <2>1, <2>2, <2>3
<1> QED BY <1>1, <1>2, <1>3, <1>4 DEF q

-----------------------------------------------------------------------------
(* The plan *)

LEMMA OrderOfChecks ==
  /\ SelectableCheckOrder \in Seq(CheckName) /\ Len(SelectableCheckOrder) = 6
  /\ SelectableCheckOrder = <<"ruff", "annotations", "ty", "bandit", "pytest", "annotations-fix">>
  /\ CheckName = {"ruff", "annotations", "ty", "bandit", "pytest", "annotations-fix"}
<1>1. SelectableCheckOrder = <<"ruff", "annotations", "ty", "bandit", "pytest", "annotations-fix">>
  <2> DEFINE t == <<"ruff", "annotations", "ty", "bandit", "pytest", "annotations-fix">>
             E == {"ruff", "annotations", "ty", "bandit", "pytest", "annotations-fix"}
  <2>1. CheckOrder \in Seq(E) /\ Len(CheckOrder) = 5 /\ t \in Seq(E) /\ Len(t) = 6
    BY DEF CheckOrder
  <2>2. /\ SelectableCheckOrder \in Seq(E) /\ Len(SelectableCheckOrder) = 6
        /\ SelectableCheckOrder[6] = "annotations-fix"
    <3>1. "annotations-fix" \in E
      OBVIOUS
    <3> HIDE DEF E, t
    <3>2. CheckOrder \in Seq(E)
      BY <2>1
    <3>3. /\ Append(CheckOrder, "annotations-fix") \in Seq(E)
          /\ Len(Append(CheckOrder, "annotations-fix")) = Len(CheckOrder) + 1
          /\ Append(CheckOrder, "annotations-fix")[Len(CheckOrder) + 1] = "annotations-fix"
      BY <3>1, <3>2, AppendProperties
    <3>4. Len(CheckOrder) + 1 = 6
      BY <2>1
    <3> QED BY <3>3, <3>4 DEF SelectableCheckOrder
  <2>3. \A i \in 1 .. 5 : SelectableCheckOrder[i] = CheckOrder[i] /\ CheckOrder[i] = t[i]
    BY <2>1 DEF SelectableCheckOrder, CheckOrder
  <2>4. SelectableCheckOrder[6] = t[6]
    BY <2>2
  <2>5. \A i \in 1 .. 6 : SelectableCheckOrder[i] = t[i]
    <3>1. \A i \in 1 .. 6 : i \in 1 .. 5 \/ i = 6
      OBVIOUS
    <3> QED BY <3>1, <2>3, <2>4
  <2> HIDE DEF t
  <2>6. SelectableCheckOrder = t
    BY <2>1, <2>2, <2>5, SeqEqual
  <2> QED BY <2>6 DEF t
<1>2. CheckName = {"ruff", "annotations", "ty", "bandit", "pytest", "annotations-fix"}
  BY <1>1 DEF CheckName, Range
<1> QED BY <1>1, <1>2

\* The names that a request asks for, in order.
NamedChecks(r) ==
  Picked(SelectableCheckOrder, {i \in DOMAIN SelectableCheckOrder : SelectableCheckOrder[i] \in r.requested})

Distinct(s) == \A i, j \in 1 .. Len(s) : s[i] = s[j] => i = j

LEMMA NamedChecksAre ==
  ASSUME NEW r, r.requested \subseteq CheckName
  PROVE  LET q == NamedChecks(r)
         IN /\ q \in Seq(CheckName) /\ Range(q) = r.requested /\ Distinct(q)
            /\ "pytest" \in r.requested /\ "annotations-fix" \notin r.requested =>
                 Len(q) > 0 /\ q[Len(q)] = "pytest"
<1> DEFINE P == {i \in DOMAIN SelectableCheckOrder : SelectableCheckOrder[i] \in r.requested}
           q == Picked(SelectableCheckOrder, P)
<1>1. P \in SUBSET (1 .. Len(SelectableCheckOrder))
  BY OrderOfChecks
<1>2. \A i, j \in P : SelectableCheckOrder[i] = SelectableCheckOrder[j] => i = j
  BY OrderOfChecks
<1>3. \A x : (\E i \in P : SelectableCheckOrder[i] = x) <=> x \in r.requested
  BY OrderOfChecks
<1>4. \A k, l \in P : k < l /\ SelectableCheckOrder[k] = "pytest" => SelectableCheckOrder[l] = "annotations-fix"
  BY OrderOfChecks
<1>5. SelectableCheckOrder \in Seq(CheckName)
  BY OrderOfChecks
<1> HIDE DEF P
<1>6. /\ q \in Seq(CheckName)
      /\ \A x : x \in Range(q) <=> \E i \in P : SelectableCheckOrder[i] = x
      /\ \A i, j \in 1 .. Len(q) : q[i] = q[j] => i = j
      /\ \A i, j \in 1 .. Len(q) : i < j =>
           \E k, l \in P : k < l /\ q[i] = SelectableCheckOrder[k] /\ q[j] = SelectableCheckOrder[l]
  <2>1. /\ Picked(SelectableCheckOrder, P) \in Seq(CheckName)
        /\ \A x : x \in Range(Picked(SelectableCheckOrder, P)) <=> \E i \in P : SelectableCheckOrder[i] = x
        /\ \A i, j \in 1 .. Len(Picked(SelectableCheckOrder, P)) :
             Picked(SelectableCheckOrder, P)[i] = Picked(SelectableCheckOrder, P)[j] => i = j
        /\ \A i, j \in 1 .. Len(Picked(SelectableCheckOrder, P)) : i < j =>
             \E k, l \in P : /\ k < l /\ Picked(SelectableCheckOrder, P)[i] = SelectableCheckOrder[k]
                            /\ Picked(SelectableCheckOrder, P)[j] = SelectableCheckOrder[l]
    <3> HIDE DEF q
    <3> QED BY <1>1, <1>2, <1>5, PickedFacts
  <2> QED BY <2>1
<1> HIDE DEF q
<1>7. Range(q) = r.requested
  BY <1>3, <1>6
<1>8. ASSUME "pytest" \in r.requested, "annotations-fix" \notin r.requested
      PROVE  Len(q) > 0 /\ q[Len(q)] = "pytest"
  <2>1. PICK i \in 1 .. Len(q) : q[i] = "pytest"
    BY <1>6, <1>7, <1>8 DEF Range
  <2>2. Len(q) \in 1 .. Len(q) /\ i <= Len(q)
    BY <1>6, <2>1
  <2>3. q[Len(q)] # "annotations-fix"
    BY <1>6, <1>7, <1>8, <2>2 DEF Range
  <2>4. ~(i < Len(q))
    BY <2>1, <2>2, <2>3, <1>6, <1>4
  <2>5. i = Len(q)
    BY <2>2, <2>4
  <2> QED BY <2>1, <2>2, <2>5
<1> QED BY <1>6, <1>7, <1>8 DEF NamedChecks, Distinct, q, P

(* A refusal that was not made has no ground.                              *)
LEMMA NotRefused ==
  ASSUME NEW r, NEW config, PlanningError(r, config) = "none"
  PROVE  /\ SelectedAlone(r)
         /\ r.coverage => SelectsPytest(r) /\ config.coverage # "none"
         /\ ~MisusedShortcut(r)
<1> DEFINE R == Refusals(r, config)
           I == {i \in 1 .. Len(R) : R[i].holds}
<1>1. /\ Len(R) = 10
      /\ R[4].holds = MisusedShortcut(r) /\ R[8].holds = ~SelectedAlone(r)
      /\ R[9].holds = (r.coverage /\ ~SelectsPytest(r))
      /\ R[10].holds = (r.coverage /\ config.coverage = "none")
      /\ \A i \in 1 .. 10 : R[i].code # "none"
  BY DEF Refusals
<1> HIDE DEF R
<1>2. I = {}
  <2> SUFFICES ASSUME I # {} PROVE FALSE
    OBVIOUS
  <2>1. I \in SUBSET Nat
    BY <1>1
  <2>2. PICK least \in I : \A n \in I : least <= n
    BY <2>1, LeastElement
  <2>3. Min(I) \in I
    BY <2>2 DEF Min
  <2>4. SelectInSeq(R, LAMBDA refusal : refusal.holds) = Min(I)
    BY DEF SelectInSeq
  <2>5. PlanningError(r, config) = R[Min(I)].code
    BY <2>1, <2>3, <2>4, <1>1 DEF PlanningError, R
  <2> QED BY <1>1, <2>3, <2>5
<1>3. \A i \in 1 .. 10 : ~R[i].holds
  BY <1>1, <1>2
<1>4. ~R[4].holds /\ ~R[8].holds /\ ~R[9].holds /\ ~R[10].holds
  BY <1>3
<1> QED BY <1>1, <1>4

\* What the controller and the report rely on in a plan.
SoundPlan(p) ==
  /\ p.checks \in Seq(CheckName) /\ Len(p.checks) > 0 /\ Distinct(p.checks)
  /\ CoverageRequested(p) => p.checks[Len(p.checks)] = "pytest"

LEMMA FixedOrders ==
  /\ CheckOrder \in Seq(CheckName) /\ Len(CheckOrder) = 5 /\ Distinct(CheckOrder)
  /\ CheckOrder[5] = "pytest" /\ Range(CheckOrder) = CheckName \ {"annotations-fix"}
  /\ TargetDefaultChecks \in Seq(CheckName) /\ Len(TargetDefaultChecks) = 4
  /\ Distinct(TargetDefaultChecks)
  /\ Range(TargetDefaultChecks) = CheckName \ {"annotations-fix", "pytest"}
<1>1. CheckName = {"ruff", "annotations", "ty", "bandit", "pytest", "annotations-fix"}
  BY OrderOfChecks
<1>2. /\ CheckOrder \in Seq(CheckName) /\ Len(CheckOrder) = 5 /\ Distinct(CheckOrder)
      /\ CheckOrder[5] = "pytest" /\ Range(CheckOrder) = CheckName \ {"annotations-fix"}
  BY <1>1 DEF CheckOrder, Distinct, Range
<1>3. /\ TargetDefaultChecks \in Seq(CheckName) /\ Len(TargetDefaultChecks) = 4
      /\ Distinct(TargetDefaultChecks)
      /\ Range(TargetDefaultChecks) = CheckName \ {"annotations-fix", "pytest"}
  BY <1>1 DEF TargetDefaultChecks, Distinct, Range
<1> QED BY <1>2, <1>3

\* The three ways to select Checks.
Everything(r) == r.all \/ (r.requested = {} /\ r.targets = {})
TargetsOnly(r) == ~Everything(r) /\ r.requested = {}
Named(r) == ~Everything(r) /\ r.requested # {}

LEMMA SelectionIs ==
  ASSUME NEW r, r.requested \subseteq CheckName
  PROVE  LET q == SelectCheckNames(r)
         IN /\ Everything(r) => q = CheckOrder
            /\ TargetsOnly(r) => q = TargetDefaultChecks
            /\ Named(r) => q = NamedChecks(r) /\ Range(q) = r.requested
            /\ q \in Seq(CheckName) /\ Len(q) > 0 /\ Distinct(q)
<1>1. Everything(r) \/ TargetsOnly(r) \/ Named(r)
  BY DEF TargetsOnly, Named
<1>2. /\ Everything(r) => SelectCheckNames(r) = CheckOrder
      /\ TargetsOnly(r) => SelectCheckNames(r) = TargetDefaultChecks
      /\ Named(r) => SelectCheckNames(r) = NamedChecks(r)
  BY DEF SelectCheckNames, Everything, TargetsOnly, Named, NamedChecks
<1>3. NamedChecks(r) \in Seq(CheckName) /\ Range(NamedChecks(r)) = r.requested /\ Distinct(NamedChecks(r))
  BY NamedChecksAre
<1>4. Named(r) => Len(NamedChecks(r)) > 0
  <2>1. Range(NamedChecks(r)) = {NamedChecks(r)[i] : i \in 1 .. Len(NamedChecks(r))}
    BY <1>3 DEF Range
  <2>2. Len(NamedChecks(r)) \in Nat
    BY <1>3
  <2>3. Len(NamedChecks(r)) = 0 => r.requested = {}
    BY <1>3, <2>1
  <2> QED BY <2>2, <2>3 DEF Named
<1> DEFINE q == SelectCheckNames(r)
<1>5. /\ Everything(r) => ~TargetsOnly(r) /\ ~Named(r)
      /\ TargetsOnly(r) => ~Named(r)
  BY DEF TargetsOnly, Named
<1>6. /\ Everything(r) => q = CheckOrder
      /\ TargetsOnly(r) => q = TargetDefaultChecks
      /\ Named(r) => q = NamedChecks(r)
  BY <1>2
<1> HIDE DEF q
<1>7. Named(r) => Range(q) = r.requested
  BY <1>3, <1>6
<1>8. q \in Seq(CheckName) /\ Len(q) > 0 /\ Distinct(q)
  <2>1. /\ CheckOrder \in Seq(CheckName) /\ Len(CheckOrder) > 0 /\ Distinct(CheckOrder)
        /\ TargetDefaultChecks \in Seq(CheckName) /\ Len(TargetDefaultChecks) > 0
        /\ Distinct(TargetDefaultChecks)
    BY FixedOrders
  <2>2. CASE Everything(r)
    BY <2>1, <2>2, <1>6
  <2>3. CASE TargetsOnly(r)
    BY <2>1, <2>3, <1>6
  <2>4. CASE Named(r)
    BY <2>4, <1>3, <1>4, <1>6
  <2> QED BY <2>2, <2>3, <2>4, <1>1
<1> QED BY <1>6, <1>7, <1>8 DEF q

LEMMA PlanIsSound ==
  ASSUME NEW r \in Request, NEW config \in ProjectConfig, PlanningError(r, config) = "none"
  PROVE  SoundPlan(PlanRun(r, config))
<1> DEFINE q == SelectCheckNames(r)
<1>1. r.requested \subseteq CheckName
  BY DEF Request
<1>2. q \in Seq(CheckName) /\ Len(q) > 0 /\ Distinct(q)
  BY <1>1, SelectionIs
<1>3. PlanRun(r, config).checks = q
  BY DEF PlanRun
<1>4. SelectedAlone(r) /\ (r.coverage => SelectsPytest(r))
  BY NotRefused
<1>5. ASSUME CoverageRequested(PlanRun(r, config))
      PROVE  q[Len(q)] = "pytest"
  <2>1. r.coverage \/ StrictAll(r)
    BY <1>5 DEF CoverageRequested, PlanRun, PlannedCoverageScope
  <2>2. CASE Everything(r)
    BY <2>2, <1>1, SelectionIs, FixedOrders
  <2>3. CASE ~Everything(r)
    <3>1. "pytest" \in Range(q)
      BY <2>1, <2>3, <1>4 DEF Everything, StrictAll, SelectsPytest
    <3>2. Named(r) /\ q = NamedChecks(r) /\ "pytest" \in r.requested /\ Range(q) = r.requested
      BY <3>1, <2>3, <1>1, SelectionIs, FixedOrders DEF TargetsOnly, Named
    <3>3. ASSUME "annotations-fix" \in r.requested PROVE FALSE
      <4>1. Len(q) = 1
        BY <3>2, <3>3, <1>4 DEF SelectedAlone
      <4>2. Range(q) = {q[1]}
        BY <4>1, <1>2 DEF Range
      <4> QED BY <4>2, <3>2, <3>3
    <3> QED BY <3>2, <3>3, <1>1, NamedChecksAre
  <2> QED BY <2>2, <2>3
<1> QED BY <1>2, <1>3, <1>5 DEF SoundPlan

Owners == {"ruff", "ty", "bandit", "pytest"}

LEMMA OwnerOfCheck ==
  ASSUME NEW check \in CheckName
  PROVE  DependencyNameForCheck(check) \in Owners
BY OrderOfChecks DEF DependencyNameForCheck, Owners

(* Every planned Check has its dependency among the required ones, and     *)
(* Coverage.py is one of them if it is requested.                          *)
LEMMA RequiredAre ==
  ASSUME NEW p, SoundPlan(p)
  PROVE  LET R == RequiredDependencies(p)
         IN /\ R \in Seq(Owners \cup {"coverage"}) /\ Len(R) > 0
            /\ \A i \in 1 .. Len(p.checks) :
                 \E j \in 1 .. Len(R) : R[j] = DependencyNameForCheck(p.checks[i])
            /\ CoverageRequested(p) => \E j \in 1 .. Len(R) : R[j] = "coverage"
<1> DEFINE E == Owners \cup {"coverage"}
           names == [i \in 1 .. Len(p.checks) |-> DependencyNameForCheck(p.checks[i])]
           new == {i \in 1 .. Len(names) : \A j \in 1 .. i - 1 : names[j] # names[i]}
           q == Picked(names, new)
           tail == IF CoverageRequested(p) THEN <<"coverage">> ELSE <<>>
<1>1. p.checks \in Seq(CheckName) /\ Len(p.checks) \in Nat /\ Len(p.checks) > 0
  BY DEF SoundPlan
<1>2. names \in Seq(Owners) /\ Len(names) = Len(p.checks)
  <2>1. \A i \in 1 .. Len(p.checks) : p.checks[i] \in CheckName
    BY <1>1
  <2>2. names \in [1 .. Len(p.checks) -> Owners]
    BY <2>1, OwnerOfCheck
  <2> HIDE DEF names
  <2> QED BY <1>1, <2>2
<1>3. \A i \in 1 .. Len(p.checks) : names[i] = DependencyNameForCheck(p.checks[i])
  OBVIOUS
<1> HIDE DEF names
<1>4. \A i \in 1 .. Len(names) : \E k \in new : names[k] = names[i]
  <2> SUFFICES ASSUME NEW i \in 1 .. Len(names)
               PROVE  \E k \in new : names[k] = names[i]
    OBVIOUS
  <2> DEFINE S == {k \in 1 .. Len(names) : names[k] = names[i]}
  <2>1. S \in SUBSET Nat /\ S # {}
    BY <1>1, <1>2
  <2>2. PICK least \in S : \A n \in S : least <= n
    <3> HIDE DEF S
    <3> QED BY <2>1, LeastElement
  <2>3. least \in 1 .. Len(names) /\ names[least] = names[i]
    BY <2>2
  <2>4. ASSUME NEW j \in 1 .. least - 1, names[j] = names[least] PROVE FALSE
    <3>1. j \in 1 .. Len(names) /\ j < least
      BY <2>3, <1>1, <1>2
    <3>2. j \in S
      BY <3>1, <2>3, <2>4
    <3> QED BY <3>1, <3>2, <2>2
  <2>5. least \in new
    BY <2>3, <2>4
  <2> QED BY <2>3, <2>5
<1>5. new \in SUBSET (1 .. Len(names))
  OBVIOUS
<1> HIDE DEF new
<1>6. PICK f : q \in Seq(Owners) /\ Leads(f, q, names, new)
  BY <1>2, <1>5, PickedIs
<1> HIDE DEF q
<1>7. \A i \in 1 .. Len(p.checks) : \E j \in 1 .. Len(q) : q[j] = names[i]
  <2> SUFFICES ASSUME NEW i \in 1 .. Len(p.checks)
               PROVE  \E j \in 1 .. Len(q) : q[j] = names[i]
    OBVIOUS
  <2>1. PICK k \in new : names[k] = names[i]
    BY <1>2, <1>4
  <2>2. PICK j \in 1 .. Len(q) : f[j] = k
    BY <1>6 DEF Leads
  <2>3. q[j] = names[f[j]]
    BY <1>6 DEF Leads
  <2> QED BY <2>1, <2>2, <2>3
<1>8. Len(q) \in Nat /\ Len(q) > 0
  <2>1. 1 \in 1 .. Len(p.checks)
    BY <1>1
  <2>2. \E j \in 1 .. Len(q) : TRUE
    BY <2>1, <1>7
  <2>3. Len(q) \in Nat
    BY <1>6
  <2> QED BY <2>2, <2>3
<1>9. RequiredDependencies(p) = q \o tail
  BY DEF RequiredDependencies, names, new, q
<1>10. q \in Seq(E) /\ tail \in Seq(E)
  <2>1. tail \in Seq(E)
    <3>1. <<>> \in Seq(E) /\ <<"coverage">> \in Seq(E)
      OBVIOUS
    <3> QED BY <3>1
  <2>2. \A i \in 1 .. Len(q) : q[i] \in E
    BY <1>6
  <2> QED BY <1>6, <2>1, <2>2
<1> HIDE DEF tail
<1>11. q \o tail \in Seq(E) /\ Len(q \o tail) = Len(q) + Len(tail) /\ Len(tail) \in Nat
  BY <1>10
<1>12. \A j \in 1 .. Len(q) : j \in 1 .. Len(q \o tail) /\ (q \o tail)[j] = q[j]
  BY <1>8, <1>10, <1>11
<1>13. ASSUME CoverageRequested(p)
       PROVE  \E j \in 1 .. Len(q \o tail) : (q \o tail)[j] = "coverage"
  <2>1. tail = <<"coverage">>
    BY <1>13 DEF tail
  <2>2. (q \o tail)[Len(q) + 1] = "coverage" /\ Len(q \o tail) = Len(q) + 1
    BY <2>1, <1>10, <1>8
  <2> QED BY <2>2, <1>8
<1>14. \A i \in 1 .. Len(p.checks) :
         \E j \in 1 .. Len(q \o tail) : (q \o tail)[j] = DependencyNameForCheck(p.checks[i])
  BY <1>3, <1>7, <1>12
<1>15. Len(q \o tail) > 0
  BY <1>8, <1>11
<1> QED BY <1>9, <1>11, <1>13, <1>14, <1>15 DEF E

(* DependencyOf finds what was observed of a dependency.                   *)
LEMMA DependencyIsFound ==
  ASSUME NEW observed, NEW i \in DOMAIN observed
  PROVE  /\ DependencyOf(observed, observed[i].name) \in Range(observed)
         /\ DependencyOf(observed, observed[i].name).name = observed[i].name
<1>1. \E d \in Range(observed) : d.name = observed[i].name
  BY DEF Range
<1> QED BY <1>1 DEF DependencyOf

-----------------------------------------------------------------------------
(* The plan answers the request *)

LEMMA DistinctAreAsMany ==
  ASSUME NEW E, NEW s \in Seq(E), Distinct(s)
  PROVE  Cardinality(Range(s)) = Len(s)
<1>1. Len(s) \in Nat /\ s \in [1 .. Len(s) -> Range(s)]
  BY DEF Range
<1>2. s \in Bijection(1 .. Len(s), Range(s))
  BY <1>1 DEF Bijection, Injection, Surjection, Distinct, Range, IsInjective
<1>3. IsFiniteSet(1 .. Len(s)) /\ Cardinality(1 .. Len(s)) = Len(s)
  BY <1>1, FS_Interval
<1>4. Cardinality(1 .. Len(s)) = Cardinality(Range(s))
  BY <1>2, <1>3, FS_Bijection DEF ExistsBijection
<1> QED BY <1>3, <1>4

LEMMA PlanAnswers ==
  ASSUME NEW r \in Request, NEW config \in ProjectConfig, PlanningError(r, config) = "none"
  PROVE  LET p == PlanRun(r, config)
             planned == Range(p.checks)
         IN /\ r.all => p.checks = CheckOrder
            /\ ~r.all /\ r.requested # {} => planned = r.requested
            /\ "annotations-fix" \in planned =>
                 planned = {"annotations-fix"} /\ r.requested = {"annotations-fix"} /\ ~r.all
            /\ Cardinality(planned) = Len(p.checks)
            /\ r.coverage => CoverageRequested(p)
            /\ CoverageRequested(p) => "pytest" \in planned /\ config.coverage # "none"
            /\ p.mode = "strict_aggregate" => p.checks = CheckOrder /\ ~p.targets
            /\ p.testScope = "complete" => ~p.targets /\ ~p.shortcut
<1> DEFINE p == PlanRun(r, config)
           q == SelectCheckNames(r)
           planned == Range(q)
<1>1. r.requested \subseteq CheckName
  BY DEF Request
<1>2. /\ Everything(r) => q = CheckOrder
      /\ TargetsOnly(r) => q = TargetDefaultChecks
      /\ Named(r) => q = NamedChecks(r) /\ planned = r.requested
      /\ q \in Seq(CheckName) /\ Len(q) > 0 /\ Distinct(q)
  BY <1>1, SelectionIs
<1>3. Everything(r) \/ TargetsOnly(r) \/ Named(r)
  BY DEF TargetsOnly, Named
<1>4. /\ SelectedAlone(r)
      /\ r.coverage => SelectsPytest(r) /\ config.coverage # "none"
  BY NotRefused
<1>5. p.checks = q /\ p.mode = (IF StrictAll(r) THEN "strict_aggregate" ELSE "focused")
      /\ p.targets = (r.targets # {}) /\ p.shortcut = (r.shortcut = "known")
      /\ p.testScope = PlannedTestScope(r) /\ p.coverageScope = PlannedCoverageScope(r, config)
  BY DEF PlanRun
<1>6. r.all => q = CheckOrder
  BY <1>2 DEF Everything
<1>7. ~r.all /\ r.requested # {} => planned = r.requested
  BY <1>2 DEF Everything, Named
<1>8. "annotations-fix" \in planned =>
        planned = {"annotations-fix"} /\ r.requested = {"annotations-fix"} /\ ~r.all
  <2> SUFFICES ASSUME "annotations-fix" \in planned
               PROVE  planned = {"annotations-fix"} /\ planned = r.requested /\ Named(r)
    BY DEF Named, Everything
  <2>1. Len(q) = 1
    BY <1>4 DEF SelectedAlone
  <2>2. planned = {q[1]}
    BY <2>1, <1>2 DEF Range
  <2>3. Named(r)
    BY <1>2, <1>3, FixedOrders
  <2> QED BY <2>2, <2>3, <1>2
<1>9. Cardinality(planned) = Len(q)
  <2> HIDE DEF q
  <2> QED BY <1>2, DistinctAreAsMany
<1>10. r.coverage => CoverageRequested(p)
  BY <1>4, <1>5 DEF CoverageRequested, PlannedCoverageScope
<1>11. CoverageRequested(p) => "pytest" \in planned /\ config.coverage # "none"
  <2> SUFFICES ASSUME CoverageRequested(p)
               PROVE  "pytest" \in planned /\ config.coverage # "none"
    OBVIOUS
  <2>1. (r.coverage \/ StrictAll(r)) /\ config.coverage # "none"
    BY <1>4, <1>5 DEF CoverageRequested, PlannedCoverageScope
  <2>2. StrictAll(r) => Everything(r)
    BY DEF StrictAll, Everything
  <2>3. r.coverage => "pytest" \in planned
    BY <1>4 DEF SelectsPytest
  <2> QED BY <2>1, <2>2, <2>3, <1>2, FixedOrders, OrderOfChecks
<1>12. StrictAll(r) => q = CheckOrder /\ r.targets = {}
  BY <1>2 DEF StrictAll, Everything
<1>13. PlannedTestScope(r) = "complete" => r.targets = {} /\ r.shortcut # "known"
  BY DEF PlannedTestScope
<1> HIDE DEF p, q, planned
<1>14. /\ p.mode = "strict_aggregate" => p.checks = CheckOrder /\ ~p.targets
       /\ p.testScope = "complete" => ~p.targets /\ ~p.shortcut
  BY <1>5, <1>12, <1>13
<1> QED BY <1>5, <1>6, <1>7, <1>8, <1>9, <1>10, <1>11, <1>14 DEF p, planned

-----------------------------------------------------------------------------
(* The invariant *)

Role == {"none", "uv_version", "environment_probe", "dependency_probe", "primary",
         "coverage_json", "repository_safety"}
ProcessState ==
  [role : Role, outcome : {"none", "exited", "spawn_failed", "signaled"}, code : Int,
   output : {"complete", "stdout_cut", "stderr_cut"}]
DependencyError ==
  {"none", "check_dependency_unusable", "check_dependency_incompatible",
   "check_dependency_missing", "check_dependency_shadowed"}
DependencyState ==
  [name : Owners \cup {"coverage"},
   status : {"unobserved", "available", "incompatible", "missing", "shadowed", "unusable"},
   version : {"none", "supported"} \cup OutOfRange, process : ProcessState,
   error : DependencyError]
EnvironmentError ==
  {"none", "repository_lock_missing", "unsafe_repository_environment", "uv_unavailable",
   "environment_evidence_invalid", "repository_environment_failed",
   "repository_python_unsupported", "repository_state_changed"}
EnvironmentState ==
  [error : EnvironmentError, lock : {"unverified", "missing", "current"}, manager : BOOLEAN,
   python : {"none", "supported", "unsupported"},
   protection : {"unobserved", "tracked_files", "protected_files"}, processes : Seq(ProcessState)]
CheckError ==
  DependencyError \cup
  {"repository_environment_unavailable", "platform_safety_unavailable", "cleanup_failed",
   "pytest_evidence_error", "check_start_evidence_invalid", "spawn_failed",
   "terminated_by_signal", "check_execution_failed"}
PytestState ==
  [classification : {"supported", "module_unavailable", "unsupported_version",
                     "preflight_invalid", "not_started"},
   version : {"none", "supported", "padded", "three_numbers"},
   artifact : {"valid"} \cup RefusedArtifacts, session : Session]
CoverageArtifact ==
  {"not_attempted", "data_missing", "unexpected_parallel_data", "unsupported_parallelism",
   "generation_failed", "spawn_failed", "terminated_by_signal", "snapshot", "artifact_missing",
   "artifact_invalid"}
CoverageState ==
  [classification : {"supported", "module_unavailable", "unsupported_version",
                     "preflight_invalid"},
   artifact : CoverageArtifact, jsonExit : Int, wellFormed : BOOLEAN]
ObservationState ==
  [name : CheckName, processes : Seq(ProcessState), start : Owners \cup {"coverage", "none"},
   authority : BOOLEAN, error : CheckError, pytest : PytestState \cup {NoPytest},
   coverage : CoverageState \cup {NoCoverage}]

\* Groups of steps.
Early == {"plan", "planned", "baseline", "uv", "probe"}
InWorkspace == {"launch", "coverage", "close"}
InCheck == {"check"} \cup InWorkspace
Ending == {"verify", "report", "done"}
Refused == report = "planning_error"
Steps == Early \cup {"dependencies"} \cup InCheck \cup Ending

(* The type of every variable.                                             *)
TypeInv ==
  /\ pc \in Steps
  /\ baseline \in {"none", "git", "plain"} /\ forced \in BOOLEAN
  /\ env \in EnvironmentState /\ deps \in Seq(DependencyState)
  /\ checks \in Seq(ObservationState)
  /\ pc \in InWorkspace => current \in ObservationState
  /\ deviations \in 0 .. DeviationBound

(* A run that was planned follows a plan that was not refused.             *)
PlanInv ==
  /\ pc \in {"plan", "planned"} => invocation \in Invocations
  /\ pc \notin {"plan", "planned"} /\ ~Refused => invocation = Forgotten
  /\ Refused => pc = "done" /\ invocation \in Invocations
  /\ pc = "planned" => /\ PlanningError(invocation.request, invocation.config) = "none"
                       /\ plan = PlanRun(invocation.request, invocation.config)
  /\ pc = "plan" \/ Refused => plan = NoPlan
  /\ pc # "plan" /\ ~Refused => SoundPlan(plan)

(* The dependencies are observed in the required order, and before any     *)
(* Check runs each of them is either available or has an error.            *)
DepsInv ==
  /\ pc \in Early \/ Refused => deps = <<>>
  /\ pc \notin Early /\ ~Refused =>
       /\ Len(deps) <= Len(RequiredDependencies(plan))
       /\ \A i \in 1 .. Len(deps) : deps[i].name = RequiredDependencies(plan)[i]
  /\ pc = "dependencies" => Len(deps) < Len(RequiredDependencies(plan))
  /\ pc \in InCheck \cup Ending /\ ~Refused => Len(deps) = Len(RequiredDependencies(plan))
  /\ pc \in InCheck \cup {"dependencies"} =>
       \A i \in 1 .. Len(deps) : deps[i].status = "available" \/ deps[i].error # "none"

(* Unless it has an error, the environment that Checks use was verified.   *)
EnvInv ==
  /\ pc \in Early \cup {"dependencies", "check", "launch", "coverage"} => env.error = "none"
  /\ pc \notin {"report", "done"} => env.protection = "unobserved"
  /\ pc \in {"plan", "planned", "baseline"} => env.processes = <<>>
  /\ pc \in {"uv", "probe", "dependencies", "verify"} \cup InCheck => baseline # "none"
  /\ pc \in {"dependencies"} \cup InCheck \cup Ending /\ ~Refused /\ env.error = "none" =>
       env.lock = "current" /\ env.python = "supported" /\ baseline # "none"
  /\ env.protection \in {"unobserved", BaselineProtection}
  /\ pc \in {"report", "done"} /\ ~Refused /\ env.error = "none" =>
       env.protection = BaselineProtection

(* Checks are observed in plan order, and all of them are in the end.      *)
OrderInv ==
  /\ pc \in Early \cup {"dependencies"} \/ Refused => checks = <<>>
  /\ pc \notin Early /\ ~Refused =>
       /\ Len(checks) <= Len(plan.checks)
       /\ \A i \in 1 .. Len(checks) : checks[i].name = plan.checks[i]
  /\ pc \in InCheck => Len(checks) < Len(plan.checks)
  /\ pc \in Ending /\ ~Refused => Len(checks) = Len(plan.checks)
  /\ pc \in InWorkspace => current.name = plan.checks[Len(checks) + 1]
  /\ pc = "coverage" => current.name = "pytest"

\* The Check was seen to start and ended with a code for findings.
Ran(o) ==
  /\ o.start # "none" /\ Len(o.processes) > 0 /\ o.processes[1].outcome = "exited"
  /\ o.processes[1].code \in IF o.name = "pytest" THEN {0, 1, 5} ELSE {0, 1}

\* The pytest result of an observation, at the conversion and in the report.
PytestOf(p, observed, o) == BuildPytestResult(p, o, DependencyOf(observed, "pytest").version)

\* Coverage data were converted with the threshold that the final pytest
\* result leaves to judge, and the conversion has the last word.
Converted(p, observed, f, o) ==
  /\ Len(o.processes) = 2 /\ o.pytest \in PytestState
  /\ o.processes[2] = Exited("coverage_json", o.coverage.jsonExit)
  /\ \/ o.coverage.jsonExit = 0
     \/ /\ o.coverage.jsonExit = 2 /\ ~f /\ p.configured
        /\ GateEligible(p, PytestOf(p, observed, o), TRUE)
  /\ f = (~GateEligible(p, PytestOf(p, observed, o), TRUE) \/ Reserved(o))

Snapshot(o) == o.coverage # NoCoverage /\ o.coverage.artifact = "snapshot"

\* p, observed, f: the plan, the dependencies and whether the threshold was set to 0.
Sound(p, observed, f, o) ==
  /\ o.error = "none" => Ran(o)
  /\ o.coverage # NoCoverage => o.name = "pytest" /\ CoverageRequested(p)
  /\ Snapshot(o) => Converted(p, observed, f, o)
  /\ Len(o.processes) > 1 => o.name = "pytest" /\ CoverageRequested(p)

(* Every Check that ended is sound, and the one at hand is on its way.     *)
SoundInv ==
  /\ \A i \in 1 .. Len(checks) : Sound(plan, deps, forced, checks[i])
  /\ pc \in {"launch", "coverage"} =>
       /\ ~Snapshot(current)
       /\ current.name = "pytest" => current.pytest \in PytestState
       /\ current.coverage # NoCoverage => current.name = "pytest" /\ CoverageRequested(plan)
       /\ current.name = "pytest" /\ CoverageRequested(plan) => current.coverage \in CoverageState
  /\ pc = "launch" => current.processes = <<>>
  /\ pc = "coverage" => /\ Len(current.processes) = 1 /\ CoverageRequested(plan)
                        /\ current.error = "none" => Ran(current)
  /\ pc = "close" => Sound(plan, deps, forced, current)

(* The exit code follows from the report.                                  *)
ExitInv ==
  /\ pc # "done" => exit = NoCode /\ report = "none"
  /\ pc = "done" => \/ Refused /\ exit = 2
                    \/ report = "shown" /\ exit = SelectExitCode(Built)
                    \/ report = "refused" /\ exit = 2

SafeInv == TypeInv /\ PlanInv /\ DepsInv /\ EnvInv /\ OrderInv /\ SoundInv /\ ExitInv

\* What NothingIsForgotten says of a step.
Kept ==
  /\ env.error # "none" => env'.error # "none"
  /\ IsPrefix(env.processes, env'.processes)
  /\ IsPrefix(deps, deps') /\ IsPrefix(checks, checks')

-----------------------------------------------------------------------------
(* Sequences of observations *)

LEMMA PrefixOfConcat ==
  ASSUME NEW S, NEW s \in Seq(S), NEW t \in Seq(S)
  PROVE  IsPrefix(s, s \o t)
<1>1. Len(s) <= Len(s \o t)
  OBVIOUS
<1>2. SubSeq(s, 1, Len(s)) = s /\ SubSeq(s \o t, 1, Len(s)) = s
  OBVIOUS
<1> QED BY <1>1, <1>2 DEF IsPrefix

LEMMA PrefixOfItself ==
  ASSUME NEW S, NEW s \in Seq(S)
  PROVE  IsPrefix(s, s)
BY DEF IsPrefix

LEMMA PrefixOfAppend ==
  ASSUME NEW S, NEW s \in Seq(S), NEW x \in S
  PROVE  IsPrefix(s, Append(s, x))
<1>1. Len(s) <= Len(Append(s, x))
  OBVIOUS
<1>2. SubSeq(s, 1, Len(s)) = s /\ SubSeq(Append(s, x), 1, Len(s)) = s
  OBVIOUS
<1> QED BY <1>1, <1>2 DEF IsPrefix

LEMMA EmptyIsPrefix ==
  ASSUME NEW S, NEW s \in Seq(S)
  PROVE  IsPrefix(<<>>, s)
<1>1. Len(<<>>) = 0 /\ Len(s) \in Nat
  OBVIOUS
<1>2. SubSeq(<<>>, 1, 0) = <<>> /\ SubSeq(s, 1, 0) = <<>>
  OBVIOUS
<1> QED BY <1>1, <1>2 DEF IsPrefix

LEMMA PrefixIsTransitive ==
  ASSUME NEW S, NEW s \in Seq(S), NEW t \in Seq(S), NEW u \in Seq(S)
  PROVE  IsPrefix(s, (s \o t) \o u)
<1>1. (s \o t) \o u = s \o (t \o u) /\ t \o u \in Seq(S)
  OBVIOUS
<1> QED BY <1>1, PrefixOfConcat

(* A Check that failed before anything was started.                        *)
LEMMA FailureIsSound ==
  ASSUME NEW p, NEW observed, NEW f, NEW name \in CheckName, NEW error \in CheckError, error # "none"
  PROVE  /\ CheckFailure(name, error) \in ObservationState
         /\ CheckFailure(name, error).name = name
         /\ Sound(p, observed, f, CheckFailure(name, error))
<1> DEFINE o == CheckFailure(name, error)
<1>1. o = [name |-> name, processes |-> <<>>, start |-> "none", authority |-> FALSE,
           error |-> error, pytest |-> NoPytest, coverage |-> NoCoverage]
  BY DEF CheckFailure, Observation
<1> HIDE DEF o
<1>2. o \in ObservationState
  <2>1. <<>> \in Seq(ProcessState)
    OBVIOUS
  <2> QED BY <1>1, <2>1 DEF ObservationState
<1>3. Sound(p, observed, f, o)
  <2>1. Len(o.processes) = 0 /\ o.error # "none" /\ o.coverage = NoCoverage
    BY <1>1
  <2> QED BY <2>1 DEF Sound, Snapshot
<1> QED BY <1>1, <1>2, <1>3 DEF o

(* Only the Check of pytest depends on whether the threshold was dropped.  *)
LEMMA SoundWithoutConversion ==
  ASSUME NEW p, NEW observed, NEW f, NEW g, NEW o, Sound(p, observed, f, o), o.name # "pytest"
  PROVE  Sound(p, observed, g, o)
BY DEF Sound, Snapshot

\* The observations of the first Checks of the plan.
InPlanOrder(p, observed, f, done) ==
  /\ done \in Seq(ObservationState) /\ Len(done) <= Len(p.checks)
  /\ \A i \in 1 .. Len(done) : done[i].name = p.checks[i] /\ Sound(p, observed, f, done[i])

(* Giving up the rest completes the observations.                          *)
LEMMA GivenUpCompletes ==
  ASSUME SoundPlan(plan), NEW observed, NEW f, NEW done, InPlanOrder(plan, observed, f, done)
  PROVE  LET all == done \o GivenUpFrom(Len(done) + 1)
         IN /\ InPlanOrder(plan, observed, f, all) /\ Len(all) = Len(plan.checks)
            /\ GivenUpFrom(Len(done) + 1) \in Seq(ObservationState)
<1> DEFINE n == Len(done)
           rest == GivenUpFrom(Len(done) + 1)
           m == Len(plan.checks) - n
           fail(k) == CheckFailure(plan.checks[n + k], "repository_environment_unavailable")
<1>1. n \in Nat /\ Len(plan.checks) \in Nat /\ n <= Len(plan.checks) /\ done \in Seq(ObservationState)
  BY DEF InPlanOrder, SoundPlan
<1>2. m \in Nat
  BY <1>1
<1>3. rest = [k \in 1 .. m |-> fail(k)]
  <2>1. Len(plan.checks) - (n + 1) + 1 = m /\ \A k \in 1 .. m : n + 1 + k - 1 = n + k
    BY <1>1
  <2> QED BY <2>1 DEF GivenUpFrom
<1>4. \A k \in 1 .. m : /\ plan.checks[n + k] \in CheckName /\ fail(k) \in ObservationState
                        /\ fail(k).name = plan.checks[n + k] /\ Sound(plan, observed, f, fail(k))
  <2> SUFFICES ASSUME NEW k \in 1 .. m
               PROVE  /\ plan.checks[n + k] \in CheckName /\ fail(k) \in ObservationState
                      /\ fail(k).name = plan.checks[n + k] /\ Sound(plan, observed, f, fail(k))
    OBVIOUS
  <2>1. n + k \in 1 .. Len(plan.checks)
    BY <1>1
  <2>2. plan.checks[n + k] \in CheckName
    BY <2>1 DEF SoundPlan
  <2>3. "repository_environment_unavailable" \in CheckError
    BY DEF CheckError
  <2> QED BY <2>2, <2>3, FailureIsSound
<1> HIDE DEF fail, m
<1>5. rest \in Seq(ObservationState) /\ Len(rest) = m
  BY <1>2, <1>3, <1>4
<1> HIDE DEF rest
<1>6. /\ done \o rest \in Seq(ObservationState) /\ Len(done \o rest) = n + m
      /\ \A i \in 1 .. n : (done \o rest)[i] = done[i]
      /\ \A k \in 1 .. m : (done \o rest)[n + k] = rest[k]
  BY <1>1, <1>2, <1>5
<1>7. n + m = Len(plan.checks)
  BY <1>1 DEF m
<1>8. ASSUME NEW i \in 1 .. n + m
      PROVE  (done \o rest)[i].name = plan.checks[i] /\ Sound(plan, observed, f, (done \o rest)[i])
  <2>1. CASE i \in 1 .. n
    BY <2>1, <1>6 DEF InPlanOrder
  <2>2. CASE i \notin 1 .. n
    <3> DEFINE k == i - n
    <3>1. k \in 1 .. m /\ n + k = i
      BY <2>2, <1>1, <1>2
    <3> HIDE DEF k
    <3> QED BY <3>1, <1>3, <1>4, <1>6
  <2> QED BY <2>1, <2>2
<1>9. Len(done \o rest) = Len(plan.checks)
  BY <1>6, <1>7
<1>10. InPlanOrder(plan, observed, f, done \o rest)
  <2> DEFINE all == done \o rest
  <2>1. all \in Seq(ObservationState) /\ Len(all) = n + m /\ n + m = Len(plan.checks)
    BY <1>6, <1>7
  <2>2. \A i \in 1 .. n + m : all[i].name = plan.checks[i] /\ Sound(plan, observed, f, all[i])
    BY <1>8
  <2> HIDE DEF all
  <2>3. InPlanOrder(plan, observed, f, all)
    BY <2>1, <2>2, <1>1 DEF InPlanOrder
  <2> QED BY <2>3 DEF all
<1>11. rest \in Seq(ObservationState)
  BY <1>5
<1> QED BY <1>9, <1>10, <1>11 DEF rest

(* One more observation.                                                   *)
LEMMA OneMoreIsObserved ==
  ASSUME NEW p, NEW observed, NEW f, NEW done, InPlanOrder(p, observed, f, done),
         NEW o \in ObservationState, Len(done) < Len(p.checks), Len(p.checks) \in Nat,
         o.name = p.checks[Len(done) + 1], Sound(p, observed, f, o)
  PROVE  InPlanOrder(p, observed, f, Append(done, o)) /\ Len(Append(done, o)) = Len(done) + 1
<1>1. done \in Seq(ObservationState) /\ Len(done) \in Nat
  BY DEF InPlanOrder
<1>2. /\ Append(done, o) \in Seq(ObservationState) /\ Len(Append(done, o)) = Len(done) + 1
      /\ \A i \in 1 .. Len(done) : Append(done, o)[i] = done[i]
      /\ Append(done, o)[Len(done) + 1] = o
  BY <1>1
<1>3. \A i \in 1 .. Len(done) + 1 : i \in 1 .. Len(done) \/ i = Len(done) + 1
  BY <1>1
<1>4. \A i \in 1 .. Len(done) + 1 :
        Append(done, o)[i].name = p.checks[i] /\ Sound(p, observed, f, Append(done, o)[i])
  BY <1>2, <1>3 DEF InPlanOrder
<1>5. Len(done) + 1 <= Len(p.checks)
  BY <1>1
<1> QED BY <1>2, <1>4, <1>5 DEF InPlanOrder

\* What was observed of the first required dependencies.
Probed(p, done) ==
  /\ done \in Seq(DependencyState) /\ Len(done) <= Len(RequiredDependencies(p))
  /\ \A i \in 1 .. Len(done) : done[i].name = RequiredDependencies(p)[i]

LEMMA UnattemptedCompletes ==
  ASSUME SoundPlan(plan), NEW done, Probed(plan, done)
  PROVE  LET all == done \o UnattemptedFrom(Len(done) + 1)
         IN /\ Probed(plan, all) /\ Len(all) = Len(RequiredDependencies(plan))
            /\ UnattemptedFrom(Len(done) + 1) \in Seq(DependencyState)
<1> DEFINE R == RequiredDependencies(plan)
           n == Len(done)
           rest == UnattemptedFrom(Len(done) + 1)
           m == Len(R) - n
           none(k) == Unattempted(R[n + k])
<1>1. R \in Seq(Owners \cup {"coverage"}) /\ Len(R) \in Nat
  BY RequiredAre
<1>2. n \in Nat /\ n <= Len(R) /\ done \in Seq(DependencyState)
  BY DEF Probed
<1>3. m \in Nat
  BY <1>1, <1>2
<1>4. rest = [k \in 1 .. m |-> none(k)]
  <2>1. Len(R) - (n + 1) + 1 = m /\ \A k \in 1 .. m : n + 1 + k - 1 = n + k
    BY <1>1, <1>2
  <2> QED BY <2>1 DEF UnattemptedFrom
<1>5. NoProcess \in ProcessState
  BY DEF NoProcess, Process, ProcessState, Role, NoCode
<1>6. \A k \in 1 .. m : none(k) \in DependencyState /\ none(k).name = R[n + k]
  <2> SUFFICES ASSUME NEW k \in 1 .. m
               PROVE  none(k) \in DependencyState /\ none(k).name = R[n + k]
    OBVIOUS
  <2>1. n + k \in 1 .. Len(R)
    BY <1>1, <1>2
  <2>2. R[n + k] \in Owners \cup {"coverage"}
    <3> HIDE DEF R
    <3> QED BY <1>1, <2>1
  <2> QED BY <2>2, <1>5 DEF Unattempted, Dependency, DependencyState, DependencyError
<1> HIDE DEF m, none
<1>7. rest \in Seq(DependencyState) /\ Len(rest) = m
  BY <1>3, <1>4, <1>6
<1> HIDE DEF rest
<1>8. /\ done \o rest \in Seq(DependencyState) /\ Len(done \o rest) = n + m
      /\ \A i \in 1 .. n : (done \o rest)[i] = done[i]
      /\ \A k \in 1 .. m : (done \o rest)[n + k] = rest[k]
  BY <1>2, <1>3, <1>7
<1>9. n + m = Len(R)
  BY <1>1, <1>2 DEF m
<1>10. ASSUME NEW i \in 1 .. n + m
       PROVE  (done \o rest)[i].name = R[i]
  <2>1. CASE i \in 1 .. n
    BY <2>1, <1>8 DEF Probed
  <2>2. CASE i \notin 1 .. n
    <3> DEFINE k == i - n
    <3>1. k \in 1 .. m /\ n + k = i
      BY <2>2, <1>2, <1>3
    <3> HIDE DEF k
    <3> QED BY <3>1, <1>4, <1>6, <1>8
  <2> QED BY <2>1, <2>2
<1> QED BY <1>7, <1>8, <1>9, <1>10 DEF Probed, rest

-----------------------------------------------------------------------------
(* What is known while a plan is followed *)

LEMMA UnderWay ==
  ASSUME SafeInv, pc \notin {"plan", "done"}
  PROVE  SoundPlan(plan) /\ ~Refused /\ report = "none" /\ exit = NoCode
BY DEF SafeInv, PlanInv, ExitInv, Refused

LEMMA ObservedSoFar ==
  ASSUME SafeInv, pc \notin Early, ~Refused
  PROVE  /\ SoundPlan(plan) /\ Len(plan.checks) \in Nat
         /\ InPlanOrder(plan, deps, forced, checks) /\ Probed(plan, deps)
<1>1. SoundPlan(plan) /\ plan.checks \in Seq(CheckName)
  BY DEF SafeInv, PlanInv, Early, SoundPlan
<1>2. Len(plan.checks) \in Nat
  BY <1>1
<1> QED BY <1>1, <1>2 DEF SafeInv, TypeInv, DepsInv, OrderInv, SoundInv, InPlanOrder, Probed

LEMMA CheckAtHand ==
  ASSUME SafeInv, pc \in InCheck
  PROVE  /\ Name \in CheckName /\ Index \in 1 .. Len(plan.checks) /\ Index = Len(checks) + 1
         /\ Owner \in DependencyState
         /\ Owner.status = "available" \/ Owner.error # "none"
         /\ Owner.name = DependencyNameForCheck(Name)
         /\ CoverageRequested(plan) => CoverageOwner \in DependencyState
         /\ IsPytest /\ CoverageRequested(plan) => Index = Len(plan.checks)
<1>1. pc \notin Early /\ pc \notin {"plan", "done"}
  BY DEF InCheck, InWorkspace, Early
<1>2. ~Refused
  BY <1>1, UnderWay
<1>3. /\ SoundPlan(plan) /\ Len(plan.checks) \in Nat
      /\ InPlanOrder(plan, deps, forced, checks) /\ Probed(plan, deps)
  BY <1>1, <1>2, ObservedSoFar
<1>4. Len(checks) \in Nat /\ Len(checks) < Len(plan.checks)
  <2>1. checks \in Seq(ObservationState)
    BY DEF SafeInv, TypeInv
  <2> QED BY <2>1 DEF SafeInv, OrderInv
<1>5. Index \in 1 .. Len(plan.checks) /\ Index = Len(checks) + 1
  BY <1>3, <1>4 DEF Index
<1>6. Name \in CheckName
  BY <1>3, <1>5 DEF Name, SoundPlan
<1> DEFINE R == RequiredDependencies(plan)
<1>7. /\ R \in Seq(Owners \cup {"coverage"})
      /\ \E j \in 1 .. Len(R) : R[j] = DependencyNameForCheck(Name)
      /\ CoverageRequested(plan) => \E j \in 1 .. Len(R) : R[j] = "coverage"
  BY <1>3, <1>5, RequiredAre DEF Name
<1> HIDE DEF R
<1>8. deps \in Seq(DependencyState) /\ Len(deps) = Len(R) /\ DOMAIN deps = 1 .. Len(R)
  <2>1. Len(deps) = Len(R) /\ deps \in Seq(DependencyState)
    BY <1>2 DEF R, SafeInv, DepsInv, TypeInv
  <2> QED BY <2>1
<1>9. \A j \in 1 .. Len(R) : deps[j].name = R[j] /\ (deps[j].status = "available" \/ deps[j].error # "none")
  BY <1>2, <1>8 DEF R, SafeInv, DepsInv, InCheck, InWorkspace, Early
<1>10. \A d \in Range(deps) : d \in DependencyState /\ (d.status = "available" \/ d.error # "none")
  BY <1>8, <1>9 DEF Range
<1>11. PICK j \in 1 .. Len(R) : R[j] = DependencyNameForCheck(Name)
  BY <1>7
<1>12. Owner \in Range(deps) /\ Owner.name = DependencyNameForCheck(Name)
  BY <1>8, <1>9, <1>11, DependencyIsFound DEF Owner
<1>13. ASSUME CoverageRequested(plan) PROVE CoverageOwner \in Range(deps)
  <2>1. PICK k \in 1 .. Len(R) : R[k] = "coverage"
    BY <1>7, <1>13
  <2> QED BY <1>8, <1>9, <2>1, DependencyIsFound DEF CoverageOwner
<1>14. IsPytest /\ CoverageRequested(plan) => Index = Len(plan.checks)
  <2> SUFFICES ASSUME Name = "pytest", CoverageRequested(plan) PROVE Index = Len(plan.checks)
    BY DEF IsPytest
  <2>1. plan.checks[Len(plan.checks)] = "pytest" /\ plan.checks[Index] = "pytest"
    BY <1>3 DEF SoundPlan, Name
  <2> QED BY <2>1, <1>3, <1>5 DEF SoundPlan, Distinct
<1> QED BY <1>5, <1>6, <1>10, <1>12, <1>13, <1>14

-----------------------------------------------------------------------------
(* The ways in which a step goes on *)

(* The observation of a Check is made, its workspace is yet to be closed.  *)
LEMMA LeavesKeeps ==
  ASSUME SafeInv, pc \in {"check", "launch", "coverage"},
         NEW o \in ObservationState, Leaves(o), o.name = Name,
         Sound(plan, deps, forced', o),
         forced' = forced \/ (IsPytest /\ forced' \in BOOLEAN),
         env' = env \/ env' = [env EXCEPT !.error = "unsafe_repository_environment"],
         deviations' \in 0 .. DeviationBound
  PROVE  SafeInv' /\ Kept
<1>1. pc \notin Early /\ pc \notin {"plan", "done"} /\ pc \in InCheck
  BY DEF InCheck, InWorkspace, Early
<1>2. SoundPlan(plan) /\ ~Refused /\ report = "none" /\ exit = NoCode
  BY <1>1, UnderWay
<1>3. InPlanOrder(plan, deps, forced, checks) /\ Len(plan.checks) \in Nat
  BY <1>1, <1>2, ObservedSoFar
<1>4. Index = Len(checks) + 1 /\ Index \in 1 .. Len(plan.checks)
  BY <1>1, CheckAtHand
<1>5. /\ pc' = "close" /\ current' = o /\ plan' = plan /\ deps' = deps /\ checks' = checks
      /\ invocation' = invocation /\ baseline' = baseline /\ report' = report /\ exit' = exit
  BY DEF Leaves
<1>6. env' \in EnvironmentState /\ env'.processes = env.processes
      /\ env'.protection = env.protection /\ (env'.error = "none" => env' = env)
  BY DEF SafeInv, TypeInv, EnvironmentState, EnvironmentError
<1>7. TypeInv'
  BY <1>5, <1>6 DEF SafeInv, TypeInv, Steps, InCheck, InWorkspace
<1>8. PlanInv'
  BY <1>1, <1>2, <1>5 DEF SafeInv, PlanInv, Early, Refused
<1>9. DepsInv'
  BY <1>1, <1>2, <1>5 DEF SafeInv, DepsInv, Early, Refused, InCheck, InWorkspace, Ending
<1>10. EnvInv'
  BY <1>1, <1>2, <1>5, <1>6 DEF SafeInv, EnvInv, Early, Refused, InCheck, InWorkspace, Ending, BaselineProtection
<1>11. OrderInv'
  BY <1>1, <1>2, <1>5 DEF SafeInv, OrderInv, Early, Refused, InCheck, InWorkspace, Ending, Name, Index
<1>12. \A i \in 1 .. Len(checks) : Sound(plan, deps, forced', checks[i])
  <2> SUFFICES ASSUME NEW i \in 1 .. Len(checks), IsPytest
               PROVE  Sound(plan, deps, forced', checks[i])
    BY DEF SafeInv, SoundInv
  <2>1. Len(checks) \in Nat /\ i \in 1 .. Len(plan.checks) /\ i # Index
    BY <1>3, <1>4 DEF InPlanOrder
  <2>2. checks[i].name # "pytest"
    BY <2>1, <1>2, <1>3, <1>4 DEF InPlanOrder, SoundPlan, Distinct, IsPytest, Name
  <2> QED BY <2>2, SoundWithoutConversion DEF SafeInv, SoundInv
<1>13. SoundInv'
  BY <1>5, <1>12 DEF SoundInv
<1>14. ExitInv'
  BY <1>2, <1>5 DEF ExitInv
<1>15. Kept
  <2>1. env.processes \in Seq(ProcessState) /\ deps \in Seq(DependencyState)
        /\ checks \in Seq(ObservationState)
    BY DEF SafeInv, TypeInv, EnvironmentState
  <2>2. IsPrefix(env.processes, env.processes) /\ IsPrefix(deps, deps) /\ IsPrefix(checks, checks)
    BY <2>1, PrefixOfItself
  <2> QED BY <1>5, <1>6, <2>2 DEF Kept
<1> QED BY <1>7, <1>8, <1>9, <1>10, <1>11, <1>13, <1>14, <1>15 DEF SafeInv

(* A Check joins those that ended.                                         *)
LEMMA EndsKeeps ==
  ASSUME SafeInv, pc \in {"check", "close"}, env.error = "none",
         NEW o \in ObservationState, Ends(o), o.name = Name, Sound(plan, deps, forced, o),
         deviations' \in 0 .. DeviationBound
  PROVE  SafeInv' /\ Kept
<1>1. pc \notin Early /\ pc \notin {"plan", "done"} /\ pc \in InCheck
  BY DEF InCheck, InWorkspace, Early
<1>2. SoundPlan(plan) /\ ~Refused /\ report = "none" /\ exit = NoCode
  BY <1>1, UnderWay
<1>3. InPlanOrder(plan, deps, forced, checks) /\ Len(plan.checks) \in Nat
  BY <1>1, <1>2, ObservedSoFar
<1>4. Index = Len(checks) + 1 /\ Index \in 1 .. Len(plan.checks)
  BY <1>1, CheckAtHand
<1>5. /\ pc' = (IF Index = Len(plan.checks) THEN "verify" ELSE "check")
      /\ plan' = plan /\ deps' = deps /\ checks' = Append(checks, o) /\ env' = env
      /\ forced' = forced
      /\ invocation' = invocation /\ baseline' = baseline /\ report' = report /\ exit' = exit
  BY DEF Ends
<1>6. InPlanOrder(plan, deps, forced, checks') /\ Len(checks') = Index
  <2>1. Len(checks) < Len(plan.checks) /\ o.name = plan.checks[Len(checks) + 1]
    <3>1. checks \in Seq(ObservationState)
      BY <1>3 DEF InPlanOrder
    <3> QED BY <1>3, <1>4, <3>1 DEF Name
  <2> QED BY <2>1, <1>3, <1>4, <1>5, OneMoreIsObserved
<1>7. TypeInv'
  BY <1>5, <1>6 DEF SafeInv, TypeInv, Steps, InCheck, InWorkspace, Ending, InPlanOrder
<1>8. PlanInv'
  BY <1>1, <1>2, <1>5 DEF SafeInv, PlanInv, Early, Refused
<1>9. DepsInv'
  BY <1>1, <1>2, <1>5 DEF SafeInv, DepsInv, Early, Refused, InCheck, InWorkspace, Ending
<1>10. EnvInv'
  BY <1>1, <1>2, <1>5 DEF SafeInv, EnvInv, Early, Refused, InCheck, InWorkspace, Ending, BaselineProtection
<1>11. OrderInv'
  <2>1. Index = Len(plan.checks) \/ Index < Len(plan.checks)
    BY <1>3, <1>4
  <2> QED BY <1>2, <1>4, <1>5, <1>6, <2>1 DEF OrderInv, InPlanOrder, Early, Refused, InCheck, InWorkspace, Ending
<1>12. SoundInv'
  BY <1>5, <1>6 DEF SoundInv, InPlanOrder
<1>13. ExitInv'
  BY <1>2, <1>5 DEF ExitInv
<1>14. Kept
  <2>1. env.processes \in Seq(ProcessState) /\ deps \in Seq(DependencyState)
        /\ checks \in Seq(ObservationState)
    BY DEF SafeInv, TypeInv, EnvironmentState
  <2>2. IsPrefix(env.processes, env.processes) /\ IsPrefix(deps, deps) /\ IsPrefix(checks, Append(checks, o))
    BY <2>1, PrefixOfItself, PrefixOfAppend
  <2> QED BY <1>5, <2>2 DEF Kept
<1> QED BY <1>7, <1>8, <1>9, <1>10, <1>11, <1>12, <1>13, <1>14 DEF SafeInv

(* The Checks that are left are given up, and the verification is next.    *)
LEMMA GiveUpKeeps ==
  ASSUME SafeInv, pc \in InCheck \cup {"dependencies"},
         NEW done \in Seq(ObservationState), InPlanOrder(plan, deps', forced, done),
         checks' = done \o GivenUpFrom(Len(done) + 1), IsPrefix(checks, checks'),
         Probed(plan, deps'), Len(deps') = Len(RequiredDependencies(plan)), IsPrefix(deps, deps'),
         pc' = "verify", env' \in EnvironmentState, env'.error # "none",
         env'.processes = env.processes, env'.protection = env.protection,
         UNCHANGED <<invocation, plan, baseline, forced, report, exit>>,
         deviations' \in 0 .. DeviationBound
  PROVE  SafeInv' /\ Kept
<1>1. pc \notin Early /\ pc \notin {"plan", "done"}
  BY DEF InCheck, InWorkspace, Early
<1>2. SoundPlan(plan) /\ ~Refused /\ report = "none" /\ exit = NoCode
  BY <1>1, UnderWay
<1>3. InPlanOrder(plan, deps', forced, checks') /\ Len(checks') = Len(plan.checks)
  BY <1>2, GivenUpCompletes
<1>4. TypeInv'
  BY <1>3 DEF SafeInv, TypeInv, Steps, Ending, InCheck, InWorkspace, InPlanOrder, Probed
<1>5. PlanInv'
  BY <1>1, <1>2 DEF SafeInv, PlanInv, Early, Refused
<1>6. DepsInv'
  BY <1>2 DEF DepsInv, Probed, Early, Refused, InCheck, InWorkspace, Ending
<1>7. EnvInv'
  BY <1>1, <1>2 DEF SafeInv, EnvInv, Early, Refused, InCheck, InWorkspace, Ending, BaselineProtection
<1>8. OrderInv'
  BY <1>2, <1>3 DEF OrderInv, InPlanOrder, Early, Refused, InCheck, InWorkspace, Ending
<1>9. SoundInv'
  BY <1>3 DEF SoundInv, InPlanOrder
<1>10. ExitInv'
  BY <1>2 DEF ExitInv
<1>11. Kept
  <2>1. env.processes \in Seq(ProcessState)
    BY DEF SafeInv, TypeInv, EnvironmentState
  <2> QED BY <2>1, PrefixOfItself DEF Kept
<1> QED BY <1>4, <1>5, <1>6, <1>7, <1>8, <1>9, <1>10, <1>11 DEF SafeInv

(* The preparation fails: nothing is probed, nothing is run.               *)
LEMMA NothingPreparedKeeps ==
  ASSUME SafeInv, pc \in {"planned", "baseline", "uv", "probe"},
         NEW observed \in EnvironmentState, NothingPrepared(observed),
         observed.error # "none", observed.protection = "unobserved",
         IsPrefix(env.processes, observed.processes),
         pc' = "report" \/ (pc' = "verify" /\ baseline # "none"), invocation' = Forgotten,
         UNCHANGED <<plan, baseline, current, forced, report, exit>>,
         deviations' \in 0 .. DeviationBound
  PROVE  SafeInv' /\ Kept
<1>1. pc \in Early /\ pc \notin {"plan", "done"}
  BY DEF Early
<1>2. SoundPlan(plan) /\ ~Refused /\ report = "none" /\ exit = NoCode
  BY <1>1, UnderWay
<1>3. deps = <<>> /\ checks = <<>>
  BY <1>1 DEF SafeInv, DepsInv, OrderInv
<1>4. Len(plan.checks) \in Nat /\ Len(RequiredDependencies(plan)) \in Nat
  <2>1. plan.checks \in Seq(CheckName) /\ RequiredDependencies(plan) \in Seq(Owners \cup {"coverage"})
    BY <1>2, RequiredAre DEF SoundPlan
  <2> QED BY <2>1
<1>5. /\ deps' = <<>> \o UnattemptedFrom(Len(<<>>) + 1)
      /\ checks' = <<>> \o GivenUpFrom(Len(<<>>) + 1) /\ env' = observed
  <2> DEFINE all == UnattemptedFrom(1)
  <2>1. Probed(plan, <<>>)
    <3>1. <<>> \in Seq(DependencyState) /\ Len(<<>>) = 0
      OBVIOUS
    <3> QED BY <3>1, <1>4 DEF Probed
  <2>2. UnattemptedFrom(Len(<<>>) + 1) \in Seq(DependencyState)
    BY <1>2, <2>1, UnattemptedCompletes
  <2>3. Len(<<>>) + 1 = 1
    OBVIOUS
  <2>4. UnattemptedFrom(1) \in Seq(DependencyState)
    BY <2>2, <2>3
  <2> HIDE DEF all
  <2>5. all \in Seq(DependencyState) => <<>> \o all = all
    OBVIOUS
  <2>6. env' = observed /\ deps' = UnattemptedFrom(1) /\ checks' = <<>> \o GivenUpFrom(1)
    BY DEF NothingPrepared, GiveUpFrom
  <2> QED BY <2>3, <2>4, <2>5, <2>6 DEF all
<1>6. Probed(plan, deps') /\ Len(deps') = Len(RequiredDependencies(plan))
  <2>1. Probed(plan, <<>>)
    <3>1. <<>> \in Seq(DependencyState) /\ Len(<<>>) = 0
      OBVIOUS
    <3> QED BY <3>1, <1>4 DEF Probed
  <2> QED BY <1>2, <1>5, <2>1, UnattemptedCompletes
<1>7. InPlanOrder(plan, deps', forced, checks') /\ Len(checks') = Len(plan.checks)
  <2>1. InPlanOrder(plan, deps', forced, <<>>)
    <3>1. <<>> \in Seq(ObservationState) /\ Len(<<>>) = 0
      OBVIOUS
    <3> QED BY <3>1, <1>4 DEF InPlanOrder
  <2> QED BY <1>2, <1>5, <2>1, GivenUpCompletes
<1>8. TypeInv'
  BY <1>5, <1>6, <1>7 DEF SafeInv, TypeInv, Steps, Ending, InWorkspace, InPlanOrder, Probed
<1>9. PlanInv'
  BY <1>1, <1>2 DEF SafeInv, PlanInv, Refused
<1>10. DepsInv'
  BY <1>2, <1>6 DEF DepsInv, Probed, Early, Refused, InCheck, InWorkspace, Ending
<1>11. EnvInv'
  BY <1>2, <1>5 DEF EnvInv, Early, Refused, InCheck, InWorkspace, Ending
<1>12. OrderInv'
  BY <1>2, <1>7 DEF OrderInv, InPlanOrder, Early, Refused, InCheck, InWorkspace, Ending
<1>13. SoundInv'
  BY <1>7 DEF SoundInv, InPlanOrder
<1>14. ExitInv'
  BY <1>2 DEF ExitInv
<1>15. Kept
  <2>1. IsPrefix(<<>>, deps') /\ IsPrefix(<<>>, checks')
    BY <1>6, <1>7, EmptyIsPrefix DEF Probed, InPlanOrder
  <2> QED BY <1>3, <1>5, <2>1 DEF Kept
<1> QED BY <1>8, <1>9, <1>10, <1>11, <1>12, <1>13, <1>14, <1>15 DEF SafeInv

-----------------------------------------------------------------------------
(* Planning and preparation *)

LEMMA UsualIsBounded ==
  ASSUME SafeInv, NEW usual, Usual(usual)
  PROVE  deviations' \in 0 .. DeviationBound
<1>1. deviations \in 0 .. DeviationBound /\ DeviationBound \in Nat
  BY DeviationAssumption DEF SafeInv, TypeInv
<1>2. (deviations' = deviations \/ deviations' = deviations + 1) /\ deviations' <= DeviationBound
  BY DEF Usual
<1> QED BY <1>1, <1>2

LEMMA DepartureIsBounded ==
  ASSUME SafeInv, Departs
  PROVE  deviations' \in 0 .. DeviationBound
BY UsualIsBounded DEF Departs

LEMMA ProcessesAreTyped ==
  ASSUME NEW role \in Role
  PROVE  /\ \A code \in Int : Exited(role, code) \in ProcessState
         /\ NotSpawned(role) \in ProcessState /\ Signaled(role) \in ProcessState
         /\ PreparationEnds(role) \subseteq ProcessState
<1>1. /\ \A code \in Int : Exited(role, code) \in ProcessState
      /\ NotSpawned(role) \in ProcessState /\ Signaled(role) \in ProcessState
  BY DEF Exited, NotSpawned, Signaled, Process, ProcessState, NoCode
<1>2. /\ Process(role, "exited", 0, "stdout_cut") \in ProcessState
      /\ Process(role, "exited", 0, "stderr_cut") \in ProcessState
  BY DEF Process, ProcessState
<1> QED BY <1>1, <1>2 DEF PreparationEnds

LEMMA SafetyProcessesAreTyped ==
  ASSUME NEW n \in Nat
  PROVE  SafetyProcesses(n) \in Seq(ProcessState)
<1>1. Safety(0) \in ProcessState
  BY ProcessesAreTyped DEF Safety, Role
<1> QED BY <1>1 DEF SafetyProcesses

LEMMA FailedPreparationIsTyped ==
  ASSUME NEW error \in EnvironmentError, NEW manager \in BOOLEAN, NEW processes \in Seq(ProcessState)
  PROVE  /\ FailedPreparation(error, manager, processes) \in EnvironmentState
         /\ FailedPreparation(error, manager, processes).error = error
         /\ FailedPreparation(error, manager, processes).protection = "unobserved"
         /\ FailedPreparation(error, manager, processes).processes = processes
BY DEF FailedPreparation, Environment, EnvironmentState

LEMMA InitSafe == Init => SafeInv
<1> SUFFICES ASSUME Init PROVE SafeInv
  OBVIOUS
<1>1. <<>> \in Seq(ProcessState) /\ <<>> \in Seq(DependencyState) /\ <<>> \in Seq(ObservationState)
  OBVIOUS
<1>2. env \in EnvironmentState /\ env.error = "none" /\ env.protection = "unobserved" /\ env.processes = <<>>
  <2>1. "none" \in EnvironmentError /\ FALSE \in BOOLEAN
    BY DEF EnvironmentError
  <2>2. env = FailedPreparation("none", FALSE, <<>>)
    BY DEF Init
  <2> QED BY <1>1, <2>1, <2>2, FailedPreparationIsTyped
<1>3. 0 \in 0 .. DeviationBound
  BY DeviationAssumption
<1>4. TypeInv
  BY <1>1, <1>2, <1>3 DEF Init, TypeInv, Steps, Early, InWorkspace
<1>5. PlanInv /\ ExitInv
  BY DEF Init, PlanInv, ExitInv, Refused
<1>6. DepsInv /\ OrderInv /\ SoundInv
  <2>1. Len(<<>>) = 0
    OBVIOUS
  <2> QED BY <2>1 DEF Init, DepsInv, OrderInv, SoundInv, Early, InCheck, InWorkspace, Ending, Refused
<1>7. EnvInv
  BY <1>2 DEF Init, EnvInv, Early, InCheck, InWorkspace, Ending, Refused
<1> QED BY <1>4, <1>5, <1>6, <1>7 DEF SafeInv

(* Steps that leave all observations alone.                                *)
LEMMA NothingNewIsKept ==
  ASSUME SafeInv, UNCHANGED <<deps, checks>>, env'.error = env.error \/ env.error = "none",
         env'.processes = env.processes
  PROVE  Kept
<1>1. env.processes \in Seq(ProcessState) /\ deps \in Seq(DependencyState)
      /\ checks \in Seq(ObservationState)
  BY DEF SafeInv, TypeInv, EnvironmentState
<1> QED BY <1>1, PrefixOfItself DEF Kept

LEMMA RefuseKeeps ==
  ASSUME SafeInv, Refuse
  PROVE  SafeInv' /\ Kept
<1>1. TypeInv'
  BY DEF Refuse, SafeInv, TypeInv, Steps, Ending, InWorkspace
<1>2. PlanInv'
  BY DEF Refuse, SafeInv, PlanInv, ExitInv, Refused
<1>3. DepsInv' /\ OrderInv'
  BY DEF Refuse, SafeInv, DepsInv, OrderInv, Early, InCheck, InWorkspace, Ending, Refused
<1>4. EnvInv'
  BY DEF Refuse, SafeInv, EnvInv, Early, InCheck, InWorkspace, Ending, Refused, BaselineProtection
<1>5. SoundInv'
  BY DEF Refuse, SafeInv, SoundInv
<1>6. ExitInv'
  BY DEF Refuse, ExitInv, Refused
<1>7. Kept
  BY NothingNewIsKept DEF Refuse
<1> QED BY <1>1, <1>2, <1>3, <1>4, <1>5, <1>6, <1>7 DEF SafeInv

LEMMA PlanKeeps ==
  ASSUME SafeInv, Plan
  PROVE  SafeInv' /\ Kept
<1>1. TypeInv'
  BY DEF Plan, SafeInv, TypeInv, Steps, Early, InWorkspace
<1>2. PlanInv'
  <2>1. invocation \in Invocations /\ pc = "plan" /\ ~Refused
    BY DEF Plan, SafeInv, PlanInv, Refused
  <2>2. invocation.request \in Request /\ invocation.config \in ProjectConfig
    BY <2>1, InvocationsAssumption
  <2>3. SoundPlan(plan')
    BY <2>2, PlanIsSound DEF Plan
  <2> QED BY <2>1, <2>3 DEF Plan, PlanInv, Refused
<1>3. DepsInv' /\ OrderInv'
  BY DEF Plan, SafeInv, DepsInv, OrderInv, Early, InCheck, InWorkspace, Ending, Refused
<1>4. EnvInv'
  BY DEF Plan, SafeInv, EnvInv, Early, InCheck, InWorkspace, Ending, Refused, BaselineProtection
<1>5. SoundInv'
  <2>1. checks' = <<>> /\ Len(<<>>) = 0
    BY DEF Plan, SafeInv, OrderInv, Early
  <2> QED BY <2>1 DEF Plan, SoundInv
<1>6. ExitInv'
  BY DEF Plan, SafeInv, ExitInv, Refused
<1>7. Kept
  BY NothingNewIsKept DEF Plan
<1> QED BY <1>1, <1>2, <1>3, <1>4, <1>5, <1>6, <1>7 DEF SafeInv

LEMMA LockPresentKeeps ==
  ASSUME SafeInv, LockPresent
  PROVE  SafeInv' /\ Kept
<1>1. TypeInv'
  BY DEF LockPresent, SafeInv, TypeInv, Steps, Early, InWorkspace
<1>2. PlanInv'
  BY DEF LockPresent, SafeInv, PlanInv, Refused
<1>3. DepsInv' /\ OrderInv'
  BY DEF LockPresent, SafeInv, DepsInv, OrderInv, Early, InCheck, InWorkspace, Ending, Refused
<1>4. EnvInv'
  BY DEF LockPresent, SafeInv, EnvInv, Early, InCheck, InWorkspace, Ending, Refused, BaselineProtection
<1>5. SoundInv'
  BY DEF LockPresent, SafeInv, SoundInv
<1>6. ExitInv'
  BY DEF LockPresent, SafeInv, ExitInv, Refused
<1>7. Kept
  BY NothingNewIsKept DEF LockPresent
<1> QED BY <1>1, <1>2, <1>3, <1>4, <1>5, <1>6, <1>7 DEF SafeInv

LEMMA LockRejectedKeeps ==
  ASSUME SafeInv, LockRejected
  PROVE  SafeInv' /\ Kept
<1>1. env \in EnvironmentState /\ env.protection = "unobserved" /\ env.processes \in Seq(ProcessState)
  BY DEF LockRejected, SafeInv, TypeInv, EnvInv, EnvironmentState
<1>2. deviations' \in 0 .. DeviationBound
  BY DepartureIsBounded DEF LockRejected
<1>3. PICK observed : /\ NothingPrepared(observed)
                      /\ \/ observed = [env EXCEPT !.error = "repository_lock_missing", !.lock = "missing"]
                         \/ observed = [env EXCEPT !.error = "unsafe_repository_environment"]
  BY DEF LockRejected
<1>4. /\ observed \in EnvironmentState /\ observed.error # "none"
      /\ observed.protection = "unobserved" /\ observed.processes = env.processes
  BY <1>1, <1>3 DEF EnvironmentState, EnvironmentError
<1>5. IsPrefix(env.processes, observed.processes)
  BY <1>1, <1>4, PrefixOfItself
<1> QED BY <1>2, <1>3, <1>4, <1>5, NothingPreparedKeeps DEF LockRejected

LEMMA BaselineIsFirst ==
  ASSUME SafeInv, pc = "baseline"
  PROVE  env \in EnvironmentState /\ env.processes = <<>> /\ invocation = Forgotten
BY DEF SafeInv, TypeInv, EnvInv, PlanInv, Refused

LEMMA CaptureBaselineKeeps ==
  ASSUME SafeInv, CaptureBaseline
  PROVE  SafeInv' /\ Kept
<1>1. PICK kind \in {"git", "plain"}, n \in {0, 1, 4} :
         /\ Usual(kind = "git") /\ baseline' = kind
         /\ env' = [env EXCEPT !.processes = SafetyProcesses(n)]
  BY DEF CaptureBaseline
<1>2. deviations' \in 0 .. DeviationBound
  BY <1>1, UsualIsBounded
<1>3. env \in EnvironmentState /\ env.processes = <<>>
  BY BaselineIsFirst DEF CaptureBaseline
<1>4. SafetyProcesses(n) \in Seq(ProcessState)
  BY SafetyProcessesAreTyped
<1>5. /\ env' \in EnvironmentState /\ env'.error = env.error /\ env'.protection = env.protection
      /\ env'.processes = SafetyProcesses(n)
  BY <1>1, <1>3, <1>4 DEF EnvironmentState
<1>6. TypeInv'
  BY <1>1, <1>2, <1>5 DEF CaptureBaseline, SafeInv, TypeInv, Steps, Early, InWorkspace
<1>7. PlanInv'
  BY DEF CaptureBaseline, SafeInv, PlanInv, Refused
<1>8. DepsInv' /\ OrderInv'
  BY DEF CaptureBaseline, SafeInv, DepsInv, OrderInv, Early, InCheck, InWorkspace, Ending, Refused
<1>9. EnvInv'
  BY <1>1, <1>5 DEF CaptureBaseline, SafeInv, EnvInv, Early, InCheck, InWorkspace, Ending, Refused
<1>10. SoundInv'
  BY DEF CaptureBaseline, SafeInv, SoundInv
<1>11. ExitInv'
  BY DEF CaptureBaseline, SafeInv, ExitInv, Refused
<1>12. Kept
  <2>1. deps \in Seq(DependencyState) /\ checks \in Seq(ObservationState)
    BY DEF SafeInv, TypeInv
  <2> QED BY <2>1, <1>3, <1>4, <1>5, EmptyIsPrefix, PrefixOfItself DEF CaptureBaseline, Kept
<1> QED BY <1>6, <1>7, <1>8, <1>9, <1>10, <1>11, <1>12 DEF SafeInv

LEMMA BaselineFailsKeeps ==
  ASSUME SafeInv, BaselineFails
  PROVE  SafeInv' /\ Kept
<1>1. PICK n \in {0, 1, 4} :
        NothingPrepared(FailedPreparation("unsafe_repository_environment", FALSE, SafetyProcesses(n)))
  BY DEF BaselineFails
<1> DEFINE observed == FailedPreparation("unsafe_repository_environment", FALSE, SafetyProcesses(n))
<1>2. SafetyProcesses(n) \in Seq(ProcessState)
  BY SafetyProcessesAreTyped
<1>3. /\ observed \in EnvironmentState /\ observed.error # "none"
      /\ observed.protection = "unobserved" /\ observed.processes = SafetyProcesses(n)
  <2>1. "unsafe_repository_environment" \in EnvironmentError
    BY DEF EnvironmentError
  <2>2. observed \in EnvironmentState
    BY <2>1, <1>2, FailedPreparationIsTyped
  <2>3. /\ observed.error = "unsafe_repository_environment" /\ observed.protection = "unobserved"
        /\ observed.processes = SafetyProcesses(n)
    BY DEF FailedPreparation, Environment
  <2> QED BY <2>2, <2>3
<1>4. env.processes = <<>> /\ invocation' = Forgotten
  BY BaselineIsFirst DEF BaselineFails
<1>5. IsPrefix(env.processes, observed.processes)
  BY <1>2, <1>3, <1>4, EmptyIsPrefix
<1>6. deviations' \in 0 .. DeviationBound
  BY DepartureIsBounded DEF BaselineFails
<1> HIDE DEF observed
<1>7. NothingPrepared(observed)
  BY <1>1 DEF observed
<1> QED BY <1>3, <1>4, <1>5, <1>6, <1>7, NothingPreparedKeeps DEF BaselineFails

LEMMA PreparationFailsKeeps ==
  ASSUME SafeInv, pc \in {"uv", "probe"}, NEW observed \in EnvironmentState,
         PreparationFails(observed), observed.error # "none", observed.protection = "unobserved",
         IsPrefix(env.processes, observed.processes), deviations' \in 0 .. DeviationBound
  PROVE  SafeInv' /\ Kept
<1>1. invocation = Forgotten /\ baseline # "none"
  BY DEF SafeInv, PlanInv, EnvInv, Refused
<1> QED BY <1>1, NothingPreparedKeeps DEF PreparationFails

LEMMA UvRejectedKeeps ==
  ASSUME SafeInv, UvRejected
  PROVE  SafeInv' /\ Kept
<1>1. PICK error \in {"unsafe_repository_environment", "uv_unavailable"} :
        PreparationFails(FailedPreparation(error, FALSE, env.processes))
  BY DEF UvRejected
<1>2. env.processes \in Seq(ProcessState) /\ error \in EnvironmentError /\ error # "none"
  BY DEF SafeInv, TypeInv, EnvironmentState, EnvironmentError
<1> DEFINE observed == FailedPreparation(error, FALSE, env.processes)
<1>3. /\ observed \in EnvironmentState /\ observed.error # "none"
      /\ observed.protection = "unobserved" /\ observed.processes = env.processes
  BY <1>2, FailedPreparationIsTyped
<1>4. IsPrefix(env.processes, observed.processes)
  BY <1>2, <1>3, PrefixOfItself
<1>5. deviations' \in 0 .. DeviationBound
  BY DepartureIsBounded DEF UvRejected
<1> HIDE DEF observed
<1>6. PreparationFails(observed)
  BY <1>1 DEF observed
<1> QED BY <1>3, <1>4, <1>5, <1>6, PreparationFailsKeeps DEF UvRejected

LEMMA RunUvVersionKeeps ==
  ASSUME SafeInv, RunUvVersion
  PROVE  SafeInv' /\ Kept
<1>1. PICK process \in PreparationEnds("uv_version"), wellFormed \in BOOLEAN :
        LET error == UvVersionError(process, wellFormed)
            processes == Append(env.processes, process)
        IN /\ Usual(Successful(process) /\ wellFormed)
           /\ \/ /\ error # "none" /\ PreparationFails(FailedPreparation(error, FALSE, processes))
              \/ /\ error = "none" /\ pc' = "probe"
                 /\ env' = FailedPreparation("none", TRUE, processes)
                 /\ UNCHANGED <<invocation, plan, baseline, deps, checks, current, forced, report, exit>>
  BY DEF RunUvVersion
<1> DEFINE error == UvVersionError(process, wellFormed)
           processes == Append(env.processes, process)
<1>2. deviations' \in 0 .. DeviationBound
  BY <1>1, UsualIsBounded
<1>3. process \in ProcessState
  BY ProcessesAreTyped DEF Role
<1>4. env.processes \in Seq(ProcessState)
  BY DEF SafeInv, TypeInv, EnvironmentState
<1>5. processes \in Seq(ProcessState) /\ IsPrefix(env.processes, processes)
  BY <1>3, <1>4, PrefixOfAppend
<1>6. error \in EnvironmentError /\ "none" \in EnvironmentError
  BY DEF UvVersionError, EnvironmentError
<1>7. pc = "uv"
  BY DEF RunUvVersion
<1> HIDE DEF error, processes
<1>8. CASE error # "none" /\ PreparationFails(FailedPreparation(error, FALSE, processes))
  <2>1. FailedPreparation(error, FALSE, processes) \in EnvironmentState
    BY <1>5, <1>6, FailedPreparationIsTyped
  <2>2. /\ FailedPreparation(error, FALSE, processes).error = error
        /\ FailedPreparation(error, FALSE, processes).protection = "unobserved"
        /\ FailedPreparation(error, FALSE, processes).processes = processes
    BY <1>5, <1>6, FailedPreparationIsTyped
  <2> QED BY <1>2, <1>5, <1>7, <1>8, <2>1, <2>2, PreparationFailsKeeps
<1>9. CASE /\ pc' = "probe" /\ env' = FailedPreparation("none", TRUE, processes)
           /\ UNCHANGED <<invocation, plan, baseline, deps, checks, current, forced, report, exit>>
  <2>1. /\ env' \in EnvironmentState /\ env'.error = "none" /\ env'.protection = "unobserved"
        /\ env'.processes = processes
    <3> DEFINE observed == FailedPreparation("none", TRUE, processes)
    <3>1. observed \in EnvironmentState
      BY <1>5, <1>6, FailedPreparationIsTyped
    <3>2. observed.error = "none" /\ observed.protection = "unobserved" /\ observed.processes = processes
      BY DEF FailedPreparation, Environment
    <3>3. env' = observed
      BY <1>9
    <3> HIDE DEF observed
    <3> QED BY <3>1, <3>2, <3>3
  <2>2. TypeInv'
    BY <1>2, <1>9, <2>1 DEF SafeInv, TypeInv, Steps, Early, InWorkspace
  <2>3. PlanInv'
    BY <1>7, <1>9 DEF SafeInv, PlanInv, Refused
  <2>4. DepsInv' /\ OrderInv'
    BY <1>7, <1>9 DEF SafeInv, DepsInv, OrderInv, Early, InCheck, InWorkspace, Ending, Refused
  <2>5. EnvInv'
    BY <1>7, <1>9, <2>1 DEF SafeInv, EnvInv, Early, InCheck, InWorkspace, Ending, Refused, BaselineProtection
  <2>6. SoundInv'
    BY <1>7, <1>9 DEF SafeInv, SoundInv
  <2>7. ExitInv'
    BY <1>7, <1>9 DEF SafeInv, ExitInv, Refused
  <2>8. Kept
    <3>1. deps \in Seq(DependencyState) /\ checks \in Seq(ObservationState) /\ env.error = "none"
      BY <1>7 DEF SafeInv, TypeInv, EnvInv, Early
    <3> QED BY <3>1, <1>5, <1>9, <2>1, PrefixOfItself DEF Kept
  <2> QED BY <2>2, <2>3, <2>4, <2>5, <2>6, <2>7, <2>8 DEF SafeInv
<1> QED BY <1>1, <1>8, <1>9 DEF error, processes

LEMMA UvChangesBeforeProbeKeeps ==
  ASSUME SafeInv, UvChangesBeforeProbe
  PROVE  SafeInv' /\ Kept
<1> DEFINE observed == [env EXCEPT !.error = "unsafe_repository_environment"]
<1>1. env \in EnvironmentState /\ env.protection = "unobserved" /\ env.processes \in Seq(ProcessState)
  BY DEF UvChangesBeforeProbe, SafeInv, TypeInv, EnvInv, EnvironmentState
<1>2. /\ observed \in EnvironmentState /\ observed.error # "none"
      /\ observed.protection = "unobserved" /\ observed.processes = env.processes
  BY <1>1 DEF EnvironmentState, EnvironmentError
<1>3. IsPrefix(env.processes, observed.processes)
  BY <1>1, <1>2, PrefixOfItself
<1>4. deviations' \in 0 .. DeviationBound
  BY DepartureIsBounded DEF UvChangesBeforeProbe
<1>5. PreparationFails(observed) /\ pc = "probe"
  BY DEF UvChangesBeforeProbe
<1> HIDE DEF observed
<1> QED BY <1>2, <1>3, <1>4, <1>5, PreparationFailsKeeps

LEMMA ProbedEnvironmentIsTyped ==
  ASSUME NEW process, NEW finding \in ProbeFinding \cup {"malformed"}, NEW processes \in Seq(ProcessState)
  PROVE  LET e == ProbedEnvironment(process, finding, processes)
         IN /\ e \in EnvironmentState /\ e.protection = "unobserved" /\ e.processes = processes
            /\ e.error = "none" => e.lock = "current" /\ e.python = "supported"
<1>1. finding # "malformed" => ProbeError(finding) \in EnvironmentError
  BY DEF ProbeError, ProbeFinding, EnvironmentError
<1>2. finding = "unsupported_python" => ProbeError(finding) # "none"
  BY DEF ProbeError
<1>3. {"repository_environment_failed", "environment_evidence_invalid"} \subseteq EnvironmentError
  BY DEF EnvironmentError
<1> HIDE DEF ProbeError
<1> QED BY <1>1, <1>2, <1>3 DEF ProbedEnvironment, FailedPreparation, Environment, EnvironmentState

LEMMA RunProbeKeeps ==
  ASSUME SafeInv, RunProbe
  PROVE  SafeInv' /\ Kept
<1>1. PICK process \in PreparationEnds("environment_probe"), finding \in ProbeFinding \cup {"malformed"} :
        LET observed == ProbedEnvironment(process, finding, Append(env.processes, process))
        IN /\ Usual(Successful(process) /\ finding = "sound")
           /\ \/ observed.error # "none" /\ PreparationFails(observed)
              \/ /\ observed.error = "none" /\ pc' = "dependencies" /\ env' = observed
                 /\ UNCHANGED <<invocation, plan, baseline, deps, checks, current, forced, report, exit>>
  BY DEF RunProbe
<1> DEFINE processes == Append(env.processes, process)
           observed == ProbedEnvironment(process, finding, processes)
<1>2. deviations' \in 0 .. DeviationBound
  BY <1>1, UsualIsBounded
<1>3. process \in ProcessState
  BY ProcessesAreTyped DEF Role
<1>4. env.processes \in Seq(ProcessState)
  BY DEF SafeInv, TypeInv, EnvironmentState
<1>5. processes \in Seq(ProcessState) /\ IsPrefix(env.processes, processes)
  BY <1>3, <1>4, PrefixOfAppend
<1> HIDE DEF processes
<1>6. /\ observed \in EnvironmentState /\ observed.protection = "unobserved"
      /\ observed.processes = processes
      /\ observed.error = "none" => observed.lock = "current" /\ observed.python = "supported"
  BY <1>5, ProbedEnvironmentIsTyped
<1>7. pc = "probe"
  BY DEF RunProbe
<1>8. \/ observed.error # "none" /\ PreparationFails(observed)
      \/ /\ observed.error = "none" /\ pc' = "dependencies" /\ env' = observed
         /\ UNCHANGED <<invocation, plan, baseline, deps, checks, current, forced, report, exit>>
  BY <1>1 DEF processes
<1> HIDE DEF observed
<1>9. CASE observed.error # "none" /\ PreparationFails(observed)
  BY <1>2, <1>5, <1>6, <1>7, <1>9, PreparationFailsKeeps
<1>10. CASE /\ observed.error = "none" /\ pc' = "dependencies" /\ env' = observed
            /\ UNCHANGED <<invocation, plan, baseline, deps, checks, current, forced, report, exit>>
  <2>1. SoundPlan(plan) /\ ~Refused /\ report = "none"
    BY <1>7, UnderWay
  <2>2. deps = <<>> /\ checks = <<>> /\ Len(<<>>) = 0
    BY <1>7 DEF SafeInv, DepsInv, OrderInv, Early
  <2>3. TypeInv'
    BY <1>2, <1>6, <1>10 DEF SafeInv, TypeInv, Steps, Early, InWorkspace
  <2>4. PlanInv'
    BY <1>7, <1>10 DEF SafeInv, PlanInv, Refused
  <2>5. DepsInv'
    <3>1. Len(RequiredDependencies(plan)) > 0 /\ Len(RequiredDependencies(plan)) \in Nat
      <4>1. RequiredDependencies(plan) \in Seq(Owners \cup {"coverage"})
        BY <2>1, RequiredAre
      <4> QED BY <4>1, <2>1, RequiredAre
    <3> QED BY <1>10, <2>1, <2>2, <3>1 DEF DepsInv, Early, InCheck, InWorkspace, Ending, Refused
  <2>6. OrderInv'
    <3>1. Len(plan.checks) \in Nat
      <4>1. plan.checks \in Seq(CheckName)
        BY <2>1 DEF SoundPlan
      <4> QED BY <4>1
    <3> QED BY <1>10, <2>1, <2>2, <3>1 DEF OrderInv, Early, InCheck, InWorkspace, Ending, Refused
  <2>7. EnvInv'
    BY <1>6, <1>7, <1>10, <2>1 DEF SafeInv, EnvInv, Early, InCheck, InWorkspace, Ending, Refused, BaselineProtection
  <2>8. SoundInv'
    BY <1>10, <2>2 DEF SoundInv
  <2>9. ExitInv'
    BY <1>7, <1>10 DEF SafeInv, ExitInv, Refused
  <2>10. Kept
    <3>1. deps \in Seq(DependencyState) /\ checks \in Seq(ObservationState) /\ env.error = "none"
      BY <1>7 DEF SafeInv, TypeInv, EnvInv, Early
    <3> QED BY <3>1, <1>5, <1>6, <1>10, PrefixOfItself DEF Kept
  <2> QED BY <2>3, <2>4, <2>5, <2>6, <2>7, <2>8, <2>9, <2>10 DEF SafeInv
<1> QED BY <1>8, <1>9, <1>10

(* A probe says of a dependency either that it is available or what is     *)
(* wrong with it.                                                          *)
LEMMA DependencyObservationIsTyped ==
  ASSUME NEW name \in Owners \cup {"coverage"}, NEW process \in ProcessState, NEW claim \in Claims
  PROVE  LET d == DependencyObservation(name, process, claim[1], claim[2])
         IN /\ d \in DependencyState /\ d.name = name
            /\ d.status = "available" \/ d.error # "none"
<1>1. /\ claim[1] \in {"available", "shadowed", "unusable", "missing", "malformed"}
      /\ claim[2] \in {"none", "supported"} \cup OutOfRange
  BY DEF Claims
<1> DEFINE status == claim[1]
           version == claim[2]
           d == DependencyObservation(name, process, status, version)
<1>2. /\ status \in {"available", "shadowed", "unusable", "missing", "malformed"}
      /\ version \in {"none", "supported"} \cup OutOfRange
  BY <1>1
<1> HIDE DEF status, version
<1>3. d \in DependencyState
  BY <1>2 DEF DependencyObservation, UnobservedDependency, Dependency, DependencyState, DependencyError
<1>4. d.name = name /\ (d.status = "available" \/ d.error # "none")
  BY <1>2 DEF DependencyObservation, UnobservedDependency, Dependency
<1> QED BY <1>3, <1>4 DEF status, version

LEMMA ProbeDependencyKeeps ==
  ASSUME SafeInv, ProbeDependency
  PROVE  SafeInv' /\ Kept
<1> DEFINE R == RequiredDependencies(plan)
           name == R[Len(deps) + 1]
<1>1. PICK process \in PreparationEnds("dependency_probe"), claim \in Claims :
        /\ Usual(Successful(process) /\ claim = <<"available", "supported">>)
        /\ deps' = Append(deps, DependencyObservation(name, process, claim[1], claim[2]))
  BY DEF ProbeDependency
<1>2. /\ pc = "dependencies" /\ pc' = (IF Len(deps') = Len(R) THEN "check" ELSE pc)
      /\ UNCHANGED <<invocation, plan, baseline, env, checks, current, forced, report, exit>>
  BY DEF ProbeDependency
<1>3. deviations' \in 0 .. DeviationBound
  BY <1>1, UsualIsBounded
<1>4. process \in ProcessState
  BY ProcessesAreTyped DEF Role
<1>5. SoundPlan(plan) /\ ~Refused /\ report = "none" /\ exit = NoCode
  BY <1>2, UnderWay
<1>6. R \in Seq(Owners \cup {"coverage"}) /\ Len(R) \in Nat
  BY <1>5, RequiredAre
<1>7. /\ Probed(plan, deps) /\ deps \in Seq(DependencyState) /\ Len(deps) \in Nat /\ Len(deps) < Len(R)
      /\ \A i \in 1 .. Len(deps) : deps[i].status = "available" \/ deps[i].error # "none"
  <2>1. Probed(plan, deps)
    BY <1>2, <1>5, ObservedSoFar DEF Early
  <2>2. deps \in Seq(DependencyState)
    BY DEF SafeInv, TypeInv
  <2> QED BY <1>2, <2>1, <2>2 DEF SafeInv, DepsInv
<1>8. name \in Owners \cup {"coverage"}
  <2>1. Len(deps) + 1 \in 1 .. Len(R)
    BY <1>6, <1>7
  <2> HIDE DEF R
  <2> QED BY <1>6, <2>1
<1> DEFINE d == DependencyObservation(name, process, claim[1], claim[2])
<1>9. d \in DependencyState /\ d.name = name /\ (d.status = "available" \/ d.error # "none")
  BY <1>4, <1>8, DependencyObservationIsTyped
<1>10. deps' = Append(deps, d)
  BY <1>1
<1> HIDE DEF d
<1>11. /\ deps' \in Seq(DependencyState) /\ Len(deps') = Len(deps) + 1
       /\ \A i \in 1 .. Len(deps) : deps'[i] = deps[i]
       /\ deps'[Len(deps) + 1] = d /\ IsPrefix(deps, deps')
  BY <1>7, <1>9, <1>10, PrefixOfAppend
<1>12. \A i \in 1 .. Len(deps') : i \in 1 .. Len(deps) \/ i = Len(deps) + 1
  BY <1>7, <1>11
<1>13. /\ Len(deps') <= Len(R) /\ (Len(deps') = Len(R) \/ Len(deps') < Len(R))
       /\ \A i \in 1 .. Len(deps') : deps'[i].name = R[i]
       /\ \A i \in 1 .. Len(deps') : deps'[i].status = "available" \/ deps'[i].error # "none"
  <2>1. Len(deps') <= Len(R) /\ (Len(deps') = Len(R) \/ Len(deps') < Len(R))
    BY <1>6, <1>7, <1>11
  <2>2. \A i \in 1 .. Len(deps) : deps[i].name = R[i]
    BY <1>7 DEF Probed
  <2> HIDE DEF R
  <2>3. d.name = R[Len(deps) + 1]
    BY <1>9
  <2> QED BY <1>7, <1>9, <1>11, <1>12, <2>1, <2>2, <2>3
<1>14. checks = <<>> /\ Len(<<>>) = 0
  BY <1>2 DEF SafeInv, OrderInv
<1>15. TypeInv'
  BY <1>2, <1>3, <1>11 DEF SafeInv, TypeInv, Steps, InCheck, InWorkspace
<1>16. PlanInv'
  BY <1>2, <1>5 DEF SafeInv, PlanInv, Refused
<1>17. DepsInv'
  BY <1>2, <1>5, <1>13 DEF DepsInv, Early, Refused, InCheck, InWorkspace, Ending
<1>18. EnvInv'
  BY <1>2, <1>5 DEF SafeInv, EnvInv, Early, Refused, InCheck, InWorkspace, Ending, BaselineProtection
<1>19. OrderInv'
  <2>1. Len(plan.checks) \in Nat /\ Len(plan.checks) > 0
    <3>1. plan.checks \in Seq(CheckName)
      BY <1>5 DEF SoundPlan
    <3> QED BY <3>1, <1>5 DEF SoundPlan
  <2> QED BY <1>2, <1>5, <1>14, <2>1 DEF OrderInv, Early, Refused, InCheck, InWorkspace, Ending
<1>20. SoundInv'
  BY <1>2, <1>14 DEF SoundInv
<1>21. ExitInv'
  BY <1>2, <1>5 DEF ExitInv
<1>22. Kept
  <2>1. env.processes \in Seq(ProcessState) /\ checks \in Seq(ObservationState)
    BY DEF SafeInv, TypeInv, EnvironmentState
  <2> QED BY <1>2, <1>11, <2>1, PrefixOfItself DEF Kept
<1> QED BY <1>15, <1>16, <1>17, <1>18, <1>19, <1>20, <1>21, <1>22 DEF SafeInv

LEMMA ProbingLosesUvKeeps ==
  ASSUME SafeInv, ProbingLosesUv
  PROVE  SafeInv' /\ Kept
<1>1. /\ pc = "dependencies" /\ pc' = "verify" /\ deps' = deps \o UnattemptedFrom(Len(deps) + 1)
      /\ env' = [env EXCEPT !.error = "unsafe_repository_environment"]
      /\ checks' = <<>> \o GivenUpFrom(1)
      /\ UNCHANGED <<invocation, plan, baseline, current, forced, report, exit>>
  BY DEF ProbingLosesUv, GiveUpFrom
<1>2. deviations' \in 0 .. DeviationBound
  BY DepartureIsBounded DEF ProbingLosesUv
<1>3. SoundPlan(plan) /\ ~Refused
  BY <1>1, UnderWay
<1>4. /\ Probed(plan, deps) /\ deps \in Seq(DependencyState) /\ Len(plan.checks) \in Nat
      /\ checks = <<>>
  BY <1>1, <1>3, ObservedSoFar DEF Early, SafeInv, TypeInv, OrderInv
<1>5. /\ Probed(plan, deps') /\ Len(deps') = Len(RequiredDependencies(plan))
      /\ UnattemptedFrom(Len(deps) + 1) \in Seq(DependencyState)
  BY <1>1, <1>3, <1>4, UnattemptedCompletes
<1>6. IsPrefix(deps, deps')
  BY <1>1, <1>4, <1>5, PrefixOfConcat
<1>7. env' \in EnvironmentState /\ env'.error # "none" /\ env'.processes = env.processes
      /\ env'.protection = env.protection
  BY <1>1 DEF SafeInv, TypeInv, EnvironmentState, EnvironmentError
<1>8. <<>> \in Seq(ObservationState) /\ Len(<<>>) = 0 /\ Len(<<>>) + 1 = 1
  OBVIOUS
<1>9. InPlanOrder(plan, deps', forced, <<>>)
  BY <1>4, <1>8 DEF InPlanOrder
<1>10. checks' = <<>> \o GivenUpFrom(Len(<<>>) + 1)
  BY <1>1, <1>8
<1>11. IsPrefix(checks, checks')
  <2>1. checks' \in Seq(ObservationState)
    BY <1>3, <1>9, <1>10, GivenUpCompletes DEF InPlanOrder
  <2> QED BY <2>1, <1>4, EmptyIsPrefix
<1>12. pc \in InCheck \cup {"dependencies"}
  BY <1>1
<1> QED BY <1>1, <1>2, <1>5, <1>6, <1>7, <1>8, <1>9, <1>10, <1>11, <1>12, GiveUpKeeps

-----------------------------------------------------------------------------
(* A Check *)

(* A Check without coverage data that were converted.                      *)
LEMMA SoundIfNotConverted ==
  ASSUME NEW p, NEW observed, NEW f, NEW o, o.error # "none" \/ Ran(o), ~Snapshot(o),
         ~(Len(o.processes) > 1), o.coverage # NoCoverage => o.name = "pytest" /\ CoverageRequested(p)
  PROVE  Sound(p, observed, f, o)
BY DEF Sound

LEMMA NotStartedIsTyped ==
  ASSUME NEW name \in CheckName
  PROVE  LET o == Observation(name, <<>>, "none", FALSE, "none")
         IN /\ o \in ObservationState /\ o.name = name /\ o.processes = <<>>
            /\ o.coverage = NoCoverage
<1> DEFINE o == Observation(name, <<>>, "none", FALSE, "none")
<1>1. <<>> \in Seq(ProcessState) /\ "none" \in CheckError /\ FALSE \in BOOLEAN
  BY DEF CheckError, DependencyError
<1>2. o = [name |-> name, processes |-> <<>>, start |-> "none", authority |-> FALSE,
           error |-> "none", pytest |-> NoPytest, coverage |-> NoCoverage]
  BY DEF Observation
<1> HIDE DEF o
<1>3. o \in ObservationState
  BY <1>1, <1>2 DEF ObservationState
<1>4. o.name = name /\ o.processes = <<>> /\ o.coverage = NoCoverage
  BY <1>2
<1> QED BY <1>3, <1>4 DEF o

LEMMA PreflightIsTyped ==
  ASSUME SafeInv, pc \in InCheck
  PROVE  /\ PytestPreflight \in PytestState
         /\ \A coverage \in {CoveragePreflight, InvalidCoverage} :
              /\ coverage \in CoverageState \cup {NoCoverage}
              /\ coverage # NoCoverage => CoverageRequested(plan)
              /\ CoverageRequested(plan) => coverage \in CoverageState /\ coverage.artifact = "not_attempted"
<1>1. Owner \in DependencyState
  BY CheckAtHand
<1>2. NumericVersion(Owner.version) \in {"none", "supported", "padded", "three_numbers"}
  BY <1>1 DEF NumericVersion, DependencyState, OutOfRange
<1>3. NoSession \in Session /\ "missing" \in {"valid"} \cup RefusedArtifacts
  BY DEF NoSession, Session, RefusedArtifacts
<1>4. \A class \in {"supported", "module_unavailable", "unsupported_version", "preflight_invalid"},
         version \in {"none", "supported", "padded", "three_numbers"} :
        PytestObservation(class, version, "missing", NoSession) \in PytestState
  BY <1>3 DEF PytestObservation, PytestState
<1>5. PytestPreflight \in PytestState
  BY <1>2, <1>4 DEF PytestPreflight
<1>6. \A class \in {"supported", "module_unavailable", "unsupported_version", "preflight_invalid"} :
        /\ CoverageObservation(class, "not_attempted") \in CoverageState
        /\ CoverageObservation(class, "not_attempted").artifact = "not_attempted"
  BY DEF CoverageObservation, CoverageState, CoverageArtifact, NoCode
<1>7. PreflightError(CoverageOwner.status) \in {"module_unavailable", "unsupported_version", "preflight_invalid"}
  BY DEF PreflightError
<1>8. ASSUME NEW coverage \in {CoveragePreflight, InvalidCoverage}
      PROVE  /\ coverage \in CoverageState \cup {NoCoverage}
             /\ coverage # NoCoverage => CoverageRequested(plan)
             /\ CoverageRequested(plan) => coverage \in CoverageState /\ coverage.artifact = "not_attempted"
  <2>1. CASE CoverageRequested(plan)
    <3>1. PICK class \in {"supported", "module_unavailable", "unsupported_version", "preflight_invalid"} :
            coverage = CoverageObservation(class, "not_attempted")
      BY <2>1, <1>7 DEF CoveragePreflight, InvalidCoverage
    <3> QED BY <2>1, <3>1, <1>6
  <2>2. CASE ~CoverageRequested(plan)
    BY <2>2 DEF CoveragePreflight, InvalidCoverage
  <2> QED BY <2>1, <2>2
<1> QED BY <1>5, <1>8

LEMMA AtLaunch ==
  ASSUME SafeInv, pc = "launch"
  PROVE  /\ pc \in InCheck /\ env.error = "none" /\ current \in ObservationState /\ current.name = Name
         /\ current.processes = <<>> /\ ~Snapshot(current)
         /\ IsPytest => current.pytest \in PytestState
         /\ current.coverage # NoCoverage => IsPytest /\ CoverageRequested(plan)
         /\ IsPytest /\ CoverageRequested(plan) => current.coverage \in CoverageState
BY DEF SafeInv, TypeInv, EnvInv, OrderInv, SoundInv, InCheck, InWorkspace, Name, Index, IsPytest

LEMMA DependencyUnavailableKeeps ==
  ASSUME SafeInv, DependencyUnavailable
  PROVE  SafeInv' /\ Kept
<1>1. pc = "check" /\ pc \in InCheck /\ env.error = "none"
  BY DEF DependencyUnavailable, InCheck, SafeInv, EnvInv
<1>2. Name \in CheckName /\ Owner.error \in CheckError /\ Owner.error # "none"
  BY <1>1, CheckAtHand DEF DependencyUnavailable, DependencyState, CheckError
<1> DEFINE o == CheckFailure(Name, Owner.error)
<1>3. o \in ObservationState /\ o.name = Name /\ Sound(plan, deps, forced, o)
  BY <1>2, FailureIsSound
<1>4. Ends(o)
  BY DEF DependencyUnavailable
<1> HIDE DEF o
<1>5. deviations' \in 0 .. DeviationBound
  BY DEF DependencyUnavailable, SafeInv, TypeInv
<1> QED BY <1>1, <1>3, <1>4, <1>5, EndsKeeps

LEMMA CreateFailsKeeps ==
  ASSUME SafeInv, CreateFails
  PROVE  SafeInv' /\ Kept
<1>1. pc = "check" /\ pc \in InCheck /\ env.error = "none"
  BY DEF CreateFails, NeedsWorkspace, InCheck, SafeInv, EnvInv
<1>2. PICK error \in {"platform_safety_unavailable", "cleanup_failed"} : Ends(CheckFailure(Name, error))
  BY DEF CreateFails
<1>3. Name \in CheckName /\ error \in CheckError /\ error # "none"
  BY <1>1, CheckAtHand DEF CheckError
<1> DEFINE o == CheckFailure(Name, error)
<1>4. o \in ObservationState /\ o.name = Name /\ Sound(plan, deps, forced, o)
  BY <1>3, FailureIsSound
<1>5. Ends(o)
  BY <1>2
<1> HIDE DEF o
<1>6. deviations' \in 0 .. DeviationBound
  BY DepartureIsBounded DEF CreateFails
<1> QED BY <1>1, <1>4, <1>5, <1>6, EndsKeeps

LEMMA SetupFailsKeeps ==
  ASSUME SafeInv, SetupFails
  PROVE  SafeInv' /\ Kept
<1>1. pc = "check" /\ pc \in InCheck
  BY DEF SetupFails, NeedsWorkspace, InCheck
<1>2. PICK error \in {"platform_safety_unavailable", "cleanup_failed"} : Leaves(CheckFailure(Name, error))
  BY DEF SetupFails
<1>3. Name \in CheckName /\ error \in CheckError /\ error # "none"
  BY <1>1, CheckAtHand DEF CheckError
<1> DEFINE o == CheckFailure(Name, error)
<1>4. o \in ObservationState /\ o.name = Name /\ Sound(plan, deps, forced', o)
  BY <1>3, FailureIsSound
<1>5. Leaves(o)
  BY <1>2
<1> HIDE DEF o
<1>6. deviations' \in 0 .. DeviationBound /\ env' = env /\ forced' = forced
  BY DepartureIsBounded DEF SetupFails
<1> QED BY <1>1, <1>4, <1>5, <1>6, LeavesKeeps

LEMMA EnterWorkspaceKeeps ==
  ASSUME SafeInv, EnterWorkspace
  PROVE  SafeInv' /\ Kept
<1>1. /\ pc = "check" /\ pc \in InCheck /\ pc' = "launch"
      /\ UNCHANGED <<invocation, plan, baseline, env, deps, checks, forced, report, exit, deviations>>
  BY DEF EnterWorkspace, NeedsWorkspace, InCheck
<1>2. ~Refused /\ report = "none" /\ exit = NoCode
  BY <1>1, UnderWay
<1>3. Name \in CheckName /\ Name = plan.checks[Len(checks) + 1]
  BY <1>1, CheckAtHand DEF Name, Index
<1>4. /\ current' \in ObservationState /\ current'.name = Name /\ current'.processes = <<>>
      /\ ~Snapshot(current')
      /\ Name = "pytest" => current'.pytest \in PytestState
      /\ current'.coverage # NoCoverage => Name = "pytest" /\ CoverageRequested(plan)
      /\ Name = "pytest" /\ CoverageRequested(plan) => current'.coverage \in CoverageState
  <2> DEFINE o == Observation(Name, <<>>, "none", FALSE, "none")
  <2>1. CASE IsPytest
    <3> DEFINE q == [o EXCEPT !.pytest = PytestPreflight, !.coverage = CoveragePreflight]
    <3>1. /\ PytestPreflight \in PytestState /\ CoveragePreflight \in CoverageState \cup {NoCoverage}
          /\ CoveragePreflight # NoCoverage => CoverageRequested(plan)
          /\ CoverageRequested(plan) =>
               CoveragePreflight \in CoverageState /\ CoveragePreflight.artifact = "not_attempted"
      BY <1>1, PreflightIsTyped
    <3>2. /\ q \in ObservationState /\ q.name = Name /\ q.processes = <<>>
          /\ q.pytest = PytestPreflight /\ q.coverage = CoveragePreflight
      <4>1. o \in ObservationState /\ o.name = Name /\ o.processes = <<>>
        BY <1>3, NotStartedIsTyped
      <4> HIDE DEF o
      <4> QED BY <3>1, <4>1 DEF ObservationState
    <3>3. current' = q
      BY <2>1 DEF EnterWorkspace
    <3> HIDE DEF q
    <3> QED BY <2>1, <3>1, <3>2, <3>3 DEF Snapshot, IsPytest
  <2>2. CASE ~IsPytest
    <3>1. o \in ObservationState /\ o.name = Name /\ o.processes = <<>> /\ o.coverage = NoCoverage
      BY <1>3, NotStartedIsTyped
    <3>2. current' = o
      BY <2>2 DEF EnterWorkspace
    <3> HIDE DEF o
    <3> QED BY <2>2, <3>1, <3>2 DEF Snapshot, IsPytest
  <2> QED BY <2>1, <2>2
<1>5. TypeInv'
  BY <1>1, <1>4 DEF SafeInv, TypeInv, Steps, InCheck, InWorkspace
<1>6. PlanInv'
  BY <1>1, <1>2 DEF SafeInv, PlanInv, Refused
<1>7. DepsInv'
  BY <1>1, <1>2 DEF SafeInv, DepsInv, Early, Refused, InCheck, InWorkspace, Ending
<1>8. EnvInv'
  BY <1>1, <1>2 DEF SafeInv, EnvInv, Early, Refused, InCheck, InWorkspace, Ending, BaselineProtection
<1>9. OrderInv'
  BY <1>1, <1>2, <1>3, <1>4 DEF SafeInv, OrderInv, Early, Refused, InCheck, InWorkspace, Ending
<1>10. SoundInv'
  BY <1>1, <1>4 DEF SafeInv, SoundInv
<1>11. ExitInv'
  BY <1>1, <1>2 DEF ExitInv
<1>12. Kept
  BY <1>1, NothingNewIsKept
<1> QED BY <1>5, <1>6, <1>7, <1>8, <1>9, <1>10, <1>11, <1>12 DEF SafeInv

LEMMA PytestUnavailableKeeps ==
  ASSUME SafeInv, PytestUnavailable
  PROVE  SafeInv' /\ Kept
<1>1. pc = "launch" /\ IsPytest /\ Owner.status # "available" /\ env' = env /\ forced' = forced
  BY DEF PytestUnavailable
<1>2. /\ current \in ObservationState /\ current.name = Name /\ current.processes = <<>> /\ pc \in InCheck
  BY <1>1, AtLaunch
<1>3. Owner.error \in CheckError /\ Owner.error # "none"
  BY <1>1, <1>2, CheckAtHand DEF DependencyState, CheckError
<1>4. /\ InvalidCoverage \in CoverageState \cup {NoCoverage}
      /\ InvalidCoverage # NoCoverage => CoverageRequested(plan)
      /\ CoverageRequested(plan) => InvalidCoverage.artifact = "not_attempted"
  BY <1>2, PreflightIsTyped
<1> DEFINE o == [current EXCEPT !.error = Owner.error, !.coverage = InvalidCoverage]
<1>5. /\ o \in ObservationState /\ o.name = Name /\ o.processes = <<>> /\ o.error = Owner.error
      /\ o.coverage = InvalidCoverage
  BY <1>2, <1>3, <1>4 DEF ObservationState
<1>6. Leaves(o)
  BY DEF PytestUnavailable
<1> HIDE DEF o
<1>7. Sound(plan, deps, forced, o)
  <2>1. ~Snapshot(o)
    BY <1>4, <1>5 DEF Snapshot
  <2>2. ~(Len(o.processes) > 1)
    BY <1>5
  <2>3. o.coverage # NoCoverage => o.name = "pytest" /\ CoverageRequested(plan)
    BY <1>1, <1>4, <1>5 DEF IsPytest
  <2> QED BY <1>3, <1>5, <2>1, <2>2, <2>3, SoundIfNotConverted
<1>8. deviations' \in 0 .. DeviationBound
  BY DEF PytestUnavailable, SafeInv, TypeInv
<1> QED BY <1>1, <1>5, <1>6, <1>7, <1>8, LeavesKeeps

LEMMA StagingFailsKeeps ==
  ASSUME SafeInv, StagingFails
  PROVE  SafeInv' /\ Kept
<1>1. pc = "launch" /\ IsPytest /\ env' = env /\ forced' = forced
  BY DEF StagingFails, Launches
<1>2. /\ current \in ObservationState /\ current.name = Name /\ current.processes = <<>> /\ pc \in InCheck
  BY <1>1, AtLaunch
<1>3. /\ InvalidCoverage \in CoverageState \cup {NoCoverage}
      /\ InvalidCoverage # NoCoverage => CoverageRequested(plan)
      /\ CoverageRequested(plan) => InvalidCoverage.artifact = "not_attempted"
  BY <1>2, PreflightIsTyped
<1> DEFINE notStarted == PytestObservation("not_started", "none", "missing", NoSession)
<1>4. notStarted \in PytestState
  BY DEF PytestObservation, PytestState, NoSession, Session, RefusedArtifacts
<1> HIDE DEF notStarted
<1> DEFINE o == [current EXCEPT !.error = "pytest_evidence_error", !.coverage = InvalidCoverage,
                                !.pytest = notStarted]
<1>5. /\ o \in ObservationState /\ o.name = Name /\ o.processes = <<>>
      /\ o.error = "pytest_evidence_error" /\ o.coverage = InvalidCoverage
  <2>1. "pytest_evidence_error" \in CheckError
    BY DEF CheckError
  <2> QED BY <1>2, <1>3, <1>4, <2>1 DEF ObservationState
<1>6. Leaves(o)
  BY DEF StagingFails, notStarted
<1> HIDE DEF o
<1>7. Sound(plan, deps, forced, o)
  <2>1. ~Snapshot(o)
    BY <1>3, <1>5 DEF Snapshot
  <2>2. ~(Len(o.processes) > 1)
    BY <1>5
  <2>3. o.coverage # NoCoverage => o.name = "pytest" /\ CoverageRequested(plan)
    BY <1>1, <1>3, <1>5 DEF IsPytest
  <2> QED BY <1>5, <2>1, <2>2, <2>3, SoundIfNotConverted
<1>8. deviations' \in 0 .. DeviationBound
  BY DepartureIsBounded DEF StagingFails
<1> QED BY <1>1, <1>5, <1>6, <1>7, <1>8, LeavesKeeps

LEMMA MarkerUnpreparedKeeps ==
  ASSUME SafeInv, MarkerUnprepared
  PROVE  SafeInv' /\ Kept
<1>1. pc = "launch" /\ env' = env /\ forced' = forced
  BY DEF MarkerUnprepared, Launches
<1>2. /\ current \in ObservationState /\ current.name = Name /\ current.processes = <<>>
      /\ ~Snapshot(current)
      /\ current.coverage # NoCoverage => IsPytest /\ CoverageRequested(plan)
  BY <1>1, AtLaunch
<1> DEFINE o == [current EXCEPT !.error = "check_start_evidence_invalid"]
<1>3. /\ o \in ObservationState /\ o.name = Name /\ o.processes = <<>>
      /\ o.error = "check_start_evidence_invalid" /\ o.coverage = current.coverage
  <2>1. "check_start_evidence_invalid" \in CheckError
    BY DEF CheckError
  <2> QED BY <1>2, <2>1 DEF ObservationState
<1>4. Leaves(o)
  BY DEF MarkerUnprepared
<1> HIDE DEF o
<1>5. Sound(plan, deps, forced, o)
  <2>1. ~Snapshot(o)
    BY <1>2, <1>3 DEF Snapshot
  <2>2. ~(Len(o.processes) > 1)
    BY <1>3
  <2>3. o.coverage # NoCoverage => o.name = "pytest" /\ CoverageRequested(plan)
    BY <1>2, <1>3 DEF IsPytest
  <2> QED BY <1>3, <2>1, <2>2, <2>3, SoundIfNotConverted
<1>6. deviations' \in 0 .. DeviationBound
  BY DepartureIsBounded DEF MarkerUnprepared
<1> QED BY <1>1, <1>3, <1>4, <1>5, <1>6, LeavesKeeps

(* How a primary process ends decides whether the Check was seen to run.   *)
LEMMA PrimaryEndsAre ==
  ASSUME NEW codes, codes \subseteq Int, NEW process \in PrimaryEnds(codes), NEW started \in BOOLEAN,
         process.outcome = "spawn_failed" => ~started, NEW findings
  PROVE  /\ process \in ProcessState
         /\ PrimaryError(process, started, findings) \in CheckError
         /\ PrimaryError(process, started, findings) = "none" =>
              process.outcome = "exited" /\ started /\ process.code \in findings
<1>1. process \in ProcessState /\ process.outcome \in {"spawn_failed", "signaled", "exited"}
  <2>1. /\ \A code \in Int : Exited("primary", code) \in ProcessState
        /\ NotSpawned("primary") \in ProcessState /\ Signaled("primary") \in ProcessState
    BY ProcessesAreTyped DEF Role
  <2>2. /\ \A code \in Int : Exited("primary", code).outcome = "exited"
        /\ NotSpawned("primary").outcome = "spawn_failed" /\ Signaled("primary").outcome = "signaled"
    BY DEF Exited, NotSpawned, Signaled, Process
  <2> QED BY <2>1, <2>2 DEF PrimaryEnds
<1>2. {"none", "spawn_failed", "check_start_evidence_invalid", "terminated_by_signal",
       "check_execution_failed"} \subseteq CheckError
  BY DEF CheckError, DependencyError
<1>3. CASE process.outcome = "spawn_failed"
  BY <1>1, <1>2, <1>3 DEF PrimaryError
<1>4. CASE process.outcome # "spawn_failed" /\ ~started
  BY <1>1, <1>2, <1>4 DEF PrimaryError
<1>5. CASE process.outcome = "signaled" /\ started
  BY <1>1, <1>2, <1>5 DEF PrimaryError
<1>6. CASE process.outcome = "exited" /\ started
  BY <1>1, <1>2, <1>6 DEF PrimaryError
<1> QED BY <1>1, <1>3, <1>4, <1>5, <1>6

LEMMA OneProcess ==
  ASSUME NEW process \in ProcessState
  PROVE  <<process>> \in Seq(ProcessState) /\ Len(<<process>>) = 1 /\ <<process>>[1] = process
OBVIOUS

LEMMA StartModuleIsTyped ==
  ASSUME SafeInv, pc \in InCheck
  PROVE  StartModule \in Owners \cup {"coverage"} /\ StartModule # "none"
<1>1. DependencyNameForCheck(Name) \in Owners
  BY CheckAtHand, OwnerOfCheck
<1>2. "none" \notin Owners \cup {"coverage"}
  BY DEF Owners
<1> QED BY <1>1, <1>2 DEF StartModule

LEMMA RunOrdinaryKeeps ==
  ASSUME SafeInv, RunOrdinary
  PROVE  SafeInv' /\ Kept
<1>1. pc = "launch" /\ ~IsPytest /\ env' = env /\ forced' = forced
  BY DEF RunOrdinary, Launches
<1>2. /\ current \in ObservationState /\ current.name = Name /\ pc \in InCheck
      /\ current.coverage # NoCoverage => IsPytest /\ CoverageRequested(plan)
  BY <1>1, AtLaunch
<1>3. PICK process \in PrimaryEnds({0, 1, 2}), started \in BOOLEAN :
        /\ process.outcome = "spawn_failed" => ~started
        /\ Usual(ZeroExit(process) /\ started)
        /\ Leaves([current EXCEPT
                     !.processes = <<process>>,
                     !.start = IF started THEN StartModule ELSE "none",
                     !.authority = /\ started /\ process.code \in {0, 1}
                                   /\ DependencyNameForCheck(Name) \in {"ruff", "ty"},
                     !.error = PrimaryError(process, started, {0, 1})])
  BY DEF RunOrdinary
<1> DEFINE start == IF started THEN StartModule ELSE "none"
           authority == /\ started /\ process.code \in {0, 1}
                        /\ DependencyNameForCheck(Name) \in {"ruff", "ty"}
           error == PrimaryError(process, started, {0, 1})
           processes == <<process>>
           o == [current EXCEPT !.processes = processes, !.start = start,
                                !.authority = authority, !.error = error]
<1>4. /\ process \in ProcessState /\ error \in CheckError
      /\ error = "none" => process.outcome = "exited" /\ started /\ process.code \in {0, 1}
  <2>1. {0, 1, 2} \subseteq Int
    OBVIOUS
  <2> QED BY <1>3, <2>1, PrimaryEndsAre
<1>5. processes \in Seq(ProcessState) /\ Len(processes) = 1 /\ processes[1] = process
  BY <1>4, OneProcess
<1>6. start \in Owners \cup {"coverage", "none"} /\ (started => start # "none")
  BY <1>2, StartModuleIsTyped
<1>7. authority \in BOOLEAN
  OBVIOUS
<1>8. Leaves(o)
  BY <1>3
<1>9. deviations' \in 0 .. DeviationBound
  BY <1>3, UsualIsBounded
<1> HIDE DEF start, authority, error, processes
<1>10. /\ o \in ObservationState /\ o.name = Name /\ o.processes = processes /\ o.start = start
       /\ o.error = error /\ o.coverage = current.coverage
  BY <1>2, <1>4, <1>5, <1>6, <1>7 DEF ObservationState
<1> HIDE DEF o
<1>11. Sound(plan, deps, forced, o)
  <2>4. Len(o.processes) = 1
    BY <1>5, <1>10
  <2>5. o.processes[1] = process
    BY <1>5, <1>10
  <2>1. ASSUME o.error = "none" PROVE Ran(o)
    <3>1. started /\ process.outcome = "exited" /\ process.code \in {0, 1}
      BY <2>1, <1>4, <1>10
    <3>2. o.start # "none"
      BY <3>1, <1>6, <1>10
    <3>3. o.name # "pytest"
      BY <1>1, <1>10 DEF IsPytest
    <3> QED BY <3>1, <3>2, <3>3, <2>4, <2>5 DEF Ran
  <2>2. o.coverage = NoCoverage
    BY <1>1, <1>2, <1>10
  <2>3. ~Snapshot(o) /\ ~(Len(o.processes) > 1)
    BY <2>4, <2>2 DEF Snapshot
  <2> QED BY <2>1, <2>2, <2>3, SoundIfNotConverted
<1> QED BY <1>1, <1>8, <1>9, <1>10, <1>11, LeavesKeeps

(* The data of the Check of pytest are left to be converted.               *)
LEMMA ConversionIsNext ==
  ASSUME SafeInv, pc = "launch", IsPytest, NEW o \in ObservationState, o.name = "pytest",
         pc' = "coverage", current' = o, ~Snapshot(o), o.pytest \in PytestState,
         CoverageRequested(plan), o.coverage \in CoverageState, Len(o.processes) = 1,
         o.error = "none" => Ran(o), env' = env, forced' = forced,
         UNCHANGED <<invocation, plan, baseline, deps, checks, report, exit>>,
         deviations' \in 0 .. DeviationBound
  PROVE  SafeInv' /\ Kept
<1>1. ~Refused /\ report = "none" /\ exit = NoCode
  BY UnderWay
<1>2. TypeInv'
  BY DEF SafeInv, TypeInv, Steps, InCheck, InWorkspace
<1>3. PlanInv'
  BY <1>1 DEF SafeInv, PlanInv, Refused
<1>4. DepsInv'
  BY <1>1 DEF SafeInv, DepsInv, Early, Refused, InCheck, InWorkspace, Ending
<1>5. EnvInv'
  BY <1>1 DEF SafeInv, EnvInv, Early, Refused, InCheck, InWorkspace, Ending, BaselineProtection
<1>6. OrderInv'
  BY <1>1 DEF SafeInv, OrderInv, Early, Refused, InCheck, InWorkspace, Ending, IsPytest, Name, Index
<1>7. SoundInv'
  BY DEF SafeInv, SoundInv
<1>8. ExitInv'
  BY <1>1 DEF ExitInv
<1>9. Kept
  BY NothingNewIsKept
<1> QED BY <1>2, <1>3, <1>4, <1>5, <1>6, <1>7, <1>8, <1>9 DEF SafeInv

\* Another artifact than a snapshot, of coverage data that were not converted.
Unconverted == CoverageArtifact \ {"snapshot"}

LEMMA LeftUnconverted ==
  ASSUME SafeInv, pc \in {"launch", "coverage"}, IsPytest, CoverageRequested(plan),
         NEW o \in ObservationState, o.name = "pytest", o.coverage \in CoverageState,
         Len(o.processes) = 1, o.error = "none" => Ran(o), NEW artifact \in Unconverted,
         Leaves([o EXCEPT !.coverage.artifact = artifact]), forced' = forced,
         env' = env \/ env' = [env EXCEPT !.error = "unsafe_repository_environment"],
         deviations' \in 0 .. DeviationBound
  PROVE  SafeInv' /\ Kept
<1> DEFINE coverage == [o.coverage EXCEPT !.artifact = artifact]
           q == [o EXCEPT !.coverage.artifact = artifact]
<1>1. coverage \in CoverageState /\ coverage.artifact = artifact
  BY DEF CoverageState, Unconverted
<1>2. q = [o EXCEPT !.coverage = coverage]
  OBVIOUS
<1> HIDE DEF coverage, q
<1>3. /\ q \in ObservationState /\ q.name = "pytest" /\ q.processes = o.processes
      /\ q.start = o.start /\ q.error = o.error /\ q.coverage = coverage
  BY <1>1, <1>2 DEF ObservationState
<1>4. Sound(plan, deps, forced, q)
  <2>1. q.error # "none" \/ Ran(q)
    BY <1>3 DEF Ran
  <2>2. Len(q.processes) = 1
    BY <1>3
  <2>3. ~(Len(q.processes) > 1)
    BY <2>2
  <2>4. ~Snapshot(q)
    BY <1>1, <1>3 DEF Snapshot, Unconverted
  <2> QED BY <1>3, <2>1, <2>3, <2>4, SoundIfNotConverted
<1>5. Leaves(q) /\ q.name = Name
  BY <1>3 DEF q, IsPytest
<1> QED BY <1>3, <1>4, <1>5, LeavesKeeps

LEMMA RunPytestKeeps ==
  ASSUME SafeInv, RunPytest
  PROVE  SafeInv' /\ Kept
<1>1. pc = "launch" /\ IsPytest /\ env' = env /\ forced' = forced
  BY DEF RunPytest, Launches
<1>2. /\ current \in ObservationState /\ current.name = Name /\ pc \in InCheck
      /\ ~Snapshot(current) /\ current.pytest \in PytestState
      /\ current.coverage # NoCoverage => CoverageRequested(plan)
      /\ CoverageRequested(plan) => current.coverage \in CoverageState
  BY <1>1, AtLaunch
<1>3. Name = "pytest"
  BY <1>1 DEF IsPytest
<1>4. PICK process \in PrimaryEnds({0, 1, 2, 5, 6}), started \in BOOLEAN, artifact \in Artifacts :
        LET observation ==
              [current EXCEPT
                 !.processes = <<process>>,
                 !.start = IF started THEN StartModule ELSE "none",
                 !.error = PrimaryError(process, started, {0, 1, 5}),
                 !.pytest.artifact = artifact[1], !.pytest.session = artifact[2]]
            untrusted == observation.error # "none" /\ ~Reserved(observation)
            parallel == CurrentPytest(observation).error = "unsupported_parallelism"
        IN /\ process.outcome = "spawn_failed" => ~started
           /\ process.outcome # "exited" => artifact[1] = "missing"
           /\ Usual(ZeroExit(process) /\ started /\ artifact = <<"valid", WholeSession>>)
           /\ \/ ~Instrumented /\ Leaves(observation)
              \/ Instrumented /\ untrusted
                   /\ Leaves([observation EXCEPT !.coverage.artifact = "data_missing"])
              \/ Instrumented /\ ~untrusted /\ parallel
                   /\ Leaves([observation EXCEPT !.coverage.artifact = "unsupported_parallelism"])
              \/ /\ Instrumented /\ ~untrusted /\ ~parallel
                 /\ current' = observation /\ pc' = "coverage"
                 /\ UNCHANGED <<invocation, plan, baseline, deps, checks, report, exit>>
  BY DEF RunPytest
<1> DEFINE o == [current EXCEPT
                   !.processes = <<process>>,
                   !.start = IF started THEN StartModule ELSE "none",
                   !.error = PrimaryError(process, started, {0, 1, 5}),
                   !.pytest.artifact = artifact[1], !.pytest.session = artifact[2]]
<1>5. /\ \/ ~Instrumented /\ Leaves(o)
         \/ Instrumented /\ Leaves([o EXCEPT !.coverage.artifact = "data_missing"])
         \/ Instrumented /\ Leaves([o EXCEPT !.coverage.artifact = "unsupported_parallelism"])
         \/ /\ Instrumented /\ current' = o /\ pc' = "coverage"
            /\ UNCHANGED <<invocation, plan, baseline, deps, checks, report, exit>>
      /\ process.outcome = "spawn_failed" => ~started
  BY <1>4
<1>6. deviations' \in 0 .. DeviationBound
  BY <1>4, UsualIsBounded
<1> DEFINE start == IF started THEN StartModule ELSE "none"
           error == PrimaryError(process, started, {0, 1, 5})
           processes == <<process>>
           pytest == [current.pytest EXCEPT !.artifact = artifact[1], !.session = artifact[2]]
<1>7. /\ process \in ProcessState /\ error \in CheckError
      /\ error = "none" => process.outcome = "exited" /\ started /\ process.code \in {0, 1, 5}
  <2>1. {0, 1, 2, 5, 6} \subseteq Int
    OBVIOUS
  <2> QED BY <1>5, <2>1, PrimaryEndsAre
<1>8. processes \in Seq(ProcessState) /\ Len(processes) = 1 /\ processes[1] = process
  BY <1>7, OneProcess
<1>9. start \in Owners \cup {"coverage", "none"} /\ (started => start # "none")
  BY <1>2, StartModuleIsTyped
<1>10. pytest \in PytestState
  <2>1. artifact[1] \in {"valid"} \cup RefusedArtifacts /\ artifact[2] \in Session
    <3>1. Sessions \subseteq Session /\ NoSession \in Session
      BY DEF Sessions, Session, WholeSession, NoSession
    <3> QED BY <3>1 DEF Artifacts
  <2> QED BY <1>2, <2>1 DEF PytestState
<1>11. o = [current EXCEPT !.processes = processes, !.start = start, !.error = error, !.pytest = pytest]
  BY <1>2 DEF ObservationState
<1> HIDE DEF start, error, processes, pytest, o
<1>12. /\ o \in ObservationState /\ o.name = "pytest" /\ o.processes = processes /\ o.start = start
       /\ o.error = error /\ o.coverage = current.coverage /\ o.pytest = pytest
  BY <1>2, <1>3, <1>7, <1>8, <1>9, <1>10, <1>11 DEF ObservationState
<1>13. ASSUME o.error = "none" PROVE Ran(o)
  <2>1. started /\ process.outcome = "exited" /\ process.code \in {0, 1, 5}
    BY <1>13, <1>7, <1>12
  <2>2. o.start # "none" /\ Len(o.processes) = 1
    BY <2>1, <1>8, <1>9, <1>12
  <2>3. o.processes[1] = process
    BY <1>8, <1>12
  <2> QED BY <1>12, <2>1, <2>2, <2>3 DEF Ran
<1>14. Len(o.processes) = 1 /\ ~Snapshot(o)
  <2>1. Len(o.processes) = 1
    BY <1>8, <1>12
  <2> QED BY <1>2, <1>12, <2>1 DEF Snapshot
<1>15. CASE ~Instrumented /\ Leaves(o)
  <2>1. o.coverage # NoCoverage => o.name = "pytest" /\ CoverageRequested(plan)
    BY <1>2, <1>12
  <2>2. ~(Len(o.processes) > 1)
    BY <1>14
  <2>3. Sound(plan, deps, forced, o)
    BY <1>13, <1>14, <2>1, <2>2, SoundIfNotConverted
  <2> QED BY <1>1, <1>3, <1>6, <1>12, <1>15, <2>3, LeavesKeeps
<1>16. CASE Instrumented /\ \E a \in {"data_missing", "unsupported_parallelism"} :
              Leaves([o EXCEPT !.coverage.artifact = a])
  <2>1. PICK a \in {"data_missing", "unsupported_parallelism"} : Leaves([o EXCEPT !.coverage.artifact = a])
    BY <1>16
  <2>2. a \in Unconverted
    BY DEF Unconverted, CoverageArtifact
  <2>3. CoverageRequested(plan) /\ o.coverage \in CoverageState
    BY <1>2, <1>12, <1>16 DEF Instrumented
  <2> QED BY <1>1, <1>6, <1>12, <1>13, <1>14, <2>1, <2>2, <2>3, LeftUnconverted
<1>17. CASE /\ Instrumented /\ current' = o /\ pc' = "coverage"
            /\ UNCHANGED <<invocation, plan, baseline, deps, checks, report, exit>>
  <2>1. CoverageRequested(plan) /\ o.coverage \in CoverageState
    BY <1>2, <1>12, <1>17 DEF Instrumented
  <2> QED BY <1>1, <1>6, <1>10, <1>12, <1>13, <1>14, <1>17, <2>1, ConversionIsNext
<1> QED BY <1>5, <1>15, <1>16, <1>17

-----------------------------------------------------------------------------
(* Coverage *)

LEMMA AtCoverage ==
  ASSUME SafeInv, pc = "coverage"
  PROVE  /\ pc \in InCheck /\ IsPytest /\ Name = "pytest" /\ CoverageRequested(plan)
         /\ current \in ObservationState /\ current.name = "pytest"
         /\ current.coverage \in CoverageState /\ current.pytest \in PytestState
         /\ Len(current.processes) = 1 /\ (current.error = "none" => Ran(current))
BY DEF SafeInv, TypeInv, OrderInv, SoundInv, InCheck, InWorkspace, Name, Index, IsPytest

LEMMA ConversionLosesUvKeeps ==
  ASSUME SafeInv, ConversionLosesUv
  PROVE  SafeInv' /\ Kept
<1>1. /\ pc = "coverage" /\ Leaves([current EXCEPT !.coverage.artifact = "generation_failed"])
      /\ env' = [env EXCEPT !.error = "unsafe_repository_environment"] /\ forced' = forced
  BY DEF ConversionLosesUv
<1>2. deviations' \in 0 .. DeviationBound
  BY DepartureIsBounded DEF ConversionLosesUv
<1>3. "generation_failed" \in Unconverted
  BY DEF Unconverted, CoverageArtifact
<1> QED BY <1>1, <1>2, <1>3, AtCoverage, LeftUnconverted

LEMMA DataRejectedKeeps ==
  ASSUME SafeInv, DataRejected
  PROVE  SafeInv' /\ Kept
<1>1. pc = "coverage" /\ env' = env /\ forced' = forced
  BY DEF DataRejected
<1>2. PICK artifact \in {"data_missing", "unexpected_parallel_data", "generation_failed"} :
        Leaves([current EXCEPT !.coverage.artifact = artifact])
  BY DEF DataRejected
<1>3. deviations' \in 0 .. DeviationBound
  BY DepartureIsBounded DEF DataRejected
<1>4. artifact \in Unconverted
  BY DEF Unconverted, CoverageArtifact
<1> QED BY <1>1, <1>2, <1>3, <1>4, AtCoverage, LeftUnconverted

(* The pytest result of an observation is that of its primary process and  *)
(* of its artifact.                                                        *)
LEMMA SameEvidenceSameResult ==
  ASSUME NEW p, NEW o, NEW q, NEW version, q.pytest = o.pytest, Primary(q) = Primary(o)
  PROVE  BuildPytestResult(p, q, version) = BuildPytestResult(p, o, version)
BY DEF BuildPytestResult, ValidationError

LEMMA PrimaryIsFirst ==
  ASSUME NEW o \in ObservationState, Len(o.processes) > 0
  PROVE  Primary(o) = o.processes[1]
<1>1. o.processes \in Seq(ProcessState)
  BY DEF ObservationState
<1>2. Len(<<>>) = 0 /\ o.processes # <<>>
  BY <1>1
<1> QED BY <1>1, <1>2 DEF Primary

(* The verdict that is passed over is that of an eligible session.         *)
LEMMA RetainedThreshold ==
  ASSUME RetainsThreshold
  PROVE  ~Reserved(current) /\ Eligible /\ plan.configured
BY DEF RetainsThreshold, SkippedReason, Eligible, GateEligible

LEMMA ConvertKeeps ==
  ASSUME SafeInv, Convert
  PROVE  SafeInv' /\ Kept
<1>1. pc = "coverage" /\ env' = env /\ forced' = (~Eligible \/ Reserved(current))
  BY DEF Convert
<1>2. /\ pc \in InCheck /\ IsPytest /\ Name = "pytest" /\ CoverageRequested(plan)
      /\ current \in ObservationState /\ current.name = "pytest"
      /\ current.coverage \in CoverageState /\ current.pytest \in PytestState
      /\ Len(current.processes) = 1 /\ (current.error = "none" => Ran(current))
  BY <1>1, AtCoverage
<1>3. PICK process \in {NotSpawned("coverage_json"), Signaled("coverage_json")}
                         \cup {Exited("coverage_json", code) : code \in {0, 1, 2}},
           sound, wellFormed \in BOOLEAN, document \in {"snapshot", "artifact_missing", "artifact_invalid"} :
        /\ process.outcome # "exited" \/ document # "snapshot" => wellFormed
        /\ Usual(ZeroExit(process) /\ sound /\ wellFormed /\ document = "snapshot")
        /\ Leaves([current EXCEPT
                     !.processes = Append(@, process),
                     !.coverage.artifact = ConvertedArtifact(process, sound, document),
                     !.coverage.jsonExit = process.code, !.coverage.wellFormed = wellFormed])
  BY DEF Convert
<1>4. deviations' \in 0 .. DeviationBound
  BY <1>3, UsualIsBounded
<1>5. /\ process \in ProcessState /\ process.outcome \in {"spawn_failed", "signaled", "exited"}
      /\ process.outcome = "exited" => process = Exited("coverage_json", process.code)
  <2>1. /\ \A code \in Int : Exited("coverage_json", code) \in ProcessState
        /\ NotSpawned("coverage_json") \in ProcessState /\ Signaled("coverage_json") \in ProcessState
    BY ProcessesAreTyped DEF Role
  <2>2. /\ \A code \in Int : /\ Exited("coverage_json", code).outcome = "exited"
                             /\ Exited("coverage_json", code).code = code
        /\ NotSpawned("coverage_json").outcome = "spawn_failed"
        /\ Signaled("coverage_json").outcome = "signaled"
    BY DEF Exited, NotSpawned, Signaled, Process
  <2>3. {0, 1, 2} \subseteq Int
    OBVIOUS
  <2> QED BY <2>1, <2>2, <2>3
<1> DEFINE artifact == ConvertedArtifact(process, sound, document)
           coverage == [current.coverage EXCEPT !.artifact = artifact, !.jsonExit = process.code,
                                                !.wellFormed = wellFormed]
           processes == Append(current.processes, process)
           o == [current EXCEPT
                   !.processes = Append(@, process),
                   !.coverage.artifact = ConvertedArtifact(process, sound, document),
                   !.coverage.jsonExit = process.code, !.coverage.wellFormed = wellFormed]
<1>6. /\ artifact \in CoverageArtifact
      /\ artifact = "snapshot" =>
           process.outcome = "exited" /\ (process.code = 0 \/ (process.code = 2 /\ RetainsThreshold))
  <2>1. CASE process.outcome = "exited" /\ sound
    BY <2>1 DEF ConvertedArtifact, CoverageArtifact
  <2>2. CASE process.outcome = "exited" /\ ~sound
    BY <2>2 DEF ConvertedArtifact, CoverageArtifact
  <2>3. CASE process.outcome = "signaled"
    BY <2>3 DEF ConvertedArtifact, CoverageArtifact
  <2>4. CASE process.outcome = "spawn_failed"
    BY <2>4 DEF ConvertedArtifact, CoverageArtifact
  <2> QED BY <1>5, <2>1, <2>2, <2>3, <2>4
<1>7. Leaves(o)
  BY <1>3
<1>8. o = [current EXCEPT !.processes = processes, !.coverage = coverage]
  OBVIOUS
<1> HIDE DEF o, artifact
<1>9. coverage \in CoverageState /\ coverage.artifact = artifact /\ coverage.jsonExit = process.code
  <2>1. process.code \in Int
    BY <1>5 DEF ProcessState
  <2> QED BY <1>2, <1>6, <2>1 DEF CoverageState
<1>10. /\ processes \in Seq(ProcessState) /\ Len(processes) = 2
       /\ processes[1] = current.processes[1] /\ processes[2] = process
  <2> DEFINE before == current.processes
  <2>1. before \in Seq(ProcessState) /\ Len(before) = 1
    BY <1>2 DEF ObservationState
  <2> HIDE DEF before
  <2>2. /\ Append(before, process) \in Seq(ProcessState) /\ Len(Append(before, process)) = 2
        /\ Append(before, process)[1] = before[1] /\ Append(before, process)[2] = process
    BY <1>5, <2>1
  <2> QED BY <2>2 DEF before
<1> HIDE DEF coverage, processes
<1>11. /\ o \in ObservationState /\ o.name = "pytest" /\ o.processes = processes
       /\ o.start = current.start /\ o.error = current.error /\ o.coverage = coverage
       /\ o.pytest = current.pytest
  BY <1>2, <1>8, <1>9, <1>10 DEF ObservationState
<1>12. Len(o.processes) = 2 /\ o.processes[1] = current.processes[1] /\ o.processes[2] = process
  BY <1>10, <1>11
<1>13. Primary(o) = Primary(current)
  <2>1. Len(o.processes) > 0 /\ Len(current.processes) > 0
    BY <1>2, <1>12
  <2> QED BY <1>2, <1>11, <1>12, <2>1, PrimaryIsFirst
<1>14. /\ Eligible = GateEligible(plan, PytestOf(plan, deps, o), TRUE)
       /\ Reserved(o) = Reserved(current)
  <2>1. Owner = DependencyOf(deps, "pytest")
    BY <1>2 DEF Owner, DependencyNameForCheck
  <2>2. BuildPytestResult(plan, o, Owner.version) = BuildPytestResult(plan, current, Owner.version)
    BY <1>11, <1>13, SameEvidenceSameResult
  <2>3. CurrentPytest(current) = PytestOf(plan, deps, o)
    BY <2>1, <2>2 DEF CurrentPytest, PytestOf
  <2> QED BY <1>11, <1>13, <2>3 DEF Eligible, Reserved
<1>15. ASSUME Snapshot(o) PROVE Converted(plan, deps, forced', o)
  <2>1. artifact = "snapshot"
    BY <1>15, <1>9, <1>11 DEF Snapshot
  <2>2. process.outcome = "exited" /\ (process.code = 0 \/ (process.code = 2 /\ RetainsThreshold))
    BY <2>1, <1>6
  <2>3. o.coverage.jsonExit = process.code /\ o.processes[2] = Exited("coverage_json", process.code)
    BY <2>2, <1>5, <1>9, <1>11, <1>12
  <2>4. RetainsThreshold => ~forced' /\ plan.configured /\ Eligible
    BY <1>1, RetainedThreshold
  <2>5. o.pytest \in PytestState
    BY <1>2, <1>11
  <2> QED BY <2>2, <2>3, <2>4, <2>5, <1>1, <1>12, <1>14 DEF Converted
<1>16. Sound(plan, deps, forced', o)
  <2>1. ASSUME o.error = "none" PROVE Ran(o)
    <3>1. Ran(current)
      BY <2>1, <1>2, <1>11
    <3>2. Len(o.processes) > 0
      BY <1>12
    <3> QED BY <3>1, <3>2, <1>2, <1>11, <1>12 DEF Ran
  <2> QED BY <2>1, <1>2, <1>11, <1>15 DEF Sound
<1>17. forced' \in BOOLEAN
  BY <1>1
<1> QED BY <1>1, <1>2, <1>4, <1>7, <1>11, <1>16, <1>17, LeavesKeeps

-----------------------------------------------------------------------------
(* The end of a Check *)

LEMMA LaunchLosesUvKeeps ==
  ASSUME SafeInv, LaunchLosesUv
  PROVE  SafeInv' /\ Kept
<1>1. /\ pc = "launch" /\ pc' = "verify" /\ checks' = checks \o GivenUpFrom(Index)
      /\ env' = [env EXCEPT !.error = "unsafe_repository_environment"]
      /\ UNCHANGED <<invocation, plan, baseline, deps, forced, report, exit>>
  BY DEF LaunchLosesUv, Launches, GiveUpFrom
<1>2. deviations' \in 0 .. DeviationBound
  BY DepartureIsBounded DEF LaunchLosesUv
<1>3. pc \in InCheck /\ pc \notin Early /\ pc \notin {"plan", "done"}
  BY <1>1 DEF InCheck, InWorkspace, Early
<1>4. SoundPlan(plan) /\ ~Refused
  BY <1>3, UnderWay
<1>5. InPlanOrder(plan, deps, forced, checks) /\ Probed(plan, deps)
  BY <1>3, <1>4, ObservedSoFar
<1>6. checks \in Seq(ObservationState) /\ deps \in Seq(DependencyState)
  BY DEF SafeInv, TypeInv
<1>7. Len(deps') = Len(RequiredDependencies(plan)) /\ deps' = deps
  BY <1>1, <1>3, <1>4 DEF SafeInv, DepsInv
<1>8. checks' = checks \o GivenUpFrom(Len(checks) + 1)
  BY <1>1 DEF Index
<1>9. IsPrefix(checks, checks')
  <2>1. GivenUpFrom(Len(checks) + 1) \in Seq(ObservationState)
    BY <1>4, <1>5, GivenUpCompletes
  <2> QED BY <2>1, <1>6, <1>8, PrefixOfConcat
<1>10. IsPrefix(deps, deps')
  BY <1>6, <1>7, PrefixOfItself
<1>11. env' \in EnvironmentState /\ env'.error # "none" /\ env'.processes = env.processes
       /\ env'.protection = env.protection
  BY <1>1 DEF SafeInv, TypeInv, EnvironmentState, EnvironmentError
<1> QED BY <1>1, <1>2, <1>3, <1>5, <1>6, <1>7, <1>8, <1>9, <1>10, <1>11, GiveUpKeeps

LEMMA JoinsKeeps ==
  ASSUME SafeInv, pc = "close", NEW o \in ObservationState, Joins(o), o.name = Name,
         Sound(plan, deps, forced, o), deviations' \in 0 .. DeviationBound
  PROVE  SafeInv' /\ Kept
<1>1. pc \in InCheck /\ pc \notin Early /\ pc \notin {"plan", "done"}
  BY DEF InCheck, InWorkspace, Early
<1>2. SoundPlan(plan) /\ ~Refused
  BY <1>1, UnderWay
<1>3. InPlanOrder(plan, deps, forced, checks) /\ Probed(plan, deps) /\ Len(plan.checks) \in Nat
  BY <1>1, <1>2, ObservedSoFar
<1>4. checks \in Seq(ObservationState) /\ deps \in Seq(DependencyState)
      /\ env.processes \in Seq(ProcessState) /\ env \in EnvironmentState
  BY DEF SafeInv, TypeInv, EnvironmentState
<1>5. CASE env.error = "none"
  <2>1. Ends(o)
    BY <1>5 DEF Joins
  <2> QED BY <1>5, <2>1, EndsKeeps
<1>6. CASE env.error # "none"
  <2> DEFINE done == Append(checks, o)
  <2>1. /\ checks' = done \o GivenUpFrom(Index + 1) /\ pc' = "verify"
        /\ UNCHANGED <<invocation, plan, baseline, env, deps, forced, report, exit>>
    BY <1>6 DEF Joins, GiveUpFrom
  <2>2. Len(checks) < Len(plan.checks) /\ o.name = plan.checks[Len(checks) + 1]
    BY <1>1 DEF SafeInv, OrderInv, Name, Index
  <2>3. InPlanOrder(plan, deps, forced, done) /\ Len(done) = Len(checks) + 1
    BY <1>3, <2>2, OneMoreIsObserved
  <2>4. done = checks \o <<o>> /\ done \in Seq(ObservationState) /\ <<o>> \in Seq(ObservationState)
    BY <1>4
  <2>5. Index + 1 = Len(done) + 1
    BY <2>3 DEF Index
  <2> HIDE DEF done
  <2>6. checks' = done \o GivenUpFrom(Len(done) + 1)
    BY <2>1, <2>5
  <2>7. GivenUpFrom(Len(done) + 1) \in Seq(ObservationState)
    BY <1>2, <2>3, GivenUpCompletes
  <2>8. IsPrefix(checks, checks')
    BY <1>4, <2>4, <2>6, <2>7, PrefixIsTransitive
  <2>9. /\ deps' = deps /\ IsPrefix(deps, deps') /\ Len(deps') = Len(RequiredDependencies(plan))
        /\ Probed(plan, deps') /\ InPlanOrder(plan, deps', forced, done)
    BY <1>1, <1>2, <1>3, <1>4, <2>1, <2>3, PrefixOfItself DEF SafeInv, DepsInv
  <2> QED BY <1>1, <1>4, <1>6, <2>1, <2>4, <2>6, <2>8, <2>9, GiveUpKeeps
<1> QED BY <1>5, <1>6

LEMMA AtClose ==
  ASSUME SafeInv, pc = "close"
  PROVE  current \in ObservationState /\ current.name = Name /\ Sound(plan, deps, forced, current)
BY DEF SafeInv, TypeInv, OrderInv, SoundInv, InWorkspace, InCheck, Name, Index

LEMMA CloseWorkspaceKeeps ==
  ASSUME SafeInv, CloseWorkspace
  PROVE  SafeInv' /\ Kept
<1>1. pc = "close" /\ Joins(current) /\ deviations' \in 0 .. DeviationBound
  BY DEF CloseWorkspace, SafeInv, TypeInv
<1> QED BY <1>1, AtClose, JoinsKeeps

LEMMA CloseFailsKeeps ==
  ASSUME SafeInv, CloseFails
  PROVE  SafeInv' /\ Kept
<1> DEFINE o == [current EXCEPT !.error = "cleanup_failed"]
<1>1. pc = "close" /\ Joins(o)
  BY DEF CloseFails
<1>2. deviations' \in 0 .. DeviationBound
  BY DepartureIsBounded DEF CloseFails
<1>3. current \in ObservationState /\ current.name = Name /\ Sound(plan, deps, forced, current)
  BY <1>1, AtClose
<1>4. "cleanup_failed" \in CheckError
  BY DEF CheckError
<1>5. /\ o \in ObservationState /\ o.name = current.name /\ o.error = "cleanup_failed"
      /\ o.processes = current.processes /\ o.start = current.start
      /\ o.pytest = current.pytest /\ o.coverage = current.coverage
  BY <1>3, <1>4 DEF ObservationState
<1> HIDE DEF o
<1>6. Primary(o) = Primary(current)
  BY <1>5 DEF Primary
<1>7. /\ PytestOf(plan, deps, o) = PytestOf(plan, deps, current)
      /\ Reserved(o) = Reserved(current)
  BY <1>5, <1>6, SameEvidenceSameResult DEF PytestOf, Reserved
<1>8. Sound(plan, deps, forced, o)
  BY <1>3, <1>5, <1>7 DEF Sound, Snapshot, Converted
<1> QED BY <1>1, <1>2, <1>3, <1>5, <1>8, JoinsKeeps

-----------------------------------------------------------------------------
(* Verification and report *)

LEMMA VerificationsAre ==
  ASSUME NEW found \in Verifications, baseline \in {"git", "plain"}
  PROVE  /\ found.processes \in Seq(ProcessState)
         /\ found.protection \in {"unobserved", BaselineProtection}
         /\ found.error \in {"none", "repository_state_changed"}
         /\ found.error = "none" => found.protection = BaselineProtection
<1> DEFINE F(processes, protection, error) ==
             [processes |-> processes, protection |-> protection, error |-> error]
<1>1. /\ Safety(0) \in ProcessState /\ Safety(1) \in ProcessState
      /\ NotSpawned("repository_safety") \in ProcessState
  BY ProcessesAreTyped DEF Safety, Role
<1>2. BaselineProtection = IF baseline = "git" THEN "tracked_files" ELSE "protected_files"
  BY DEF BaselineProtection
<1>3. PICK processes \in {<<>>, <<Safety(0)>>, <<Safety(1)>>, <<NotSpawned("repository_safety")>>},
           protection \in {"unobserved", BaselineProtection},
           error \in {"none", "repository_state_changed"} :
        found = F(processes, protection, error) /\ (error = "none" => protection = BaselineProtection)
  <2>1. CASE baseline = "git"
    BY <2>1, <1>2 DEF Verifications
  <2>2. CASE baseline # "git"
    BY <2>2, <1>2 DEF Verifications
  <2> QED BY <2>1, <2>2
<1>4. processes \in Seq(ProcessState)
  <2>1. <<>> \in Seq(ProcessState)
    OBVIOUS
  <2>2. /\ <<Safety(0)>> \in Seq(ProcessState) /\ <<Safety(1)>> \in Seq(ProcessState)
        /\ <<NotSpawned("repository_safety")>> \in Seq(ProcessState)
    BY <1>1, OneProcess
  <2> QED BY <2>1, <2>2
<1>5. found.processes = processes /\ found.protection = protection /\ found.error = error
  BY <1>3
<1> QED BY <1>3, <1>4, <1>5

LEMMA VerifyKeeps ==
  ASSUME SafeInv, Verify
  PROVE  SafeInv' /\ Kept
<1>1. PICK found \in Verifications, helperLost \in BOOLEAN :
        /\ deviations' = deviations + (IF found.error = "none" THEN 0 ELSE 1)
                                    + (IF helperLost THEN 1 ELSE 0)
        /\ deviations' <= DeviationBound
        /\ env' = [env EXCEPT
                     !.processes = @ \o found.processes, !.protection = found.protection,
                     !.error = FinalError(found, helperLost)]
  BY DEF Verify
<1>2. /\ pc = "verify" /\ pc' = "report"
      /\ UNCHANGED <<invocation, plan, baseline, deps, checks, current, forced, report, exit>>
  BY DEF Verify
<1>3. SoundPlan(plan) /\ ~Refused /\ report = "none" /\ exit = NoCode
  BY <1>2, UnderWay
<1>4. env \in EnvironmentState /\ env.processes \in Seq(ProcessState) /\ env.error \in EnvironmentError
  BY DEF SafeInv, TypeInv, EnvironmentState
<1>5. baseline \in {"git", "plain"}
  BY <1>2 DEF SafeInv, TypeInv, EnvInv
<1>6. /\ found.processes \in Seq(ProcessState)
      /\ found.protection \in {"unobserved", BaselineProtection}
      /\ found.error \in {"none", "repository_state_changed"}
      /\ found.error = "none" => found.protection = BaselineProtection
  BY <1>5, VerificationsAre
<1>7. deviations' \in 0 .. DeviationBound
  <2>1. deviations \in Nat /\ DeviationBound \in Nat
    BY DeviationAssumption DEF SafeInv, TypeInv
  <2>2. deviations' \in Nat
    BY <1>1, <2>1
  <2> QED BY <1>1, <2>1, <2>2
<1> DEFINE error == FinalError(found, helperLost)
           processes == env.processes \o found.processes
<1>8. /\ error \in EnvironmentError /\ (env.error # "none" => error # "none")
      /\ error = "none" => env.error = "none" /\ found.error = "none"
  <2>1. "unsafe_repository_environment" \in EnvironmentError /\ "repository_state_changed" \in EnvironmentError
    BY DEF EnvironmentError
  <2>2. CASE helperLost
    BY <2>1, <2>2 DEF FinalError
  <2>3. CASE ~helperLost /\ found.error # "none"
    BY <2>1, <2>3, <1>6 DEF FinalError
  <2>4. CASE ~helperLost /\ found.error = "none"
    BY <2>4, <1>4 DEF FinalError
  <2> QED BY <2>2, <2>3, <2>4
<1>9. processes \in Seq(ProcessState) /\ IsPrefix(env.processes, processes)
  BY <1>4, <1>6, PrefixOfConcat
<1>10. env' = [env EXCEPT !.processes = processes, !.protection = found.protection, !.error = error]
  BY <1>1
<1> HIDE DEF error, processes
<1>11. found.protection \in {"unobserved", "tracked_files", "protected_files"}
  BY <1>5, <1>6 DEF BaselineProtection
<1>12. /\ env' \in EnvironmentState /\ env'.processes = processes /\ env'.protection = found.protection
       /\ env'.error = error /\ env'.lock = env.lock /\ env'.python = env.python
  BY <1>4, <1>8, <1>9, <1>10, <1>11 DEF EnvironmentState
<1>13. TypeInv'
  BY <1>2, <1>7, <1>12 DEF SafeInv, TypeInv, Steps, Ending, InWorkspace
<1>14. PlanInv'
  BY <1>2, <1>3 DEF SafeInv, PlanInv, Refused
<1>15. DepsInv' /\ OrderInv'
  BY <1>2, <1>3 DEF SafeInv, DepsInv, OrderInv, Early, InCheck, InWorkspace, Ending, Refused
<1>16. EnvInv'
  <2>1. BaselineProtection' = BaselineProtection
    BY <1>2 DEF BaselineProtection
  <2> QED BY <1>2, <1>3, <1>6, <1>8, <1>12, <2>1 DEF SafeInv, EnvInv, Early, InCheck, InWorkspace, Ending, Refused
<1>17. SoundInv'
  BY <1>2 DEF SafeInv, SoundInv
<1>18. ExitInv'
  BY <1>2, <1>3 DEF ExitInv
<1>19. Kept
  <2>1. deps \in Seq(DependencyState) /\ checks \in Seq(ObservationState)
    BY DEF SafeInv, TypeInv
  <2> QED BY <1>2, <1>8, <1>9, <1>12, <2>1, PrefixOfItself DEF Kept
<1> QED BY <1>13, <1>14, <1>15, <1>16, <1>17, <1>18, <1>19 DEF SafeInv

LEMMA ReportKeeps ==
  ASSUME SafeInv, Report
  PROVE  SafeInv' /\ Kept
<1>1. /\ pc = "report" /\ pc' = "done"
      /\ UNCHANGED <<invocation, plan, baseline, env, deps, checks, current, forced, deviations>>
  BY DEF Report
<1>2. SoundPlan(plan) /\ ~Refused
  BY <1>1, UnderWay
<1>3. \/ report' = "shown" /\ exit' = SelectExitCode(Built)
      \/ report' = "refused" /\ exit' = 2
  BY DEF Report
<1>4. ~Refused'
  BY <1>3 DEF Refused
<1>5. Built' = Built
  BY <1>1 DEF Built
<1>6. TypeInv'
  BY <1>1 DEF SafeInv, TypeInv, Steps, Ending, InWorkspace
<1>7. PlanInv'
  BY <1>1, <1>2, <1>4 DEF SafeInv, PlanInv
<1>8. DepsInv' /\ OrderInv'
  BY <1>1, <1>2, <1>4 DEF SafeInv, DepsInv, OrderInv, Early, InCheck, InWorkspace, Ending
<1>9. EnvInv'
  BY <1>1, <1>2, <1>4 DEF SafeInv, EnvInv, Early, InCheck, InWorkspace, Ending, BaselineProtection
<1>10. SoundInv'
  BY <1>1 DEF SafeInv, SoundInv
<1>11. ExitInv'
  BY <1>1, <1>3, <1>5 DEF ExitInv
<1>12. Kept
  BY <1>1, NothingNewIsKept
<1> QED BY <1>6, <1>7, <1>8, <1>9, <1>10, <1>11, <1>12 DEF SafeInv

LEMMA StutterKeeps ==
  ASSUME SafeInv, UNCHANGED vars
  PROVE  SafeInv'
<1>1. TypeInv'
  BY DEF SafeInv, TypeInv, vars
<1>2. PlanInv'
  BY DEF SafeInv, PlanInv, Refused, vars
<1>3. DepsInv' /\ OrderInv'
  BY DEF SafeInv, DepsInv, OrderInv, Refused, vars
<1>4. EnvInv'
  BY DEF SafeInv, EnvInv, Refused, BaselineProtection, vars
<1>5. SoundInv'
  BY DEF SafeInv, SoundInv, vars
<1>6. ExitInv'
  <2>1. Built' = Built
    BY DEF Built, vars
  <2> QED BY <2>1 DEF SafeInv, ExitInv, Refused, vars
<1> QED BY <1>1, <1>2, <1>3, <1>4, <1>5, <1>6 DEF SafeInv

(* Every step keeps the invariant and what was observed.                   *)
LEMMA NextKeeps ==
  ASSUME SafeInv, Next
  PROVE  SafeInv' /\ Kept
BY RefuseKeeps, PlanKeeps, LockPresentKeeps, LockRejectedKeeps, CaptureBaselineKeeps,
   BaselineFailsKeeps, UvRejectedKeeps, RunUvVersionKeeps, UvChangesBeforeProbeKeeps,
   RunProbeKeeps, ProbeDependencyKeeps, ProbingLosesUvKeeps, DependencyUnavailableKeeps,
   CreateFailsKeeps, SetupFailsKeeps, EnterWorkspaceKeeps, PytestUnavailableKeeps,
   StagingFailsKeeps, MarkerUnpreparedKeeps, LaunchLosesUvKeeps, RunOrdinaryKeeps,
   RunPytestKeeps, ConversionLosesUvKeeps, DataRejectedKeeps, ConvertKeeps,
   CloseWorkspaceKeeps, CloseFailsKeeps, VerifyKeeps, ReportKeeps
   DEF Next

LEMMA StepSafe == SafeInv /\ [Next]_vars => SafeInv'
BY NextKeeps, StutterKeeps

(* The inductive invariant: a plan that was not refused is followed in its *)
(* order, and every Check that ended without an error was seen to run.     *)
THEOREM SpecIsSafe == Spec => []SafeInv
BY InitSafe, StepSafe, PTL DEF Spec

-----------------------------------------------------------------------------
(* What the report says *)

\* At most one Check of a run is that of pytest.
IsThePytest(done, i) ==
  /\ i \in 1 .. Len(done) /\ done[i].name = "pytest"
  /\ \A j \in 1 .. Len(done) : done[j].name = "pytest" => j = i

LEMMA PytestOfReport ==
  ASSUME NEW p, NEW e, NEW observed, NEW done, NEW i \in Nat, IsThePytest(done, i)
  PROVE  LET r == BuildRunReport(p, e, observed, done)
         IN /\ r.pytest = ReportedPytest(p, e, done[i], DependencyOf(observed, "pytest"))
            /\ r.coverage = IF ~CoverageRequested(p) THEN NoCoverageResult
                            ELSE BuildCoverageResult(p, r.pytest, done[i].coverage,
                                                     DependencyOf(observed, "coverage").version)
<1> DEFINE I == {j \in 1 .. Len(done) : done[j].name = "pytest"}
<1>1. I = {i}
  BY DEF IsThePytest
<1>2. Min({i}) = i
  <2>1. \E least \in {i} : \A n \in {i} : least <= n
    OBVIOUS
  <2>2. Min({i}) \in {i}
    BY <2>1 DEF Min
  <2> QED BY <2>2
<1>3. SelectInSeq(done, LAMBDA o : o.name = "pytest") = IF I # {} THEN Min(I) ELSE 0
  BY DEF SelectInSeq
<1> HIDE DEF I
<1>4. SelectInSeq(done, LAMBDA o : o.name = "pytest") = i /\ i # 0
  <2>1. i # 0
    BY DEF IsThePytest
  <2>2. I # {}
    BY <1>1
  <2> QED BY <1>1, <1>2, <1>3, <2>1, <2>2
<1> QED BY <1>4 DEF BuildRunReport

LEMMA ReportWithoutPytest ==
  ASSUME NEW p, NEW e, NEW observed, NEW done,
         \A j \in 1 .. Len(done) : done[j].name # "pytest"
  PROVE  BuildRunReport(p, e, observed, done).pytest = NoPytestResult
<1> DEFINE I == {j \in 1 .. Len(done) : done[j].name = "pytest"}
<1>1. I = {}
  OBVIOUS
<1>2. SelectInSeq(done, LAMBDA o : o.name = "pytest") = IF I # {} THEN Min(I) ELSE 0
  BY DEF SelectInSeq
<1>3. SelectInSeq(done, LAMBDA o : o.name = "pytest") = 0
  BY <1>1, <1>2
<1> QED BY <1>3 DEF BuildRunReport

LEMMA RestOfReport ==
  ASSUME NEW p, NEW e, NEW observed, NEW done
  PROVE  LET r == BuildRunReport(p, e, observed, done)
         IN /\ r.plan = p /\ r.env = e /\ r.deps = observed
            /\ r.checks = [i \in DOMAIN done |-> CheckResult(done[i], r.pytest)]
BY DEF BuildRunReport

LEMMA UnrequestedCoverage ==
  ASSUME NEW p, NEW e, NEW observed, NEW done
  PROVE  ~CoverageRequested(p) => BuildRunReport(p, e, observed, done).coverage = NoCoverageResult
BY DEF BuildRunReport

LEMMA SessionResultIs ==
  ASSUME NEW p, NEW session, NEW version, NEW code
  PROVE  LET r == SessionResult(p, session, version, code)
         IN /\ r.evidence /\ r.exitCode = code /\ r.status = ExitStatus(code)
            /\ r.complete = SessionComplete(session, code)
            /\ r.reasons = {} => ~session.narrowed
BY DEF SessionResult, PytestResult

(* A result without evidence is an error; one with it is that of a session *)
(* whose artifact was valid.                                               *)
LEMMA PytestResultIs ==
  ASSUME NEW p, NEW e, NEW o, o.pytest \in PytestState \cup {NoPytest}, NEW dependency
  PROVE  LET r == ReportedPytest(p, e, o, dependency)
         IN /\ \/ /\ r.evidence /\ o.pytest \in PytestState /\ o.pytest.artifact = "valid"
                  /\ r = BuildPytestResult(p, o, dependency.version)
                  /\ r = SessionResult(p, o.pytest.session, dependency.version, Primary(o).code)
               \/ ~r.evidence /\ r.status = "error" /\ ~r.complete
<1> DEFINE r == ReportedPytest(p, e, o, dependency)
           error == ValidationError(o)
<1>1. \A version, code, why : LET f == PytestFailure(p, why, version, code)
                              IN ~f.evidence /\ f.status = "error" /\ ~f.complete
  BY DEF PytestFailure, PytestResult
<1>2. CASE o.pytest = NoPytest
  BY <1>1, <1>2 DEF ReportedPytest
<1>3. CASE o.pytest # NoPytest /\ error # "none"
  BY <1>1, <1>3 DEF ReportedPytest, BuildPytestResult
<1>4. CASE o.pytest # NoPytest /\ error = "none"
  <2>1. o.pytest \in PytestState /\ r = BuildPytestResult(p, o, dependency.version)
    BY <1>4 DEF ReportedPytest
  <2>2. r = SessionResult(p, o.pytest.session, dependency.version, Primary(o).code)
    BY <1>4, <2>1 DEF BuildPytestResult
  <2>3. o.pytest.artifact = "valid"
    <3> DEFINE pytest == o.pytest
               primary == Primary(o)
    <3>1. error = IF pytest.classification # "supported" THEN pytest.classification
                  ELSE IF primary = NoProcess THEN "not_started"
                  ELSE IF primary.outcome = "spawn_failed" THEN "spawn_failed"
                  ELSE IF primary.outcome = "signaled" THEN "terminated_by_signal"
                  ELSE ArtifactError(pytest.artifact)
      BY DEF ValidationError
    <3>2. /\ pytest.classification \in {"supported", "module_unavailable", "unsupported_version",
                                        "preflight_invalid", "not_started"}
          /\ pytest.artifact \in {"valid"} \cup RefusedArtifacts
      BY <2>1 DEF PytestState
    <3> HIDE DEF pytest, primary, error
    <3>3. pytest.classification = "supported"
      BY <1>4, <3>1, <3>2
    <3>4. ArtifactError(pytest.artifact) = "none"
      BY <1>4, <3>1, <3>3
    <3>5. pytest.artifact = "valid"
      BY <3>2, <3>4 DEF ArtifactError, RefusedArtifacts
    <3> QED BY <3>5 DEF pytest
  <2>4. r.evidence
    BY <2>2, SessionResultIs
  <2> QED BY <2>1, <2>2, <2>3, <2>4
<1> QED BY <1>2, <1>3, <1>4

(* Coverage is measured from a snapshot, and it is judged if a threshold   *)
(* is configured and the session is eligible.                              *)
LEMMA CoverageResultIs ==
  ASSUME NEW p, NEW pytest, NEW o, o.coverage \in CoverageState \cup {NoCoverage}, NEW version
  PROVE  LET r == BuildCoverageResult(p, pytest, o.coverage, version)
             json == o.coverage.jsonExit
             evaluated == p.configured /\ GateEligible(p, pytest, TRUE)
         IN /\ r.status # "none"
            /\ r.status = "error" => ~r.complete /\ r.passed = "none"
            /\ r.status # "error" =>
                 /\ Snapshot(o) /\ o.coverage.wellFormed
                 /\ json = 0 \/ (json = 2 /\ evaluated)
                 /\ r.passed = IF ~evaluated THEN "none" ELSE IF json = 0 THEN "yes" ELSE "no"
                 /\ (r.status = "failed") <=> (evaluated /\ json # 0)
<1> DEFINE r == BuildCoverageResult(p, pytest, o.coverage, version)
           json == o.coverage.jsonExit
           eligible == GateEligible(p, pytest, TRUE)
           evaluated == p.configured /\ eligible
           error == CoverageObservationError(o.coverage)
           trusted == TrustedCoverageVersion(o.coverage, version)
           measured == MeasuredCoverage(p, pytest, o.coverage, trusted)
           passed == IF ~evaluated THEN "none" ELSE IF json = 0 THEN "yes" ELSE "no"
<1>1. \A v, why : LET f == CoverageErrorResult(p, v, why)
                  IN f.status = "error" /\ ~f.complete /\ f.passed = "none"
  BY DEF CoverageErrorResult, CoverageResult
<1>2. r = IF error # "none" THEN CoverageErrorResult(p, CoverageErrorVersion(trusted, error), error)
          ELSE measured
  BY DEF BuildCoverageResult
<1>3. error = "none" => Snapshot(o)
  <2> SUFFICES ASSUME error = "none" PROVE Snapshot(o)
    OBVIOUS
  <2> DEFINE c == o.coverage
  <2>1. error = IF c = NoCoverage THEN "preflight_invalid"
                ELSE IF c.classification # "supported" THEN c.classification
                ELSE IF c.artifact = "not_attempted" THEN "data_missing"
                ELSE IF c.artifact = "snapshot" THEN "none"
                ELSE c.artifact
    BY DEF CoverageObservationError
  <2>2. c # NoCoverage => /\ c.classification # "none" /\ c.artifact # "none"
    BY DEF CoverageState, CoverageArtifact
  <2> HIDE DEF c, error
  <2>3. c # NoCoverage /\ c.artifact = "snapshot"
    BY <2>1, <2>2
  <2> QED BY <2>3 DEF Snapshot, c
<1>4. \/ measured.status = "error" /\ ~measured.complete /\ measured.passed = "none"
      \/ /\ o.coverage.wellFormed /\ measured.passed = passed
         /\ measured.status = (IF ~eligible THEN "guidance"
                               ELSE IF passed = "no" THEN "failed" ELSE "passed")
         /\ json = 0 \/ (json = 2 /\ evaluated)
  <2>1. CASE json # 0 /\ ~(json = 2 /\ evaluated)
    BY <1>1, <2>1 DEF MeasuredCoverage
  <2>2. CASE /\ ~(json # 0 /\ ~(json = 2 /\ evaluated))
             /\ ~o.coverage.wellFormed \/ SkippedReason(p, pytest, TRUE, p.configured) = "evidence_error"
    BY <1>1, <2>2 DEF MeasuredCoverage
  <2>3. CASE /\ ~(json # 0 /\ ~(json = 2 /\ evaluated))
             /\ ~(~o.coverage.wellFormed \/ SkippedReason(p, pytest, TRUE, p.configured) = "evidence_error")
    BY <2>3 DEF MeasuredCoverage, CoverageResult
  <2> QED BY <2>1, <2>2, <2>3
<1> HIDE DEF r, json, eligible, error, trusted, measured
<1>5. /\ r.status # "none"
      /\ r.status = "error" => ~r.complete /\ r.passed = "none"
      /\ r.status # "error" =>
           /\ Snapshot(o) /\ o.coverage.wellFormed
           /\ json = 0 \/ (json = 2 /\ evaluated)
           /\ r.passed = passed
           /\ (r.status = "failed") <=> (evaluated /\ json # 0)
  <2>1. CASE error # "none"
    BY <1>1, <1>2, <2>1
  <2>2. CASE error = "none"
    <3>1. r = measured
      BY <1>2, <2>2
    <3> QED BY <1>3, <1>4, <2>2, <3>1
  <2> QED BY <2>1, <2>2
<1> QED BY <1>5 DEF r, json, eligible

-----------------------------------------------------------------------------
(* The properties *)

LEMMA ReportedIs ==
  ASSUME SafeInv, report = "shown"
  PROVE  /\ pc = "done" /\ ~Refused /\ exit = SelectExitCode(Built)
         /\ SoundPlan(plan) /\ Len(plan.checks) \in Nat /\ Len(checks) = Len(plan.checks)
         /\ InPlanOrder(plan, deps, forced, checks)
<1>1. pc = "done" /\ ~Refused /\ exit = SelectExitCode(Built)
  BY DEF SafeInv, ExitInv, Refused
<1>2. pc \notin Early
  BY <1>1 DEF Early
<1> QED BY <1>1, <1>2, ObservedSoFar DEF SafeInv, OrderInv, Ending

(* The Check of pytest, its result and its coverage in the report.         *)
LEMMA PytestInReport ==
  ASSUME SafeInv, report = "shown", NEW i \in 1 .. Len(checks), checks[i].name = "pytest"
  PROVE  LET o == checks[i]
         IN /\ o \in ObservationState /\ Sound(plan, deps, forced, o) /\ IsThePytest(checks, i)
            /\ Built.pytest = ReportedPytest(plan, env, o, DependencyOf(deps, "pytest"))
            /\ \/ /\ Built.pytest.evidence /\ o.pytest \in PytestState
                  /\ o.pytest.artifact = "valid" /\ Built.pytest = PytestOf(plan, deps, o)
                  /\ Built.pytest.exitCode = Primary(o).code
                  /\ Built.pytest.status = ExitStatus(Primary(o).code)
                  /\ Built.pytest.complete = SessionComplete(o.pytest.session, Primary(o).code)
                  /\ Built.pytest.reasons = {} => ~o.pytest.session.narrowed
               \/ ~Built.pytest.evidence /\ Built.pytest.status = "error" /\ ~Built.pytest.complete
            /\ CoverageRequested(plan) =>
                 Built.coverage = BuildCoverageResult(plan, Built.pytest, o.coverage,
                                                      DependencyOf(deps, "coverage").version)
<1> DEFINE o == checks[i]
           r == Built
<1>1. /\ SoundPlan(plan) /\ InPlanOrder(plan, deps, forced, checks)
      /\ Len(plan.checks) \in Nat /\ Len(checks) = Len(plan.checks)
  BY ReportedIs
<1>2. o \in ObservationState /\ Sound(plan, deps, forced, o)
  BY <1>1 DEF InPlanOrder
<1>3. IsThePytest(checks, i) /\ i \in Nat
  BY <1>1 DEF IsThePytest, InPlanOrder, SoundPlan, Distinct
<1>4. /\ r.pytest = ReportedPytest(plan, env, o, DependencyOf(deps, "pytest"))
      /\ r.coverage = IF ~CoverageRequested(plan) THEN NoCoverageResult
                      ELSE BuildCoverageResult(plan, r.pytest, o.coverage,
                                               DependencyOf(deps, "coverage").version)
  BY <1>3, PytestOfReport DEF Built
<1>5. o.pytest \in PytestState \cup {NoPytest}
  BY <1>2 DEF ObservationState
<1> DEFINE owner == DependencyOf(deps, "pytest")
           result == r.pytest
<1>6. \/ /\ result.evidence /\ o.pytest \in PytestState /\ o.pytest.artifact = "valid"
         /\ result = BuildPytestResult(plan, o, owner.version)
         /\ result = SessionResult(plan, o.pytest.session, owner.version, Primary(o).code)
      \/ ~result.evidence /\ result.status = "error" /\ ~result.complete
  BY <1>4, <1>5, PytestResultIs
<1> HIDE DEF o, result
<1>7. \/ /\ result.evidence /\ o.pytest \in PytestState /\ o.pytest.artifact = "valid"
         /\ result = BuildPytestResult(plan, o, owner.version)
         /\ result.exitCode = Primary(o).code /\ result.status = ExitStatus(Primary(o).code)
         /\ result.complete = SessionComplete(o.pytest.session, Primary(o).code)
         /\ result.reasons = {} => ~o.pytest.session.narrowed
      \/ ~result.evidence /\ result.status = "error" /\ ~result.complete
  BY <1>6, SessionResultIs
<1> QED BY <1>2, <1>3, <1>4, <1>7 DEF PytestOf, o, result

LEMMA CoverageInReport ==
  ASSUME SafeInv, report = "shown", NEW i \in 1 .. Len(checks), checks[i].name = "pytest",
         CoverageRequested(plan)
  PROVE  LET o == checks[i]
             json == o.coverage.jsonExit
             evaluated == plan.configured /\ GateEligible(plan, Built.pytest, TRUE)
         IN /\ Built.coverage.status # "none"
            /\ Built.coverage.status = "error" => ~Built.coverage.complete /\ Built.coverage.passed = "none"
            /\ Built.coverage.status # "error" =>
                 /\ Snapshot(o) /\ o.coverage.wellFormed /\ Converted(plan, deps, forced, o)
                 /\ json = 0 \/ (json = 2 /\ evaluated)
                 /\ Built.coverage.passed = IF ~evaluated THEN "none"
                                            ELSE IF json = 0 THEN "yes" ELSE "no"
                 /\ (Built.coverage.status = "failed") <=> (evaluated /\ json # 0)
<1> DEFINE o == checks[i]
           version == DependencyOf(deps, "coverage").version
<1>1. /\ o \in ObservationState /\ Sound(plan, deps, forced, o)
      /\ Built.coverage = BuildCoverageResult(plan, Built.pytest, o.coverage, version)
  BY PytestInReport
<1>2. o.coverage \in CoverageState \cup {NoCoverage}
  BY <1>1 DEF ObservationState
<1>3. Snapshot(o) => Converted(plan, deps, forced, o)
  BY <1>1 DEF Sound
<1> DEFINE json == o.coverage.jsonExit
           pytest == Built.pytest
           coverage == BuildCoverageResult(plan, pytest, o.coverage, version)
           evaluated == plan.configured /\ GateEligible(plan, pytest, TRUE)
<1> HIDE DEF o, version, pytest
<1>4. /\ coverage.status # "none"
      /\ coverage.status = "error" => ~coverage.complete /\ coverage.passed = "none"
      /\ coverage.status # "error" =>
           /\ Snapshot(o) /\ o.coverage.wellFormed
           /\ json = 0 \/ (json = 2 /\ evaluated)
           /\ coverage.passed = IF ~evaluated THEN "none" ELSE IF json = 0 THEN "yes" ELSE "no"
           /\ (coverage.status = "failed") <=> (evaluated /\ json # 0)
  BY <1>2, CoverageResultIs
<1>5. Built.coverage = coverage
  BY <1>1 DEF pytest
<1> HIDE DEF coverage, Built
<1> QED BY <1>3, <1>4, <1>5 DEF o, pytest

(* The report of exit code 0 or 1 is complete.                             *)
LEMMA VerdictIsComplete ==
  ASSUME SafeInv, exit \in {0, 1}
  PROVE  /\ report = "shown" /\ RunComplete(Built)
         /\ (exit = 1) <=> \/ \E check \in Range(Built.checks) : check.status = "failed"
                           \/ "failed" \in {Built.pytest.status, Built.coverage.status}
<1>1. report = "shown" /\ exit = SelectExitCode(Built)
  BY DEF SafeInv, ExitInv, NoCode
<1>2. RunComplete(Built)
  BY <1>1 DEF SelectExitCode, OverallStatus
<1>3. SelectExitCode(Built) = IF \/ \E check \in Range(Built.checks) : check.status = "failed"
                                 \/ "failed" \in {Built.pytest.status, Built.coverage.status}
                              THEN 1 ELSE 0
  BY <1>2 DEF SelectExitCode, OverallStatus
<1> QED BY <1>1, <1>2, <1>3

LEMMA ResultsInReport ==
  ASSUME SafeInv
  PROVE  /\ Range(Built.checks) = {CheckResult(checks[i], Built.pytest) : i \in 1 .. Len(checks)}
         /\ Built.env = env /\ Built.deps = deps
<1>1. DOMAIN checks = 1 .. Len(checks)
  BY DEF SafeInv, TypeInv
<1>2. /\ Built.checks = [i \in DOMAIN checks |-> CheckResult(checks[i], Built.pytest)]
      /\ Built.env = env /\ Built.deps = deps
  BY RestOfReport DEF Built
<1> HIDE DEF Built
<1> QED BY <1>1, <1>2 DEF Range

\* What a complete report shows of a Check.
CheckIsWhole(o) ==
  /\ o.error = "none" /\ Ran(o)
  /\ o.name = "pytest" =>
       /\ o.pytest.artifact = "valid" /\ o.pytest.session.accounted /\ ~o.pytest.session.stopped
  /\ o.coverage # NoCoverage =>
       Snapshot(o) /\ o.coverage.wellFormed /\ Converted(plan, deps, forced, o)

LEMMA ChecksAreWhole ==
  ASSUME SafeInv, exit \in {0, 1}, NEW i \in 1 .. Len(checks)
  PROVE  /\ checks[i] \in ObservationState /\ checks[i].name = plan.checks[i]
         /\ Sound(plan, deps, forced, checks[i]) /\ CheckIsWhole(checks[i])
         /\ checks[i].name = "pytest" =>
              /\ Built.pytest.evidence /\ Built.pytest.status = ExitStatus(Primary(checks[i]).code)
              /\ CoverageRequested(plan) => Built.coverage.status # "error"
<1> DEFINE o == checks[i]
           result == CheckResult(o, Built.pytest)
<1>1. report = "shown" /\ RunComplete(Built)
  BY VerdictIsComplete
<1>2. o \in ObservationState /\ o.name = plan.checks[i] /\ Sound(plan, deps, forced, o)
  BY <1>1, ReportedIs DEF InPlanOrder
<1>3. result.status # "error"
  BY <1>1, ResultsInReport DEF RunComplete
<1>4. o.error = "none"
  BY <1>3 DEF CheckResult
<1>5. Ran(o)
  BY <1>2, <1>4 DEF Sound
<1>6. ASSUME o.name = "pytest"
      PROVE  /\ o.pytest.artifact = "valid" /\ o.pytest.session.accounted /\ ~o.pytest.session.stopped
             /\ Built.pytest.evidence /\ Built.pytest.status = ExitStatus(Primary(o).code)
  <2>1. Built.pytest.status # "error"
    BY <1>3, <1>4, <1>6 DEF CheckResult
  <2>2. /\ Built.pytest.evidence /\ o.pytest.artifact = "valid"
        /\ Built.pytest.status = ExitStatus(Primary(o).code)
        /\ Built.pytest.complete = SessionComplete(o.pytest.session, Primary(o).code)
    BY <1>1, <1>6, <2>1, PytestInReport
  <2>3. Built.pytest # NoPytestResult
    BY <2>2 DEF NoPytestResult, PytestResult
  <2>4. Built.pytest.complete
    BY <1>1, <2>3 DEF RunComplete
  <2> QED BY <2>2, <2>4 DEF SessionComplete
<1>7. ASSUME o.name = "pytest", CoverageRequested(plan)
      PROVE  /\ Built.coverage.status # "error" /\ Snapshot(o) /\ o.coverage.wellFormed
             /\ Converted(plan, deps, forced, o)
  <2>1. /\ Built.coverage.status # "none"
        /\ Built.coverage.status = "error" => ~Built.coverage.complete
        /\ Built.coverage.status # "error" =>
             Snapshot(o) /\ o.coverage.wellFormed /\ Converted(plan, deps, forced, o)
    BY <1>1, <1>7, CoverageInReport
  <2>2. Built.coverage # NoCoverageResult
    BY <2>1 DEF NoCoverageResult, CoverageResult
  <2> QED BY <1>1, <2>1, <2>2 DEF RunComplete
<1>8. o.coverage # NoCoverage => o.name = "pytest" /\ CoverageRequested(plan)
  BY <1>2 DEF Sound
<1> HIDE DEF o, result
<1> QED BY <1>2, <1>4, <1>5, <1>6, <1>7, <1>8 DEF CheckIsWhole, o

LEMMA WholeEvidence ==
  ASSUME SafeInv, exit \in {0, 1}
  PROVE  EvidenceIsWhole
<1>1. /\ report = "shown" /\ RunComplete(Built) /\ pc = "done" /\ ~Refused
      /\ SoundPlan(plan) /\ Len(checks) = Len(plan.checks)
  BY VerdictIsComplete, ReportedIs
<1>2. /\ env.error = "none" /\ env.lock = "current"
      /\ \A d \in Range(deps) : d.status = "available" /\ Successful(d.process)
  BY <1>1, ResultsInReport DEF RunComplete
<1>3. baseline # "none" /\ env.python = "supported" /\ env.protection = BaselineProtection
  BY <1>1, <1>2 DEF SafeInv, EnvInv, Ending
<1>4. DOMAIN checks = DOMAIN plan.checks /\ DOMAIN checks = 1 .. Len(checks)
  <2>1. checks \in Seq(ObservationState) /\ plan.checks \in Seq(CheckName)
    BY <1>1 DEF SafeInv, TypeInv, SoundPlan
  <2> QED BY <1>1, <2>1
<1>5. \A i \in DOMAIN deps : deps[i].status = "available" /\ Successful(deps[i].process)
  BY <1>2 DEF Range
<1>6. ASSUME NEW i \in DOMAIN checks
      PROVE  LET check == checks[i]
             IN /\ check.name = plan.checks[i] /\ check.error = "none" /\ check.start # "none"
                /\ check.name = "pytest" =>
                     LET session == check.pytest.session
                     IN check.pytest.artifact = "valid" /\ session.accounted /\ ~session.stopped
                /\ check.coverage # NoCoverage =>
                     /\ check.coverage.artifact = "snapshot" /\ check.coverage.wellFormed
                     /\ Last(check.processes).role = "coverage_json"
  <2> DEFINE o == checks[i]
  <2>1. o.name = plan.checks[i] /\ CheckIsWhole(o)
    BY <1>4, ChecksAreWhole
  <2> HIDE DEF o
  <2>2. o.coverage # NoCoverage => Last(o.processes).role = "coverage_json"
    <3> SUFFICES ASSUME o.coverage # NoCoverage PROVE Last(o.processes).role = "coverage_json"
      OBVIOUS
    <3>1. Len(o.processes) = 2 /\ o.processes[2] = Exited("coverage_json", o.coverage.jsonExit)
      BY <2>1 DEF CheckIsWhole, Converted
    <3>2. Last(o.processes) = o.processes[2]
      BY <3>1 DEF Last
    <3>3. \A code : Exited("coverage_json", code).role = "coverage_json"
      BY DEF Exited, Process
    <3> QED BY <3>1, <3>2, <3>3
  <2> QED BY <2>1, <2>2 DEF CheckIsWhole, Ran, Snapshot, o
<1> QED BY <1>1, <1>2, <1>3, <1>4, <1>5, <1>6 DEF EvidenceIsWhole

(* A finding is an exit code other than 0.                                 *)
LEMMA FindingsAreCodes ==
  ASSUME SafeInv, exit \in {0, 1}
  PROVE  (exit = 1) <=> \E i \in DOMAIN checks : \E k \in DOMAIN checks[i].processes :
                            checks[i].processes[k].code # 0
<1>1. report = "shown" /\ DOMAIN checks = 1 .. Len(checks)
  BY VerdictIsComplete DEF SafeInv, TypeInv
<1>2. (exit = 1) <=> \/ \E i \in 1 .. Len(checks) : CheckResult(checks[i], Built.pytest).status = "failed"
                     \/ "failed" \in {Built.pytest.status, Built.coverage.status}
  BY VerdictIsComplete, ResultsInReport
<1>3. \A i \in 1 .. Len(checks) :
        /\ checks[i] \in ObservationState /\ CheckIsWhole(checks[i])
        /\ Sound(plan, deps, forced, checks[i])
        /\ DOMAIN checks[i].processes = 1 .. Len(checks[i].processes)
        /\ Len(checks[i].processes) \in Nat /\ Len(checks[i].processes) > 0
        /\ Primary(checks[i]) = checks[i].processes[1]
        /\ checks[i].processes[1].code \in IF checks[i].name = "pytest" THEN {0, 1, 5} ELSE {0, 1}
  <2> SUFFICES ASSUME NEW i \in 1 .. Len(checks)
               PROVE  /\ checks[i] \in ObservationState /\ CheckIsWhole(checks[i])
                      /\ Sound(plan, deps, forced, checks[i])
                      /\ DOMAIN checks[i].processes = 1 .. Len(checks[i].processes)
                      /\ Len(checks[i].processes) \in Nat /\ Len(checks[i].processes) > 0
                      /\ Primary(checks[i]) = checks[i].processes[1]
                      /\ checks[i].processes[1].code
                           \in IF checks[i].name = "pytest" THEN {0, 1, 5} ELSE {0, 1}
    OBVIOUS
  <2> DEFINE o == checks[i]
             processes == o.processes
  <2>1. o \in ObservationState /\ CheckIsWhole(o) /\ Sound(plan, deps, forced, o)
    BY ChecksAreWhole
  <2> HIDE DEF o
  <2>2. Len(processes) > 0 /\ processes[1].code \in IF o.name = "pytest" THEN {0, 1, 5} ELSE {0, 1}
    BY <2>1 DEF CheckIsWhole, Ran
  <2>3. Primary(o) = processes[1]
    BY <2>1, <2>2, PrimaryIsFirst
  <2>4. processes \in Seq(ProcessState)
    BY <2>1 DEF ObservationState
  <2> HIDE DEF processes
  <2>5. DOMAIN processes = 1 .. Len(processes) /\ Len(processes) \in Nat
    BY <2>4
  <2> QED BY <2>1, <2>2, <2>3, <2>5 DEF o, processes
(* The primary process of a Check.                                         *)
<1>4. \A i \in 1 .. Len(checks) :
        (CheckResult(checks[i], Built.pytest).status = "failed") <=> (Primary(checks[i]).code # 0)
  <2> SUFFICES ASSUME NEW i \in 1 .. Len(checks)
               PROVE  (CheckResult(checks[i], Built.pytest).status = "failed")
                        <=> (Primary(checks[i]).code # 0)
    OBVIOUS
  <2> DEFINE o == checks[i]
  <2>1. CheckIsWhole(o) /\ Primary(o).code \in IF o.name = "pytest" THEN {0, 1, 5} ELSE {0, 1}
    BY <1>3
  <2>2. o.name = "pytest" => Built.pytest.status = ExitStatus(Primary(o).code)
    BY ChecksAreWhole
  <2> HIDE DEF o
  <2>3. o.error = "none"
    BY <2>1 DEF CheckIsWhole
  <2>4. CheckResult(o, Built.pytest).status =
          IF o.name = "pytest" THEN Built.pytest.status
          ELSE IF Primary(o).code = 0 THEN "passed" ELSE "failed"
    BY <2>3 DEF CheckResult
  <2>5. Primary(o).code \in {0, 1, 5} =>
          ((ExitStatus(Primary(o).code) = "failed") <=> (Primary(o).code # 0))
    BY DEF ExitStatus
  <2> QED BY <2>1, <2>2, <2>4, <2>5 DEF o
(* Its second process converts coverage data.                              *)
<1>5. ASSUME NEW i \in 1 .. Len(checks), Len(checks[i].processes) > 1
      PROVE  /\ Len(checks[i].processes) = 2
             /\ (checks[i].processes[2].code # 0) <=> (Built.coverage.status = "failed")
  <2> DEFINE o == checks[i]
  <2>1. o.name = "pytest" /\ CoverageRequested(plan)
    BY <1>3, <1>5 DEF Sound
  <2>2. Built.coverage.status # "error"
    BY <2>1, ChecksAreWhole
  <2>3. /\ Converted(plan, deps, forced, o)
        /\ (Built.coverage.status = "failed") <=>
             (plan.configured /\ GateEligible(plan, Built.pytest, TRUE) /\ o.coverage.jsonExit # 0)
        /\ \/ o.coverage.jsonExit = 0
           \/ plan.configured /\ GateEligible(plan, Built.pytest, TRUE)
    BY <1>1, <2>1, <2>2, CoverageInReport
  <2> HIDE DEF o
  <2>4. Len(o.processes) = 2 /\ o.processes[2].code = o.coverage.jsonExit
    BY <2>3 DEF Converted, Exited, Process
  <2> QED BY <2>3, <2>4 DEF o
<1>6. Built.pytest.status = "failed" =>
        \E i \in 1 .. Len(checks) : CheckResult(checks[i], Built.pytest).status = "failed"
  <2> SUFFICES ASSUME Built.pytest.status = "failed"
               PROVE  \E i \in 1 .. Len(checks) : CheckResult(checks[i], Built.pytest).status = "failed"
    OBVIOUS
  <2>1. PICK i \in 1 .. Len(checks) : checks[i].name = "pytest"
    <3>1. Built.pytest # NoPytestResult
      BY DEF NoPytestResult, PytestResult
    <3> QED BY <3>1, ReportWithoutPytest DEF Built
  <2>2. checks[i].error = "none"
    BY <1>3 DEF CheckIsWhole
  <2> QED BY <2>1, <2>2 DEF CheckResult
<1>7. ASSUME Built.coverage.status = "failed"
      PROVE  \E i \in 1 .. Len(checks) : Len(checks[i].processes) > 1 /\ checks[i].processes[2].code # 0
  <2>1. CoverageRequested(plan)
    <3>1. ~CoverageRequested(plan) => Built.coverage = NoCoverageResult
      BY UnrequestedCoverage DEF Built
    <3>2. NoCoverageResult.status = "none"
      BY DEF NoCoverageResult, CoverageResult
    <3> QED BY <1>7, <3>1, <3>2
  <2>2. PICK i \in 1 .. Len(checks) : checks[i].name = "pytest"
    <3>1. /\ SoundPlan(plan) /\ Len(plan.checks) \in Nat /\ Len(checks) = Len(plan.checks)
          /\ InPlanOrder(plan, deps, forced, checks)
      BY <1>1, ReportedIs
    <3>2. Len(checks) \in 1 .. Len(checks) /\ checks[Len(checks)].name = "pytest"
      BY <2>1, <3>1 DEF SoundPlan, InPlanOrder
    <3> QED BY <3>2
  <2>3. Converted(plan, deps, forced, checks[i])
    BY <1>1, <1>7, <2>1, <2>2, CoverageInReport
  <2>4. Len(checks[i].processes) > 1
    BY <2>3 DEF Converted
  <2> QED BY <1>5, <1>7, <2>4
<1>8. ASSUME exit = 1
      PROVE  \E i \in DOMAIN checks : \E k \in DOMAIN checks[i].processes :
                checks[i].processes[k].code # 0
  <2>1. CASE \E i \in 1 .. Len(checks) : CheckResult(checks[i], Built.pytest).status = "failed"
    <3>1. PICK i \in 1 .. Len(checks) : CheckResult(checks[i], Built.pytest).status = "failed"
      BY <2>1
    <3>2. i \in DOMAIN checks /\ 1 \in DOMAIN checks[i].processes /\ checks[i].processes[1].code # 0
      BY <1>1, <1>3, <1>4, <3>1
    <3> QED BY <3>2
  <2>2. CASE Built.coverage.status = "failed"
    <3>1. PICK i \in 1 .. Len(checks) : Len(checks[i].processes) > 1 /\ checks[i].processes[2].code # 0
      BY <1>7, <2>2
    <3>2. i \in DOMAIN checks /\ 2 \in DOMAIN checks[i].processes
      BY <1>1, <1>3, <3>1
    <3> QED BY <3>1, <3>2
  <2> QED BY <1>2, <1>6, <1>8, <2>1, <2>2
<1>9. ASSUME NEW i \in DOMAIN checks, NEW k \in DOMAIN checks[i].processes,
             checks[i].processes[k].code # 0
      PROVE  exit = 1
  <2>1. i \in 1 .. Len(checks) /\ k \in 1 .. Len(checks[i].processes) /\ Len(checks[i].processes) \in Nat
    BY <1>1, <1>3
  <2>2. CASE k = 1
    BY <1>2, <1>3, <1>4, <1>9, <2>1, <2>2
  <2>3. CASE k # 1
    <3>1. Len(checks[i].processes) > 1
      BY <2>1, <2>3
    <3>2. k = 2
      BY <1>5, <2>1, <2>3, <3>1
    <3> QED BY <1>2, <1>5, <1>9, <2>1, <3>1, <3>2
  <2> QED BY <2>2, <2>3
<1> QED BY <1>8, <1>9

LEMMA ThresholdFollows ==
  ASSUME SafeInv, report = "shown", CoverageRequested(plan)
  PROVE  LET coverage == Built.coverage
             check == checks[Len(checks)]
             session == check.pytest.session
         IN /\ Evaluated(coverage) =>
                 /\ ~forced /\ plan.configured /\ plan.mode = "strict_aggregate"
                 /\ session.accounted /\ ~session.stopped /\ ~session.narrowed
                 /\ Head(check.processes).code = 0
                 /\ (coverage.passed = "no") <=> (Last(check.processes).code = 2)
            /\ coverage.status # "error" /\ plan.configured /\ ~forced => Evaluated(coverage)
<1> DEFINE n == Len(checks)
           o == checks[n]
           json == o.coverage.jsonExit
           pytest == Built.pytest
           coverage == Built.coverage
           eligible == GateEligible(plan, pytest, TRUE)
<1>1. n \in 1 .. n /\ o.name = "pytest"
  <2>1. /\ SoundPlan(plan) /\ Len(plan.checks) \in Nat /\ Len(checks) = Len(plan.checks)
        /\ InPlanOrder(plan, deps, forced, checks)
    BY ReportedIs
  <2> QED BY <2>1 DEF SoundPlan, InPlanOrder
<1>2. /\ pytest = ReportedPytest(plan, env, o, DependencyOf(deps, "pytest"))
      /\ \/ /\ pytest.evidence /\ o.pytest \in PytestState
            /\ pytest = PytestOf(plan, deps, o) /\ pytest.exitCode = Primary(o).code
            /\ pytest.complete = SessionComplete(o.pytest.session, Primary(o).code)
            /\ pytest.reasons = {} => ~o.pytest.session.narrowed
         \/ ~pytest.evidence
  BY <1>1, PytestInReport
<1>3. /\ coverage.status = "error" => coverage.passed = "none"
      /\ coverage.status # "error" =>
           /\ Converted(plan, deps, forced, o)
           /\ json = 0 \/ (json = 2 /\ plan.configured /\ eligible)
           /\ coverage.passed = IF ~(plan.configured /\ eligible) THEN "none"
                                ELSE IF json = 0 THEN "yes" ELSE "no"
  BY <1>1, CoverageInReport
<1>4. Converted(plan, deps, forced, o) =>
        /\ Head(o.processes) = Primary(o) /\ Last(o.processes).code = json
        /\ o.pytest \in PytestState
        /\ forced = (~GateEligible(plan, PytestOf(plan, deps, o), TRUE) \/ Reserved(o))
  <2> SUFFICES ASSUME Converted(plan, deps, forced, o)
               PROVE  Head(o.processes) = Primary(o) /\ Last(o.processes).code = json
    BY DEF Converted
  <2> HIDE DEF o
  <2>1. Len(o.processes) = 2 /\ o.processes[2] = Exited("coverage_json", json)
    BY DEF Converted
  <2>2. o.processes # <<>>
    BY <2>1
  <2>3. Last(o.processes) = o.processes[2]
    BY <2>1 DEF Last
  <2>4. \A code : Exited("coverage_json", code).code = code
    BY DEF Exited, Process
  <2> QED BY <2>1, <2>2, <2>3, <2>4 DEF Primary
<1>5. o.pytest \in PytestState => pytest = PytestOf(plan, deps, o)
  <2>1. o.pytest \in PytestState => o.pytest # NoPytest
    BY DEF PytestState, NoPytest, PytestObservation
  <2> HIDE DEF o, pytest
  <2> QED BY <1>2, <2>1 DEF ReportedPytest, PytestOf
<1> HIDE DEF n, o, json, pytest, coverage
<1>6. ASSUME coverage.passed # "none"
      PROVE  /\ ~forced /\ plan.configured /\ plan.mode = "strict_aggregate"
             /\ o.pytest.session.accounted /\ ~o.pytest.session.stopped /\ ~o.pytest.session.narrowed
             /\ Head(o.processes).code = 0
             /\ (coverage.passed = "no") <=> (Last(o.processes).code = 2)
  <2>1. /\ Converted(plan, deps, forced, o) /\ plan.configured /\ eligible
        /\ json = 0 \/ json = 2
        /\ coverage.passed = IF json = 0 THEN "yes" ELSE "no"
    BY <1>3, <1>6
  <2>2. /\ pytest.evidence /\ pytest.exitCode = 0 /\ pytest.complete /\ pytest.reasons = {}
        /\ plan.mode = "strict_aggregate"
    BY <2>1 DEF GateEligible
  <2>3. /\ pytest = PytestOf(plan, deps, o) /\ Primary(o).code = 0
        /\ SessionComplete(o.pytest.session, Primary(o).code) /\ ~o.pytest.session.narrowed
    BY <1>2, <2>2
  <2>4. ~Reserved(o)
    BY <2>3 DEF Reserved
  <2>5. ~forced
    BY <1>4, <2>1, <2>3, <2>4
  <2>6. o.pytest.session.accounted /\ ~o.pytest.session.stopped
    BY <2>3 DEF SessionComplete
  <2>7. (coverage.passed = "no") <=> (json = 2)
    BY <2>1
  <2> QED BY <1>4, <2>1, <2>2, <2>3, <2>5, <2>6, <2>7
<1>7. ASSUME coverage.status # "error", plan.configured, ~forced
      PROVE  coverage.passed # "none"
  <2>1. Converted(plan, deps, forced, o)
    BY <1>3, <1>7
  <2>2. GateEligible(plan, PytestOf(plan, deps, o), TRUE) /\ o.pytest \in PytestState
    BY <1>4, <1>7, <2>1
  <2>3. eligible
    BY <1>5, <2>2
  <2> QED BY <1>3, <1>7, <2>3
<1> QED BY <1>6, <1>7 DEF Evaluated, coverage, o, n

(* The names of observations that follow the names of t.                   *)
LEMMA NamesFollow ==
  ASSUME NEW S, NEW s \in Seq(S), NEW t, \A i \in 1 .. Len(s) : s[i].name = t[i]
  PROVE  [i \in DOMAIN s |-> s[i].name] = SubSeq(t, 1, Len(s))
<1> DEFINE E == {t[i] : i \in 1 .. Len(s)}
           names == [i \in DOMAIN s |-> s[i].name]
           front == SubSeq(t, 1, Len(s))
<1>1. Len(s) \in Nat /\ DOMAIN s = 1 .. Len(s)
  OBVIOUS
<1>2. names \in Seq(E) /\ Len(names) = Len(s) /\ \A i \in 1 .. Len(s) : names[i] = t[i]
  BY <1>1
<1>3. \A i \in 1 .. Len(s) : t[i] \in E
  OBVIOUS
<1> HIDE DEF E, names
<1>4. /\ front \in Seq(E) /\ Len(front) = IF 1 <= Len(s) THEN Len(s) - 1 + 1 ELSE 0
      /\ \A i \in 1 .. Len(s) - 1 + 1 : front[i] = t[1 + i - 1]
  BY <1>1, <1>3, SubSeqProperties
<1>5. Len(front) = Len(s) /\ \A i \in 1 .. Len(s) : front[i] = t[i]
  BY <1>1, <1>4
<1> HIDE DEF front
<1> QED BY <1>2, <1>4, <1>5, SeqEqual DEF names, front

LEMMA SafeIsTyped ==
  ASSUME SafeInv
  PROVE  TypeOK
<1>1. /\ pc \in Steps /\ baseline \in {"none", "git", "plain"} /\ forced \in BOOLEAN
      /\ env.protection \in {"unobserved", BaselineProtection} /\ deviations \in 0 .. DeviationBound
      /\ deps \in Seq(DependencyState) /\ checks \in Seq(ObservationState)
  BY DEF SafeInv, TypeInv, EnvInv
<1>2. pc \in {"plan", "planned", "baseline", "uv", "probe", "dependencies", "check", "launch",
              "coverage", "close", "verify", "report", "done"}
  BY <1>1 DEF Steps, Early, InCheck, InWorkspace, Ending
<1>3. invocation = Forgotten \/ (invocation.request \in Request /\ invocation.config \in ProjectConfig)
  <2>1. invocation = Forgotten \/ invocation \in Invocations
    BY DEF SafeInv, PlanInv
  <2> QED BY <2>1, InvocationsAssumption
<1>4. plan = NoPlan \/ Range(plan.checks) \subseteq CheckName
  <2>1. plan = NoPlan \/ plan.checks \in Seq(CheckName)
    BY DEF SafeInv, PlanInv, SoundPlan
  <2>2. \A s \in Seq(CheckName) : Range(s) \subseteq CheckName
    BY DEF Range
  <2> QED BY <2>1, <2>2
<1>5. pc \notin {"plan", "planned", "done"} =>
        [i \in DOMAIN deps |-> deps[i].name] = SubSeq(RequiredDependencies(plan), 1, Len(deps))
  <2> SUFFICES ASSUME pc \notin {"plan", "planned", "done"}
               PROVE  \A i \in 1 .. Len(deps) : deps[i].name = RequiredDependencies(plan)[i]
    BY <1>1, NamesFollow
  <2>1. ~Refused
    BY DEF SafeInv, PlanInv
  <2>2. CASE pc \in Early
    BY <2>2 DEF SafeInv, DepsInv
  <2>3. CASE pc \notin Early
    BY <2>1, <2>3 DEF SafeInv, DepsInv
  <2> QED BY <2>2, <2>3
<1>6. [i \in DOMAIN checks |-> checks[i].name] = SubSeq(plan.checks, 1, Len(checks))
  <2>1. \A i \in 1 .. Len(checks) : checks[i].name = plan.checks[i]
    <3>1. CASE pc \in Early \/ Refused
      BY <3>1 DEF SafeInv, OrderInv
    <3>2. CASE pc \notin Early /\ ~Refused
      BY <3>2 DEF SafeInv, OrderInv
    <3> QED BY <3>1, <3>2
  <2> QED BY <1>1, <2>1, NamesFollow
<1>7. (pc = "done") <=> (exit # NoCode)
  <2>1. SelectExitCode(Built) \in {0, 1, 2}
    <3>1. OverallStatus(Built) \in {"error", "failed", "passed"}
      BY DEF OverallStatus
    <3> QED BY <3>1 DEF SelectExitCode
  <2> QED BY <2>1 DEF SafeInv, ExitInv, NoCode
<1>8. (pc = "done") <=> (report # "none")
  BY DEF SafeInv, ExitInv, Refused
<1> QED BY <1>1, <1>2, <1>3, <1>4, <1>5, <1>6, <1>7, <1>8 DEF TypeOK

-----------------------------------------------------------------------------
(* The theorems *)

(* The observations are in the order of the plan and of its dependencies,  *)
(* and a run has an exit code and a report exactly when it is over.        *)
THEOREM TypeCorrect == Spec => []TypeOK
<1>1. SafeInv => TypeOK
  BY SafeIsTyped
<1> QED BY <1>1, SpecIsSafe, PTL

(* plan_run: a request that is not refused plans the Checks it names and   *)
(* no other, or with --all the five of CheckOrder, from which a named      *)
(* annotations-fix is missing; its scopes are those it asked for.          *)
THEOREM PlanIsTheAnswer == Spec => []PlanAnswersRequest
<1>1. SafeInv => PlanAnswersRequest
  <2> SUFFICES ASSUME SafeInv, pc = "planned"
               PROVE  PlanAnswersRequest
    BY DEF PlanAnswersRequest
  <2>1. /\ PlanningError(invocation.request, invocation.config) = "none"
        /\ plan = PlanRun(invocation.request, invocation.config)
        /\ invocation.request \in Request /\ invocation.config \in ProjectConfig
    BY InvocationsAssumption DEF SafeInv, PlanInv
  <2> QED BY <2>1, PlanAnswers DEF PlanAnswersRequest
<1> QED BY <1>1, SpecIsSafe, PTL

(* What a run observed stays observed: every step keeps the error of the   *)
(* environment an error and adds to the observations.                      *)
THEOREM ObservationsStay == Spec => NothingIsForgotten
<1>1. SafeInv /\ [Next]_vars => [Kept]_vars
  BY NextKeeps
<1>2. [Kept]_vars <=> [/\ env.error # "none" => env'.error # "none"
                       /\ IsPrefix(env.processes, env'.processes)
                       /\ IsPrefix(deps, deps') /\ IsPrefix(checks, checks')]_vars
  BY DEF Kept
<1> QED BY <1>1, <1>2, SpecIsSafe, PTL DEF Spec, NothingIsForgotten

(* Exit code 0 or 1: the evidence behind it is whole, and it is 1 exactly  *)
(* if a Check or the conversion of coverage data ended with a finding.     *)
THEOREM VerdictIsBacked == Spec => []VerdictNeedsEvidence
<1>1. SafeInv => VerdictNeedsEvidence
  BY WholeEvidence, FindingsAreCodes DEF VerdictNeedsEvidence
<1> QED BY <1>1, SpecIsSafe, PTL

(* The threshold that the report says was evaluated is the one Coverage.py *)
(* was told, and the verdict is the exit code it gave.                     *)
THEOREM ThresholdIsApplied == Spec => []ThresholdIsTheOneApplied
<1>1. SafeInv => ThresholdIsTheOneApplied
  BY ThresholdFollows DEF ThresholdIsTheOneApplied
<1> QED BY <1>1, SpecIsSafe, PTL
=============================================================================
