------------------------- MODULE IndexListingProofs -------------------------
(***************************************************************************)
(* Proofs about the two consumers of a stream cut into chunks.  For every  *)
(* alphabet, limit and chunk size the accumulator of execution.py keeps    *)
(* exactly the end of the stream (TailCapture), and the index parser of    *)
(* repository_safety.py, behind the same pipe, comes to what the listing   *)
(* says as a whole (IndexListing).                                         *)
(***************************************************************************)
EXTENDS IndexListing, WellFoundedInduction, SequenceTheorems, TLAPS

-----------------------------------------------------------------------------
(* Induction.  The principles of the library take a predicate, which can-  *)
(* not be instantiated here; these take a set, a function for a step.      *)

(* A set of natural numbers has a least element.                           *)
LEMMA LeastElement ==
  ASSUME NEW S \in SUBSET Nat, S # {}
  PROVE  \E least \in S : \A n \in S : least <= n
<1> DEFINE Less == OpToRel(<, Nat)
<1>1. IsWellFoundedOn(Less, Nat)
  BY NatLessThanWellFounded
<1>2. \A n, least \in Nat : n < least => <<n, least>> \in Less
  BY DEF OpToRel
<1> HIDE DEF Less
<1>3. PICK least \in S : \A n \in S : ~(<<n, least>> \in Less)
  BY <1>1, WFMin
<1>4. ASSUME NEW n \in S
      PROVE  least <= n
  <2>1. n \in Nat /\ least \in Nat
    BY <1>3
  <2>2. ~(n < least)
    BY <2>1, <1>2, <1>3
  <2> QED BY <2>1, <2>2
<1> QED BY <1>3, <1>4

(* The principle of induction, for the set of numbers that are good.       *)
LEMMA SetInduction ==
  ASSUME NEW S, 0 \in S, \A n \in Nat : n \in S => n + 1 \in S
  PROVE  Nat \subseteq S
<1> SUFFICES ASSUME Nat \ S # {} PROVE FALSE
  OBVIOUS
<1>1. PICK least \in Nat \ S : \A n \in Nat \ S : least <= n
  BY LeastElement
<1>2. least # 0 /\ least - 1 \in Nat /\ least - 1 \in S
  BY <1>1
<1> QED BY <1>1, <1>2

(* The same for sequences: what holds of the empty one and stays when an   *)
(* element is appended holds of every one.                                 *)
LEMMA SequenceInduction ==
  ASSUME NEW B, NEW S, << >> \in S,
         \A s \in Seq(B), b \in B : s \in S => Append(s, b) \in S
  PROVE  Seq(B) \subseteq S
<1> DEFINE L == {n \in Nat : \A s \in Seq(B) : Len(s) = n => s \in S}
<1>1. 0 \in L
  OBVIOUS
<1>2. ASSUME NEW n \in Nat, n \in L
      PROVE  n + 1 \in L
  <2> SUFFICES ASSUME NEW s \in Seq(B), Len(s) = n + 1
               PROVE  s \in S
    OBVIOUS
  <2> DEFINE front == [i \in 1 .. n |-> s[i]]
  <2>1. front \in Seq(B) /\ Len(front) = n /\ s[n + 1] \in B
    OBVIOUS
  <2>2. s = Append(front, s[n + 1])
    OBVIOUS
  <2> HIDE DEF front
  <2>3. front \in S
    BY <1>2, <2>1
  <2> QED BY <2>1, <2>2, <2>3
<1>3. Nat \subseteq L
  <2> HIDE DEF L
  <2> QED BY <1>1, <1>2, SetInduction
<1>4. ASSUME NEW s \in Seq(B)
      PROVE  s \in S
  <2>1. Len(s) \in Nat
    OBVIOUS
  <2> QED BY <1>3, <2>1
<1> QED BY <1>4

(* A function may be defined from each number to the next.                 *)
Iterates(f, D, start, N, step) ==
  /\ f \in [0 .. N -> D] /\ f[0] = start
  /\ \A n \in 1 .. N : f[n] = step[n][f[n - 1]]

LEMMA IterationExists ==
  ASSUME NEW D, NEW start \in D, NEW N \in Nat, NEW step \in [1 .. N -> [D -> D]]
  PROVE  \E f : Iterates(f, D, start, N, step)
<1> DEFINE Steps(f, m) == Iterates(f, D, start, m, step)
           S == {m \in Nat : m <= N => \E f : Steps(f, m)}
<1>1. 0 \in S
  <2> DEFINE f == [n \in 0 .. 0 |-> start]
  <2>1. Steps(f, 0)
    BY DEF Iterates
  <2> QED BY <2>1
<1>2. ASSUME NEW m \in Nat, m \in S, m + 1 <= N
      PROVE  \E f : Steps(f, m + 1)
  <2>1. PICK f : /\ f \in [0 .. m -> D] /\ f[0] = start
                 /\ \A n \in 1 .. m : f[n] = step[n][f[n - 1]]
    BY <1>2 DEF Iterates
  <2> DEFINE g == [n \in 0 .. m + 1 |-> IF n = m + 1 THEN step[m + 1][f[m]] ELSE f[n]]
  <2>2. f[m] \in D /\ m + 1 \in 1 .. N
    BY <1>2, <2>1
  <2>3. step[m + 1][f[m]] \in D
    BY <2>2
  <2>4. g \in [0 .. m + 1 -> D]
    BY <2>1, <2>3
  <2>5. g[0] = start
    BY <2>1
  <2>6. \A n \in 0 .. m : g[n] = f[n]
    OBVIOUS
  <2>7. g[m + 1] = step[m + 1][f[m]]
    OBVIOUS
  <2> HIDE DEF g
  <2>8. ASSUME NEW n \in 1 .. m + 1
        PROVE  g[n] = step[n][g[n - 1]]
    <3>1. n - 1 \in 0 .. m /\ g[n - 1] = f[n - 1]
      BY <2>6
    <3>2. CASE n = m + 1
      BY <2>7, <3>1, <3>2
    <3>3. CASE n # m + 1
      <4>1. n \in 1 .. m /\ n \in 0 .. m
        BY <3>3
      <4> QED BY <2>1, <2>6, <3>1, <4>1
    <3> QED BY <3>2, <3>3
  <2> QED BY <2>4, <2>5, <2>8 DEF Iterates
<1>3. ASSUME NEW m \in Nat, m \in S
      PROVE  m + 1 \in S
  <2>1. m + 1 <= N => \E f : Steps(f, m + 1)
    BY <1>2, <1>3
  <2>2. m + 1 \in Nat
    OBVIOUS
  <2> HIDE DEF Steps
  <2> QED BY <2>1, <2>2
<1>4. Nat \subseteq S
  <2> HIDE DEF S
  <2> QED BY <1>1, <1>3, SetInduction
<1>5. \E f : Steps(f, N)
  <2> HIDE DEF Steps
  <2> QED BY <1>4
<1> QED BY <1>5

-----------------------------------------------------------------------------
(* Slices *)

(* The slice s[m-1:], and where s[-n:] starts in a sequence of length len. *)
Drop(s, m) == SubSeq(s, m, Len(s))
Start(len, n) == IF len > n THEN len - n + 1 ELSE 1

(* The last bytes of s begin at Start.                                     *)
LEMMA KeepLastIsDrop ==
  ASSUME NEW s, NEW n
  PROVE  KeepLast(s, n) = Drop(s, Start(Len(s), n))
BY DEF KeepLast, Drop, Start

(* Arithmetic of Start: its range, and the length of what follows it.      *)
LEMMA StartRange ==
  ASSUME NEW len \in Nat, NEW n \in Nat \ {0}
  PROVE  /\ Start(len, n) \in 1 .. len + 1
         /\ len - Start(len, n) + 1 = IF len > n THEN n ELSE len
BY DEF Start

(* Dropping gives a sequence over the same bytes, of the remaining length. *)
LEMMA DropProperties ==
  ASSUME NEW B, NEW s \in Seq(B), NEW m \in 1 .. Len(s) + 1
  PROVE  Drop(s, m) \in Seq(B) /\ Len(Drop(s, m)) = Len(s) - m + 1
<1>1. PICK l \in Nat : l = Len(s)
  BY LenProperties
<1>2. m \in Int /\ l \in Int /\ \A i \in m .. l : s[i] \in B
  BY <1>1, LenProperties
<1>3. /\ SubSeq(s, m, l) \in Seq(B)
      /\ Len(SubSeq(s, m, l)) = IF m <= l THEN l - m + 1 ELSE 0
  BY <1>2, SubSeqProperties
<1>4. (IF m <= l THEN l - m + 1 ELSE 0) = l - m + 1
  <2>1. m \in 1 .. l + 1
    BY <1>1
  <2>2. QED
    BY <2>1
<1>5. QED
  BY <1>1, <1>3, <1>4 DEF Drop

(* Dropping everything, or nothing.                                        *)
LEMMA DropAll ==
  ASSUME NEW B, NEW s \in Seq(B)
  PROVE  Drop(s, Len(s) + 1) = << >> /\ Drop(s, 1) = s
<1>1. PICK l \in Nat : l = Len(s)
  BY LenProperties
<1>2. SubSeq(s, l + 1, l) = << >>
  BY SubSeqEmpty
<1>3. QED
  BY <1>1, <1>2, SubSeqFull DEF Drop

(* Dropping twice is dropping once, further on.                            *)
LEMMA DropDrop ==
  ASSUME NEW B, NEW s \in Seq(B), NEW m \in 1 .. Len(s) + 1,
         NEW q \in 1 .. Len(s) - m + 2
  PROVE  Drop(Drop(s, m), q) = Drop(s, m + q - 1)
<1>1. PICK l \in Nat : l = Len(s)
  BY LenProperties
<1>2. PICK d \in Seq(B) : d = Drop(s, m) /\ Len(d) = l - m + 1
  BY <1>1, DropProperties
<1>3. m \in 1 .. l + 1 /\ q \in 1 .. l - m + 2
  BY <1>1
<1>4. CASE q = l - m + 2
  <2>1. Drop(d, q) = << >>
    <3>1. l - m + 2 = (l - m + 1) + 1
      BY <1>3
    <3>2. QED
      BY <1>2, <1>4, <3>1, DropAll
  <2>2. m + q - 1 = l + 1
    BY <1>3, <1>4
  <2>3. QED
    BY <1>1, <1>2, <2>1, <2>2, DropAll
<1>5. CASE q # l - m + 2
  <2>1. /\ m \in 1 .. l /\ l \in 1 .. l
        /\ q \in 1 .. l - m + 1 /\ l - m + 1 \in 1 .. l - m + 1
        /\ m + (l - m + 1) - 1 = l
    BY <1>3, <1>5
  <2>2. SubSeq(SubSeq(s, m, l), q, l - m + 1) = SubSeq(s, m + q - 1, m + (l - m + 1) - 1)
    BY <1>1, <2>1, SubSeqOfSubSeq
  <2>3. QED
    BY <1>1, <1>2, <2>1, <2>2 DEF Drop
<1>6. QED
  BY <1>4, <1>5

(* Dropping from a concatenation: only from its first part, or all of it.  *)
LEMMA DropConcat ==
  ASSUME NEW B, NEW s \in Seq(B), NEW t \in Seq(B)
  PROVE  /\ \A m \in 1 .. Len(s) + 1 : Drop(s \o t, m) = Drop(s, m) \o t
         /\ \A m \in 1 .. Len(t) + 1 : Drop(s \o t, Len(s) + m) = Drop(t, m)
<1>1. PICK a \in Nat, c \in Nat : a = Len(s) /\ c = Len(t)
  BY LenProperties
<1>2. PICK all \in Seq(B) : all = s \o t /\ Len(all) = a + c
  BY <1>1, ConcatProperties
<1>3. ASSUME NEW m \in 1 .. c + 1
      PROVE  Drop(all, a + m) = Drop(t, m)
  <2>1. CASE m = c + 1
    <3>1. a + m = (a + c) + 1
      BY <2>1
    <3>2. Drop(all, Len(all) + 1) = << >> /\ Drop(t, Len(t) + 1) = << >>
      BY DropAll
    <3>3. QED
      BY <1>1, <1>2, <2>1, <3>1, <3>2
  <2>2. CASE m # c + 1
    <3>1. /\ a + m \in a + 1 .. a + c /\ a + c \in a + 1 .. a + c
          /\ (a + m) - a = m /\ (a + c) - a = c
      BY <2>2
    <3>2. SubSeq(all, a + m, a + c) = SubSeq(t, (a + m) - a, (a + c) - a)
      BY <1>1, <1>2, <3>1, SubSeqOfConcat2
    <3>3. QED
      BY <1>1, <1>2, <3>1, <3>2 DEF Drop
  <2>3. QED
    BY <2>1, <2>2
<1>4. Drop(all, a + 1) = t
  <2>1. 1 \in 1 .. c + 1
    OBVIOUS
  <2>2. QED
    BY <1>3, <2>1, DropAll
<1>5. ASSUME NEW m \in 1 .. a + 1
      PROVE  Drop(all, m) = Drop(s, m) \o t
  <2>1. SubSeq(all, m, a) = SubSeq(s, m, a)
    <3>1. CASE m = a + 1
      <4>1. m \in Int /\ a \in Int /\ a < m
        BY <3>1
      <4>2. QED
        BY <4>1, SubSeqEmpty
    <3>2. CASE m # a + 1
      <4>1. m \in 1 .. a /\ a \in 1 .. a
        BY <3>2
      <4>2. QED
        BY <1>1, <1>2, <4>1, SubSeqOfConcat1
    <3>3. QED
      BY <3>1, <3>2
  <2>2. m \in 1 .. (a + c) + 1 /\ a \in m - 1 .. a + c /\ a + c \in a .. a + c
    OBVIOUS
  <2>3. SubSeq(all, m, a) \o SubSeq(all, a + 1, a + c) = SubSeq(all, m, a + c)
    BY <1>2, <2>2, ConcatAdjacentSubSeq
  <2>4. QED
    BY <1>1, <1>2, <1>4, <2>1, <2>3 DEF Drop
<1>6. QED
  BY <1>1, <1>2, <1>3, <1>5

(* Feeding one chunk to an accumulator that holds the end of s leaves it   *)
(* with the end of s followed by the chunk.                                *)
LEMMA FedKeepsEnd ==
  ASSUME NEW B, NEW s \in Seq(B), NEW chunk \in Seq(B), Limit \in Nat \ {0}
  PROVE  Fed(KeepLast(s, Limit), chunk) = KeepLast(s \o chunk, Limit)
<1>1. PICK a \in Nat, c \in Nat : a = Len(s) /\ c = Len(chunk)
  BY LenProperties
<1>2. PICK all \in Seq(B) : all = s \o chunk /\ Len(all) = a + c
  BY <1>1, ConcatProperties
<1>3. PICK k \in Nat : k = a - Start(a, Limit) + 1
  <2>1. a - Start(a, Limit) + 1 \in Nat
    BY StartRange
  <2>2. QED
    BY <2>1
<1>4. Start(a, Limit) \in 1 .. a + 1
  BY StartRange
<1>5. PICK kept \in Seq(B) : /\ kept = KeepLast(s, Limit)
                            /\ kept = Drop(s, Start(a, Limit))
                            /\ Len(kept) = k
  BY <1>1, <1>3, <1>4, DropProperties, KeepLastIsDrop
<1>6. KeepLast(all, Limit) = Drop(all, Start(a + c, Limit))
  BY <1>2, KeepLastIsDrop
<1>7. CASE c >= Limit
  <2>1. Fed(kept, chunk) = Drop(chunk, Start(c, Limit))
    BY <1>1, <1>7, KeepLastIsDrop DEF Fed
  <2>2. Start(c, Limit) \in 1 .. c + 1 /\ Start(a + c, Limit) = a + Start(c, Limit)
    BY <1>7 DEF Start
  <2>3. Drop(all, a + Start(c, Limit)) = Drop(chunk, Start(c, Limit))
    BY <1>1, <1>2, <2>2, DropConcat
  <2>4. QED
    BY <1>2, <1>5, <1>6, <2>1, <2>2, <2>3
<1>8. CASE ~(c >= Limit)
  <2>1. Fed(kept, chunk) = Drop(kept, IF k + c - Limit > 0 THEN k + c - Limit + 1 ELSE 1) \o chunk
    BY <1>1, <1>5, <1>8 DEF Fed, Drop
  <2>2. PICK q \in Nat : q = IF k + c - Limit > 0 THEN k + c - Limit + 1 ELSE 1
    <3>1. (IF k + c - Limit > 0 THEN k + c - Limit + 1 ELSE 1) \in Nat
      OBVIOUS
    <3>2. QED
      BY <3>1, Zenon
  <2>3. /\ q \in 1 .. a - Start(a, Limit) + 2
        /\ Start(a + c, Limit) = Start(a, Limit) + q - 1
        /\ Start(a + c, Limit) \in 1 .. a + 1
    BY <1>3, <1>8, <2>2 DEF Start
  <2>4. Drop(kept, q) = Drop(s, Start(a + c, Limit))
    BY <1>1, <1>4, <1>5, <2>3, DropDrop
  <2>5. Drop(all, Start(a + c, Limit)) = Drop(s, Start(a + c, Limit)) \o chunk
    BY <1>1, <1>2, <2>3, DropConcat
  <2>6. QED
    BY <1>2, <1>5, <1>6, <2>1, <2>2, <2>4, <2>5
<1>9. QED
  BY <1>7, <1>8

(* What is kept is a sequence of bytes no longer than the limit, nor than  *)
(* the stream.                                                             *)
LEMMA KeepLastIsBounded ==
  ASSUME NEW B, NEW s \in Seq(B), NEW n \in Nat \ {0}
  PROVE  /\ KeepLast(s, n) \in Seq(B)
         /\ Len(KeepLast(s, n)) \in Nat
         /\ Len(KeepLast(s, n)) <= n
         /\ Len(KeepLast(s, n)) <= Len(s)
<1>1. PICK a \in Nat : a = Len(s)
  BY LenProperties
<1>2. Start(a, n) \in 1 .. a + 1 /\ a - Start(a, n) + 1 = IF a > n THEN n ELSE a
  BY StartRange
<1>3. Drop(s, Start(a, n)) \in Seq(B) /\ Len(Drop(s, Start(a, n))) = a - Start(a, n) + 1
  BY <1>1, <1>2, DropProperties
<1>4. PICK k \in Nat : k = a - Start(a, n) + 1 /\ k <= n /\ k <= a
  BY <1>2
<1>5. QED
  BY <1>1, <1>3, <1>4, KeepLastIsDrop
-----------------------------------------------------------------------------
(* The inductive invariant: the tail is the end of the stream, the count   *)
(* is its length, and a finished capture is what a buffered run gives.     *)
IInv ==
  /\ TypeOK
  /\ tail = KeepLast(stream, Limit)
  /\ total = Len(stream)
  /\ StreamedEqualsBuffered

LEMMA ChunkIsSeq == \A chunk \in Chunk : chunk \in Seq(Byte)
  BY TailCaptureAssumption DEF Chunk

LEMMA InitIInv == Init => IInv
  BY TailCaptureAssumption DEF Init, IInv, TypeOK, KeepLast, StreamedEqualsBuffered, NotFinished

LEMMA StepIInv == IInv /\ [Next]_vars => IInv'
<1> SUFFICES ASSUME IInv, [Next]_vars PROVE IInv'
  OBVIOUS
<1>1. ASSUME NEW chunk \in Chunk, Feed(chunk)
      PROVE  IInv'
  <2>1. chunk \in Seq(Byte) /\ Len(chunk) \in Nat
    BY ChunkIsSeq
  <2>2. /\ stream' = stream \o chunk
        /\ stream' \in Seq(Byte)
        /\ Len(stream') = Len(stream) + Len(chunk)
    BY <1>1, <2>1 DEF IInv, TypeOK, Feed
  <2>3. tail' = KeepLast(stream', Limit)
    BY <1>1, <2>1, <2>2, FedKeepsEnd, TailCaptureAssumption DEF IInv, TypeOK, Feed
  <2>4. tail' \in Seq(Byte)
    BY <2>2, <2>3, KeepLastIsBounded, TailCaptureAssumption
  <2>5. total' = Len(stream') /\ total' \in Nat
    BY <1>1, <2>1, <2>2 DEF IInv, TypeOK, Feed
  <2>6. QED
    BY <1>1, <2>2, <2>3, <2>4, <2>5 DEF IInv, TypeOK, Feed, StreamedEqualsBuffered
<1>2. CASE Finish
  <2>1. Len(tail) \in Nat /\ Len(tail) <= total
    BY KeepLastIsBounded, TailCaptureAssumption DEF IInv, TypeOK
  <2>2. captured' \in [tail : Seq(Byte), omitted : Nat \cup {-1}]
    BY <1>2, <2>1 DEF Finish, IInv, TypeOK
  <2>3. captured' = NormalizeBufferedOutput(stream)
    BY <1>2 DEF Finish, IInv, NormalizeBufferedOutput
  <2>4. QED
    BY <1>2, <2>2, <2>3 DEF Finish, IInv, TypeOK, StreamedEqualsBuffered, NormalizeBufferedOutput
<1>3. CASE UNCHANGED vars
  BY <1>3 DEF vars, IInv, TypeOK, StreamedEqualsBuffered, NormalizeBufferedOutput
<1>4. QED
  BY <1>1, <1>2, <1>3 DEF Next

(* What the accumulator always satisfies, however its bytes are chunked.   *)
THEOREM Safety == Spec => []IInv
  BY InitIInv, StepIInv, PTL DEF Spec

(* However a child's output is cut into chunks, the accumulator holds the  *)
(* last Limit bytes of it: memory is bounded and nothing is reordered.     *)
THEOREM TailIsAlwaysSuffix == Spec => []TailIsSuffix
<1>1. IInv => TailIsSuffix
  BY KeepLastIsBounded, TailCaptureAssumption DEF IInv, TypeOK, TailIsSuffix
<1>2. QED
  BY <1>1, Safety, PTL

(* A streamed capture and a buffered one of the same bytes give the same   *)
(* diagnostics and the same omitted byte count.                            *)
THEOREM StreamingIsExact == Spec => []StreamedEqualsBuffered
<1>1. IInv => StreamedEqualsBuffered
  BY DEF IInv
<1>2. QED
  BY <1>1, Safety, PTL

-----------------------------------------------------------------------------
(* The three loops of the parser go through a sequence and act on a value, *)
(* letter by letter.  Run is what any such loop computes.                  *)
IsRun(act, start, s, f) ==
  f = [n \in 0 .. Len(s) |-> IF n = 0 THEN start ELSE act[s[n]][f[n - 1]]]
Run(act, start, s) == (CHOOSE f : IsRun(act, start, s, f))[Len(s)]

\* What acts on D by the letters of B.
Acts(act, B, D) == act \in [B -> [D -> D]]

\* The values along the loop, one after every letter.
Along(act, start, s, f) ==
  /\ f[0] = start
  /\ \A n \in 1 .. Len(s) : f[n] = act[s[n]][f[n - 1]]

(* There are such values, and they stay in the domain of the action.       *)
LEMMA AlongExists ==
  ASSUME NEW B, NEW D, NEW act, Acts(act, B, D), NEW start \in D, NEW s \in Seq(B)
  PROVE  \E f \in [0 .. Len(s) -> D] : Along(act, start, s, f)
<1> DEFINE N == Len(s)
           step == [n \in 1 .. N |-> act[s[n]]]
<1>1. N \in Nat /\ \A n \in 1 .. N : s[n] \in B
  OBVIOUS
<1>2. step \in [1 .. N -> [D -> D]] /\ \A n \in 1 .. N : step[n] = act[s[n]]
  BY <1>1 DEF Acts
<1> HIDE DEF step, N
<1>3. PICK f : Iterates(f, D, start, N, step)
  BY <1>1, <1>2, IterationExists
<1>4. f \in [0 .. N -> D] /\ Along(act, start, s, f)
  BY <1>2, <1>3 DEF Iterates, Along, N
<1> QED BY <1>4 DEF N

(* Two lists of values that start alike and stay alike end alike.          *)
LEMMA SameAlong ==
  ASSUME NEW N \in Nat, NEW f, NEW g, f[0] = g[0],
         \A n \in 1 .. N : f[n - 1] = g[n - 1] => f[n] = g[n]
  PROVE  f[N] = g[N]
<1> DEFINE S == {n \in Nat : n <= N => f[n] = g[n]}
<1>1. 0 \in S
  OBVIOUS
<1>2. ASSUME NEW n \in Nat, n \in S
      PROVE  n + 1 \in S
  <2> SUFFICES ASSUME n + 1 <= N
               PROVE  f[n + 1] = g[n + 1]
    OBVIOUS
  <2>1. n + 1 \in 1 .. N /\ (n + 1) - 1 = n
    OBVIOUS
  <2>2. f[n] = g[n]
    BY <1>2
  <2> QED BY <2>1, <2>2
<1>3. Nat \subseteq S
  <2> HIDE DEF S
  <2> QED BY <1>1, <1>2, SetInduction
<1> QED BY <1>3

(* They are determined by the letters, so Run is their last.               *)
LEMMA AlongIsRun ==
  ASSUME NEW B, NEW act, NEW start, NEW s \in Seq(B), NEW D,
         NEW f \in [0 .. Len(s) -> D], Along(act, start, s, f)
  PROVE  Run(act, start, s) = f[Len(s)]
<1> DEFINE N == Len(s)
           g == CHOOSE h : IsRun(act, start, s, h)
<1>1. N \in Nat
  OBVIOUS
<1>2. IsRun(act, start, s, f)
  <2>1. f = [n \in 0 .. N |-> f[n]]
    OBVIOUS
  <2>2. \A n \in 0 .. N : n # 0 => n \in 1 .. N
    BY <1>1
  <2>3. \A n \in 0 .. N : f[n] = IF n = 0 THEN start ELSE act[s[n]][f[n - 1]]
    BY <2>2 DEF Along
  <2> QED BY <2>1, <2>3 DEF IsRun
<1>3. IsRun(act, start, s, g)
  BY <1>2
<1> HIDE DEF g
<1>4. \A n \in 0 .. N : g[n] = IF n = 0 THEN start ELSE act[s[n]][g[n - 1]]
  BY <1>3 DEF IsRun
<1>5. f[0] = g[0]
  <2>1. 0 \in 0 .. N
    BY <1>1
  <2> QED BY <1>4, <2>1 DEF Along
<1>6. ASSUME NEW n \in 1 .. N, f[n - 1] = g[n - 1]
      PROVE  f[n] = g[n]
  <2>1. n \in 0 .. N /\ n # 0
    BY <1>1
  <2>2. g[n] = act[s[n]][g[n - 1]]
    BY <1>4, <2>1
  <2> QED BY <1>6, <2>2 DEF Along
<1> HIDE DEF N
<1>7. f[N] = g[N]
  BY <1>1, <1>5, <1>6, SameAlong
<1> QED BY <1>7 DEF Run, g, N

(* What a loop does with no letter, and with one more.                     *)
LEMMA RunIs ==
  ASSUME NEW B, NEW D, NEW act, Acts(act, B, D), NEW start \in D
  PROVE  /\ Run(act, start, << >>) = start
         /\ \A s \in Seq(B) : Run(act, start, s) \in D
         /\ \A s \in Seq(B), b \in B : Run(act, start, Append(s, b)) = act[b][Run(act, start, s)]
<1>1. Run(act, start, << >>) = start
  <2> DEFINE none == << >>
  <2>1. none \in Seq(B) /\ Len(none) = 0
    OBVIOUS
  <2>2. PICK f \in [0 .. Len(none) -> D] : Along(act, start, none, f)
    BY <2>1, AlongExists
  <2>3. Run(act, start, none) = f[0]
    BY <2>1, <2>2, AlongIsRun
  <2> QED BY <2>2, <2>3 DEF Along
<1>2. ASSUME NEW s \in Seq(B)
      PROVE  Run(act, start, s) \in D
  <2>1. PICK f \in [0 .. Len(s) -> D] : Along(act, start, s, f)
    BY AlongExists
  <2>2. Run(act, start, s) = f[Len(s)]
    BY <2>1, AlongIsRun
  <2>3. Len(s) \in 0 .. Len(s)
    <3>1. Len(s) \in Nat
      OBVIOUS
    <3> QED BY <3>1
  <2> QED BY <2>2, <2>3
<1>3. ASSUME NEW s \in Seq(B), NEW b \in B
      PROVE  Run(act, start, Append(s, b)) = act[b][Run(act, start, s)]
  <2> DEFINE N == Len(s)
             more == Append(s, b)
  <2>1. N \in Nat /\ more \in Seq(B) /\ Len(more) = N + 1 /\ more[N + 1] = b
    OBVIOUS
  <2>2. \A n \in 1 .. N : more[n] = s[n] /\ s[n] \in B
    OBVIOUS
  <2> HIDE DEF more
  <2>3. PICK f \in [0 .. N -> D] : Along(act, start, s, f)
    BY AlongExists
  <2>4. Run(act, start, s) = f[N]
    BY <2>3, AlongIsRun
  <2>5. /\ f[0] = start
        /\ \A n \in 1 .. N : f[n] = act[s[n]][f[n - 1]]
    BY <2>3 DEF Along
  <2> HIDE DEF N
  <2> DEFINE g == [n \in 0 .. N + 1 |-> IF n = N + 1 THEN act[b][f[N]] ELSE f[n]]
  <2>6. f[N] \in D
    BY <2>1
  <2>7. act[b][f[N]] \in D
    BY <2>6 DEF Acts
  <2>8. g \in [0 .. N + 1 -> D]
    <3>1. \A n \in 0 .. N + 1 : n # N + 1 => n \in 0 .. N
      BY <2>1
    <3> QED BY <2>7, <3>1
  <2>9. g[N + 1] = act[b][f[N]] /\ \A n \in 0 .. N : g[n] = f[n]
    BY <2>1
  <2> HIDE DEF g
  <2>10. g[0] = start
    BY <2>1, <2>5, <2>9
  <2>11. ASSUME NEW n \in 1 .. N + 1
         PROVE  g[n] = act[more[n]][g[n - 1]]
    <3>1. n - 1 \in 0 .. N
      BY <2>1
    <3>2. g[n - 1] = f[n - 1]
      BY <2>9, <3>1
    <3>3. CASE n = N + 1
      <4>1. n - 1 = N
        BY <2>1, <3>3
      <4> QED BY <2>1, <2>9, <3>2, <3>3, <4>1
    <3>4. CASE n # N + 1
      <4>1. n \in 1 .. N /\ n \in 0 .. N
        BY <2>1, <3>4
      <4> QED BY <2>2, <2>5, <2>9, <3>2, <4>1
    <3> QED BY <3>3, <3>4
  <2>12. Along(act, start, more, g) /\ g \in [0 .. Len(more) -> D]
    BY <2>1, <2>8, <2>10, <2>11 DEF Along
  <2>13. Run(act, start, more) = g[Len(more)]
    BY <2>1, <2>12, AlongIsRun
  <2> QED BY <2>1, <2>4, <2>9, <2>13 DEF more
<1> QED BY <1>1, <1>2, <1>3

(* A loop over two sequences goes on where it was after the first.         *)
LEMMA RunResumes ==
  ASSUME NEW B, NEW D, NEW act, Acts(act, B, D), NEW start \in D, NEW s \in Seq(B)
  PROVE  \A t \in Seq(B) : Run(act, start, s \o t) = Run(act, Run(act, start, s), t)
<1> DEFINE mid == Run(act, start, s)
           S == {t \in Seq(B) : Run(act, start, s \o t) = Run(act, mid, t)}
<1>1. mid \in D
  BY RunIs
<1>2. << >> \in S
  <2>1. s \o << >> = s /\ << >> \in Seq(B)
    OBVIOUS
  <2>2. Run(act, mid, << >>) = mid
    BY <1>1, RunIs
  <2> QED BY <2>1, <2>2
<1>3. ASSUME NEW t \in Seq(B), NEW b \in B, t \in S
      PROVE  Append(t, b) \in S
  <2> DEFINE both == s \o t
  <2>1. s \o Append(t, b) = Append(both, b) /\ both \in Seq(B) /\ Append(t, b) \in Seq(B)
    OBVIOUS
  <2> HIDE DEF both
  <2>2. Run(act, start, Append(both, b)) = act[b][Run(act, start, both)]
    BY <2>1, RunIs
  <2>3. Run(act, mid, Append(t, b)) = act[b][Run(act, mid, t)]
    <3> HIDE DEF mid
    <3> QED BY <1>1, RunIs
  <2> QED BY <1>3, <2>1, <2>2, <2>3 DEF both
<1>4. Seq(B) \subseteq S
  <2> HIDE DEF S
  <2> QED BY <1>2, <1>3, SequenceInduction
<1> QED BY <1>4

-----------------------------------------------------------------------------
(* Split goes through the bytes; its pieces hold no separator.             *)
Letter == Byte \ {"nul"}
Cuts == Seq(Seq(Letter)) \ {<< >>}
OnePiece == <<(<< >>)>>
Cut == [b \in Byte |-> [p \in Cuts |-> Parser!Extend(p, b)]]

\* The pieces that are complete, and the one that may go on.
Whole(p) == Parser!Front(p)
Rest(p) == Parser!Last(p)

(* One byte starts a piece or lengthens the last one.                      *)
LEMMA ExtendIsCut ==
  ASSUME NEW p \in Cuts, NEW b \in Byte
  PROVE  /\ Parser!Extend(p, b) \in Cuts
         /\ Len(Parser!Extend(p, b)) = Len(p) + (IF b = "nul" THEN 1 ELSE 0)
         /\ \A i \in 1 .. Len(p) - 1 : Parser!Extend(p, b)[i] = p[i]
         /\ b = "nul" => /\ Parser!Extend(p, b)[Len(p)] = p[Len(p)]
                         /\ Parser!Extend(p, b)[Len(p) + 1] = << >>
         /\ b # "nul" => Parser!Extend(p, b)[Len(p)] = Append(p[Len(p)], b)
<1> DEFINE e == Parser!Extend(p, b)
           len == Len(p)
<1>1. p \in Seq(Seq(Letter)) /\ len \in Nat /\ len > 0
  BY DEF Cuts
<1>2. p[len] \in Seq(Letter)
  BY <1>1
<1>3. CASE b = "nul"
  <2>1. e = Append(p, << >>)
    BY <1>3 DEF Parser!Extend
  <2>2. << >> \in Seq(Letter)
    OBVIOUS
  <2> HIDE DEF e
  <2>3. /\ e \in Seq(Seq(Letter)) /\ Len(e) = len + 1 /\ e[len + 1] = << >>
        /\ \A i \in 1 .. len : e[i] = p[i]
    BY <1>1, <2>1, <2>2
  <2> HIDE DEF len
  <2>4. e # << >> /\ e[len] = p[len] /\ \A i \in 1 .. len - 1 : e[i] = p[i]
    BY <1>1, <2>3
  <2> QED BY <1>3, <2>3, <2>4 DEF Cuts, e, len
<1>4. CASE b # "nul"
  <2> DEFINE last == Append(p[len], b)
  <2>1. e = [p EXCEPT ![len] = last]
    BY <1>4 DEF Parser!Extend
  <2>2. last \in Seq(Letter)
    BY <1>2, <1>4 DEF Letter
  <2> HIDE DEF e, last
  <2>3. /\ e \in Seq(Seq(Letter)) /\ Len(e) = len /\ e[len] = last
        /\ \A i \in 1 .. len - 1 : e[i] = p[i]
    BY <1>1, <2>1, <2>2, ExceptSeq
  <2>4. e # << >>
    BY <1>1, <2>3
  <2> QED BY <1>4, <2>3, <2>4 DEF Cuts, e, last
<1> QED BY <1>3, <1>4

LEMMA CutActs == Acts(Cut, Byte, Cuts) /\ OnePiece \in Cuts
<1>1. \A b \in Byte, p \in Cuts : Parser!Extend(p, b) \in Cuts
  BY ExtendIsCut
<1>2. OnePiece \in Cuts
  BY DEF OnePiece, Cuts
<1> QED BY <1>1, <1>2 DEF Acts, Cut

LEMMA SplitIsRun ==
  ASSUME NEW s \in Seq(Byte)
  PROVE  Parser!Split(s) = Run(Cut, OnePiece, s)
<1> DEFINE N == Len(s)
           IsSplit(g) == g = [n \in 0 .. N |-> IF n = 0 THEN OnePiece ELSE Parser!Extend(g[n - 1], s[n])]
           g == CHOOSE h : IsSplit(h)
<1>1. N \in Nat /\ \A n \in 1 .. N : s[n] \in Byte
  OBVIOUS
<1>2. PICK f \in [0 .. N -> Cuts] : Along(Cut, OnePiece, s, f)
  BY CutActs, AlongExists
<1>3. Run(Cut, OnePiece, s) = f[N]
  BY <1>2, AlongIsRun
<1>4. f[0] = OnePiece
  BY <1>2 DEF Along
<1>5. ASSUME NEW n \in 1 .. N
      PROVE  f[n] = Parser!Extend(f[n - 1], s[n])
  <2>1. f[n] = Cut[s[n]][f[n - 1]]
    BY <1>2 DEF Along
  <2>2. s[n] \in Byte
    BY <1>1
  <2>3. n - 1 \in 0 .. N
    BY <1>1
  <2>4. f[n - 1] \in Cuts
    BY <2>3
  <2> QED BY <2>1, <2>2, <2>4 DEF Cut
<1>6. Parser!Split(s) = g[N]
  BY DEF Parser!Split, OnePiece
<1> HIDE DEF N
<1>7. IsSplit(f)
  <2>1. f = [n \in 0 .. N |-> f[n]]
    OBVIOUS
  <2>2. \A n \in 0 .. N : n # 0 => n \in 1 .. N
    BY <1>1
  <2>3. \A n \in 0 .. N : f[n] = IF n = 0 THEN OnePiece ELSE Parser!Extend(f[n - 1], s[n])
    BY <1>4, <1>5, <2>2
  <2> QED BY <2>1, <2>3
<1>8. IsSplit(g)
  <2> HIDE DEF IsSplit
  <2> QED BY <1>7
<1> HIDE DEF g
<1>9. \A n \in 0 .. N : g[n] = IF n = 0 THEN OnePiece ELSE Parser!Extend(g[n - 1], s[n])
  BY <1>8
<1>10. f[0] = g[0]
  <2>1. 0 \in 0 .. N
    BY <1>1
  <2> QED BY <1>4, <1>9, <2>1
<1>11. ASSUME NEW n \in 1 .. N, f[n - 1] = g[n - 1]
       PROVE  f[n] = g[n]
  <2>1. n \in 0 .. N /\ n # 0
    BY <1>1
  <2>2. g[n] = Parser!Extend(g[n - 1], s[n])
    BY <1>9, <2>1
  <2> QED BY <1>5, <1>11, <2>2
<1>12. f[N] = g[N]
  BY <1>1, <1>10, <1>11, SameAlong
<1> QED BY <1>3, <1>6, <1>12 DEF N

(* The pieces of no byte, and of one byte more.                            *)
LEMMA SplitIs ==
  /\ Parser!Split(<< >>) = OnePiece
  /\ \A s \in Seq(Byte) : Parser!Split(s) \in Cuts
  /\ \A s \in Seq(Byte), b \in Byte : Parser!Split(Append(s, b)) = Parser!Extend(Parser!Split(s), b)
<1>1. Parser!Split(<< >>) = OnePiece
  <2> DEFINE none == << >>
  <2>1. none \in Seq(Byte)
    OBVIOUS
  <2> HIDE DEF none
  <2>2. Parser!Split(none) = Run(Cut, OnePiece, none)
    BY <2>1, SplitIsRun
  <2> QED BY <2>2, CutActs, RunIs DEF none
<1>2. ASSUME NEW s \in Seq(Byte)
      PROVE  Parser!Split(s) \in Cuts
  BY CutActs, RunIs, SplitIsRun
<1>3. ASSUME NEW s \in Seq(Byte), NEW b \in Byte
      PROVE  Parser!Split(Append(s, b)) = Parser!Extend(Parser!Split(s), b)
  <2> DEFINE more == Append(s, b)
  <2>1. more \in Seq(Byte)
    OBVIOUS
  <2>2. Run(Cut, OnePiece, more) = Cut[b][Run(Cut, OnePiece, s)]
    BY CutActs, RunIs
  <2> HIDE DEF more
  <2>3. Parser!Split(more) = Cut[b][Parser!Split(s)]
    BY <2>1, <2>2, SplitIsRun
  <2>4. Parser!Split(s) \in Cuts
    BY <1>2
  <2> QED BY <2>3, <2>4 DEF more, Cut
<1> QED BY <1>1, <1>2, <1>3

(* Sequences of any kind of element: cutting the last one off, joining,    *)
(* and appending to what was joined.                                       *)
LEMMA AllButLast ==
  ASSUME NEW D, NEW p \in Seq(D), Len(p) > 0
  PROVE  /\ SubSeq(p, 1, Len(p) - 1) \in Seq(D) /\ Len(SubSeq(p, 1, Len(p) - 1)) = Len(p) - 1
         /\ \A i \in 1 .. Len(p) - 1 : SubSeq(p, 1, Len(p) - 1)[i] = p[i]
<1> DEFINE n == Len(p) - 1
<1>1. n \in Nat /\ Len(p) = n + 1
  OBVIOUS
<1>2. \A i \in 1 .. n : p[i] \in D
  BY <1>1
<1> HIDE DEF n
<1>3. /\ SubSeq(p, 1, n) \in Seq(D) /\ Len(SubSeq(p, 1, n)) = n
      /\ \A i \in 1 .. n : SubSeq(p, 1, n)[i] = p[i]
  BY <1>1, <1>2
<1> QED BY <1>3 DEF n

LEMMA Joined ==
  ASSUME NEW D, NEW p \in Seq(D), NEW q \in Seq(D)
  PROVE  /\ p \o q \in Seq(D) /\ Len(p \o q) = Len(p) + Len(q)
         /\ \A i \in 1 .. Len(p) : (p \o q)[i] = p[i]
         /\ \A i \in 1 .. Len(q) : (p \o q)[Len(p) + i] = q[i]
OBVIOUS

LEMMA SameElements ==
  ASSUME NEW D, NEW p \in Seq(D), NEW q \in Seq(D), NEW n, Len(p) = n, Len(q) = n,
         \A i \in 1 .. n : p[i] = q[i]
  PROVE  p = q
OBVIOUS

(* A piece list is its complete pieces and the rest.                       *)
LEMMA CutsAre ==
  ASSUME NEW p \in Cuts
  PROVE  /\ Whole(p) \in Seq(Seq(Letter)) /\ Rest(p) \in Seq(Letter)
         /\ Len(p) \in Nat /\ Len(p) > 0 /\ Len(Whole(p)) = Len(p) - 1
         /\ \A i \in 1 .. Len(p) - 1 : Whole(p)[i] = p[i]
         /\ p = Whole(p) \o <<Rest(p)>>
<1> DEFINE len == Len(p)
           w == SubSeq(p, 1, len - 1)
           r == p[len]
<1>1. p \in Seq(Seq(Letter)) /\ len \in Nat /\ len > 0
  BY DEF Cuts
<1>2. r \in Seq(Letter)
  BY <1>1
<1>3. w \in Seq(Seq(Letter)) /\ Len(w) = len - 1 /\ \A i \in 1 .. len - 1 : w[i] = p[i]
  BY <1>1, AllButLast
<1>4. Whole(p) = w /\ Rest(p) = r
  BY DEF Whole, Rest, Parser!Front, Parser!Last
<1>5. p = w \o <<r>>
  <2>1. p = [i \in 1 .. len |-> p[i]]
    BY <1>1
  <2> DEFINE all == w \o <<r>>
  <2>2. <<r>> \in Seq(Seq(Letter)) /\ Len(<<r>>) = 1 /\ <<r>>[1] = r
    BY <1>2
  <2> DEFINE one == <<r>>
  <2> HIDE DEF w, one
  <2>3. /\ all \in Seq(Seq(Letter)) /\ Len(all) = len
        /\ \A i \in 1 .. len - 1 : all[i] = w[i]
        /\ all[len] = one[1]
    BY <1>1, <1>3, <2>2 DEF one
  <2> HIDE DEF all
  <2>4. \A i \in 1 .. len : all[i] = p[i]
    <3> SUFFICES ASSUME NEW i \in 1 .. len
                 PROVE  all[i] = p[i]
      OBVIOUS
    <3>1. CASE i = len
      BY <2>2, <2>3, <3>1 DEF one
    <3>2. CASE i # len
      <4>1. i \in 1 .. len - 1
        BY <1>1, <3>2
      <4> QED BY <1>3, <2>3, <4>1
    <3> QED BY <3>1, <3>2
  <2>5. all = [i \in 1 .. len |-> all[i]]
    BY <2>3
  <2>6. all = p
    BY <2>1, <2>4, <2>5
  <2> QED BY <2>6 DEF all, one
<1> QED BY <1>1, <1>2, <1>3, <1>4, <1>5

(* What is before the last piece is no matter to the next byte.            *)
LEMMA ExtendAfter ==
  ASSUME NEW w \in Seq(Seq(Letter)), NEW p \in Cuts, NEW b \in Byte
  PROVE  Parser!Extend(w \o p, b) = w \o Parser!Extend(p, b)
<1> DEFINE D == Seq(Letter)
           a == Len(w)
           len == Len(p)
           all == w \o p
           x == Parser!Extend(p, b)
           k == Len(x)
           left == Parser!Extend(all, b)
           right == w \o x
<1>1. p \in Seq(D) /\ w \in Seq(D) /\ a \in Nat /\ len \in Nat /\ len > 0
  BY DEF Cuts
<1> HIDE DEF D
<1>2. /\ all \in Seq(D) /\ Len(all) = a + len
      /\ \A i \in 1 .. a : all[i] = w[i]
      /\ \A i \in 1 .. len : all[a + i] = p[i]
  BY <1>1, Joined
<1> HIDE DEF all
<1>3. all \in Cuts
  <2>1. all # << >>
    BY <1>1, <1>2
  <2> QED BY <1>2, <2>1 DEF Cuts, D
<1>4. /\ x \in Cuts /\ k = len + (IF b = "nul" THEN 1 ELSE 0)
      /\ \A i \in 1 .. len - 1 : x[i] = p[i]
      /\ b = "nul" => x[len] = p[len] /\ x[len + 1] = << >>
      /\ b # "nul" => x[len] = Append(p[len], b)
  BY ExtendIsCut
<1>5. /\ left \in Cuts /\ Len(left) = a + len + (IF b = "nul" THEN 1 ELSE 0)
      /\ \A i \in 1 .. a + len - 1 : left[i] = all[i]
      /\ b = "nul" => left[a + len] = all[a + len] /\ left[a + len + 1] = << >>
      /\ b # "nul" => left[a + len] = Append(all[a + len], b)
  <2> DEFINE m == Len(all)
  <2>1. /\ left \in Cuts /\ Len(left) = m + (IF b = "nul" THEN 1 ELSE 0)
        /\ \A i \in 1 .. m - 1 : left[i] = all[i]
        /\ b = "nul" => left[m] = all[m] /\ left[m + 1] = << >>
        /\ b # "nul" => left[m] = Append(all[m], b)
    BY <1>3, ExtendIsCut
  <2>2. m = a + len
    BY <1>2
  <2> HIDE DEF m, a, len, left
  <2>3. Len(left) = a + len + (IF b = "nul" THEN 1 ELSE 0)
    BY <2>1, <2>2
  <2>4. \A i \in 1 .. a + len - 1 : left[i] = all[i]
    <3>1. 1 .. m - 1 = 1 .. a + len - 1
      BY <1>1, <2>2
    <3> QED BY <2>1, <3>1
  <2>5. b = "nul" => left[a + len] = all[a + len] /\ left[a + len + 1] = << >>
    BY <2>1, <2>2
  <2>6. b # "nul" => left[a + len] = Append(all[a + len], b)
    BY <2>1, <2>2
  <2> QED BY <2>1, <2>3, <2>4, <2>5, <2>6
<1>6. x \in Seq(D) /\ left \in Seq(D)
  BY <1>4, <1>5 DEF Cuts, D
<1> HIDE DEF x, left
<1>7. /\ right \in Seq(D) /\ Len(right) = a + k
      /\ \A i \in 1 .. a : right[i] = w[i]
      /\ \A i \in 1 .. k : right[a + i] = x[i]
  BY <1>1, <1>6, Joined
<1>8. k \in Nat /\ k >= len /\ k <= len + 1 /\ Len(left) = a + k
  <2> HIDE DEF a, len, k
  <2>1. CASE b = "nul"
    <3>1. k = len + 1 /\ Len(left) = a + len + 1
      BY <1>4, <1>5, <2>1
    <3> QED BY <1>1, <3>1
  <2>2. CASE b # "nul"
    <3>1. k = len + 0 /\ Len(left) = a + len + 0
      BY <1>4, <1>5, <2>2
    <3> QED BY <1>1, <3>1
  <2> QED BY <2>1, <2>2
<1> HIDE DEF right, a, len, k
<1>9. ASSUME NEW i \in 1 .. a + k
      PROVE  left[i] = right[i]
  <2>1. CASE i \in 1 .. a
    <3>1. i \in 1 .. a + len - 1
      BY <1>1, <2>1
    <3> QED BY <1>2, <1>5, <1>7, <2>1, <3>1
  <2>2. CASE i \notin 1 .. a
    <3> DEFINE j == i - a
    <3>1. j \in 1 .. k /\ i = a + j
      BY <1>1, <1>8, <2>2
    <3> HIDE DEF j
    <3>2. right[i] = x[j]
      BY <1>7, <3>1
    <3>3. CASE j \in 1 .. len - 1
      <4>1. j \in 1 .. len /\ a + j \in 1 .. a + len - 1
        BY <1>1, <3>3
      <4> QED BY <1>2, <1>4, <1>5, <3>1, <3>2, <3>3, <4>1
    <3>4. CASE j = len
      <4>1. len \in 1 .. len
        BY <1>1
      <4>2. all[a + len] = p[len]
        BY <1>2, <4>1
      <4> QED BY <1>4, <1>5, <3>1, <3>2, <3>4, <4>2
    <3>5. CASE j = len + 1
      <4>1. b = "nul"
        BY <1>1, <1>4, <1>8, <3>1, <3>5
      <4>2. i = a + len + 1
        BY <1>1, <3>1, <3>5
      <4> QED BY <1>4, <1>5, <3>2, <3>5, <4>1, <4>2
    <3>6. j \in 1 .. len - 1 \/ j = len \/ j = len + 1
      BY <1>1, <1>8, <3>1
    <3> QED BY <3>3, <3>4, <3>5, <3>6
  <2> QED BY <2>1, <2>2
<1>10. left = right
  BY <1>6, <1>7, <1>8, <1>9, SameElements
<1> QED BY <1>10 DEF left, right, all, x

(* Bytes without a separator are one piece.                                *)
LEMMA SplitLetters ==
  ASSUME NEW r \in Seq(Letter)
  PROVE  Parser!Split(r) = <<r>>
<1> DEFINE S == {t \in Seq(Letter) : Parser!Split(t) = <<t>>}
<1>1. << >> \in S
  BY SplitIs DEF OnePiece
<1>2. ASSUME NEW t \in Seq(Letter), NEW b \in Letter, t \in S
      PROVE  Append(t, b) \in S
  <2>1. t \in Seq(Byte) /\ b \in Byte /\ b # "nul"
    BY DEF Letter
  <2>2. Parser!Split(Append(t, b)) = Parser!Extend(Parser!Split(t), b)
    BY <2>1, SplitIs
  <2>3. Parser!Split(t) = <<t>>
    BY <1>2
  <2>4. Parser!Extend(<<t>>, b) = <<Append(t, b)>>
    <3> DEFINE one == <<t>>
    <3>1. one \in Seq(Seq(Letter)) /\ Len(one) = 1 /\ one[1] = t
      OBVIOUS
    <3>2. [one EXCEPT ![1] = Append(t, b)] = <<Append(t, b)>>
      OBVIOUS
    <3> HIDE DEF one
    <3>3. Parser!Extend(one, b) = [one EXCEPT ![1] = Append(t, b)]
      BY <2>1, <3>1 DEF Parser!Extend
    <3> QED BY <3>2, <3>3 DEF one
  <2>5. Append(t, b) \in Seq(Letter)
    OBVIOUS
  <2> QED BY <2>2, <2>3, <2>4, <2>5
<1>3. Seq(Letter) \subseteq S
  <2> HIDE DEF S
  <2> QED BY <1>1, <1>2, SequenceInduction
<1> QED BY <1>3

(* A stream may be cut anywhere: its pieces are the complete ones before   *)
(* the cut and the pieces of the rest with what follows.                   *)
LEMMA SplitResumes ==
  ASSUME NEW s \in Seq(Byte)
  PROVE  \A t \in Seq(Byte) :
           Parser!Split(s \o t) = Whole(Parser!Split(s)) \o Parser!Split(Rest(Parser!Split(s)) \o t)
<1> DEFINE w == Whole(Parser!Split(s))
           r == Rest(Parser!Split(s))
           S == {t \in Seq(Byte) : Parser!Split(s \o t) = w \o Parser!Split(r \o t)}
<1>1. Parser!Split(s) \in Cuts
  BY SplitIs
<1>2. w \in Seq(Seq(Letter)) /\ r \in Seq(Letter) /\ Parser!Split(s) = w \o <<r>>
  BY <1>1, CutsAre
<1>3. r \in Seq(Byte)
  BY <1>2 DEF Letter
<1>4. Parser!Split(r) = <<r>>
  <2> HIDE DEF r
  <2> QED BY <1>2, SplitLetters
<1> HIDE DEF w, r
<1>5. << >> \in S
  <2>1. s \o << >> = s /\ r \o << >> = r /\ << >> \in Seq(Byte)
    BY <1>3
  <2> QED BY <2>1, <1>2, <1>4
<1>6. ASSUME NEW t \in Seq(Byte), NEW b \in Byte, t \in S
      PROVE  Append(t, b) \in S
  <2> DEFINE left == s \o t
             right == r \o t
  <2>1. /\ s \o Append(t, b) = Append(left, b) /\ r \o Append(t, b) = Append(right, b)
        /\ left \in Seq(Byte) /\ right \in Seq(Byte) /\ Append(t, b) \in Seq(Byte)
    BY <1>3
  <2>2. Parser!Split(left) = w \o Parser!Split(right)
    BY <1>6
  <2> HIDE DEF left, right
  <2>3. /\ Parser!Split(Append(left, b)) = Parser!Extend(Parser!Split(left), b)
        /\ Parser!Split(Append(right, b)) = Parser!Extend(Parser!Split(right), b)
        /\ Parser!Split(right) \in Cuts
    BY <2>1, SplitIs
  <2>4. Parser!Extend(w \o Parser!Split(right), b) = w \o Parser!Extend(Parser!Split(right), b)
    BY <1>2, <2>3, ExtendAfter
  <2>5. Parser!Split(Append(left, b)) = w \o Parser!Split(Append(right, b))
    BY <2>2, <2>3, <2>4
  <2> QED BY <2>1, <2>5
<1>7. Seq(Byte) \subseteq S
  <2> HIDE DEF S
  <2> QED BY <1>5, <1>6, SequenceInduction
<1> QED BY <1>7 DEF w, r

(* The first piece only gets longer.                                       *)
LEMMA FirstPieceGrows ==
  ASSUME NEW r \in Seq(Letter)
  PROVE  \A t \in Seq(Byte) : Len(Parser!Split(r \o t)[1]) >= Len(r)
<1> DEFINE S == {t \in Seq(Byte) : Len(Parser!Split(r \o t)[1]) >= Len(r)}
<1>1. r \in Seq(Byte) /\ Len(r) \in Nat
  BY DEF Letter
<1>2. << >> \in S
  <2>1. r \o << >> = r /\ << >> \in Seq(Byte)
    BY <1>1
  <2>2. Parser!Split(r) = <<r>>
    BY SplitLetters
  <2>3. <<r>>[1] = r
    OBVIOUS
  <2> QED BY <1>1, <2>1, <2>2, <2>3
<1>3. ASSUME NEW t \in Seq(Byte), NEW b \in Byte, t \in S
      PROVE  Append(t, b) \in S
  <2> DEFINE before == r \o t
             p == Parser!Split(before)
             e == Parser!Extend(p, b)
  <2>1. r \o Append(t, b) = Append(before, b) /\ before \in Seq(Byte) /\ Append(t, b) \in Seq(Byte)
    BY <1>1
  <2>2. Len(p[1]) >= Len(r)
    BY <1>3
  <2> HIDE DEF before
  <2>3. Parser!Split(Append(before, b)) = e /\ p \in Cuts
    BY <2>1, SplitIs
  <2> HIDE DEF p
  <2>4. p \in Seq(Seq(Letter)) /\ Len(p) \in Nat /\ Len(p) > 0
    BY <2>3 DEF Cuts
  <2>5. p[1] \in Seq(Letter)
    BY <2>4
  <2>6. e[1] = p[1] \/ e[1] = Append(p[1], b)
    <3>1. CASE Len(p) = 1
      BY <2>3, <3>1, ExtendIsCut
    <3>2. CASE Len(p) # 1
      <4> DEFINE k == Len(p)
      <4>1. k \in Nat /\ k > 0 /\ k # 1
        BY <2>4, <3>2
      <4> HIDE DEF k
      <4>2. 1 \in 1 .. k - 1
        BY <4>1
      <4> QED BY <2>3, <4>2, ExtendIsCut DEF k
    <3> QED BY <3>1, <3>2
  <2> HIDE DEF e
  <2>7. Len(e[1]) >= Len(p[1])
    BY <2>5, <2>6
  <2>8. Len(e[1]) >= Len(r)
    <3>1. Len(p[1]) \in Nat
      BY <2>5
    <3>2. Len(e[1]) \in Nat
      <4> DEFINE f == p[1]
      <4>1. f \in Seq(Letter) /\ Len(f) \in Nat /\ Len(Append(f, b)) \in Nat
        BY <2>5
      <4> QED BY <2>6, <4>1
    <3> QED BY <1>1, <2>2, <2>7, <3>1, <3>2
  <2> QED BY <2>1, <2>3, <2>8
<1>4. Seq(Byte) \subseteq S
  <2> HIDE DEF S
  <2> QED BY <1>2, <1>3, SequenceInduction
<1> QED BY <1>4

(* Nothing is left over exactly when the stream ends with a separator.     *)
LEMMA TerminatedIs ==
  ASSUME NEW s \in Seq(Byte)
  PROVE  Parser!Terminated(s) <=> Rest(Parser!Split(s)) = << >>
<1>1. CASE s = << >>
  <2>1. Rest(OnePiece) = << >>
    BY DEF Rest, OnePiece, Parser!Last
  <2> QED BY <1>1, <2>1, SplitIs DEF Parser!Terminated
<1>2. CASE s # << >>
  <2> DEFINE n == Len(s) - 1
             t == [i \in 1 .. n |-> s[i]]
             b == s[n + 1]
  <2>1. n \in Nat /\ n + 1 = Len(s)
    BY <1>2
  <2>2. t \in Seq(Byte) /\ b \in Byte /\ s = Append(t, b)
    BY <2>1
  <2>3. Parser!Terminated(s) <=> b = "nul"
    BY <1>2, <2>1 DEF Parser!Terminated, Parser!Last
  <2> DEFINE p == Parser!Split(t)
             e == Parser!Extend(p, b)
  <2> HIDE DEF t, b
  <2>4. Parser!Split(s) = e /\ p \in Cuts
    BY <2>2, SplitIs
  <2> HIDE DEF p
  <2>5. p \in Seq(Seq(Letter)) /\ Len(p) \in Nat /\ Len(p) > 0 /\ p[Len(p)] \in Seq(Letter)
    BY <2>4 DEF Cuts
  <2>6. b = "nul" => Len(e) = Len(p) + 1 /\ e[Len(p) + 1] = << >>
    BY <2>2, <2>4, ExtendIsCut
  <2>7. b # "nul" => Len(e) = Len(p) + 0 /\ e[Len(p)] = Append(p[Len(p)], b)
    BY <2>2, <2>4, ExtendIsCut
  <2>8. Append(p[Len(p)], b) # << >>
    <3> DEFINE l == p[Len(p)]
    <3>1. l \in Seq(Letter)
      BY <2>5
    <3> HIDE DEF l
    <3>2. Append(l, b) # << >>
      BY <3>1
    <3> QED BY <3>2 DEF l
  <2> HIDE DEF e
  <2>9. Rest(e) = << >> <=> b = "nul"
    BY <2>5, <2>6, <2>7, <2>8 DEF Rest, Parser!Last
  <2> QED BY <2>3, <2>4, <2>9
<1> QED BY <1>1, <1>2

-----------------------------------------------------------------------------
(* The loop over the records of a chunk, and over those of a listing.      *)
Record == Seq(Letter)
Paths == Seq(Seq(PathSymbol))
State == [invalid : BOOLEAN, entries : Paths, unmerged : BOOLEAN]
Take == [r \in Record |-> [st \in State |-> Parser!ConsumeRecord(st, r)]]
StagedOf(r) == IF Parser!Merged(r) THEN <<r>> ELSE << >>
Collect == [r \in Record |-> [e \in Paths |-> e \o StagedOf(r)]]

\* What is in a list, and what stops the parser at a record.
Elements(s) == {s[i] : i \in 1 .. Len(s)}
Refused(e, r) ==
  \/ Len(r) > MaxRecord
  \/ ~Parser!Matches(r)
  \/ ~Parser!Unmerged(r) /\ r \in Elements(e)

LEMMA SymbolsAre ==
  /\ Letter = PathSymbol \cup {"bad", "unmerged"}
  /\ "nul" \notin PathSymbol /\ "bad" \notin PathSymbol /\ "unmerged" \notin PathSymbol
BY IndexListingAssumption DEF Letter

(* A record of the current stage is a path.                                *)
LEMMA MergedIsPath ==
  ASSUME NEW r \in Record, Parser!Merged(r)
  PROVE  r \in Seq(PathSymbol)
<1>1. Len(r) \in Nat /\ r = [i \in 1 .. Len(r) |-> r[i]]
  BY DEF Record
<1>2. \A i \in 1 .. Len(r) : r[i] \in PathSymbol
  BY DEF Parser!Merged, Parser!Matches, Parser!Unmerged
<1> QED BY <1>1, <1>2

(* One record.                                                             *)
LEMMA ConsumeRecordIs ==
  ASSUME NEW st \in State, NEW r \in Record
  PROVE  /\ Parser!ConsumeRecord(st, r) \in State
         /\ st.invalid => Parser!ConsumeRecord(st, r) = st
         /\ ~st.invalid /\ Refused(st.entries, r) => Parser!ConsumeRecord(st, r).invalid
         /\ ~st.invalid /\ ~Refused(st.entries, r) =>
              /\ ~Parser!ConsumeRecord(st, r).invalid
              /\ Parser!ConsumeRecord(st, r).entries = st.entries \o StagedOf(r)
              /\ Parser!ConsumeRecord(st, r).unmerged <=> st.unmerged \/ Parser!Unmerged(r)
<1> DEFINE next == Parser!ConsumeRecord(st, r)
<1>1. st.invalid \in BOOLEAN /\ st.entries \in Paths /\ st.unmerged \in BOOLEAN
  BY DEF State
<1>2. CASE st.invalid
  BY <1>2 DEF Parser!ConsumeRecord
<1>3. CASE ~st.invalid /\ Refused(st.entries, r)
  <2>1. next = [st EXCEPT !.invalid = TRUE]
    BY <1>3 DEF Parser!ConsumeRecord, Refused, Elements
  <2> QED BY <1>3, <2>1 DEF State
<1>4. CASE ~st.invalid /\ ~Refused(st.entries, r) /\ Parser!Unmerged(r)
  <2>1. next = [st EXCEPT !.unmerged = TRUE]
    BY <1>4 DEF Parser!ConsumeRecord, Refused, Elements
  <2>2. StagedOf(r) = << >> /\ st.entries \o << >> = st.entries
    BY <1>1, <1>4 DEF StagedOf, Parser!Merged, Paths
  <2>3. next \in State /\ next.invalid = st.invalid /\ next.entries = st.entries /\ next.unmerged
    BY <2>1 DEF State
  <2> QED BY <1>4, <2>2, <2>3
<1>5. CASE ~st.invalid /\ ~Refused(st.entries, r) /\ ~Parser!Unmerged(r)
  <2>1. next = [st EXCEPT !.entries = Append(@, r)]
    BY <1>5 DEF Parser!ConsumeRecord, Refused, Elements
  <2>2. Parser!Merged(r)
    BY <1>5 DEF Refused, Parser!Merged
  <2>3. r \in Seq(PathSymbol)
    BY <2>2, MergedIsPath
  <2>4. StagedOf(r) = <<r>>
    BY <2>2 DEF StagedOf
  <2> DEFINE P == Seq(PathSymbol)
             e == st.entries
             longer == Append(e, r)
  <2>5. e \in Seq(P) /\ r \in P
    BY <1>1, <2>3 DEF Paths
  <2> HIDE DEF P, e
  <2>6. longer \in Seq(P) /\ longer = e \o <<r>>
    BY <2>5
  <2>7. longer \in Paths
    BY <2>6 DEF P, Paths
  <2> HIDE DEF longer
  <2>8. next = [st EXCEPT !.entries = longer]
    BY <2>1 DEF longer, e
  <2>9. next \in State /\ next.invalid = st.invalid /\ next.entries = longer
        /\ next.unmerged = st.unmerged
    BY <2>7, <2>8 DEF State
  <2> QED BY <1>5, <2>4, <2>6, <2>9 DEF e
<1> QED BY <1>1, <1>2, <1>3, <1>4, <1>5

LEMMA TakeActs == Acts(Take, Record, State)
  BY ConsumeRecordIs DEF Acts, Take

LEMMA CollectActs == Acts(Collect, Record, Paths)
<1> SUFFICES ASSUME NEW r \in Record, NEW e \in Paths
             PROVE  e \o StagedOf(r) \in Paths
  BY DEF Acts, Collect
<1> DEFINE P == Seq(PathSymbol)
<1>1. e \in Seq(P) /\ (Parser!Merged(r) => r \in P)
  BY MergedIsPath DEF Paths
<1> HIDE DEF P
<1>2. StagedOf(r) \in Seq(P)
  BY <1>1 DEF StagedOf
<1>3. e \o StagedOf(r) \in Seq(P)
  BY <1>1, <1>2
<1> QED BY <1>3 DEF P, Paths

LEMMA ConsumeIsRun ==
  ASSUME NEW before \in State, NEW s \in Seq(Record)
  PROVE  Parser!ConsumeRecords(before, s) = Run(Take, before, s)
<1> DEFINE N == Len(s)
           IsAfter(g) == g = [n \in 0 .. N |-> IF n = 0 THEN before ELSE Parser!ConsumeRecord(g[n - 1], s[n])]
           g == CHOOSE h : IsAfter(h)
<1>1. N \in Nat /\ \A n \in 1 .. N : s[n] \in Record
  OBVIOUS
<1>2. PICK f \in [0 .. N -> State] : Along(Take, before, s, f)
  BY TakeActs, AlongExists
<1>3. Run(Take, before, s) = f[N]
  BY <1>2, AlongIsRun
<1>4. f[0] = before
  BY <1>2 DEF Along
<1>5. ASSUME NEW n \in 1 .. N
      PROVE  f[n] = Parser!ConsumeRecord(f[n - 1], s[n])
  <2>1. f[n] = Take[s[n]][f[n - 1]]
    BY <1>2 DEF Along
  <2>2. s[n] \in Record
    BY <1>1
  <2>3. n - 1 \in 0 .. N
    BY <1>1
  <2>4. f[n - 1] \in State
    BY <2>3
  <2> QED BY <2>1, <2>2, <2>4 DEF Take
<1>6. Parser!ConsumeRecords(before, s) = g[N]
  BY DEF Parser!ConsumeRecords
<1> HIDE DEF N
<1>7. IsAfter(f)
  <2>1. f = [n \in 0 .. N |-> f[n]]
    OBVIOUS
  <2>2. \A n \in 0 .. N : n # 0 => n \in 1 .. N
    BY <1>1
  <2>3. \A n \in 0 .. N : f[n] = IF n = 0 THEN before ELSE Parser!ConsumeRecord(f[n - 1], s[n])
    BY <1>4, <1>5, <2>2
  <2> QED BY <2>1, <2>3
<1>8. IsAfter(g)
  <2> HIDE DEF IsAfter
  <2> QED BY <1>7
<1> HIDE DEF g
<1>9. \A n \in 0 .. N : g[n] = IF n = 0 THEN before ELSE Parser!ConsumeRecord(g[n - 1], s[n])
  BY <1>8
<1>10. f[0] = g[0]
  <2>1. 0 \in 0 .. N
    BY <1>1
  <2> QED BY <1>4, <1>9, <2>1
<1>11. ASSUME NEW n \in 1 .. N, f[n - 1] = g[n - 1]
       PROVE  f[n] = g[n]
  <2>1. n \in 0 .. N /\ n # 0
    BY <1>1
  <2>2. g[n] = Parser!ConsumeRecord(g[n - 1], s[n])
    BY <1>9, <2>1
  <2> QED BY <1>5, <1>11, <2>2
<1>12. f[N] = g[N]
  BY <1>1, <1>10, <1>11, SameAlong
<1> QED BY <1>3, <1>6, <1>12 DEF N

LEMMA StagedIsRun ==
  ASSUME NEW s \in Seq(Record)
  PROVE  Parser!Staged(s) = Run(Collect, << >>, s)
<1> DEFINE N == Len(s)
           none == << >>
           IsStaged(g) == g = [n \in 0 .. N |-> IF n = 0 THEN none
                                                ELSE g[n - 1] \o (IF Parser!Merged(s[n]) THEN <<s[n]>> ELSE none)]
           g == CHOOSE h : IsStaged(h)
<1>1. N \in Nat /\ \A n \in 1 .. N : s[n] \in Record
  OBVIOUS
<1>2. none \in Paths
  BY DEF Paths
<1>3. Parser!Staged(s) = g[N]
  BY DEF Parser!Staged
<1>4. \A r : StagedOf(r) = IF Parser!Merged(r) THEN <<r>> ELSE none
  BY DEF StagedOf
<1> HIDE DEF N, none
<1>5. PICK f \in [0 .. Len(s) -> Paths] : Along(Collect, none, s, f)
  BY <1>2, CollectActs, AlongExists
<1>6. Run(Collect, none, s) = f[N]
  BY <1>5, AlongIsRun DEF N
<1>7. f[0] = none
  BY <1>5 DEF Along
<1>8. ASSUME NEW n \in 1 .. N
      PROVE  f[n] = f[n - 1] \o StagedOf(s[n])
  <2>1. f[n] = Collect[s[n]][f[n - 1]]
    BY <1>5 DEF Along, N
  <2>2. s[n] \in Record
    BY <1>1
  <2>3. n - 1 \in 0 .. N
    BY <1>1
  <2>4. f[n - 1] \in Paths
    BY <1>5, <2>3 DEF N
  <2> QED BY <2>1, <2>2, <2>4 DEF Collect
<1>9. IsStaged(f)
  <2>1. f = [n \in 0 .. N |-> f[n]]
    BY <1>5 DEF N
  <2>2. \A n \in 0 .. N : n # 0 => n \in 1 .. N
    BY <1>1
  <2>3. \A n \in 0 .. N : f[n] = IF n = 0 THEN none
                                 ELSE f[n - 1] \o (IF Parser!Merged(s[n]) THEN <<s[n]>> ELSE none)
    BY <1>4, <1>7, <1>8, <2>2
  <2> QED BY <2>1, <2>3
<1>10. IsStaged(g)
  <2> HIDE DEF IsStaged
  <2> QED BY <1>9
<1> HIDE DEF g
<1>11. \A n \in 0 .. N : g[n] = IF n = 0 THEN none
                                ELSE g[n - 1] \o (IF Parser!Merged(s[n]) THEN <<s[n]>> ELSE none)
  BY <1>10
<1>12. f[0] = g[0]
  <2>1. 0 \in 0 .. N
    BY <1>1
  <2> QED BY <1>7, <1>11, <2>1
<1>13. ASSUME NEW n \in 1 .. N, f[n - 1] = g[n - 1]
       PROVE  f[n] = g[n]
  <2>1. n \in 0 .. N /\ n # 0
    BY <1>1
  <2>2. g[n] = g[n - 1] \o (IF Parser!Merged(s[n]) THEN <<s[n]>> ELSE none)
    BY <1>11, <2>1
  <2> QED BY <1>4, <1>8, <1>13, <2>2
<1>14. f[N] = g[N]
  BY <1>1, <1>12, <1>13, SameAlong
<1> QED BY <1>3, <1>6, <1>14 DEF none

(* The loops over no record, over one more, and over what comes later.     *)
LEMMA ConsumeIs ==
  ASSUME NEW before \in State
  PROVE  /\ Parser!ConsumeRecords(before, << >>) = before
         /\ \A s \in Seq(Record) : Parser!ConsumeRecords(before, s) \in State
         /\ \A s \in Seq(Record), r \in Record :
              Parser!ConsumeRecords(before, Append(s, r)) = Parser!ConsumeRecord(Parser!ConsumeRecords(before, s), r)
<1>1. Parser!ConsumeRecords(before, << >>) = before
  <2> DEFINE none == << >>
  <2>1. none \in Seq(Record)
    OBVIOUS
  <2> HIDE DEF none
  <2>2. Parser!ConsumeRecords(before, none) = Run(Take, before, none)
    BY <2>1, ConsumeIsRun
  <2> QED BY <2>2, TakeActs, RunIs DEF none
<1>2. ASSUME NEW s \in Seq(Record)
      PROVE  Parser!ConsumeRecords(before, s) \in State
  BY TakeActs, RunIs, ConsumeIsRun
<1>3. ASSUME NEW s \in Seq(Record), NEW r \in Record
      PROVE  Parser!ConsumeRecords(before, Append(s, r)) = Parser!ConsumeRecord(Parser!ConsumeRecords(before, s), r)
  <2> DEFINE more == Append(s, r)
  <2>1. more \in Seq(Record)
    OBVIOUS
  <2>2. Run(Take, before, more) = Take[r][Run(Take, before, s)]
    BY TakeActs, RunIs
  <2> HIDE DEF more
  <2>3. Parser!ConsumeRecords(before, more) = Take[r][Parser!ConsumeRecords(before, s)]
    BY <2>1, <2>2, ConsumeIsRun
  <2>4. Parser!ConsumeRecords(before, s) \in State
    BY <1>2
  <2> QED BY <2>3, <2>4 DEF more, Take
<1> QED BY <1>1, <1>2, <1>3

LEMMA ConsumeResumes ==
  ASSUME NEW before \in State, NEW s \in Seq(Record), NEW t \in Seq(Record)
  PROVE  Parser!ConsumeRecords(before, s \o t) = Parser!ConsumeRecords(Parser!ConsumeRecords(before, s), t)
<1> DEFINE all == s \o t
           mid == Parser!ConsumeRecords(before, s)
<1>1. all \in Seq(Record)
  OBVIOUS
<1>2. mid \in State
  BY ConsumeIs
<1>3. Run(Take, before, s \o t) = Run(Take, Run(Take, before, s), t)
  BY TakeActs, RunResumes
<1>4. mid = Run(Take, before, s)
  BY ConsumeIsRun
<1> HIDE DEF mid
<1>5. Parser!ConsumeRecords(mid, t) = Run(Take, mid, t)
  BY <1>2, ConsumeIsRun
<1>6. Parser!ConsumeRecords(before, all) = Run(Take, before, all)
  <2> HIDE DEF all
  <2> QED BY <1>1, ConsumeIsRun
<1> QED BY <1>3, <1>4, <1>5, <1>6 DEF mid

(* An invalid parser stays as it is.                                       *)
LEMMA InvalidStays ==
  ASSUME NEW st \in State, st.invalid
  PROVE  \A s \in Seq(Record) : Parser!ConsumeRecords(st, s) = st
<1> DEFINE S == {s \in Seq(Record) : Parser!ConsumeRecords(st, s) = st}
<1>1. << >> \in S
  BY ConsumeIs
<1>2. ASSUME NEW s \in Seq(Record), NEW r \in Record, s \in S
      PROVE  Append(s, r) \in S
  <2>1. Parser!ConsumeRecords(st, Append(s, r)) = Parser!ConsumeRecord(Parser!ConsumeRecords(st, s), r)
    BY ConsumeIs
  <2>2. Parser!ConsumeRecords(st, s) = st
    BY <1>2
  <2>3. Parser!ConsumeRecord(st, r) = st
    BY ConsumeRecordIs
  <2>4. Append(s, r) \in Seq(Record)
    OBVIOUS
  <2> QED BY <2>1, <2>2, <2>3, <2>4
<1>3. Seq(Record) \subseteq S
  <2> HIDE DEF S
  <2> QED BY <1>1, <1>2, SequenceInduction
<1> QED BY <1>3

LEMMA StagedIs ==
  /\ Parser!Staged(<< >>) = << >>
  /\ \A s \in Seq(Record) : Parser!Staged(s) \in Paths
  /\ \A s \in Seq(Record), r \in Record : Parser!Staged(Append(s, r)) = Parser!Staged(s) \o StagedOf(r)
<1> DEFINE none == << >>
<1>1. none \in Paths /\ none \in Seq(Record)
  BY DEF Paths
<1>2. \A s \in Seq(Record) : Parser!Staged(s) = Run(Collect, none, s)
  BY StagedIsRun
<1> HIDE DEF none
<1>3. Parser!Staged(none) = none
  <2>1. Run(Collect, none, << >>) = none
    BY <1>1, CollectActs, RunIs
  <2> QED BY <1>1, <1>2, <2>1 DEF none
<1>4. ASSUME NEW s \in Seq(Record)
      PROVE  Parser!Staged(s) \in Paths
  BY <1>1, <1>2, CollectActs, RunIs
<1>5. ASSUME NEW s \in Seq(Record), NEW r \in Record
      PROVE  Parser!Staged(Append(s, r)) = Parser!Staged(s) \o StagedOf(r)
  <2> DEFINE more == Append(s, r)
  <2>1. more \in Seq(Record)
    OBVIOUS
  <2>2. Run(Collect, none, more) = Collect[r][Run(Collect, none, s)]
    BY <1>1, CollectActs, RunIs
  <2> HIDE DEF more
  <2>3. Parser!Staged(more) = Collect[r][Parser!Staged(s)]
    BY <1>2, <2>1, <2>2
  <2>4. Parser!Staged(s) \in Paths
    BY <1>4
  <2> QED BY <2>3, <2>4 DEF more, Collect
<1> QED BY <1>3, <1>4, <1>5 DEF none

-----------------------------------------------------------------------------
(* What the loop comes to, in the words of the whole listing.              *)
Good(s) ==
  \A i \in 1 .. Len(s) :
    /\ Parser!Matches(s[i]) /\ Len(s[i]) <= MaxRecord
    /\ \A j \in 1 .. i - 1 : Parser!Merged(s[i]) => s[j] # s[i]

Fresh == [invalid |-> FALSE, entries |-> << >>, unmerged |-> FALSE]

AgreeAfter(st, s) ==
  /\ Good(s) <=> ~st.invalid
  /\ ~st.invalid => /\ st.entries = Parser!Staged(s)
                    /\ st.unmerged <=> \E i \in 1 .. Len(s) : Parser!Unmerged(s[i])
  /\ Elements(Parser!Staged(s)) = {r \in Elements(s) : Parser!Merged(r)}

Agree(s) == AgreeAfter(Parser!ConsumeRecords(Fresh, s), s)

LEMMA ElementsAre ==
  /\ Elements(<< >>) = {}
  /\ \A D : \A s \in Seq(D), x \in D : Elements(Append(s, x)) = Elements(s) \cup {x}
<1>1. Elements(<< >>) = {}
  BY DEF Elements
<1>2. ASSUME NEW D, NEW s \in Seq(D), NEW x \in D
      PROVE  Elements(Append(s, x)) = Elements(s) \cup {x}
  <2> DEFINE n == Len(s)
             more == Append(s, x)
  <2>1. n \in Nat /\ Len(more) = n + 1 /\ more[n + 1] = x /\ \A i \in 1 .. n : more[i] = s[i]
    OBVIOUS
  <2> HIDE DEF n, more
  <2>2. 1 .. n + 1 = (1 .. n) \cup {n + 1}
    BY <2>1
  <2>3. {more[i] : i \in 1 .. n + 1} = {s[i] : i \in 1 .. n} \cup {x}
    BY <2>1, <2>2
  <2> QED BY <2>1, <2>3 DEF Elements, n, more
<1> QED BY <1>1, <1>2

LEMMA GoodIs ==
  /\ Good(<< >>)
  /\ \A s \in Seq(Record), r \in Record :
       Good(Append(s, r)) <=> /\ Good(s) /\ Parser!Matches(r) /\ Len(r) <= MaxRecord
                              /\ Parser!Merged(r) => r \notin Elements(s)
<1>1. Good(<< >>)
  BY DEF Good
<1>2. ASSUME NEW s \in Seq(Record), NEW r \in Record
      PROVE  Good(Append(s, r)) <=> /\ Good(s) /\ Parser!Matches(r) /\ Len(r) <= MaxRecord
                                    /\ Parser!Merged(r) => r \notin Elements(s)
  <2> DEFINE n == Len(s)
             more == Append(s, r)
             fine(q, i) == /\ Parser!Matches(q[i]) /\ Len(q[i]) <= MaxRecord
                           /\ \A j \in 1 .. i - 1 : Parser!Merged(q[i]) => q[j] # q[i]
  <2>1. n \in Nat /\ Len(more) = n + 1 /\ more[n + 1] = r /\ \A i \in 1 .. n : more[i] = s[i]
    OBVIOUS
  <2>2. Good(s) <=> \A i \in 1 .. n : fine(s, i)
    BY DEF Good
  <2>3. Good(more) <=> \A i \in 1 .. n + 1 : fine(more, i)
    BY <2>1 DEF Good
  <2> HIDE DEF n, more
  <2>4. ASSUME NEW i \in 1 .. n
        PROVE  fine(more, i) <=> fine(s, i)
    <3>1. more[i] = s[i] /\ \A j \in 1 .. i - 1 : more[j] = s[j]
      BY <2>1
    <3> QED BY <3>1
  <2>5. fine(more, n + 1) <=> /\ Parser!Matches(r) /\ Len(r) <= MaxRecord
                              /\ Parser!Merged(r) => r \notin Elements(s)
    <3>1. (n + 1) - 1 = n
      BY <2>1
    <3>2. \A j \in 1 .. (n + 1) - 1 : more[j] = s[j]
      BY <2>1, <3>1
    <3>3. r \notin Elements(s) <=> \A j \in 1 .. (n + 1) - 1 : s[j] # r
      BY <3>1 DEF Elements, n
    <3> QED BY <2>1, <3>2, <3>3
  <2> HIDE DEF fine
  <2>6. (\A i \in 1 .. n + 1 : fine(more, i)) <=> (\A i \in 1 .. n : fine(more, i)) /\ fine(more, n + 1)
    <3>1. 1 .. n + 1 = (1 .. n) \cup {n + 1}
      BY <2>1
    <3> QED BY <3>1
  <2> QED BY <2>2, <2>3, <2>4, <2>5, <2>6 DEF more
<1> QED BY <1>1, <1>2

LEMMA FreshIsState == Fresh \in State
  BY DEF Fresh, State, Paths

\* The parts of Agree for one more record.
LEMMA AgreeOneMore ==
  ASSUME NEW s \in Seq(Record), NEW r \in Record, Agree(s)
  PROVE  Agree(Append(s, r))
<1> DEFINE more == Append(s, r)
           st == Parser!ConsumeRecords(Fresh, s)
           next == Parser!ConsumeRecord(st, r)
           staged == Parser!Staged(s)
           some(q) == \E i \in 1 .. Len(q) : Parser!Unmerged(q[i])
<1>1. st \in State /\ Parser!ConsumeRecords(Fresh, more) = next
  BY FreshIsState, ConsumeIs
<1>2. /\ Good(s) <=> ~st.invalid
      /\ ~st.invalid => st.entries = staged /\ (st.unmerged <=> some(s))
      /\ Elements(staged) = {x \in Elements(s) : Parser!Merged(x)}
  BY DEF Agree, AgreeAfter
<1>3. staged \in Paths /\ Parser!Staged(more) = staged \o StagedOf(r)
  BY StagedIs
<1>4. Elements(more) = Elements(s) \cup {r}
  BY ElementsAre
<1>5. some(more) <=> some(s) \/ Parser!Unmerged(r)
  <2> DEFINE n == Len(s)
  <2>1. n \in Nat /\ Len(more) = n + 1 /\ more[n + 1] = r /\ \A i \in 1 .. n : more[i] = s[i]
    OBVIOUS
  <2> HIDE DEF n, more
  <2>2. 1 .. n + 1 = (1 .. n) \cup {n + 1}
    BY <2>1
  <2> QED BY <2>1, <2>2 DEF n
<1>6. Good(more) <=> /\ Good(s) /\ Parser!Matches(r) /\ Len(r) <= MaxRecord
                     /\ Parser!Merged(r) => r \notin Elements(s)
  BY GoodIs
<1>7. /\ next \in State
      /\ st.invalid => next = st
      /\ ~st.invalid /\ Refused(st.entries, r) => next.invalid
      /\ ~st.invalid /\ ~Refused(st.entries, r) =>
           /\ ~next.invalid /\ next.entries = st.entries \o StagedOf(r)
           /\ next.unmerged <=> st.unmerged \/ Parser!Unmerged(r)
  BY <1>1, ConsumeRecordIs
<1>8. Elements(staged \o StagedOf(r)) = {x \in Elements(s) \cup {r} : Parser!Merged(x)}
  <2>1. CASE Parser!Merged(r)
    <3> DEFINE P == Seq(PathSymbol)
    <3>1. staged \in Seq(P) /\ r \in P
      BY <1>3, <2>1, MergedIsPath DEF Paths
    <3> HIDE DEF P, staged
    <3>2. staged \o <<r>> = Append(staged, r)
      BY <3>1
    <3>3. Elements(Append(staged, r)) = Elements(staged) \cup {r}
      BY <3>1, ElementsAre
    <3> QED BY <1>2, <2>1, <3>2, <3>3 DEF StagedOf
  <2>2. CASE ~Parser!Merged(r)
    <3>1. staged \o << >> = staged
      BY <1>3 DEF Paths
    <3> QED BY <1>2, <2>2, <3>1 DEF StagedOf
  <2> QED BY <2>1, <2>2
<1>9. Elements(Parser!Staged(more)) = {x \in Elements(more) : Parser!Merged(x)}
  BY <1>3, <1>4, <1>8
<1>10. Refused(staged, r) <=> ~(/\ Parser!Matches(r) /\ Len(r) <= MaxRecord
                                /\ Parser!Merged(r) => r \notin Elements(s))
  <2>1. Len(r) > MaxRecord <=> ~(Len(r) <= MaxRecord)
    BY IndexListingAssumption DEF Record
  <2> QED BY <1>2, <2>1 DEF Refused, Parser!Merged
<1> HIDE DEF more, st, next, staged, some
<1>11. Good(more) <=> ~next.invalid
  BY <1>2, <1>6, <1>7, <1>10
<1>12. ~next.invalid => next.entries = Parser!Staged(more) /\ (next.unmerged <=> some(more))
  BY <1>2, <1>3, <1>5, <1>7
<1>13. AgreeAfter(next, more)
  BY <1>9, <1>11, <1>12 DEF AgreeAfter, some
<1> QED BY <1>1, <1>13 DEF Agree, more

(* The loop accepts exactly the records that are good, and then has their  *)
(* paths in order and knows whether one of them is unmerged.               *)
LEMMA ConsumeAgrees == \A s \in Seq(Record) : Agree(s)
<1> DEFINE S == {s \in Seq(Record) : Agree(s)}
<1>1. << >> \in S
  <2>1. Parser!ConsumeRecords(Fresh, << >>) = Fresh
    BY FreshIsState, ConsumeIs
  <2>2. Good(<< >>) /\ Elements(<< >>) = {} /\ Parser!Staged(<< >>) = << >>
    BY GoodIs, ElementsAre, StagedIs
  <2>3. ~Fresh.invalid /\ Fresh.entries = << >> /\ ~Fresh.unmerged
    BY DEF Fresh
  <2>4. ~\E i \in 1 .. Len(<< >>) : Parser!Unmerged(<< >>[i])
    OBVIOUS
  <2> DEFINE none == << >>
  <2>5. none \in Seq(Record)
    OBVIOUS
  <2> HIDE DEF none
  <2>6. Agree(none)
    BY <2>1, <2>2, <2>3, <2>4 DEF Agree, AgreeAfter, none
  <2> QED BY <2>5, <2>6 DEF none
<1>2. ASSUME NEW s \in Seq(Record), NEW r \in Record, s \in S
      PROVE  Append(s, r) \in S
  <2>1. Append(s, r) \in Seq(Record)
    OBVIOUS
  <2> QED BY <1>2, <2>1, AgreeOneMore
<1>3. Seq(Record) \subseteq S
  <2> HIDE DEF S
  <2> QED BY <1>1, <1>2, SequenceInduction
<1> QED BY <1>3

-----------------------------------------------------------------------------
(* What the parser knows of the part p of a listing it was fed.            *)
LEMMA WellFormedIs ==
  ASSUME NEW s \in Seq(Byte)
  PROVE  /\ Parser!Records(s) = Whole(Parser!Split(s)) /\ Parser!Records(s) \in Seq(Record)
         /\ Parser!WellFormed(s) <=> Rest(Parser!Split(s)) = << >> /\ Good(Parser!Records(s))
<1>1. Parser!Records(s) = Whole(Parser!Split(s))
  BY DEF Parser!Records, Whole
<1>2. Parser!Records(s) \in Seq(Record)
  BY <1>1, SplitIs, CutsAre DEF Record
<1>3. Parser!WellFormed(s) <=> Parser!Terminated(s) /\ Good(Parser!Records(s))
  BY DEF Parser!WellFormed, Good
<1> QED BY <1>1, <1>2, <1>3, TerminatedIs

\* The records of a stream are those before a cut, and those after it.
LEMMA RecordsResume ==
  ASSUME NEW p \in Seq(Byte), NEW t \in Seq(Byte)
  PROVE  LET r == Rest(Parser!Split(p))
             q == Parser!Split(r \o t)
         IN  /\ Rest(Parser!Split(p \o t)) = Rest(q)
             /\ Parser!Records(p \o t) = Parser!Records(p) \o Whole(q)
             /\ q \in Cuts /\ r \in Seq(Letter) /\ r \o t \in Seq(Byte)
<1> DEFINE w == Whole(Parser!Split(p))
           r == Rest(Parser!Split(p))
           q == Parser!Split(r \o t)
           all == Parser!Split(p \o t)
<1>1. w \in Seq(Record) /\ r \in Record
  BY SplitIs, CutsAre DEF Record
<1>2. r \o t \in Seq(Byte) /\ p \o t \in Seq(Byte)
  BY <1>1 DEF Record, Letter
<1>3. q \in Cuts /\ all \in Cuts
  BY <1>2, SplitIs
<1>4. all = w \o q
  BY SplitResumes
<1> HIDE DEF w, r, q
<1>5. /\ Whole(q) \in Seq(Record) /\ Rest(q) \in Record /\ Len(q) \in Nat /\ Len(q) > 0
      /\ q \in Seq(Record)
  BY <1>3, CutsAre DEF Record, Cuts
<1>6. Rest(all) = Rest(q)
  <2>1. Len(all) = Len(w) + Len(q) /\ all[Len(w) + Len(q)] = q[Len(q)]
    <3> HIDE DEF all
    <3> QED BY <1>1, <1>4, <1>5, Joined
  <2> QED BY <2>1 DEF Rest, Parser!Last
<1>7. Whole(all) = w \o Whole(q)
  <2> DEFINE a == Len(w)
             k == Len(q)
             right == w \o Whole(q)
  <2>1. a \in Nat /\ k \in Nat /\ k > 0 /\ Len(Whole(q)) = k - 1
        /\ \A i \in 1 .. k - 1 : Whole(q)[i] = q[i]
    <3>1. Len(w) \in Nat
      BY <1>1
    <3>2. Len(q) \in Nat /\ Len(q) > 0 /\ Len(Whole(q)) = Len(q) - 1
          /\ \A i \in 1 .. Len(q) - 1 : Whole(q)[i] = q[i]
      BY <1>3, CutsAre
    <3> QED BY <3>1, <3>2
  <2>2. Len(all) = a + k /\ (\A i \in 1 .. a : all[i] = w[i]) /\ \A i \in 1 .. k : all[a + i] = q[i]
    <3> HIDE DEF all
    <3> QED BY <1>1, <1>4, <1>5, Joined
  <2> HIDE DEF all
  <2>3. Whole(all) \in Seq(Record) /\ Len(Whole(all)) = a + k - 1
        /\ \A i \in 1 .. a + k - 1 : Whole(all)[i] = all[i]
    <3> DEFINE m == Len(all)
    <3>1. Whole(all) \in Seq(Record) /\ Len(Whole(all)) = m - 1
          /\ \A i \in 1 .. m - 1 : Whole(all)[i] = all[i]
      BY <1>3, CutsAre DEF Record
    <3>2. m = a + k /\ m - 1 = a + k - 1
      BY <2>1, <2>2
    <3> HIDE DEF m
    <3>3. 1 .. m - 1 = 1 .. a + k - 1
      BY <2>1, <3>2
    <3> QED BY <3>1, <3>2, <3>3
  <2> DEFINE tail2 == Whole(q)
  <2>4. tail2 \in Seq(Record) /\ Len(tail2) = k - 1 /\ \A i \in 1 .. k - 1 : tail2[i] = q[i]
    BY <1>5, <2>1
  <2> HIDE DEF tail2
  <2>5. /\ w \o tail2 \in Seq(Record) /\ Len(w \o tail2) = a + (k - 1)
        /\ \A i \in 1 .. a : (w \o tail2)[i] = w[i]
        /\ \A i \in 1 .. k - 1 : (w \o tail2)[a + i] = tail2[i]
    <3> DEFINE m == k - 1
               both == w \o tail2
    <3> HIDE DEF k, m
    <3>1. Len(tail2) = m
      BY <2>4 DEF m
    <3>2. /\ both \in Seq(Record) /\ Len(both) = a + Len(tail2)
          /\ \A i \in 1 .. a : both[i] = w[i]
          /\ \A i \in 1 .. Len(tail2) : both[a + i] = tail2[i]
      BY <1>1, <2>4, Joined
    <3> HIDE DEF both, a
    <3> QED BY <3>1, <3>2 DEF both, m
  <2> HIDE DEF a, k
  <2>6. ASSUME NEW i \in 1 .. a + k - 1
        PROVE  Whole(all)[i] = (w \o tail2)[i]
    <3>1. CASE i \in 1 .. a
      BY <2>2, <2>3, <2>5, <3>1
    <3>2. CASE i \notin 1 .. a
      <4> DEFINE j == i - a
      <4>1. j \in 1 .. k - 1 /\ j \in 1 .. k /\ i = a + j
        BY <2>1, <3>2
      <4> HIDE DEF j
      <4> QED BY <2>2, <2>3, <2>4, <2>5, <4>1
    <3> QED BY <3>1, <3>2
  <2>7. Len(w \o tail2) = a + k - 1
    BY <2>1, <2>5
  <2>8. Whole(all) = w \o tail2
    <3> DEFINE left == Whole(all)
               n == a + k - 1
               both == w \o tail2
    <3>1. left \in Seq(Record) /\ both \in Seq(Record) /\ Len(left) = n /\ Len(both) = n
          /\ \A i \in 1 .. n : left[i] = both[i]
      BY <2>3, <2>5, <2>6, <2>7
    <3> HIDE DEF left, both, n
    <3>2. left = both
      BY <3>1, SameElements
    <3> QED BY <3>2 DEF left, both
  <2> QED BY <2>8 DEF tail2
<1>8. Parser!Records(p \o t) = Whole(all) /\ Parser!Records(p) = w
  BY DEF Parser!Records, Whole, w
<1> QED BY <1>1, <1>2, <1>3, <1>6, <1>7, <1>8 DEF w, r, q, Record

(* A piece too long to be a record, or a refused record, spoils whatever   *)
(* follows it.                                                             *)
LEMMA TooLongIsHopeless ==
  ASSUME NEW p \in Seq(Byte), NEW t \in Seq(Byte), Len(Rest(Parser!Split(p))) > MaxRecord
  PROVE  ~Parser!WellFormed(p \o t)
<1> DEFINE r == Rest(Parser!Split(p))
           q == Parser!Split(r \o t)
           w == Whole(q)
           s == p \o t
           k == Len(q)
<1>1. /\ Rest(Parser!Split(s)) = Rest(q) /\ Parser!Records(s) = Parser!Records(p) \o w
      /\ q \in Cuts /\ r \in Seq(Letter) /\ r \o t \in Seq(Byte)
  BY RecordsResume
<1>2. s \in Seq(Byte)
  OBVIOUS
<1>3. /\ Parser!WellFormed(s) <=> Rest(Parser!Split(s)) = << >> /\ Good(Parser!Records(s))
      /\ Parser!Records(p) \in Seq(Record) /\ Parser!Records(s) \in Seq(Record)
  <2> HIDE DEF s
  <2> QED BY <1>2, WellFormedIs
<1>4. w \in Seq(Record) /\ k \in Nat /\ k > 0 /\ Len(w) = k - 1 /\ \A i \in 1 .. k - 1 : w[i] = q[i]
  <2> HIDE DEF q
  <2> QED BY <1>1, CutsAre DEF Record
<1>5. Len(q[1]) >= Len(r)
  <2> HIDE DEF r
  <2> QED BY <1>1, FirstPieceGrows
<1>6. Len(r) > MaxRecord /\ Len(r) \in Nat /\ MaxRecord \in Nat
  <2>1. Len(r) \in Nat
    <3> HIDE DEF r
    <3> QED BY <1>1
  <2> QED BY <2>1, IndexListingAssumption
<1>7. q[1] \in Record
  <2> HIDE DEF q
  <2>1. q \in Seq(Record)
    BY <1>1 DEF Cuts, Record
  <2> QED BY <1>4, <2>1
<1>8. Len(q[1]) \in Nat /\ Len(q[1]) > MaxRecord
  <2>1. Len(q[1]) \in Nat
    BY <1>7 DEF Record
  <2> HIDE DEF r, q
  <2> QED BY <1>5, <1>6, <2>1
<1> HIDE DEF r, q, w, s, k
<1>9. CASE k = 1
  <2>1. Rest(q) = q[1]
    BY <1>9 DEF Rest, Parser!Last, k
  <2>2. q[1] # << >>
    BY <1>6, <1>8
  <2> QED BY <1>1, <1>3, <2>1, <2>2 DEF s
<1>10. CASE k # 1
  <2> DEFINE a == Len(Parser!Records(p))
             all == Parser!Records(s)
  <2>1. Len(w) > 0 /\ 1 \in 1 .. Len(w) /\ 1 \in 1 .. k - 1 /\ Len(w) \in Nat
    BY <1>4, <1>10
  <2>2. a \in Nat
    BY <1>3
  <2>3. Len(all) = a + Len(w) /\ all[a + 1] = w[1]
    <3> DEFINE u == Parser!Records(p)
    <3>1. u \in Seq(Record) /\ all = u \o w
      BY <1>1, <1>3
    <3> HIDE DEF u
    <3>2. Len(u \o w) = Len(u) + Len(w) /\ (u \o w)[Len(u) + 1] = w[1]
      <4>1. /\ Len(u \o w) = Len(u) + Len(w)
            /\ \A i \in 1 .. Len(w) : (u \o w)[Len(u) + i] = w[i]
        BY <1>4, <3>1, Joined
      <4> QED BY <2>1, <4>1
    <3> HIDE DEF all
    <3> QED BY <3>1, <3>2 DEF u
  <2>4. a + 1 \in 1 .. Len(all)
    BY <2>1, <2>2, <2>3
  <2>5. Len(all[a + 1]) > MaxRecord
    BY <1>4, <1>8, <2>1, <2>3
  <2>6. ~(Len(all[a + 1]) <= MaxRecord)
    <3> HIDE DEF all, a
    <3>1. Len(all[a + 1]) \in Nat
      BY <1>4, <1>8, <2>1, <2>3
    <3> QED BY <1>6, <2>5, <3>1
  <2>7. ~Good(all)
    BY <2>4, <2>6 DEF Good
  <2> QED BY <1>3, <2>7 DEF s
<1> QED BY <1>9, <1>10

LEMMA RefusedIsHopeless ==
  ASSUME NEW p \in Seq(Byte), NEW t \in Seq(Byte),
         Parser!ConsumeRecords(Fresh, Parser!Records(p)).invalid
  PROVE  ~Parser!WellFormed(p \o t)
<1> DEFINE r == Rest(Parser!Split(p))
           q == Parser!Split(r \o t)
           w == Whole(q)
           s == p \o t
           st == Parser!ConsumeRecords(Fresh, Parser!Records(p))
<1>1. Parser!Records(s) = Parser!Records(p) \o w /\ q \in Cuts
  BY RecordsResume
<1>2. s \in Seq(Byte)
  OBVIOUS
<1>3. /\ Parser!WellFormed(s) => Good(Parser!Records(s))
      /\ Parser!Records(p) \in Seq(Record) /\ Parser!Records(s) \in Seq(Record)
  <2> HIDE DEF s
  <2> QED BY <1>2, WellFormedIs
<1>4. w \in Seq(Record)
  <2> HIDE DEF q
  <2> QED BY <1>1, CutsAre DEF Record
<1>5. st \in State
  BY <1>3, FreshIsState, ConsumeIs
<1> HIDE DEF w, s
<1>6. Parser!ConsumeRecords(Fresh, Parser!Records(s)) = Parser!ConsumeRecords(st, w)
  BY <1>1, <1>3, <1>4, FreshIsState, ConsumeResumes
<1> HIDE DEF st
<1>7. st.invalid
  BY DEF st
<1>8. Parser!ConsumeRecords(st, w) = st
  BY <1>4, <1>5, <1>7, InvalidStays
<1>9. Agree(Parser!Records(s))
  BY <1>3, ConsumeAgrees
<1>10. ~Good(Parser!Records(s))
  BY <1>6, <1>7, <1>8, <1>9 DEF Agree, AgreeAfter
<1> QED BY <1>3, <1>10 DEF s

\* What the parser has made of the part p of the listing s.
Knows(p, s) ==
  /\ ~invalid => /\ pending = Rest(Parser!Split(p))
                 /\ Parser!ConsumeRecords(Fresh, Parser!Records(p))
                      = [invalid |-> FALSE, entries |-> entries, unmerged |-> hasUnmerged]
  /\ invalid => ~Parser!WellFormed(s)

ParserTyped ==
  /\ pending \in Seq(Letter) /\ entries \in Paths
  /\ hasUnmerged \in BOOLEAN /\ invalid \in BOOLEAN

(* One chunk more, wherever the chunks were cut.                           *)
LEMMA ChunkIsKnown ==
  ASSUME NEW p \in Seq(Byte), NEW c \in Seq(Byte), NEW t \in Seq(Byte),
         ParserTyped, Knows(p, p \o (c \o t)), Parser!Parse(c)
  PROVE  ParserTyped' /\ Knows(p \o c, p \o (c \o t))'
<1> DEFINE q == Parser!Split(pending \o c)
           rest == Rest(q)
           w == Whole(q)
           before == [invalid |-> Len(rest) > MaxRecord, entries |-> entries, unmerged |-> hasUnmerged]
           after == Parser!ConsumeRecords(before, w)
           longer == p \o c
           s == p \o (c \o t)
<1>1. CASE invalid
  <2>1. UNCHANGED <<pending, entries, hasUnmerged, invalid>>
    BY <1>1 DEF Parser!Parse
  <2> QED BY <1>1, <2>1 DEF Knows, ParserTyped
<1>2. CASE ~invalid
  <2>1. /\ invalid' = after.invalid /\ hasUnmerged' = after.unmerged
        /\ pending' = IF after.invalid THEN << >> ELSE rest
        /\ entries' = IF after.invalid THEN << >> ELSE after.entries
    BY <1>2 DEF Parser!Parse, Parser!Consume, Whole, Rest
  <2>2. /\ pending = Rest(Parser!Split(p))
        /\ Parser!ConsumeRecords(Fresh, Parser!Records(p))
             = [invalid |-> FALSE, entries |-> entries, unmerged |-> hasUnmerged]
    BY <1>2 DEF Knows
  <2>3. longer \in Seq(Byte) /\ s = longer \o t
    OBVIOUS
  <2>4. /\ Rest(Parser!Split(longer)) = rest
        /\ Parser!Records(longer) = Parser!Records(p) \o w
        /\ q \in Cuts
    BY <2>2, RecordsResume
  <2>5. w \in Seq(Record) /\ rest \in Record
    <3> HIDE DEF q
    <3> QED BY <2>4, CutsAre DEF Record
  <2>6. Parser!Records(p) \in Seq(Record) /\ Parser!Records(longer) \in Seq(Record)
    <3> HIDE DEF longer
    <3> QED BY <2>3, WellFormedIs
  <2>7. before \in State
    BY DEF State, ParserTyped
  <2> HIDE DEF rest, w, q
  <2>8. after \in State
    BY <2>5, <2>7, ConsumeIs
  <2>9. << >> \in Seq(Letter) /\ << >> \in Paths
    BY DEF Paths
  <2>10. ParserTyped'
    <3>1. after.invalid \in BOOLEAN /\ after.unmerged \in BOOLEAN /\ after.entries \in Paths
      BY <2>8 DEF State
    <3> HIDE DEF after
    <3> QED BY <2>1, <2>5, <2>9, <3>1 DEF ParserTyped, Record
  <2> HIDE DEF s, longer
  <2>11. CASE Len(rest) > MaxRecord
    <3>1. before.invalid
      BY <2>11
    <3>2. after = before
      <4> HIDE DEF before
      <4> QED BY <2>5, <2>7, <3>1, InvalidStays
    <3>3. invalid'
      BY <2>1, <3>1, <3>2
    <3>4. ~Parser!WellFormed(s)
      BY <2>3, <2>4, <2>11, TooLongIsHopeless
    <3>5. Knows(longer, s)'
      BY <3>3, <3>4 DEF Knows
    <3> QED BY <2>10, <3>5 DEF longer, s
  <2>12. CASE ~(Len(rest) > MaxRecord)
    <3>1. before = Parser!ConsumeRecords(Fresh, Parser!Records(p))
      <4> DEFINE flag == Len(rest) > MaxRecord
      <4>1. flag = FALSE
        BY <2>12
      <4>2. before = [invalid |-> flag, entries |-> entries, unmerged |-> hasUnmerged]
        OBVIOUS
      <4> HIDE DEF flag, before
      <4> QED BY <2>2, <4>1, <4>2
    <3>2. after = Parser!ConsumeRecords(Fresh, Parser!Records(longer))
      <4> HIDE DEF before
      <4> QED BY <2>4, <2>5, <2>6, <3>1, FreshIsState, ConsumeResumes
    <3> HIDE DEF after, before
    <3>3. CASE after.invalid
      <4>1. ~Parser!WellFormed(s)
        BY <2>3, <3>2, <3>3, RefusedIsHopeless
      <4>2. invalid'
        BY <2>1, <3>3
      <4>3. Knows(longer, s)'
        BY <4>1, <4>2 DEF Knows
      <4> QED BY <2>10, <4>3 DEF longer, s
    <3>4. CASE ~after.invalid
      <4>1. after = [invalid |-> FALSE, entries |-> after.entries, unmerged |-> after.unmerged]
        BY <2>8, <3>4 DEF State
      <4>2. ~invalid' /\ pending' = rest /\ entries' = after.entries /\ hasUnmerged' = after.unmerged
        BY <2>1, <3>4
      <4>3. Knows(longer, s)'
        BY <2>4, <3>2, <4>1, <4>2 DEF Knows
      <4> QED BY <2>10, <4>3 DEF longer, s
    <3> QED BY <3>3, <3>4
  <2> QED BY <2>11, <2>12
<1> QED BY <1>1, <1>2

-----------------------------------------------------------------------------
(* A sequence cut at m and at k.                                           *)
LEMMA CutAt ==
  ASSUME NEW B, NEW s \in Seq(B), NEW m \in Nat, NEW k \in Nat, m <= k, k <= Len(s)
  PROVE  /\ SubSeq(s, 1, m) \in Seq(B) /\ Len(SubSeq(s, 1, m)) = m
         /\ SubSeq(s, m + 1, k) \in Seq(B) /\ Len(SubSeq(s, m + 1, k)) = k - m
         /\ SubSeq(s, 1, m) \o SubSeq(s, m + 1, k) = SubSeq(s, 1, k)
         /\ SubSeq(SubSeq(s, 1, k), m + 1, k) = SubSeq(s, m + 1, k)
<1> DEFINE n == Len(s)
<1>1. n \in Nat /\ \A i \in 1 .. n : s[i] \in B
  OBVIOUS
<1>2. SubSeq(s, 1, m) \in Seq(B) /\ Len(SubSeq(s, 1, m)) = m
  <2>1. \A i \in 1 .. m : s[i] \in B
    BY <1>1
  <2> HIDE DEF n
  <2> QED BY <2>1
<1>3. /\ SubSeq(s, m + 1, k) \in Seq(B) /\ Len(SubSeq(s, m + 1, k)) = k - m
      /\ \A i \in 1 .. k - m : SubSeq(s, m + 1, k)[i] = s[m + i]
  <2>1. \A i \in m + 1 .. k : s[i] \in B
    BY <1>1
  <2>2. /\ SubSeq(s, m + 1, k) \in Seq(B)
        /\ Len(SubSeq(s, m + 1, k)) = IF m + 1 <= k THEN k - (m + 1) + 1 ELSE 0
        /\ \A i \in 1 .. k - (m + 1) + 1 : SubSeq(s, m + 1, k)[i] = s[m + 1 + i - 1]
    BY <2>1, SubSeqProperties
  <2>3. (IF m + 1 <= k THEN k - (m + 1) + 1 ELSE 0) = k - m /\ k - (m + 1) + 1 = k - m
    OBVIOUS
  <2>4. \A i \in 1 .. k - m : m + 1 + i - 1 = m + i
    OBVIOUS
  <2> QED BY <2>2, <2>3, <2>4
<1>4. SubSeq(s, 1, m) \o SubSeq(s, m + 1, k) = SubSeq(s, 1, k)
  <2>1. 1 \in 1 .. n + 1 /\ m \in 1 - 1 .. n /\ k \in m .. n
    BY <1>1
  <2> QED BY <2>1, ConcatAdjacentSubSeq
<1>5. SubSeq(SubSeq(s, 1, k), m + 1, k) = SubSeq(s, m + 1, k)
  <2>1. CASE m = k
    <3>1. m + 1 \in Int /\ k \in Int /\ k < m + 1
      BY <2>1
    <3> QED BY <3>1, SubSeqEmpty
  <2>2. CASE m # k
    <3>1. /\ 1 \in 1 .. n /\ k \in 1 .. n /\ m + 1 \in 1 .. k - 1 + 1 /\ k \in 1 .. k - 1 + 1
          /\ 1 + (m + 1) - 1 = m + 1 /\ 1 + k - 1 = k
      BY <1>1, <2>2
    <3>2. SubSeq(SubSeq(s, 1, k), m + 1, k) = SubSeq(s, 1 + (m + 1) - 1, 1 + k - 1)
      BY <3>1, SubSeqOfSubSeq
    <3> QED BY <3>1, <3>2
  <2> QED BY <2>1, <2>2
<1> QED BY <1>2, <1>3, <1>4, <1>5

(* The listing begins where the accumulator does, with nothing captured.   *)
LEMMA ListingCaptures == ListingInit => Init
  BY DEF ListingInit

-----------------------------------------------------------------------------
\* The listing and the stream, of which the accumulator has seen a part
\* and the parser a part of that.
StreamIsAPart ==
  /\ listing \in Seq(Byte) /\ Len(listing) <= StreamBound
  /\ Len(stream) <= Len(listing) /\ stream = SubSeq(listing, 1, Len(stream))
  /\ fed \in Nat /\ fed <= Len(stream) /\ Len(stream) - fed <= MaxChunk

\* Where the controller is.
Stage ==
  /\ process \in {"running", "exited", "failed", "unspawned"}
  /\ process = "running" => captured = NotFinished /\ result = Parser!NoResult
  /\ process = "exited" => fed = Len(stream) /\ stream = listing /\ captured # NotFinished

(* The inductive invariant: besides that of the accumulator, the parser    *)
(* knows what the part of the listing it was fed says, or has refused what *)
(* no continuation can repair.                                             *)
ListingIInv ==
  /\ IInv /\ StreamIsAPart /\ ParserTyped /\ Knows(SubSeq(listing, 1, fed), listing)
  /\ Stage /\ SnapshotIsTheListing /\ result.kind \in {"none", "error", "parsed"}

LEMMA UnseenIs ==
  ASSUME IInv, StreamIsAPart
  PROVE  /\ Len(stream) \in Nat /\ Unseen \in Seq(Byte) /\ Len(Unseen) = Len(stream) - fed
         /\ Unseen = << >> => fed = Len(stream)
         /\ Unseen = SubSeq(listing, fed + 1, Len(stream))
         /\ SubSeq(listing, 1, fed) \in Seq(Byte)
<1> DEFINE k == Len(stream)
<1>1. k \in Nat /\ k <= Len(listing) /\ fed \in Nat /\ fed <= k /\ listing \in Seq(Byte)
      /\ stream = SubSeq(listing, 1, k)
  BY DEF IInv, TypeOK, StreamIsAPart
<1>2. Unseen = SubSeq(stream, fed + 1, k)
  BY DEF Unseen
<1> HIDE DEF k
<1>3. /\ SubSeq(listing, fed + 1, k) \in Seq(Byte) /\ Len(SubSeq(listing, fed + 1, k)) = k - fed
      /\ SubSeq(SubSeq(listing, 1, k), fed + 1, k) = SubSeq(listing, fed + 1, k)
  BY <1>1, CutAt
<1>4. SubSeq(listing, 1, fed) \in Seq(Byte)
  <2>1. fed <= fed /\ fed <= Len(listing)
    <3>1. Len(listing) \in Nat
      BY <1>1
    <3> QED BY <1>1, <3>1
  <2> QED BY <1>1, <2>1, CutAt
<1>5. Unseen = SubSeq(listing, fed + 1, k)
  BY <1>1, <1>2, <1>3
<1>6. Unseen = << >> => fed = k
  <2>1. Len(Unseen) = k - fed
    BY <1>3, <1>5
  <2>2. Unseen = << >> => Len(Unseen) = 0
    OBVIOUS
  <2> HIDE DEF Unseen
  <2> QED BY <1>1, <2>1, <2>2
<1> QED BY <1>1, <1>3, <1>4, <1>5, <1>6 DEF k

\* What Drain adds is a chunk, so the accumulator is fed as TailCapture says.
LEMMA DrainFeeds ==
  ASSUME IInv, StreamIsAPart, NEW n \in 1 .. MaxChunk, Len(stream) + n <= Len(listing),
         Feed(SubSeq(listing, Len(stream) + 1, Len(stream) + n))
  PROVE  /\ [Next]_vars
         /\ stream' = SubSeq(listing, 1, Len(stream) + n)
         /\ Len(stream') = Len(stream) + n
<1> DEFINE k == Len(stream)
           c == SubSeq(listing, k + 1, k + n)
<1>1. k \in Nat /\ n \in Nat /\ k <= k + n /\ k + n \in Nat /\ listing \in Seq(Byte)
      /\ stream = SubSeq(listing, 1, k) /\ Len(listing) \in Nat /\ Len(listing) <= StreamBound
  BY TailCaptureAssumption DEF IInv, TypeOK, StreamIsAPart
<1>2. k + n <= Len(listing)
  OBVIOUS
<1>3. stream' = stream \o c
  BY DEF Feed
<1>4. Feed(c)
  OBVIOUS
<1> HIDE DEF k, c
<1>5. /\ c \in Seq(Byte) /\ Len(c) = (k + n) - k
      /\ SubSeq(listing, 1, k) \o c = SubSeq(listing, 1, k + n)
  BY <1>1, <1>2, CutAt DEF c
<1>6. Len(c) = n
  BY <1>1, <1>5
<1>7. Len(SubSeq(listing, 1, k + n)) = k + n
  <2> DEFINE m == k + n
  <2>1. m \in Nat /\ m <= m /\ m <= Len(listing)
    BY <1>1, <1>2
  <2> HIDE DEF m
  <2>2. Len(SubSeq(listing, 1, m)) = m
    BY <1>1, <2>1, CutAt
  <2> QED BY <2>2 DEF m
<1>8. c \in Chunk
  <2>1. c \in [1 .. n -> Byte]
    BY <1>5, <1>6
  <2> QED BY <2>1 DEF Chunk
<1>9. Len(stream) + Len(c) <= StreamBound
  BY <1>1, <1>2, <1>6, TailCaptureAssumption DEF k
<1>10. Next
  BY <1>4, <1>8, <1>9 DEF Next
<1> QED BY <1>1, <1>3, <1>5, <1>7, <1>10 DEF k

LEMMA ListingInitIInv == ListingInit => ListingIInv
<1> SUFFICES ASSUME ListingInit PROVE ListingIInv
  OBVIOUS
<1>1. IInv
  BY ListingCaptures, InitIInv
<1>2. /\ process = "running" /\ stream = << >> /\ captured = NotFinished /\ fed = 0 /\ pending = << >>
      /\ entries = << >> /\ hasUnmerged = FALSE /\ invalid = FALSE /\ result = Parser!NoResult
  BY DEF ListingInit, Init, Parser!Init
<1>3. listing \in Seq(Byte) /\ Len(listing) <= StreamBound
  <2>1. PICK n \in 0 .. StreamBound : listing \in [1 .. n -> Byte]
    BY DEF ListingInit
  <2>2. n \in Nat /\ n <= StreamBound
    BY <2>1, TailCaptureAssumption
  <2> QED BY <2>1, <2>2
<1>4. SubSeq(listing, 1, 0) = << >>
  OBVIOUS
<1>5. StreamIsAPart
  <2> DEFINE none == << >>
  <2>1. Len(none) = 0 /\ stream = none /\ none = SubSeq(listing, 1, 0)
    BY <1>2, <1>4
  <2>2. Len(listing) \in Nat
    BY <1>3
  <2> HIDE DEF none
  <2> QED BY <1>2, <1>3, <2>1, <2>2, TailCaptureAssumption DEF StreamIsAPart
<1>6. ParserTyped
  <2>1. << >> \in Seq(Letter) /\ << >> \in Paths
    BY DEF Paths
  <2> QED BY <1>2, <2>1 DEF ParserTyped
<1>7. Knows(SubSeq(listing, 1, fed), listing)
  <2> DEFINE none == << >>
  <2>1. Rest(OnePiece) = << >> /\ Whole(OnePiece) = << >>
    BY DEF OnePiece, Rest, Whole, Parser!Last, Parser!Front
  <2>2. Parser!Split(<< >>) = OnePiece
    BY SplitIs
  <2>3. Parser!Records(<< >>) = << >>
    BY <2>1, <2>2 DEF Parser!Records, Whole
  <2>4. Parser!ConsumeRecords(Fresh, << >>) = Fresh
    BY FreshIsState, ConsumeIs
  <2>5. Fresh = [invalid |-> FALSE, entries |-> entries, unmerged |-> hasUnmerged]
    BY <1>2 DEF Fresh
  <2>6. Rest(Parser!Split(none)) = pending /\ Parser!ConsumeRecords(Fresh, Parser!Records(none)) = Fresh
    BY <1>2, <2>1, <2>2, <2>3, <2>4
  <2>7. SubSeq(listing, 1, fed) = none
    BY <1>2, <1>4
  <2> HIDE DEF none
  <2>8. Knows(none, listing)
    BY <1>2, <2>5, <2>6 DEF Knows
  <2> QED BY <2>7, <2>8
<1>8. Stage /\ SnapshotIsTheListing
  BY <1>2 DEF Stage, SnapshotIsTheListing
<1>9. result.kind = "none"
  BY <1>2 DEF Parser!NoResult
<1> QED BY <1>1, <1>3, <1>5, <1>6, <1>7, <1>8, <1>9 DEF ListingIInv

\* What finish makes of what the parser knows of the whole listing.
LEMMA FinishIsListing ==
  ASSUME ListingIInv, process = "exited", Parser!Finish(process = "exited", Accounted)
  PROVE  result' = Parser!Listing(listing)
<1>1. fed = Len(stream) /\ stream = listing /\ captured # NotFinished
  BY DEF ListingIInv, Stage
<1>2. Accounted = fed
  <2>1. captured = [tail |-> KeepLast(stream, Limit), omitted |-> Len(stream) - Len(KeepLast(stream, Limit))]
    BY <1>1 DEF ListingIInv, IInv, StreamedEqualsBuffered, NormalizeBufferedOutput
  <2>2. Len(stream) \in Nat /\ Len(KeepLast(stream, Limit)) \in Nat
    BY KeepLastIsBounded, TailCaptureAssumption DEF ListingIInv, IInv, TypeOK
  <2> QED BY <1>1, <2>1, <2>2 DEF Accounted
<1>3. listing \in Seq(Byte)
  BY DEF ListingIInv, StreamIsAPart
<1>4. SubSeq(listing, 1, fed) = listing
  BY <1>1, <1>3, SubSeqFull
<1>5. /\ ~invalid => /\ pending = Rest(Parser!Split(listing))
                     /\ Parser!ConsumeRecords(Fresh, Parser!Records(listing))
                          = [invalid |-> FALSE, entries |-> entries, unmerged |-> hasUnmerged]
      /\ invalid => ~Parser!WellFormed(listing)
  BY <1>4 DEF ListingIInv, Knows
<1>6. result' = IF invalid \/ pending # << >> THEN Parser!SnapshotError ELSE Parser!Parsed(entries, hasUnmerged)
  BY <1>2 DEF Parser!Finish, Parser!Rejected
<1>7. /\ Parser!Records(listing) \in Seq(Record)
      /\ Parser!WellFormed(listing) <=> Rest(Parser!Split(listing)) = << >> /\ Good(Parser!Records(listing))
  BY <1>3, WellFormedIs
<1>8. CASE invalid
  BY <1>5, <1>6, <1>8 DEF Parser!Listing
<1>9. CASE ~invalid
  <2> DEFINE records == Parser!Records(listing)
             st == Parser!ConsumeRecords(Fresh, records)
             some == \E i \in 1 .. Len(records) : Parser!Unmerged(records[i])
  <2>1. AgreeAfter(st, records)
    <3> HIDE DEF records
    <3> QED BY <1>7, ConsumeAgrees DEF Agree, records
  <2>2. st = [invalid |-> FALSE, entries |-> entries, unmerged |-> hasUnmerged]
    BY <1>5, <1>9
  <2> HIDE DEF st
  <2>3. ~st.invalid /\ st.entries = entries /\ st.unmerged = hasUnmerged
    BY <2>2
  <2>4. Good(records) /\ entries = Parser!Staged(records) /\ (hasUnmerged <=> some)
    <3> HIDE DEF records
    <3> QED BY <2>1, <2>3 DEF AgreeAfter, records
  <2>5. hasUnmerged = some
    <3>1. hasUnmerged \in BOOLEAN
      BY DEF ListingIInv, ParserTyped
    <3> QED BY <2>4, <3>1
  <2>6. Parser!WellFormed(listing) <=> pending = << >>
    BY <1>5, <1>7, <1>9, <2>4
  <2>7. Parser!Listing(listing) = IF Parser!WellFormed(listing) THEN Parser!Parsed(Parser!Staged(records), some)
                                  ELSE Parser!SnapshotError
    BY DEF Parser!Listing
  <2> HIDE DEF records, some
  <2> QED BY <1>6, <1>9, <2>4, <2>5, <2>6, <2>7
<1> QED BY <1>8, <1>9

LEMMA ListingStepIInv == ListingIInv /\ [ListingNext]_listingVars => ListingIInv' /\ [Next]_vars
<1> SUFFICES ASSUME ListingIInv, [ListingNext]_listingVars PROVE ListingIInv' /\ [Next]_vars
  OBVIOUS
<1>1. /\ IInv /\ StreamIsAPart /\ ParserTyped /\ Knows(SubSeq(listing, 1, fed), listing)
      /\ Stage /\ SnapshotIsTheListing /\ result.kind \in {"none", "error", "parsed"}
  BY DEF ListingIInv
<1> DEFINE k == Len(stream)
<1>2. /\ k \in Nat /\ Unseen \in Seq(Byte) /\ Len(Unseen) = k - fed
      /\ Unseen = << >> => fed = k
      /\ Unseen = SubSeq(listing, fed + 1, k)
      /\ SubSeq(listing, 1, fed) \in Seq(Byte)
  BY <1>1, UnseenIs
<1>3. CASE Drain
  <2>1. PICK n \in 1 .. MaxChunk :
          /\ Len(stream) + n <= Len(listing)
          /\ Feed(SubSeq(listing, Len(stream) + 1, Len(stream) + n))
    BY <1>3 DEF Drain
  <2>2. [Next]_vars /\ stream' = SubSeq(listing, 1, k + n) /\ Len(stream') = k + n
    BY <1>1, <2>1, DrainFeeds
  <2>3. IInv'
    BY <1>1, <2>2, StepIInv
  <2>4. /\ process = "running" /\ fed = k
        /\ UNCHANGED <<listing, process, fed, pending, entries, hasUnmerged, invalid, result, captured>>
    BY <1>2, <1>3, <2>1 DEF Drain, Draining, parserVars, Feed
  <2>5. StreamIsAPart'
    <3>1. n \in Nat /\ n <= MaxChunk /\ k + n <= Len(listing) /\ fed = k
      BY <2>1, <2>4, TailCaptureAssumption
    <3> HIDE DEF k
    <3>2. fed <= k + n /\ (k + n) - fed <= MaxChunk
      BY <1>2, <3>1, TailCaptureAssumption
    <3> QED BY <1>1, <2>2, <2>4, <3>1, <3>2 DEF StreamIsAPart
  <2>6. ParserTyped' /\ Knows(SubSeq(listing, 1, fed), listing)'
    BY <1>1, <2>4 DEF ParserTyped, Knows
  <2>7. Stage' /\ SnapshotIsTheListing' /\ (result.kind \in {"none", "error", "parsed"})'
    BY <1>1, <2>4 DEF Stage, SnapshotIsTheListing
  <2> QED BY <2>2, <2>3, <2>5, <2>6, <2>7 DEF ListingIInv
<1>4. CASE Hand
  <2>1. /\ process = "running" /\ fed' = fed + Len(Unseen) /\ Parser!Parse(Unseen)
        /\ UNCHANGED <<vars, listing, process, result>>
    BY <1>4 DEF Hand, Handing, Parser!Feed
  <2>2. fed' = k
    <3>1. fed \in Nat /\ fed' = fed + (k - fed)
      BY <1>1, <1>2, <2>1 DEF StreamIsAPart
    <3> HIDE DEF k
    <3> QED BY <1>2, <3>1
  <2> DEFINE p == SubSeq(listing, 1, fed)
             c == Unseen
             t == SubSeq(listing, k + 1, Len(listing))
  <2>3. p \in Seq(Byte) /\ c \in Seq(Byte) /\ t \in Seq(Byte)
        /\ p \o c = SubSeq(listing, 1, k) /\ listing = p \o (c \o t)
    <3>1. /\ listing \in Seq(Byte) /\ fed \in Nat /\ fed <= k /\ k <= Len(listing) /\ Len(listing) \in Nat
      BY <1>1 DEF StreamIsAPart
    <3>2. SubSeq(listing, 1, fed) \o SubSeq(listing, fed + 1, k) = SubSeq(listing, 1, k)
      <4> HIDE DEF k
      <4> QED BY <1>2, <3>1, CutAt
    <3>3. t \in Seq(Byte) /\ SubSeq(listing, 1, k) \o t = SubSeq(listing, 1, Len(listing))
      <4> DEFINE l == Len(listing)
      <4>1. l \in Nat /\ k <= l /\ l <= Len(listing)
        BY <3>1
      <4> HIDE DEF l, k
      <4>2. SubSeq(listing, k + 1, l) \in Seq(Byte)
            /\ SubSeq(listing, 1, k) \o SubSeq(listing, k + 1, l) = SubSeq(listing, 1, l)
        BY <1>2, <3>1, <4>1, CutAt
      <4> QED BY <4>2 DEF l
    <3>4. SubSeq(listing, 1, Len(listing)) = listing
      BY <3>1, SubSeqFull
    <3> HIDE DEF t
    <3>5. p \o c = SubSeq(listing, 1, k) /\ (p \o c) \o t = listing
      BY <1>2, <3>2, <3>3, <3>4
    <3> HIDE DEF p, c
    <3>6. p \in Seq(Byte) /\ c \in Seq(Byte)
      BY <1>2 DEF p, c
    <3>7. (p \o c) \o t = p \o (c \o t)
      BY <3>3, <3>6
    <3> QED BY <3>3, <3>5, <3>6, <3>7
  <2>4. Knows(p, p \o (c \o t))
    BY <1>1, <2>3
  <2>5. ParserTyped' /\ (~invalid' => /\ pending' = Rest(Parser!Split(p \o c))
                                      /\ Parser!ConsumeRecords(Fresh, Parser!Records(p \o c))
                                           = [invalid |-> FALSE, entries |-> entries', unmerged |-> hasUnmerged'])
        /\ (invalid' => ~Parser!WellFormed(listing))
    BY <1>1, <2>1, <2>3, <2>4, ChunkIsKnown DEF Knows
  <2>6. IInv' /\ [Next]_vars
    BY <1>1, <2>1, StepIInv
  <2>7. stream' = stream /\ captured' = captured
    BY <2>1 DEF vars
  <2>8. StreamIsAPart'
    <3>1. k' = k /\ fed' = k /\ listing' = listing
      BY <2>1, <2>2, <2>7
    <3>2. k <= k /\ k - k <= MaxChunk
      <4> HIDE DEF k
      <4> QED BY <1>2, TailCaptureAssumption
    <3> QED BY <1>1, <1>2, <2>7, <3>1, <3>2 DEF StreamIsAPart
  <2>9. Knows(SubSeq(listing, 1, fed), listing)'
    <3>1. SubSeq(listing, 1, fed)' = p \o c /\ listing' = listing
      BY <2>1, <2>2, <2>3
    <3> HIDE DEF p, c
    <3> QED BY <2>5, <3>1 DEF Knows
  <2>10. Stage' /\ SnapshotIsTheListing' /\ (result.kind \in {"none", "error", "parsed"})'
    BY <1>1, <2>1, <2>7 DEF Stage, SnapshotIsTheListing
  <2> QED BY <2>5, <2>6, <2>8, <2>9, <2>10 DEF ListingIInv
<1>5. CASE GitEnds
  <2>1. /\ process = "running" /\ fed = k /\ Finish
        /\ process' \in {"exited", "failed"} /\ (process' = "exited" => stream = listing)
        /\ UNCHANGED <<listing, fed, pending, entries, hasUnmerged, invalid, result, stream>>
    BY <1>2, <1>5 DEF GitEnds, Draining, parserVars, Finish
  <2>2. [Next]_vars
    BY <2>1 DEF Next
  <2>3. IInv'
    BY <1>1, <2>2, StepIInv
  <2>4. captured' # NotFinished
    <3>1. Len(tail) \in Nat /\ Len(tail) <= total /\ total \in Nat
      BY <1>1, KeepLastIsBounded, TailCaptureAssumption DEF IInv, TypeOK
    <3>2. captured' = [tail |-> tail, omitted |-> total - Len(tail)]
      BY <2>1 DEF Finish
    <3>3. captured'.omitted # -1
      BY <3>1, <3>2
    <3> QED BY <3>3 DEF NotFinished
  <2>5. StreamIsAPart' /\ ParserTyped' /\ Knows(SubSeq(listing, 1, fed), listing)'
    BY <1>1, <2>1 DEF StreamIsAPart, ParserTyped, Knows
  <2>6. result = Parser!NoResult
    BY <1>1, <2>1 DEF Stage
  <2>7. Stage'
    BY <2>1, <2>4 DEF Stage
  <2>8. SnapshotIsTheListing' /\ (result.kind \in {"none", "error", "parsed"})'
    BY <1>1, <2>1, <2>6 DEF SnapshotIsTheListing
  <2> QED BY <2>2, <2>3, <2>5, <2>7, <2>8 DEF ListingIInv
<1>6. CASE CaptureFails
  <2>1. /\ process = "running" /\ process' = "unspawned"
        /\ UNCHANGED <<vars, listing, fed, pending, entries, hasUnmerged, invalid, result>>
    BY <1>6 DEF CaptureFails, Draining, Handing, parserVars
  <2>2. IInv' /\ [Next]_vars
    BY <1>1, <2>1, StepIInv
  <2>3. StreamIsAPart' /\ ParserTyped' /\ Knows(SubSeq(listing, 1, fed), listing)'
    BY <1>1, <2>1 DEF vars, StreamIsAPart, ParserTyped, Knows
  <2>4. Stage' /\ SnapshotIsTheListing' /\ (result.kind \in {"none", "error", "parsed"})'
    BY <1>1, <2>1 DEF vars, Stage, SnapshotIsTheListing
  <2> QED BY <2>2, <2>3, <2>4 DEF ListingIInv
<1>7. CASE Parse
  <2>1. /\ process # "running" /\ Parser!Finish(process = "exited", Accounted)
        /\ UNCHANGED <<vars, listing, process, fed, pending, entries, hasUnmerged, invalid>>
    BY <1>7 DEF Parse, Parser!Finish, Parser!parserVars
  <2>2. IInv' /\ [Next]_vars
    BY <1>1, <2>1, StepIInv
  <2>3. StreamIsAPart' /\ ParserTyped' /\ Knows(SubSeq(listing, 1, fed), listing)'
    BY <1>1, <2>1 DEF vars, StreamIsAPart, ParserTyped, Knows
  <2>4. Stage'
    BY <1>1, <2>1 DEF vars, Stage
  <2>5. process = "exited" => result' = Parser!Listing(listing)
    BY <2>1, FinishIsListing
  <2>6. process # "exited" => result' = Parser!SnapshotError
    BY <2>1 DEF Parser!Finish, Parser!Rejected
  <2>7. SnapshotIsTheListing'
    BY <2>1, <2>5, <2>6 DEF SnapshotIsTheListing
  <2>8. (result.kind \in {"none", "error", "parsed"})'
    BY <2>5, <2>6 DEF Parser!Listing, Parser!SnapshotError, Parser!Parsed
  <2> QED BY <2>2, <2>3, <2>4, <2>7, <2>8 DEF ListingIInv
<1>8. CASE UNCHANGED listingVars
  <2>1. UNCHANGED <<vars, listing, process, fed, pending, entries, hasUnmerged, invalid, result>>
    BY <1>8 DEF listingVars, parserVars
  <2>2. IInv' /\ [Next]_vars
    BY <1>1, <2>1, StepIInv
  <2>3. StreamIsAPart' /\ ParserTyped' /\ Knows(SubSeq(listing, 1, fed), listing)'
    BY <1>1, <2>1 DEF vars, StreamIsAPart, ParserTyped, Knows
  <2>4. Stage' /\ SnapshotIsTheListing' /\ (result.kind \in {"none", "error", "parsed"})'
    BY <1>1, <2>1 DEF vars, Stage, SnapshotIsTheListing
  <2> QED BY <2>2, <2>3, <2>4 DEF ListingIInv
<1> QED BY <1>3, <1>4, <1>5, <1>6, <1>7, <1>8 DEF ListingNext

(* The inductive invariant of the listing: the accumulator, the parser and *)
(* the bytes still in the pipe agree on the stream that git wrote.          *)
THEOREM ListingSafety == ListingSpec => []ListingIInv
<1>1. ListingIInv /\ [ListingNext]_listingVars => ListingIInv'
  BY ListingStepIInv
<1> QED BY <1>1, ListingInitIInv, PTL DEF ListingSpec

(* The state of the parser and the results it publishes keep their types,  *)
(* and the parser is never more than one chunk of the pipe behind the      *)
(* accumulator.                                                            *)
THEOREM ListingIsTyped == ListingSpec => []ListingTypeOK
<1>1. ListingIInv => ListingTypeOK
  <2> SUFFICES ASSUME ListingIInv PROVE ListingTypeOK
    OBVIOUS
  <2>1. TypeOK /\ fed <= Len(stream) /\ Len(Unseen) <= MaxChunk
        /\ process \in {"running", "exited", "failed", "unspawned"}
    <3>1. IInv /\ StreamIsAPart /\ Stage
      BY DEF ListingIInv
    <3>2. Len(Unseen) = Len(stream) - fed
      BY <3>1, UnseenIs
    <3>3. Len(stream) - fed <= MaxChunk
      BY <3>1 DEF StreamIsAPart
    <3> QED BY <3>1, <3>2, <3>3 DEF IInv, StreamIsAPart, Stage
  <2>2. Parser!Symbol = Byte
    BY IndexListingAssumption DEF Parser!Symbol
  <2>3. Parser!TypeOK
    BY <2>2 DEF ListingIInv, StreamIsAPart, ParserTyped, Paths, Letter, Parser!TypeOK
  <2> QED BY <2>1, <2>3 DEF ListingTypeOK
<1> QED BY <1>1, ListingSafety, PTL

(* What is published of git's listing is what the listing says read as a   *)
(* whole, for every listing, however the pipe cuts it into chunks and      *)
(* whatever the limits are; of a git that did not succeed nothing is.      *)
THEOREM SnapshotIsExact == ListingSpec => []SnapshotIsTheListing
<1>1. ListingIInv => SnapshotIsTheListing
  BY DEF ListingIInv
<1> QED BY <1>1, ListingSafety, PTL

(* The pipe of git is a stream as TailCapture has it, so its diagnostics   *)
(* are its end, as those of any other child are.                           *)
THEOREM ListingIsCaptured == ListingSpec => Spec
<1>1. ListingIInv /\ [ListingNext]_listingVars => [Next]_vars
  BY ListingStepIInv
<1> QED BY <1>1, ListingCaptures, ListingSafety, PTL DEF ListingSpec, Spec

(* Of git's output, too, the accumulator holds just the end.               *)
THEOREM ListingTailIsSuffix == ListingSpec => []TailIsSuffix
  BY ListingIsCaptured, TailIsAlwaysSuffix, PTL

(* And git's diagnostics do not depend on how the pipe was read.           *)
THEOREM ListingIsBuffered == ListingSpec => []StreamedEqualsBuffered
  BY ListingIsCaptured, StreamingIsExact, PTL
=============================================================================
