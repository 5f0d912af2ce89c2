---------------------------- MODULE CommonLemmas ----------------------------
(***************************************************************************)
(* What the proofs of several components rest on.  Induction, in the form  *)
(* the provers can use: over sets of numbers and of sequences, in place of *)
(* predicates.  Functions that a first value and a step determine, and     *)
(* loops.  Parts, ends and concatenations of sequences.                    *)
(***************************************************************************)
EXTENDS Naturals, Sequences, SequencesExt, TLAPS, WellFoundedInduction,
        SequenceTheorems

(* Every set of natural numbers that is not empty has a least element.     *)
LEMMA LeastNat ==
  ASSUME NEW T, T \subseteq Nat, T # {}
  PROVE  \E x \in T : \A y \in T : x <= y
<1> DEFINE R == OpToRel(<, Nat)
<1>1. IsWellFoundedOn(R, Nat)
  BY NatLessThanWellFounded
<1> HIDE DEF R
<1>2. PICK x \in T : \A y \in T : <<y, x>> \notin R
  BY <1>1, WFMin, Zenon
<1> USE DEF R
<1>3. \A y \in T : ~(y < x)
  BY <1>2 DEF OpToRel
<1>4. QED
  BY <1>3

(* What holds of 0 and goes from n to n + 1 holds of every number.         *)
LEMMA SetInduction ==
  ASSUME NEW T, T \subseteq Nat, 0 \in T, \A n \in Nat : n \in T => n + 1 \in T
  PROVE  T = Nat
<1>1. SUFFICES ASSUME Nat \ T # {} PROVE FALSE
  OBVIOUS
<1>2. PICK x \in Nat \ T : \A y \in Nat \ T : x <= y
  BY <1>1, LeastNat
<1>3. x # 0 /\ x - 1 \in Nat /\ x - 1 \notin Nat \ T
  BY <1>2
<1>4. (x - 1) + 1 \in T
  BY <1>3
<1>5. QED
  BY <1>2, <1>4

(* A first value and a step for every number up to N make a function.      *)
LEMMA FunctionByStep ==
  ASSUME NEW S, NEW first \in S, NEW N \in Nat, NEW step \in [1..N -> [S -> S]]
  PROVE  \E f \in [0..N -> S] :
           f[0] = first /\ \A i \in 1..N : f[i] = step[i][f[i - 1]]
<1> DEFINE Upto(n, f) == f[0] = first /\ \A i \in 1..n : f[i] = step[i][f[i - 1]]
           T == {n \in Nat : n <= N => \E f \in [0..N -> S] : Upto(n, f)}
<1>1. 0 \in T
  <2>1. [i \in 0..N |-> first] \in [0..N -> S] /\ Upto(0, [i \in 0..N |-> first])
    OBVIOUS
  <2>2. QED
    BY <2>1
<1>2. ASSUME NEW n \in Nat, n \in T, n + 1 <= N
      PROVE  \E f \in [0..N -> S] : Upto(n + 1, f)
  <2>1. PICK f \in [0..N -> S] : Upto(n, f)
    BY <1>2
  <2> DEFINE g == [f EXCEPT ![n + 1] = step[n + 1][f[n]]]
  <2>2. step[n + 1][f[n]] \in S
    BY <1>2
  <2>3. g \in [0..N -> S]
    BY <2>2
  <2>4. g[0] = first /\ g[n + 1] = step[n + 1][g[n]]
    BY <1>2, <2>1
  <2>5. \A i \in 1..n : g[i] = f[i] /\ g[i - 1] = f[i - 1]
    BY <1>2
  <2> HIDE DEF g
  <2>6. ASSUME NEW i \in 1..(n + 1)
        PROVE  g[i] = step[i][g[i - 1]]
    <3>1. CASE i = n + 1
      BY <2>4, <3>1
    <3>2. CASE i \in 1..n
      BY <2>1, <2>5, <3>2
    <3>3. QED
      BY <3>1, <3>2
  <2>7. QED
    BY <2>3, <2>4, <2>6
<1>3. T = Nat
  <2> HIDE DEF Upto
  <2>1. \A n \in Nat : n \in T => n + 1 \in T
    BY <1>2
  <2> HIDE DEF T
  <2>2. T \subseteq Nat
    BY DEF T
  <2>3. QED
    BY <1>1, <2>1, <2>2, SetInduction
<1>4. \E f \in [0..N -> S] : Upto(N, f)
  <2> HIDE DEF Upto
  <2>1. N \in T
    BY <1>3
  <2>2. QED
    BY <2>1
<1>5. QED
  BY <1>4

(***************************************************************************)
(* A loop: while there is more, go on from the next state.  The measure m  *)
(* shrinks with every turn.                                                *)
(***************************************************************************)
IsLoop(f, S, more, next) ==
  f = [s \in S |-> IF more[s] THEN f[next[s]] ELSE s]

(* There is a function that does what the loop does.                       *)
LEMMA LoopExists ==
  ASSUME NEW S, NEW m \in [S -> Nat], NEW more \in [S -> BOOLEAN], NEW next \in [S -> S],
         \A s \in S : more[s] => m[next[s]] < m[s]
  PROVE  \E f : IsLoop(f, S, more, next)
<1> DEFINE Step(f, s) == IF more[s] THEN f[next[s]] ELSE s
           Good(n, f) == \A s \in S : m[s] <= n => f[s] = Step(f, s)
<1>1. ASSUME NEW n \in Nat, NEW k \in Nat, NEW f, NEW g, Good(n, f), Good(k, g),
             NEW s \in S, m[s] <= n, m[s] <= k
      PROVE  f[s] = g[s]
  <2> DEFINE Bad == {i \in Nat : \E t \in S : m[t] = i /\ i <= n /\ i <= k /\ f[t] # g[t]}
  <2>1. SUFFICES ASSUME f[s] # g[s] PROVE FALSE
    OBVIOUS
  <2>2. m[s] \in Bad
    BY <1>1, <2>1
  <2>3. PICK i \in Bad : \A j \in Bad : i <= j
    <3> HIDE DEF Bad
    <3>1. Bad \subseteq Nat
      BY DEF Bad
    <3>2. QED
      BY <2>2, <3>1, LeastNat
  <2>4. PICK t \in S : m[t] = i /\ i <= n /\ i <= k /\ f[t] # g[t]
    BY <2>3
  <2>5. f[t] = Step(f, t) /\ g[t] = Step(g, t)
    BY <1>1, <2>4
  <2>6. more[t] /\ f[next[t]] # g[next[t]]
    BY <2>4, <2>5
  <2>7. next[t] \in S /\ m[next[t]] \in Nat /\ m[next[t]] < i
    BY <2>4, <2>6
  <2>8. m[next[t]] \in Bad
    BY <2>4, <2>6, <2>7
  <2>9. QED
    BY <2>3, <2>7, <2>8
<1> DEFINE T == {n \in Nat : \E f : Good(n, f)}
<1>2. 0 \in T
  <2>1. Good(0, [s \in S |-> s])
    OBVIOUS
  <2> HIDE DEF Good
  <2>2. QED
    BY <2>1
<1>3. ASSUME NEW n \in Nat, n \in T
      PROVE  n + 1 \in T
  <2>1. PICK f : Good(n, f)
    BY <1>3
  <2> DEFINE g == [s \in S |-> Step(f, s)]
  <2>2. ASSUME NEW s \in S, m[s] <= n + 1
        PROVE  g[s] = Step(g, s)
    <3>1. CASE ~more[s]
      BY <3>1
    <3>2. CASE more[s]
      <4>1. next[s] \in S /\ m[next[s]] <= n
        BY <2>2, <3>2
      <4>2. f[next[s]] = Step(f, next[s])
        BY <2>1, <4>1
      <4>3. g[next[s]] = Step(f, next[s]) /\ g[s] = Step(f, s)
        BY <4>1
      <4> HIDE DEF g
      <4>4. QED
        BY <3>2, <4>2, <4>3
    <3>3. QED
      BY <3>1, <3>2
  <2>3. Good(n + 1, g)
    <3> HIDE DEF g
    <3>1. QED
      BY <2>2
  <2> HIDE DEF Good, g
  <2>4. QED
    BY <2>3
<1>4. T = Nat
  <2> HIDE DEF Good
  <2>1. \A n \in Nat : n \in T => n + 1 \in T
    <3> HIDE DEF T
    <3>1. QED
      BY <1>3
  <2>2. 0 \in T /\ T \subseteq Nat
    BY <1>2
  <2> HIDE DEF T
  <2>3. QED
    BY <2>1, <2>2, SetInduction
<1> DEFINE Upto(n) == CHOOSE f : Good(n, f)
           loop == [s \in S |-> Upto(m[s])[s]]
<1>5. \A n \in Nat : Good(n, Upto(n))
  <2> HIDE DEF Good
  <2>1. \A n \in Nat : \E f : Good(n, f)
    BY <1>4
  <2>2. QED
    BY <2>1
<1>6. ASSUME NEW s \in S
      PROVE  loop[s] = Step(loop, s)
  <2> DEFINE f == Upto(m[s])
  <2>1. loop[s] = f[s]
    OBVIOUS
  <2>2. Good(m[s], f)
    <3> HIDE DEF Good, Upto
    <3>1. QED
      BY <1>5
  <2>3. f[s] = Step(f, s)
    <3> HIDE DEF f, loop, Upto
    <3>1. QED
      BY <2>2
  <2>4. CASE ~more[s]
    <3> HIDE DEF f, loop
    <3>1. QED
      BY <2>1, <2>3, <2>4
  <2>5. CASE more[s]
    <3> DEFINE t == next[s]
               g == Upto(m[t])
    <3>1. t \in S /\ m[t] < m[s]
      BY <2>5
    <3>2. loop[t] = g[t]
      <4> HIDE DEF Upto
      <4>1. QED
        BY <3>1
    <3>3. Good(m[t], g)
      <4>1. m[t] \in Nat
        BY <3>1
      <4> HIDE DEF Good, Upto, t
      <4>2. QED
        BY <1>5, <4>1
    <3>4. g[t] = f[t]
      <4>1. m[t] \in Nat /\ m[s] \in Nat /\ m[t] <= m[t] /\ m[t] <= m[s]
        BY <3>1
      <4> HIDE DEF Good, f, g, t
      <4>2. QED
        BY <1>1, <2>2, <3>1, <3>3, <4>1
    <3> HIDE DEF f, loop, g
    <3>5. QED
      BY <2>1, <2>3, <2>5, <3>2, <3>4
  <2>6. QED
    BY <2>4, <2>5
<1>7. loop = [s \in S |-> Step(loop, s)]
  <2> DEFINE other == [s \in S |-> Step(loop, s)]
  <2>1. DOMAIN loop = S /\ loop = [s \in S |-> loop[s]]
    OBVIOUS
  <2> HIDE DEF loop
  <2>2. QED
    BY <1>6, <2>1
<1>8. IsLoop(loop, S, more, next)
  <2> HIDE DEF loop
  <2>1. QED
    BY <1>7 DEF IsLoop
<1>9. QED
  <2> HIDE DEF loop
  <2>1. QED
    BY <1>8

(* What holds of a state and is kept by each turn holds where it ends.     *)
LEMMA LoopEnds ==
  ASSUME NEW S, NEW m \in [S -> Nat], NEW more \in [S -> BOOLEAN], NEW next \in [S -> S],
         \A s \in S : more[s] => m[next[s]] < m[s],
         NEW f, IsLoop(f, S, more, next),
         NEW I, I \subseteq S, \A s \in I : more[s] => next[s] \in I,
         NEW s \in I
  PROVE  f[s] \in I /\ ~more[f[s]]
<1> DEFINE Bad == {i \in Nat : \E t \in I : m[t] = i /\ ~(f[t] \in I /\ ~more[f[t]])}
<1>1. SUFFICES ASSUME ~(f[s] \in I /\ ~more[f[s]]) PROVE FALSE
  OBVIOUS
<1>2. m[s] \in Bad
  BY <1>1
<1>3. PICK i \in Bad : \A j \in Bad : i <= j
  <2>1. Bad \subseteq Nat
    OBVIOUS
  <2> HIDE DEF Bad
  <2>2. QED
    BY <1>2, <2>1, LeastNat
<1>4. PICK t \in I : m[t] = i /\ ~(f[t] \in I /\ ~more[f[t]])
  BY <1>3
<1>5. t \in S /\ f[t] = IF more[t] THEN f[next[t]] ELSE t
  BY DEF IsLoop
<1>6. more[t]
  BY <1>4, <1>5
<1>7. next[t] \in I /\ m[next[t]] \in Nat /\ m[next[t]] < i
  BY <1>4, <1>5, <1>6
<1>8. m[next[t]] \in Bad
  BY <1>4, <1>5, <1>6, <1>7
<1>9. QED
  BY <1>3, <1>7, <1>8

(* What such a loop ends in is a state that asks for no more.              *)
LEMMA LoopStays ==
  ASSUME NEW S, NEW m \in [S -> Nat], NEW more \in [S -> BOOLEAN], NEW next \in [S -> S],
         \A s \in S : more[s] => m[next[s]] < m[s],
         NEW f, IsLoop(f, S, more, next)
  PROVE  \A s \in S : f[s] \in S /\ ~more[f[s]]
<1>1. S \subseteq S /\ \A s \in S : more[s] => next[s] \in S
  OBVIOUS
<1>2. QED
  BY <1>1, LoopEnds

(* What every turn of the loop keeps, the loop does.                       *)
Lasts(I, S, more, next) == I \subseteq S /\ \A s \in I : more[s] => next[s] \in I

LEMMA LoopKeeps ==
  ASSUME NEW S, NEW m \in [S -> Nat], NEW more \in [S -> BOOLEAN], NEW next \in [S -> S],
         \A s \in S : more[s] => m[next[s]] < m[s],
         NEW f, IsLoop(f, S, more, next)
  PROVE  \A I : Lasts(I, S, more, next) => \A s \in I : f[s] \in I /\ ~more[f[s]]
BY LoopEnds DEF Lasts

-----------------------------------------------------------------------------
(* Sequences, and the largest and least of a set of numbers.               *)

LEMMA LastOf ==
  ASSUME NEW S, NEW s \in Seq(S), s # <<>>
  PROVE  Len(s) \in Nat \ {0} /\ Last(s) \in S /\ Last(s) = s[Len(s)]
BY DEF Last

LEMMA FrontOf ==
  ASSUME NEW S, NEW s \in Seq(S), s # <<>>
  PROVE  /\ Front(s) \in Seq(S) /\ Len(Front(s)) = Len(s) - 1
         /\ \A i \in 1..(Len(s) - 1) : Front(s)[i] = s[i]
<1> DEFINE n == Len(s) - 1
           front == SubSeq(s, 1, n)
<1>1. n \in Nat /\ \A i \in 1..n : s[i] \in S
  OBVIOUS
<1>2. /\ front \in Seq(S)
      /\ Len(front) = IF 1 <= n THEN n - 1 + 1 ELSE 0
      /\ \A i \in 1..(n - 1 + 1) : front[i] = s[1 + i - 1]
  <2> HIDE DEF n
  <2>1. QED
    BY <1>1, SubSeqProperties
<1>3. /\ Len(front) = n
      /\ \A i \in 1..n : front[i] = s[i]
  <2> HIDE DEF n, front
  <2>1. QED
    BY <1>1, <1>2
<1>4. Front(s) = front
  BY DEF Front
<1> HIDE DEF front
<1>5. QED
  BY <1>2, <1>3, <1>4

LEMMA MaxOf ==
  ASSUME NEW S, S \subseteq Nat, S # {}, NEW n \in Nat, \A i \in S : i <= n
  PROVE  Max(S) \in S /\ \A i \in S : i <= Max(S)
<1> DEFINE T == {i \in Nat : n - i \in S}
<1>1. PICK i \in T : \A j \in T : i <= j
  <2>1. PICK j \in S : TRUE
    OBVIOUS
  <2>2. n - j \in T
    <3>1. j \in Nat /\ j <= n /\ n - j \in Nat /\ n - (n - j) = j
      BY <2>1
    <3>2. QED
      BY <2>1, <3>1
  <2>3. T \subseteq Nat
    OBVIOUS
  <2> HIDE DEF T
  <2>4. QED
    BY <2>2, <2>3, LeastNat
<1>2. n - i \in S
  BY <1>1
<1>3. ASSUME NEW j \in S
      PROVE  j <= n - i
  <2>1. j \in Nat /\ j <= n /\ n - j \in Nat /\ n - (n - j) = j
    BY <1>3
  <2>2. n - j \in T
    BY <1>3, <2>1
  <2>3. QED
    BY <1>1, <2>1, <2>2
<1>4. \E x \in S : \A y \in S : x >= y
  BY <1>2, <1>3
<1>5. QED
  BY <1>4 DEF Max

LEMMA MinOf ==
  ASSUME NEW S, S \subseteq Nat, S # {}
  PROVE  Min(S) \in S /\ \A i \in S : Min(S) <= i
<1>1. \E x \in S : \A y \in S : x <= y
  BY LeastNat
<1>2. QED
  BY <1>1 DEF Min

(* A text cut in two.                                                      *)
LEMMA CutInTwo ==
  ASSUME NEW S, NEW t \in Seq(S), NEW n \in 0..Len(t)
  PROVE  /\ SubSeq(t, 1, n) \in Seq(S) /\ Len(SubSeq(t, 1, n)) = n
         /\ \A k \in 1..n : SubSeq(t, 1, n)[k] = t[k]
         /\ SubSeq(t, n + 1, Len(t)) \in Seq(S) /\ Len(SubSeq(t, n + 1, Len(t))) = Len(t) - n
         /\ \A k \in 1..(Len(t) - n) : SubSeq(t, n + 1, Len(t))[k] = t[n + k]
         /\ t = SubSeq(t, 1, n) \o SubSeq(t, n + 1, Len(t))
<1> DEFINE l == Len(t)
           a == SubSeq(t, 1, n)
           b == SubSeq(t, n + 1, l)
<1>1. l \in Nat /\ n \in Nat /\ n <= l /\ \A k \in 1..l : t[k] \in S
  OBVIOUS
<1>2. a \in Seq(S) /\ Len(a) = n /\ \A k \in 1..n : a[k] = t[k]
  BY <1>1
<1>3. b \in Seq(S) /\ Len(b) = l - n /\ \A k \in 1..(l - n) : b[k] = t[n + k]
  <2>1. n + 1 \in Int /\ \A k \in (n + 1)..l : t[k] \in S
    BY <1>1
  <2> HIDE DEF l
  <2>2. /\ b \in Seq(S) /\ Len(b) = (IF n + 1 <= l THEN l - (n + 1) + 1 ELSE 0)
        /\ \A i \in 1..(l - (n + 1) + 1) : b[i] = t[n + 1 + i - 1]
    BY <1>1, <2>1, SubSeqProperties
  <2> HIDE DEF b
  <2>3. Len(b) = l - n
    BY <1>1, <2>2
  <2>4. ASSUME NEW k \in 1..(l - n) PROVE b[k] = t[n + k]
    <3>1. k \in 1..(l - (n + 1) + 1) /\ n + 1 + k - 1 = n + k
      BY <1>1
    <3>2. QED
      BY <2>2, <3>1
  <2>5. QED
    BY <2>2, <2>3, <2>4
<1> HIDE DEF a, b
<1>4. t = a \o b
  <2>1. Len(a \o b) = l
    <3>1. Len(a \o b) = Len(a) + Len(b)
      BY <1>2, <1>3, ConcatProperties
    <3> HIDE DEF l
    <3>2. QED
      BY <1>1, <1>2, <1>3, <3>1
  <2>2. ASSUME NEW k \in 1..l PROVE t[k] = (a \o b)[k]
    <3>1. k <= n => k \in 1..n
      BY <1>1
    <3>2. ~(k <= n) => k - n \in 1..(l - n) /\ n + (k - n) = k
      BY <1>1
    <3>3. (a \o b)[k] = IF k <= n THEN a[k] ELSE b[k - n]
      BY <1>1, <1>2, <1>3
    <3>4. QED
      BY <1>2, <1>3, <3>1, <3>2, <3>3
  <2>3. a \o b \in Seq(S)
    BY <1>2, <1>3
  <2> DEFINE c == a \o b
  <2> HIDE DEF c
  <2>4. t = c
    BY <1>1, <2>1, <2>2, <2>3, SeqEqual DEF c
  <2>5. QED
    BY <2>4 DEF c
<1>5. QED
  BY <1>2, <1>3, <1>4 DEF a, b, l

(* The concatenation, for lengths that have a name.                        *)
LEMMA ConcatAs ==
  ASSUME NEW S, NEW a \in Seq(S), NEW b \in Seq(S), NEW n, NEW m, n = Len(a), m = Len(b)
  PROVE  /\ a \o b \in Seq(S) /\ Len(a \o b) = n + m
         /\ \A k \in 1..(n + m) : (a \o b)[k] = IF k <= n THEN a[k] ELSE b[k - n]
<1>1. a \o b \in Seq(S)
  OBVIOUS
<1>2. Len(a \o b) = n + m /\ n \in Nat /\ m \in Nat
  BY ConcatProperties
<1>3. \A k \in 1..(n + m) : (a \o b)[k] = IF k <= n THEN a[k] ELSE b[k - n]
  BY ConcatProperties
<1>4. QED
  BY <1>1, <1>2, <1>3

-----------------------------------------------------------------------------
(* Sequences by their length, and sequences of sequences laid end to end.  *)

(* What holds of <<>> and of a sequence with one more element holds of     *)
(* every sequence.                                                         *)
LEMMA SeqInduction ==
  ASSUME NEW S, NEW T, <<>> \in T,
         \A s \in Seq(S), x \in S : s \in T => Append(s, x) \in T
  PROVE  Seq(S) \subseteq T
<1> DEFINE N == {n \in Nat : \A s \in Seq(S) : Len(s) = n => s \in T}
<1>1. 0 \in N
  OBVIOUS
<1>2. ASSUME NEW n \in Nat, n \in N PROVE n + 1 \in N
  <2>1. ASSUME NEW s \in Seq(S), Len(s) = n + 1 PROVE s \in T
    <3> DEFINE front == [k \in 1..n |-> s[k]]
    <3>1. front \in Seq(S) /\ Len(front) = n /\ s[n + 1] \in S
      BY <2>1
    <3>2. s = Append(front, s[n + 1])
      BY <2>1, <3>1
    <3>3. front \in T
      BY <1>2, <3>1
    <3> HIDE DEF front
    <3>4. QED
      BY <3>1, <3>2, <3>3
  <2>2. QED
    BY <2>1
<1>3. N = Nat
  <2>1. \A n \in Nat : n \in N => n + 1 \in N
    BY <1>2
  <2>2. N \subseteq Nat
    OBVIOUS
  <2> HIDE DEF N
  <2>3. QED
    BY <1>1, <2>1, <2>2, SetInduction
<1>4. \A s \in Seq(S) : Len(s) \in N
  BY <1>3
<1>5. QED
  BY <1>4

(* The concatenation of the first i sequences of s, for every i.           *)
Flattening(s, g) ==
  /\ g[0] = <<>>
  /\ \A i \in 1..Len(s) : g[i] = g[i - 1] \o s[i]

LEMMA FlattenBuilds ==
  \A S, s : s \in Seq(Seq(S)) =>
    \E g \in [0..Len(s) -> Seq(S)] : Flattening(s, g) /\ FlattenSeq(s) = g[Len(s)]
<1>0. SUFFICES ASSUME NEW S, NEW s, s \in Seq(Seq(S))
      PROVE  \E g \in [0..Len(s) -> Seq(S)] : Flattening(s, g) /\ FlattenSeq(s) = g[Len(s)]
  OBVIOUS
<1> DEFINE N == Len(s)
           pass == [i \in 1..N |-> [x \in Seq(S) |-> x \o s[i]]]
<1>1. N \in Nat /\ <<>> \in Seq(S) /\ \A i \in 1..N : s[i] \in Seq(S)
  BY <1>0
<1>2. pass \in [1..N -> [Seq(S) -> Seq(S)]]
  BY <1>1
<1>3. PICK g \in [0..N -> Seq(S)] :
         g[0] = <<>> /\ \A i \in 1..N : g[i] = pass[i][g[i - 1]]
  <2> DEFINE Q == Seq(S)
             none == <<>>
  <2>1. N \in Nat /\ none \in Q /\ pass \in [1..N -> [Q -> Q]]
    BY <1>1, <1>2
  <2> HIDE DEF pass, N, Q, none
  <2>2. PICK h \in [0..N -> Q] : h[0] = none /\ \A i \in 1..N : h[i] = pass[i][h[i - 1]]
    BY <2>1, FunctionByStep
  <2>3. QED
    BY <2>2 DEF Q, none
<1>4. Flattening(s, g)
  <2>1. ASSUME NEW i \in 1..N PROVE g[i] = g[i - 1] \o s[i]
    <3>1. i - 1 \in 0..N
      BY <1>1
    <3>2. g[i - 1] \in Seq(S)
      BY <3>1
    <3>3. pass[i][g[i - 1]] = g[i - 1] \o s[i]
      BY <3>2
    <3>4. QED
      BY <1>3, <3>3
  <2>2. QED
    BY <1>3, <2>1 DEF Flattening
<1>5. CASE N = 0
  <2>1. FlattenSeq(s) = <<>>
    BY <1>5 DEF FlattenSeq
  <2>2. QED
    BY <1>3, <1>4, <1>5, <2>1
<1>6. CASE N # 0
  <2> DEFINE Is(h) == h = [i \in 1..N |-> IF i = 1 THEN s[i] ELSE h[i - 1] \o s[i]]
             h0 == [i \in 1..N |-> g[i]]
             h1 == CHOOSE h : Is(h)
  <2>1. Is(h0)
    <3>1. g[0] \o s[1] = s[1]
      BY <1>1, <1>3, <1>6, ConcatEmptySeq
    <3>2. ASSUME NEW i \in 1..N
          PROVE  h0[i] = IF i = 1 THEN s[i] ELSE h0[i - 1] \o s[i]
      <4>1. h0[i] = g[i - 1] \o s[i]
        BY <1>4 DEF Flattening
      <4>2. i # 1 => i - 1 \in 1..N
        BY <1>1
      <4>3. i # 1 => h0[i - 1] = g[i - 1]
        BY <4>2
      <4>4. i = 1 => g[i - 1] = <<>> /\ i - 1 = 0
        BY <1>3
      <4>5. i = 1 => h0[i] = s[i]
        BY <1>3, <3>1, <4>1, <4>4
      <4>6. QED
        BY <4>1, <4>3, <4>5
    <3>3. QED
      BY <3>2
  <2>2. Is(h1)
    <3> HIDE DEF Is, h0
    <3>1. QED
      BY <2>1
  <2> HIDE DEF h1
  <2>3. \A i \in 1..N : h1[i] = IF i = 1 THEN s[i] ELSE h1[i - 1] \o s[i]
    BY <2>2
  <2> DEFINE T == {n \in Nat : n + 1 \in 1..N => h1[n + 1] = g[n + 1]}
  <2>4. 0 \in T
    <3>1. 1 \in 1..N /\ 1 - 1 = 0 /\ s[1] \in Seq(S)
      BY <1>1, <1>6
    <3>2. h1[1] = s[1]
      BY <2>3, <3>1
    <3>3. g[1] = g[0] \o s[1]
      BY <1>4, <3>1 DEF Flattening
    <3>4. <<>> \o s[1] = s[1]
      BY <3>1, ConcatEmptySeq
    <3>5. QED
      BY <1>3, <3>2, <3>3, <3>4
  <2>5. ASSUME NEW n \in Nat, n \in T PROVE n + 1 \in T
    <3> DEFINE i == (n + 1) + 1
    <3>1. SUFFICES ASSUME i \in 1..N PROVE h1[i] = g[i]
      OBVIOUS
    <3>2. i # 1 /\ i - 1 = n + 1 /\ n + 1 \in 1..N
      BY <1>1, <3>1
    <3>3. h1[n + 1] = g[n + 1]
      BY <2>5, <3>2
    <3> HIDE DEF i
    <3>4. h1[i] = h1[i - 1] \o s[i]
      BY <2>3, <3>1, <3>2
    <3>5. g[i] = g[i - 1] \o s[i]
      BY <1>4, <3>1 DEF Flattening
    <3>6. QED
      BY <3>2, <3>3, <3>4, <3>5
  <2>6. T = Nat
    <3>1. \A n \in Nat : n \in T => n + 1 \in T
      BY <2>5
    <3>2. T \subseteq Nat
      OBVIOUS
    <3> HIDE DEF T
    <3>3. QED
      BY <2>4, <3>1, <3>2, SetInduction
  <2>7. h1[N] = g[N]
    <3>1. N - 1 \in Nat /\ (N - 1) + 1 = N /\ N \in 1..N
      BY <1>1, <1>6
    <3>2. N - 1 \in T
      BY <2>6, <3>1
    <3>3. QED
      BY <3>1, <3>2
  <2>8. FlattenSeq(s) = h1[N]
    BY <1>6 DEF FlattenSeq, h1
  <2>9. QED
    BY <1>3, <1>4, <2>7, <2>8
<1>7. QED
  BY <1>5, <1>6

LEMMA FlattenUnique ==
  ASSUME NEW S, NEW s \in Seq(Seq(S)), NEW g, Flattening(s, g)
  PROVE  FlattenSeq(s) = g[Len(s)] /\ FlattenSeq(s) \in Seq(S)
<1>1. PICK h \in [0..Len(s) -> Seq(S)] : Flattening(s, h) /\ FlattenSeq(s) = h[Len(s)]
  BY FlattenBuilds
<1> DEFINE T == {n \in Nat : n <= Len(s) => h[n] = g[n]}
<1>2. Len(s) \in Nat
  OBVIOUS
<1>3. 0 \in T
  BY <1>1 DEF Flattening
<1>4. ASSUME NEW n \in Nat, n \in T PROVE n + 1 \in T
  <2>1. SUFFICES ASSUME n + 1 <= Len(s) PROVE h[n + 1] = g[n + 1]
    OBVIOUS
  <2>2. n + 1 \in 1..Len(s) /\ (n + 1) - 1 = n /\ h[n] = g[n]
    BY <1>2, <1>4, <2>1
  <2>3. QED
    BY <1>1, <2>2 DEF Flattening
<1>5. T = Nat
  <2>1. \A n \in Nat : n \in T => n + 1 \in T
    BY <1>4
  <2>2. T \subseteq Nat
    OBVIOUS
  <2> HIDE DEF T
  <2>3. QED
    BY <1>3, <2>1, <2>2, SetInduction
<1>6. Len(s) \in T
  BY <1>2, <1>5
<1>7. QED
  BY <1>1, <1>2, <1>6

LEMMA FlattenStep ==
  ASSUME NEW S, NEW s \in Seq(Seq(S)), NEW x \in Seq(S)
  PROVE  /\ FlattenSeq(<<>>) = <<>> /\ FlattenSeq(s) \in Seq(S)
         /\ FlattenSeq(Append(s, x)) = FlattenSeq(s) \o x
<1> DEFINE t == Append(s, x)
<1>1. FlattenSeq(<<>>) = <<>>
  BY DEF FlattenSeq
<1>2. /\ t \in Seq(Seq(S)) /\ Len(s) \in Nat /\ Len(t) = Len(s) + 1 /\ t[Len(s) + 1] = x
      /\ \A i \in 1..Len(s) : t[i] = s[i]
  OBVIOUS
<1> HIDE DEF t
<1>3. PICK g \in [0..Len(t) -> Seq(S)] : Flattening(t, g) /\ FlattenSeq(t) = g[Len(t)]
  BY <1>2, FlattenBuilds
<1>4. Flattening(s, g)
  <2>1. \A i \in 1..Len(s) : i \in 1..Len(t) /\ t[i] = s[i]
    BY <1>2
  <2>2. QED
    BY <1>3, <2>1 DEF Flattening
<1>5. FlattenSeq(s) = g[Len(s)] /\ FlattenSeq(s) \in Seq(S)
  BY <1>4, FlattenUnique
<1>6. g[Len(t)] = g[Len(s)] \o x
  <2>1. Len(t) \in 1..Len(t) /\ Len(t) - 1 = Len(s) /\ t[Len(t)] = x
    BY <1>2
  <2>2. g[Len(t)] = g[Len(t) - 1] \o t[Len(t)]
    BY <1>3, <2>1 DEF Flattening
  <2>3. QED
    BY <2>1, <2>2
<1>7. QED
  BY <1>1, <1>3, <1>5, <1>6 DEF t

LEMMA FlattenConcatStep ==
  ASSUME NEW S, NEW s \in Seq(Seq(S))
  PROVE  \A u \in Seq(Seq(S)), x \in Seq(S) :
           FlattenSeq(s \o u) = FlattenSeq(s) \o FlattenSeq(u) =>
             FlattenSeq(s \o Append(u, x)) = FlattenSeq(s) \o FlattenSeq(Append(u, x))
<1>0. SUFFICES ASSUME NEW u \in Seq(Seq(S)), NEW x \in Seq(S),
                      FlattenSeq(s \o u) = FlattenSeq(s) \o FlattenSeq(u)
               PROVE  FlattenSeq(s \o Append(u, x)) = FlattenSeq(s) \o FlattenSeq(Append(u, x))
  OBVIOUS
<1> DEFINE R == Seq(S)
           su == s \o u
           fs == FlattenSeq(s)
           fu == FlattenSeq(u)
<1>1. s \in Seq(R) /\ u \in Seq(R) /\ x \in R
  OBVIOUS
<1>2. s \o Append(u, x) = Append(su, x) /\ su \in Seq(R)
  <2> HIDE DEF R
  <2>1. QED
    BY <1>1
<1>3. fs \in Seq(S) /\ fu \in Seq(S) /\ FlattenSeq(Append(u, x)) = fu \o x
  BY <1>0, FlattenStep
<1>4. FlattenSeq(Append(su, x)) = FlattenSeq(su) \o x
  <2> HIDE DEF su
  <2>1. QED
    BY <1>2, FlattenStep
<1> HIDE DEF fs, fu
<1>5. (fs \o fu) \o x = fs \o (fu \o x)
  BY <1>1, <1>3
<1>6. QED
  BY <1>0, <1>2, <1>3, <1>4, <1>5 DEF su, fs, fu

LEMMA FlattenConcat ==
  ASSUME NEW S, NEW s \in Seq(Seq(S))
  PROVE  \A t \in Seq(Seq(S)) : FlattenSeq(s \o t) = FlattenSeq(s) \o FlattenSeq(t)
<1> DEFINE R == Seq(S)
           T == {u \in Seq(R) : FlattenSeq(s \o u) = FlattenSeq(s) \o FlattenSeq(u)}
<1>1. <<>> \in T
  <2>1. FlattenSeq(<<>>) = <<>> /\ FlattenSeq(s) \in Seq(S) /\ s \o <<>> = s
    <3>1. <<>> \in Seq(S)
      OBVIOUS
    <3>2. QED
      BY <3>1, FlattenStep, ConcatEmptySeq
  <2>2. FlattenSeq(s) \o <<>> = FlattenSeq(s)
    BY <2>1, ConcatEmptySeq
  <2>3. <<>> \in Seq(R)
    OBVIOUS
  <2>4. QED
    BY <2>1, <2>2, <2>3
<1>2. \A u \in Seq(R), x \in R :
        FlattenSeq(s \o u) = FlattenSeq(s) \o FlattenSeq(u) =>
          FlattenSeq(s \o Append(u, x)) = FlattenSeq(s) \o FlattenSeq(Append(u, x))
  BY FlattenConcatStep
<1>3. \A u \in Seq(R), x \in R : u \in T => Append(u, x) \in T
  <2> HIDE DEF R
  <2>1. ASSUME NEW u \in Seq(R), NEW x \in R, u \in T
        PROVE  Append(u, x) \in T
    <3>1. FlattenSeq(s \o u) = FlattenSeq(s) \o FlattenSeq(u)
      BY <2>1
    <3>2. Append(u, x) \in Seq(R)
      OBVIOUS
    <3>3. FlattenSeq(s \o Append(u, x)) = FlattenSeq(s) \o FlattenSeq(Append(u, x))
      BY <1>2, <3>1
    <3>4. QED
      BY <3>2, <3>3
  <2>2. QED
    BY <2>1
<1>4. Seq(R) \subseteq T
  <2> HIDE DEF R, T
  <2>1. QED
    BY <1>1, <1>3, SeqInduction
<1>5. QED
  BY <1>4

(* What the elements of s become, and what they give, in their order.      *)
Gives(f, A, B) == \A a \in A : f[a] \in B
Mapped(s, f) == [k \in DOMAIN s |-> f[s[k]]]
Gathered(s, f) == FlattenSeq(Mapped(s, f))

LEMMA MappedAppend ==
  ASSUME NEW A, NEW f, NEW s \in Seq(A), NEW x \in A
  PROVE  Mapped(Append(s, x), f) = Append(Mapped(s, f), f[x])
<1> DEFINE B == {f[a] : a \in A}
           t == Append(s, x)
           m == Append(Mapped(s, f), f[x])
<1>1. ASSUME NEW u \in Seq(A)
      PROVE  /\ Mapped(u, f) \in Seq(B) /\ Len(Mapped(u, f)) = Len(u)
             /\ \A k \in 1..Len(u) : Mapped(u, f)[k] = f[u[k]]
  <2>1. Len(u) \in Nat /\ DOMAIN u = 1..Len(u) /\ \A k \in 1..Len(u) : f[u[k]] \in B
    OBVIOUS
  <2> HIDE DEF B
  <2>2. QED
    BY <2>1 DEF Mapped
<1>2. /\ t \in Seq(A) /\ Len(s) \in Nat /\ Len(t) = Len(s) + 1 /\ t[Len(s) + 1] = x
      /\ \A i \in 1..Len(s) : t[i] = s[i]
  OBVIOUS
<1>3. f[x] \in B
  OBVIOUS
<1> HIDE DEF B, t
<1>4. /\ m \in Seq(B) /\ Len(m) = Len(s) + 1 /\ m[Len(s) + 1] = f[x]
      /\ \A i \in 1..Len(s) : m[i] = Mapped(s, f)[i]
  BY <1>1, <1>3
<1> HIDE DEF m
<1>5. /\ Mapped(t, f) \in Seq(B) /\ Len(Mapped(t, f)) = Len(s) + 1
      /\ \A i \in 1..(Len(s) + 1) : Mapped(t, f)[i] = f[t[i]]
  BY <1>1, <1>2
<1>6. ASSUME NEW i \in 1..(Len(s) + 1) PROVE Mapped(t, f)[i] = m[i]
  <2>1. i = Len(s) + 1 \/ i \in 1..Len(s)
    BY <1>2
  <2>2. QED
    BY <1>1, <1>2, <1>4, <1>5, <2>1
<1>7. Mapped(t, f) = m
  BY <1>4, <1>5, <1>6, SeqEqual
<1>8. QED
  BY <1>7 DEF t, m

LEMMA MappedTyped ==
  ASSUME NEW A, NEW B, NEW f, Gives(f, A, B), NEW s \in Seq(A)
  PROVE  /\ Mapped(s, f) \in Seq(B) /\ Len(Mapped(s, f)) = Len(s)
         /\ \A k \in 1..Len(s) : Mapped(s, f)[k] = f[s[k]]
<1>1. Len(s) \in Nat /\ DOMAIN s = 1..Len(s) /\ \A k \in 1..Len(s) : f[s[k]] \in B
  BY DEF Gives
<1>2. QED
  BY <1>1 DEF Mapped

LEMMA GatheredParts ==
  ASSUME NEW A, NEW B, NEW f, Gives(f, A, Seq(B))
  PROVE  /\ Gathered(<<>>, f) = <<>>
         /\ \A s \in Seq(A) : Gathered(s, f) \in Seq(B)
         /\ \A s \in Seq(A), x \in A : Gathered(Append(s, x), f) = Gathered(s, f) \o f[x]
<1> DEFINE C == Seq(B)
<1>1. Gives(f, A, C)
  OBVIOUS
<1> HIDE DEF C
<1>2. \A s \in Seq(A) : Mapped(s, f) \in Seq(C)
  BY <1>1, MappedTyped
<1>3. ASSUME NEW s \in Seq(A), NEW x \in A
      PROVE  Mapped(Append(s, x), f) = Append(Mapped(s, f), f[x])
  BY MappedAppend
<1>4. Mapped(<<>>, f) = <<>> /\ FlattenSeq(<<>>) = <<>>
  BY DEF Mapped, FlattenSeq
<1>5. ASSUME NEW s \in Seq(A), NEW x \in A
      PROVE  /\ FlattenSeq(Mapped(s, f)) \in Seq(B)
             /\ FlattenSeq(Mapped(Append(s, x), f)) = FlattenSeq(Mapped(s, f)) \o f[x]
  <2> DEFINE m == Mapped(s, f)
             y == f[x]
  <2>1. m \in Seq(Seq(B)) /\ y \in Seq(B)
    BY <1>1, <1>2 DEF C, Gives
  <2>2. Mapped(Append(s, x), f) = Append(m, y)
    BY <1>3
  <2> HIDE DEF m, y
  <2>3. FlattenSeq(m) \in Seq(B) /\ FlattenSeq(Append(m, y)) = FlattenSeq(m) \o y
    BY <2>1, FlattenStep
  <2>4. QED
    BY <2>2, <2>3 DEF m, y
<1>6. ASSUME NEW s \in Seq(A) PROVE FlattenSeq(Mapped(s, f)) \in Seq(B)
  <2> DEFINE m == Mapped(s, f)
  <2>1. m \in Seq(Seq(B)) /\ <<>> \in Seq(B)
    BY <1>2 DEF C
  <2> HIDE DEF m
  <2>2. FlattenSeq(m) \in Seq(B)
    BY <2>1, FlattenStep
  <2>3. QED
    BY <2>2 DEF m
<1>7. QED
  BY <1>4, <1>5, <1>6 DEF Gathered

LEMMA GatheredStep ==
  ASSUME NEW A, NEW B, NEW f, Gives(f, A, Seq(B)), NEW s \in Seq(A), NEW x \in A
  PROVE  /\ Gathered(s, f) \in Seq(B) /\ f[x] \in Seq(B)
         /\ Gathered(Append(s, x), f) = Gathered(s, f) \o f[x]
<1>1. f[x] \in Seq(B)
  BY DEF Gives
<1>2. \A v \in Seq(A) : Gathered(v, f) \in Seq(B)
  BY GatheredParts
<1>3. \A v \in Seq(A), y \in A : Gathered(Append(v, y), f) = Gathered(v, f) \o f[y]
  BY GatheredParts
<1>4. QED
  BY <1>1, <1>2, <1>3

LEMMA GatheredConcatStep ==
  ASSUME NEW A, NEW B, NEW f, Gives(f, A, Seq(B)), NEW s \in Seq(A)
  PROVE  \A u \in Seq(A), x \in A :
           Gathered(s \o u, f) = Gathered(s, f) \o Gathered(u, f) =>
             Gathered(s \o Append(u, x), f) = Gathered(s, f) \o Gathered(Append(u, x), f)
<1>0. SUFFICES ASSUME NEW u \in Seq(A), NEW x \in A,
                      Gathered(s \o u, f) = Gathered(s, f) \o Gathered(u, f)
               PROVE  Gathered(s \o Append(u, x), f) = Gathered(s, f) \o Gathered(Append(u, x), f)
  OBVIOUS
<1>1. s \o Append(u, x) = Append(s \o u, x) /\ s \o u \in Seq(A)
  OBVIOUS
<1> DEFINE su == s \o u
           gs == Gathered(s, f)
           gu == Gathered(u, f)
           y == f[x]
<1>2. gs \in Seq(B) /\ gu \in Seq(B) /\ y \in Seq(B)
  BY <1>0, GatheredStep
<1>3. Gathered(Append(u, x), f) = gu \o y
  BY <1>0, GatheredStep
<1>4. Gathered(Append(su, x), f) = Gathered(su, f) \o y
  <2>1. su \in Seq(A)
    BY <1>1
  <2> HIDE DEF su
  <2>2. QED
    BY <1>0, <2>1, GatheredStep
<1> HIDE DEF gs, gu, y
<1>5. (gs \o gu) \o y = gs \o (gu \o y)
  BY <1>2
<1>6. QED
  BY <1>0, <1>1, <1>3, <1>4, <1>5 DEF su, gs, gu

LEMMA GatheredConcat ==
  ASSUME NEW A, NEW B, NEW f, Gives(f, A, Seq(B)), NEW s \in Seq(A)
  PROVE  \A t \in Seq(A) : Gathered(s \o t, f) = Gathered(s, f) \o Gathered(t, f)
<1> DEFINE T == {u \in Seq(A) : Gathered(s \o u, f) = Gathered(s, f) \o Gathered(u, f)}
<1>1. <<>> \in T
  <2>1. Gathered(<<>>, f) = <<>> /\ Gathered(s, f) \in Seq(B) /\ s \o <<>> = s /\ <<>> \in Seq(A)
    BY GatheredParts
  <2>2. Gathered(s, f) \o <<>> = Gathered(s, f)
    BY <2>1, ConcatEmptySeq
  <2>3. QED
    BY <2>1, <2>2
<1>2. \A u \in Seq(A), x \in A :
        Gathered(s \o u, f) = Gathered(s, f) \o Gathered(u, f) =>
          Gathered(s \o Append(u, x), f) = Gathered(s, f) \o Gathered(Append(u, x), f)
  BY GatheredConcatStep
<1>3. \A u \in Seq(A), x \in A : u \in T => Append(u, x) \in T
  BY <1>2
<1>4. Seq(A) \subseteq T
  <2> HIDE DEF T
  <2>1. QED
    BY <1>1, <1>3, SeqInduction
<1>5. QED
  BY <1>4

(* A sequence is a prefix of what it is put in front of.                   *)
LEMMA ConcatBegins ==
  ASSUME NEW S, NEW s \in Seq(S), NEW u \in Seq(S)
  PROVE  IsPrefix(s, s \o u)
<1> DEFINE t == s \o u
           n == Len(s)
<1>1. /\ t \in Seq(S) /\ n \in Nat /\ n <= Len(t) /\ \A k \in 1..n : t[k] = s[k]
  BY ConcatProperties
<1> HIDE DEF t
<1>2. n \in 0..Len(t)
  BY <1>1
<1>3. SubSeq(t, 1, n) \in Seq(S) /\ Len(SubSeq(t, 1, n)) = n /\ \A k \in 1..n : SubSeq(t, 1, n)[k] = t[k]
  BY <1>1, <1>2, CutInTwo
<1> DEFINE a == SubSeq(t, 1, n)
<1>4. a \in Seq(S) /\ Len(a) = Len(s) /\ \A k \in 1..Len(a) : a[k] = s[k]
  BY <1>1, <1>3
<1> HIDE DEF a
<1>5. a = s
  BY <1>4, SeqEqual
<1>6. SubSeq(s, 1, n) = s
  OBVIOUS
<1>7. QED
  BY <1>1, <1>5, <1>6 DEF IsPrefix, a, t
=============================================================================
