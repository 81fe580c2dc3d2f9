----------------------------- MODULE ListFacts -----------------------------
(***************************************************************************)
(* Facts about what the models are written with and the provers know       *)
(* nothing of: induction over an interval, recursion along it, FoldLeft (a loop    *)
(* over a list), and lists in which nothing stands twice.                  *)
(***************************************************************************)
EXTENDS Naturals, SequencesExt, FiniteSetTheorems, WellFoundedInduction, TLAPS

\* Every non-empty set of naturals has a least element.
LEMMA LeastElement ==
  ASSUME NEW T, T \subseteq Nat, T # {}
  PROVE  \E x \in T : \A y \in T : x <= y
  <1> DEFINE R == OpToRel(<, Nat)
  <1>1. IsWellFoundedOn(R, Nat)
    BY NatLessThanWellFounded
  <1>2. PICK x \in T : \A y \in T : ~ (<<y, x>> \in R)
    <2> HIDE DEF R
    <2> QED BY <1>1, WFMin
  <1>3. \A y \in T : ~ (y < x)
    BY <1>2 DEF OpToRel
  <1> QED BY <1>3

\* Induction over an interval, for a property given as a set.
LEMMA Induction ==
  ASSUME NEW n \in Nat, NEW T, 0 \in T, \A i \in 1 .. n : i - 1 \in T => i \in T
  PROVE  \A i \in 0 .. n : i \in T
  <1> DEFINE Bad == {i \in 0 .. n : i \notin T}
  <1> SUFFICES ASSUME Bad # {} PROVE FALSE
    OBVIOUS
  <1>1. PICK x \in Bad : \A y \in Bad : x <= y
    <2>1. Bad \subseteq Nat
      OBVIOUS
    <2> HIDE DEF Bad
    <2> QED BY <2>1, LeastElement
  <1>2. x \in 1 .. n /\ x - 1 \in 0 .. n /\ ~ (x <= x - 1)
    BY <1>1
  <1>3. x - 1 \in T
    BY <1>1, <1>2
  <1> QED BY <1>1, <1>2, <1>3

\* A non-empty set of the numbers up to n has a greatest one.
LEMMA MaxOf ==
  ASSUME NEW n \in Nat, NEW T, T \subseteq 1 .. n, T # {}
  PROVE  Max(T) \in T /\ \A y \in T : y <= Max(T)
  <1> DEFINE U == {n - x : x \in T}
  <1>1. U \subseteq Nat /\ U # {}
    <2>1. \A x \in T : n - x \in Nat
      OBVIOUS
    <2> QED BY <2>1
  <1>2. PICK u \in U : \A v \in U : u <= v
    <2> HIDE DEF U
    <2> QED BY <1>1, LeastElement
  <1>3. PICK x \in T : u = n - x
    BY <1>2
  <1>4. \A y \in T : n - x <= n - y
    BY <1>2, <1>3
  <1>5. \A y \in T : x >= y
    <2>1. \A a, b \in 1 .. n : n - a <= n - b => a >= b
      OBVIOUS
    <2> QED BY <1>4, <2>1
  <1> QED BY <1>5 DEF Max

\* A turn of a loop over S, and what the loop has computed after each turn.
IsTurn(step, n, S) == step \in [(1 .. n) \X S -> S]

Turns(f, step, base, n, S) ==
  /\ f \in [0 .. n -> S]
  /\ f[0] = base /\ \A i \in 1 .. n : f[i] = step[<<i, f[i - 1]>>]

\* A function defined by recursion along an interval exists.
LEMMA Recursion ==
  ASSUME NEW n \in Nat, NEW S, NEW base \in S, NEW step, IsTurn(step, n, S)
  PROVE  \E f : Turns(f, step, base, n, S)
  <1>0. step \in [(1 .. n) \X S -> S]
    BY DEF IsTurn
  <1> DEFINE Good(m) == \E f \in [0 .. m -> S] :
                          f[0] = base /\ \A i \in 1 .. m : f[i] = step[<<i, f[i - 1]>>]
             T == {m \in 0 .. n : Good(m)}
  <1>1. 0 \in T
    <2> DEFINE f == [i \in 0 .. 0 |-> base]
    <2>1. f \in [0 .. 0 -> S] /\ f[0] = base
      OBVIOUS
    <2>2. \A i \in 1 .. 0 : f[i] = step[<<i, f[i - 1]>>]
      OBVIOUS
    <2> HIDE DEF f
    <2>3. Good(0) /\ 0 \in 0 .. n
      BY <2>1, <2>2
    <2> QED BY <2>3
  <1>2. ASSUME NEW m \in 1 .. n, m - 1 \in T
        PROVE  m \in T
    <2>1. PICK g \in [0 .. (m - 1) -> S] :
            g[0] = base /\ \A i \in 1 .. (m - 1) : g[i] = step[<<i, g[i - 1]>>]
      BY <1>2
    <2> DEFINE f == [i \in 0 .. m |-> IF i = m THEN step[<<m, g[m - 1]>>] ELSE g[i]]
    <2>2. m - 1 \in 0 .. (m - 1) /\ g[m - 1] \in S /\ step[<<m, g[m - 1]>>] \in S
      BY <1>0, <2>1
    <2>3. f \in [0 .. m -> S]
      BY <2>1, <2>2
    <2>4. f[0] = base
      BY <2>1
    <2>5. \A i \in 1 .. m : f[i] = step[<<i, f[i - 1]>>]
      <3> TAKE i \in 1 .. m
      <3>1. CASE i = m
        <4>1. i - 1 \in 0 .. m /\ i - 1 # m
          BY <3>1
        <4> QED BY <3>1, <4>1
      <3>2. CASE i # m
        <4>1. i \in 1 .. (m - 1) /\ i \in 0 .. m /\ i - 1 \in 0 .. m /\ i - 1 # m
          BY <3>2
        <4> QED BY <3>2, <4>1, <2>1
      <3> QED BY <3>1, <3>2
    <2> HIDE DEF f
    <2> QED BY <2>3, <2>4, <2>5
  <1>3. n \in T
    <2> HIDE DEF T
    <2>1. n \in 0 .. n /\ \A i \in 0 .. n : i \in T
      BY <1>1, <1>2, Induction
    <2> QED BY <2>1
  <1> QED BY <1>3 DEF Turns

\* The same for the function inside FoldLeft: what is computed for each set
\* of indexes, the greatest index last.
Folds(iter, step, base, n, S) ==
  /\ iter \in [SUBSET (1 .. n) -> S]
  /\ \A t \in SUBSET (1 .. n) :
       iter[t] = IF t = {} THEN base ELSE step[<<Max(t), iter[t \ {Max(t)}]>>]

\* It exists.
LEMMA FoldExists ==
  ASSUME NEW n \in Nat, NEW S, NEW base \in S, NEW step, IsTurn(step, n, S)
  PROVE  \E iter : Folds(iter, step, base, n, S)
  <1>0. step \in [(1 .. n) \X S -> S]
    BY DEF IsTurn
  <1> DEFINE P == SUBSET (1 .. n)
             S2 == [P -> S]
             turn(i, g) == [t \in P |-> IF i \in t THEN step[<<i, g[t]>>] ELSE g[t]]
             step2 == [p \in (1 .. n) \X S2 |-> turn(p[1], p[2])]
             base2 == [t \in P |-> base]
  <1>1. base2 \in S2
    OBVIOUS
  <1>2. step2 \in [(1 .. n) \X S2 -> S2] /\ \A i \in 1 .. n, g \in S2 : step2[<<i, g>>] = turn(i, g)
    <2>1. \A i \in 1 .. n, g \in S2 : turn(i, g) \in S2
      BY <1>0
    <2> HIDE DEF turn, S2
    <2> QED BY <2>1
  <1>3. PICK h \in [0 .. n -> S2] :
          h[0] = base2 /\ \A i \in 1 .. n : h[i] = step2[<<i, h[i - 1]>>]
    <2>1. IsTurn(step2, n, S2)
      BY <1>2 DEF IsTurn
    <2>2. \E f : Turns(f, step2, base2, n, S2)
      <3> HIDE DEF S2, step2, base2
      <3> QED BY <1>1, <2>1, Recursion
    <2> HIDE DEF S2, step2, base2
    <2> QED BY <2>2 DEF Turns
  <1>4. /\ \A t \in P : h[0][t] = base
        /\ \A i \in 1 .. n : \A t \in P :
             h[i][t] = IF i \in t THEN step[<<i, h[i - 1][t]>>] ELSE h[i - 1][t]
    <2>1. \A i \in 1 .. n : h[i - 1] \in S2
      BY <1>3
    <2>2. \A t \in P : h[0][t] = base
      BY <1>3
    <2>3. \A i \in 1 .. n : h[i] = turn(i, h[i - 1])
      <3> HIDE DEF S2, step2, turn
      <3> TAKE i \in 1 .. n
      <3>1. h[i] = step2[<<i, h[i - 1]>>]
        BY <1>3
      <3>2. step2[<<i, h[i - 1]>>] = turn(i, h[i - 1])
        BY <1>2, <2>1
      <3> QED BY <3>1, <3>2
    <2>4. \A i \in 1 .. n : \A t \in P :
            turn(i, h[i - 1])[t] = IF i \in t THEN step[<<i, h[i - 1][t]>>] ELSE h[i - 1][t]
      OBVIOUS
    <2> HIDE DEF turn, P
    <2> QED BY <2>2, <2>3, <2>4
  <1> HIDE DEF step2, base2
  <1>5. \A i \in 0 .. n : \A t, u \in P : t \cap (1 .. i) = u \cap (1 .. i) => h[i][t] = h[i][u]
    <2> DEFINE T == {i \in 0 .. n : \A t, u \in P : t \cap (1 .. i) = u \cap (1 .. i) => h[i][t] = h[i][u]}
    <2>1. 0 \in T
      BY <1>4
    <2>2. ASSUME NEW i \in 1 .. n, i - 1 \in T PROVE i \in T
      <3> SUFFICES ASSUME NEW t \in P, NEW u \in P, t \cap (1 .. i) = u \cap (1 .. i)
                   PROVE  h[i][t] = h[i][u]
        <4>1. i \in 0 .. n
          OBVIOUS
        <4> QED BY <4>1
      <3>1. t \cap (1 .. (i - 1)) = u \cap (1 .. (i - 1)) /\ (i \in t <=> i \in u)
        <4>1. \A x \in 1 .. (i - 1) : x \in 1 .. i
          OBVIOUS
        <4>2. i \in 1 .. i
          OBVIOUS
        <4> QED BY <4>1, <4>2
      <3>2. h[i - 1][t] = h[i - 1][u]
        BY <2>2, <3>1
      <3>3. \A v \in P : h[i][v] = IF i \in v THEN step[<<i, h[i - 1][v]>>] ELSE h[i - 1][v]
        BY <1>4
      <3>4. h[i][t] = h[i][u]
        <4> HIDE DEF P
        <4> QED BY <3>1, <3>2, <3>3
      <3> QED BY <3>4
    <2>3. \A i \in 0 .. n : i \in T
      BY <2>1, <2>2, Induction
    <2> QED BY <2>3 DEF T
  <1>6. \A m \in 0 .. n : \A t \in P : t \subseteq 1 .. m => h[n][t] = h[m][t]
    <2> TAKE m \in 0 .. n
    <2> TAKE t \in P
    <2> HAVE t \subseteq 1 .. m
    <2> DEFINE T == {i \in 0 .. n : m <= i => h[i][t] = h[m][t]}
    <2>1. 0 \in T
      OBVIOUS
    <2>2. ASSUME NEW i \in 1 .. n, i - 1 \in T PROVE i \in T
      <3>1. CASE i <= m
        BY <3>1
      <3>2. CASE m < i
        <4>1. m <= i - 1 /\ i \notin t
          BY <3>2
        <4>2. h[i - 1][t] = h[m][t]
          BY <2>2, <4>1
        <4>3. h[i][t] = h[i - 1][t]
          BY <4>1, <1>4
        <4> QED BY <4>2, <4>3
      <3> QED BY <3>1, <3>2
    <2> HIDE DEF T
    <2>3. \A i \in 0 .. n : i \in T
      BY <2>1, <2>2, Induction
    <2>4. n \in 0 .. n /\ m <= n
      OBVIOUS
    <2> QED BY <2>3, <2>4 DEF T
  <1>7. ASSUME NEW t \in P
        PROVE  h[n][t] = IF t = {} THEN base ELSE step[<<Max(t), h[n][t \ {Max(t)}]>>]
    <2>1. CASE t = {}
      <3>1. 0 \in 0 .. n /\ t \subseteq 1 .. 0
        BY <2>1
      <3> QED BY <2>1, <3>1, <1>4, <1>6
    <2>2. CASE t # {}
      <3> DEFINE m == Max(t)
                 u == t \ {m}
      <3>1. m \in t /\ \A y \in t : y <= m
        BY <2>2, MaxOf
      <3> HIDE DEF m
      <3>2. m \in 1 .. n /\ m - 1 \in 0 .. n /\ m \in 0 .. n /\ u \in P
        BY <3>1
      <3>3. t \subseteq 1 .. m
        BY <3>1
      <3>4. u \subseteq 1 .. (m - 1)
        BY <3>1
      <3>5. t \cap (1 .. (m - 1)) = u \cap (1 .. (m - 1))
        <4>1. m \notin 1 .. (m - 1)
          BY <3>2
        <4> QED BY <4>1
      <3>6. h[n][t] = h[m][t] /\ h[n][u] = h[m - 1][u]
        BY <1>6, <3>2, <3>3, <3>4
      <3>7. h[m - 1][t] = h[m - 1][u]
        BY <1>5, <3>2, <3>5
      <3>8. h[m][t] = step[<<m, h[m - 1][t]>>]
        BY <1>4, <3>1, <3>2
      <3> QED BY <2>2, <3>6, <3>7, <3>8 DEF m
    <2> QED BY <2>1, <2>2
  <1>8. h[n] \in [P -> S]
    <2>1. n \in 0 .. n
      OBVIOUS
    <2> QED BY <1>3, <2>1
  <1> QED BY <1>7, <1>8 DEF Folds

\* The indexes of the first i turns are those of the first i - 1, and i.
LEMMA UpTo ==
  ASSUME NEW n \in Nat, NEW i \in 1 .. n
  PROVE  /\ 1 .. i # {} /\ (1 .. i) \in SUBSET (1 .. n) /\ Max(1 .. i) = i
         /\ (1 .. i) \ {i} = 1 .. (i - 1)
         /\ i \in 0 .. n /\ i - 1 \in 0 .. n /\ (1 .. (i - 1)) \in SUBSET (1 .. n)
  <1> DEFINE m == Max(1 .. i)
  <1>1. 1 .. i # {} /\ (1 .. i) \in SUBSET (1 .. n) /\ i \in 1 .. i
    OBVIOUS
  <1>2. m \in 1 .. i /\ \A y \in 1 .. i : y <= m
    BY <1>1, MaxOf
  <1> HIDE DEF m
  <1>3. m = i
    BY <1>1, <1>2
  <1>4. (1 .. i) \ {i} = 1 .. (i - 1)
    OBVIOUS
  <1>5. i \in 0 .. n /\ i - 1 \in 0 .. n /\ (1 .. (i - 1)) \in SUBSET (1 .. n)
    OBVIOUS
  <1> QED BY <1>1, <1>3, <1>4, <1>5 DEF m

-----------------------------------------------------------------------------
(* Lists in which nothing stands twice *)

Distinct(s) == \A i, j \in DOMAIN s : s[i] = s[j] => i = j

\* There are as many elements in such a list as it is long.
LEMMA DistinctCount ==
  ASSUME NEW S, NEW s \in Seq(S), Distinct(s)
  PROVE  IsFiniteSet(ToSet(s)) /\ Cardinality(ToSet(s)) = Len(s)
  <1>1. DOMAIN s = 1 .. Len(s) /\ Len(s) \in Nat
    OBVIOUS
  <1>2. s \in Bijection(1 .. Len(s), ToSet(s))
    <2>1. s \in [1 .. Len(s) -> ToSet(s)] /\ \A x \in ToSet(s) : \E i \in 1 .. Len(s) : s[i] = x
      BY <1>1 DEF ToSet
    <2>2. \A i, j \in 1 .. Len(s) : s[i] = s[j] => i = j
      BY <1>1 DEF Distinct
    <2>3. s \in Injection(1 .. Len(s), ToSet(s))
      BY <2>1, <2>2 DEF Injection, IsInjective
    <2>4. s \in Surjection(1 .. Len(s), ToSet(s))
      BY <2>1 DEF Surjection
    <2> QED BY <2>3, <2>4 DEF Bijection
  <1>3. IsFiniteSet(1 .. Len(s)) /\ Cardinality(1 .. Len(s)) = Len(s)
    BY <1>1, FS_Interval
  <1>4. ExistsBijection(1 .. Len(s), ToSet(s))
    BY <1>2 DEF ExistsBijection
  <1> QED BY <1>3, <1>4, FS_Bijection

\* What a \o b is, index by index.
LEMMA Joined ==
  ASSUME NEW S, NEW a \in Seq(S), NEW b \in Seq(S)
  PROVE  LET t == a \o b IN
         /\ t \in Seq(S) /\ Len(t) = Len(a) + Len(b)
         /\ \A k \in DOMAIN a : k \in DOMAIN t /\ t[k] = a[k]
         /\ \A k \in DOMAIN b : Len(a) + k \in DOMAIN t /\ t[Len(a) + k] = b[k]
         /\ \A k \in DOMAIN t : \/ k \in DOMAIN a
                                \/ k - Len(a) \in DOMAIN b /\ k = Len(a) + (k - Len(a))
  OBVIOUS

\* Two such lists with nothing in common, one behind the other.
LEMMA JoinDistinct ==
  ASSUME NEW S, NEW a \in Seq(S), NEW b \in Seq(S), Distinct(a), Distinct(b),
         ToSet(a) \cap ToSet(b) = {}
  PROVE  /\ a \o b \in Seq(S) /\ Distinct(a \o b) /\ ToSet(a \o b) = ToSet(a) \cup ToSet(b)
         /\ Len(a \o b) = Len(a) + Len(b)
  <1> DEFINE t == a \o b
             n == Len(a)
  <1>1. /\ t \in Seq(S) /\ Len(t) = n + Len(b) /\ n \in Nat
        /\ \A k \in DOMAIN a : k \in DOMAIN t /\ t[k] = a[k]
        /\ \A k \in DOMAIN b : n + k \in DOMAIN t /\ t[n + k] = b[k]
        /\ \A k \in DOMAIN t : \/ k \in DOMAIN a
                               \/ k - n \in DOMAIN b /\ k = n + (k - n)
    BY Joined
  <1>2. \A k \in DOMAIN t : /\ k \in Int
                            /\ \/ k \in DOMAIN a /\ t[k] = a[k]
                               \/ k - n \in DOMAIN b /\ t[k] = b[k - n]
    <2>1. \A k \in DOMAIN t : k \in Int
      BY <1>1
    <2> HIDE DEF t, n
    <2> QED BY <1>1, <2>1
  <1> HIDE DEF t, n
  <1>3. ToSet(t) = ToSet(a) \cup ToSet(b)
    BY <1>1, <1>2 DEF ToSet
  <1>4. Distinct(t)
    <2> SUFFICES ASSUME NEW i \in DOMAIN t, NEW j \in DOMAIN t, t[i] = t[j] PROVE i = j
      BY DEF Distinct
    <2>1. CASE i \in DOMAIN a /\ t[i] = a[i] /\ j \in DOMAIN a /\ t[j] = a[j]
      BY <2>1 DEF Distinct
    <2>2. CASE i - n \in DOMAIN b /\ t[i] = b[i - n] /\ j - n \in DOMAIN b /\ t[j] = b[j - n]
      <3>1. i - n = j - n
        BY <2>2 DEF Distinct
      <3> QED BY <3>1, <1>2, <1>1
    <2>3. \A k \in DOMAIN a, l \in DOMAIN b : a[k] # b[l]
      BY DEF ToSet
    <2> QED BY <1>2, <2>1, <2>2, <2>3
  <1> QED BY <1>1, <1>3, <1>4 DEF t, n

\* Such a list backwards.
LEMMA ReverseDistinct ==
  ASSUME NEW S, NEW s \in Seq(S), Distinct(s)
  PROVE  /\ Reverse(s) \in Seq(S) /\ Distinct(Reverse(s)) /\ ToSet(Reverse(s)) = ToSet(s)
         /\ Len(Reverse(s)) = Len(s)
  <1> DEFINE t == Reverse(s)
             n == Len(s)
  <1>1. n \in Nat /\ DOMAIN s = 1 .. n /\ t = [i \in 1 .. n |-> s[(n - i) + 1]]
    BY DEF Reverse
  <1>2. \A i \in 1 .. n : (n - i) + 1 \in 1 .. n /\ (n - ((n - i) + 1)) + 1 = i
    <2> HIDE DEF n
    <2> QED BY <1>1
  <1>3. t \in Seq(S) /\ Len(t) = n /\ DOMAIN t = 1 .. n /\ \A i \in 1 .. n : t[i] = s[(n - i) + 1]
    <2>1. \A i \in 1 .. n : s[(n - i) + 1] \in S
      BY <1>1, <1>2
    <2>2. t \in [1 .. n -> S]
      BY <1>1, <2>1
    <2> HIDE DEF t, n
    <2> QED BY <1>1, <2>2
  <1> HIDE DEF t, n
  <1>4. ToSet(t) = ToSet(s)
    <2>1. \A i \in 1 .. n : s[i] = t[(n - i) + 1]
      BY <1>2, <1>3
    <2>2. ToSet(s) = {s[i] : i \in 1 .. n} /\ ToSet(t) = {t[i] : i \in 1 .. n}
      BY <1>1, <1>3 DEF ToSet
    <2>3. \A x \in ToSet(t) : x \in ToSet(s)
      BY <1>2, <1>3, <2>2
    <2>4. \A x \in ToSet(s) : x \in ToSet(t)
      BY <1>2, <2>1, <2>2
    <2> QED BY <2>3, <2>4
  <1>5. Distinct(t)
    <2> SUFFICES ASSUME NEW i \in 1 .. n, NEW j \in 1 .. n, t[i] = t[j] PROVE i = j
      BY <1>3 DEF Distinct
    <2>1. (n - i) + 1 = (n - j) + 1
      BY <1>1, <1>2, <1>3 DEF Distinct
    <2> QED BY <1>2, <2>1
  <1> QED BY <1>3, <1>4, <1>5 DEF t, n

\* What is left of such a list behind its first n elements.
FirstOf(s, n) == {s[k] : k \in 1 .. n}

LEMMA RestDistinct ==
  ASSUME NEW S, NEW s \in Seq(S), Distinct(s), NEW n \in Nat, n <= Len(s)
  PROVE  LET t == SubSeq(s, n + 1, Len(s))
             u == FirstOf(s, n)
         IN  /\ t \in Seq(S) /\ Distinct(t) /\ Len(t) = Len(s) - n
             /\ u \subseteq S /\ IsFiniteSet(u) /\ Cardinality(u) = n
             /\ ToSet(s) = ToSet(t) \cup u /\ ToSet(t) \cap u = {}
  <1> DEFINE m == Len(s)
             t == SubSeq(s, n + 1, m)
             u == {s[k] : k \in 1 .. n}
             v == SubSeq(s, 1, n)
  <1>1. m \in Nat /\ DOMAIN s = 1 .. m /\ \A k \in 1 .. m : s[k] \in S
    OBVIOUS
  <1>2. /\ t \in Seq(S) /\ Len(t) = m - n /\ DOMAIN t = 1 .. m - n
        /\ \A k \in 1 .. m - n : t[k] = s[n + k]
    OBVIOUS
  <1>3. v \in Seq(S) /\ Len(v) = n /\ DOMAIN v = 1 .. n /\ \A k \in 1 .. n : v[k] = s[k]
    OBVIOUS
  <1> HIDE DEF m, t, v
  <1>4. \A k \in 1 .. m : k \in 1 .. n \/ (k - n \in 1 .. m - n /\ n + (k - n) = k)
    BY <1>1
  <1>5. \A k \in 1 .. m - n : n + k \in 1 .. m /\ n + k \notin 1 .. n
    BY <1>1
  <1>6. \A k \in 1 .. n : k \in 1 .. m
    BY <1>1 DEF m
  <1>7. Distinct(t)
    <2> SUFFICES ASSUME NEW i \in 1 .. m - n, NEW j \in 1 .. m - n, t[i] = t[j] PROVE i = j
      BY <1>2 DEF Distinct
    <2>1. n + i = n + j
      BY <1>1, <1>2, <1>5 DEF Distinct
    <2> QED BY <2>1
  <1>8. Distinct(v) /\ ToSet(v) = u
    <2>1. Distinct(v)
      BY <1>1, <1>3, <1>6 DEF Distinct
    <2>2. ToSet(v) = u
      BY <1>3 DEF ToSet
    <2> QED BY <2>1, <2>2
  <1>9. IsFiniteSet(u) /\ Cardinality(u) = n
    <2> HIDE DEF u
    <2> QED BY <1>3, <1>8, DistinctCount
  <1>10. ToSet(s) = ToSet(t) \cup u
    <2>1. \A x : x \in ToSet(s) <=> \E k \in 1 .. m : x = s[k]
      BY <1>1 DEF ToSet
    <2>2. \A x : x \in ToSet(t) <=> \E k \in 1 .. m - n : x = s[n + k]
      BY <1>2 DEF ToSet
    <2>3. \A x : x \in u <=> \E k \in 1 .. n : x = s[k]
      OBVIOUS
    <2> HIDE DEF u
    <2> QED BY <2>1, <2>2, <2>3, <1>4, <1>5, <1>6
  <1>11. ToSet(t) \cap u = {}
    <2>1. \A k \in 1 .. m - n, l \in 1 .. n : t[k] # s[l]
      BY <1>1, <1>2, <1>5, <1>6 DEF Distinct
    <2> QED BY <2>1, <1>2 DEF ToSet
  <1>12. u \subseteq S
    BY <1>1, <1>6
  <1> QED BY <1>2, <1>7, <1>9, <1>10, <1>11, <1>12 DEF t, m, FirstOf

\* Such a list with one element more, in front or at the end.
LEMMA PrependDistinct ==
  ASSUME NEW S, NEW s \in Seq(S), Distinct(s), NEW x \in S, x \notin ToSet(s)
  PROVE  /\ <<x>> \o s \in Seq(S) /\ Distinct(<<x>> \o s) /\ ToSet(<<x>> \o s) = ToSet(s) \cup {x}
         /\ Len(<<x>> \o s) = Len(s) + 1
  <1> DEFINE one == <<x>>
  <1>1. one \in Seq(S) /\ Len(one) = 1 /\ Len(s) \in Nat
    OBVIOUS
  <1>2. Distinct(one) /\ ToSet(one) = {x}
    BY DEF Distinct, ToSet
  <1> HIDE DEF one
  <1>3. /\ one \o s \in Seq(S) /\ Distinct(one \o s) /\ ToSet(one \o s) = ToSet(one) \cup ToSet(s)
        /\ Len(one \o s) = Len(one) + Len(s)
    <2>1. ToSet(one) \cap ToSet(s) = {}
      BY <1>2
    <2> QED BY <1>1, <1>2, <2>1, JoinDistinct
  <1>4. Len(one \o s) = Len(s) + 1
    BY <1>1, <1>3
  <1> QED BY <1>2, <1>3, <1>4 DEF one

LEMMA AppendDistinct ==
  ASSUME NEW S, NEW s \in Seq(S), Distinct(s), NEW x \in S, x \notin ToSet(s)
  PROVE  /\ Append(s, x) \in Seq(S) /\ Distinct(Append(s, x))
         /\ ToSet(Append(s, x)) = ToSet(s) \cup {x} /\ Len(Append(s, x)) = Len(s) + 1
  <1> DEFINE one == <<x>>
  <1>1. one \in Seq(S) /\ Len(one) = 1 /\ Len(s) \in Nat
    OBVIOUS
  <1>2. Distinct(one) /\ ToSet(one) = {x}
    BY DEF Distinct, ToSet
  <1>3. Append(s, x) = s \o one
    OBVIOUS
  <1> HIDE DEF one
  <1>4. /\ s \o one \in Seq(S) /\ Distinct(s \o one) /\ ToSet(s \o one) = ToSet(s) \cup ToSet(one)
        /\ Len(s \o one) = Len(s) + Len(one)
    <2>1. ToSet(s) \cap ToSet(one) = {}
      BY <1>2
    <2>2. one \in Seq(S) /\ Distinct(one)
      BY <1>1, <1>2
    <2> QED BY <2>1, <2>2, JoinDistinct
  <1>5. Len(s \o one) = Len(s) + 1
    BY <1>1, <1>4
  <1> QED BY <1>2, <1>3, <1>4, <1>5
=============================================================================
