----------------------------- MODULE Hub_proofs -----------------------------
(***************************************************************************)
(* Proofs about Hub: the two lists, the counts and the memory stay sound   *)
(* for any number of hubs, blocks and slots in a block, elements stay      *)
(* where they are, and capacities are as documented.  In order: lists,     *)
(* loops turn by turn, memory, the lists of one hub, the member functions, *)
(* all hubs, capacities, and the theorems.                                 *)
(***************************************************************************)
EXTENDS Hub, ListFacts

-----------------------------------------------------------------------------
(* Lists: what stands before what *)

Prec(l, x, y) == \E i, j \in DOMAIN l : i < j /\ l[i] = x /\ l[j] = y

\* t has the elements of l that are in T, in the order of l.
Filtered(t, l, T, S) ==
  /\ t \in Seq(S) /\ Len(t) <= Len(l) /\ ToSet(t) = ToSet(l) \cap T
  /\ Distinct(l) => Distinct(t)
  /\ \A x, y : Prec(t, x, y) => Prec(l, x, y)

\* So far, of the first i elements.
FilteredUpTo(t, l, T, S, i) ==
  /\ t \in Seq(S) /\ Len(t) <= i
  /\ \A a \in DOMAIN t : t[a] \in T /\ \E p \in 1 .. i : l[p] = t[a]
  /\ \A p \in 1 .. i : l[p] \in T => \E a \in DOMAIN t : t[a] = l[p]
  /\ Distinct(l) => Distinct(t)
  /\ \A a, b \in DOMAIN t : a < b => \E p, q \in 1 .. i : p < q /\ l[p] = t[a] /\ l[q] = t[b]

LEMMA FilterTurn ==
  ASSUME NEW S, NEW l \in Seq(S), NEW T, NEW i \in 1 .. Len(l), NEW t, FilteredUpTo(t, l, T, S, i - 1)
  PROVE  FilteredUpTo(IF l[i] \in T THEN Append(t, l[i]) ELSE t, l, T, S, i)
  <1>1. /\ t \in Seq(S) /\ Len(t) \in Nat /\ DOMAIN t = 1 .. Len(t) /\ i \in Nat /\ l[i] \in S
        /\ Len(t) <= i - 1 /\ DOMAIN l = 1 .. Len(l) /\ Len(l) \in Nat
    BY DEF FilteredUpTo
  <1>2. \A p \in 1 .. i - 1 : p \in 1 .. i /\ p < i /\ p \in DOMAIN l
    OBVIOUS
  <1>3. \A p \in 1 .. i : p = i \/ p \in 1 .. i - 1
    OBVIOUS
  <1>4. i \in 1 .. i /\ i \in DOMAIN l
    OBVIOUS
  <1>5. CASE l[i] \notin T
    <2>1. \A a \in DOMAIN t : t[a] \in T /\ \E p \in 1 .. i : l[p] = t[a]
      BY <1>2 DEF FilteredUpTo
    <2>2. \A p \in 1 .. i : l[p] \in T => \E a \in DOMAIN t : t[a] = l[p]
      BY <1>3, <1>5 DEF FilteredUpTo
    <2>3. \A a, b \in DOMAIN t : a < b => \E p, q \in 1 .. i : p < q /\ l[p] = t[a] /\ l[q] = t[b]
      <3> SUFFICES ASSUME NEW a \in DOMAIN t, NEW b \in DOMAIN t, a < b
                   PROVE  \E p, q \in 1 .. i : p < q /\ l[p] = t[a] /\ l[q] = t[b]
        OBVIOUS
      <3>1. PICK p \in 1 .. i - 1, q \in 1 .. i - 1 : p < q /\ l[p] = t[a] /\ l[q] = t[b]
        BY DEF FilteredUpTo
      <3> QED BY <1>2, <3>1
    <2>4. t \in Seq(S) /\ Len(t) <= i /\ (Distinct(l) => Distinct(t))
      BY <1>1 DEF FilteredUpTo
    <2> HIDE <1>1
    <2> QED BY <1>5, <2>1, <2>2, <2>3, <2>4 DEF FilteredUpTo
  <1>6. CASE l[i] \in T
    <2> DEFINE n == Len(t)
               u == Append(t, l[i])
    <2>1. /\ u \in Seq(S) /\ Len(u) = n + 1 /\ DOMAIN u = 1 .. n + 1 /\ u[n + 1] = l[i]
          /\ \A a \in 1 .. n : u[a] = t[a] /\ a \in DOMAIN t /\ a \in DOMAIN u
      BY <1>1
    <2>2. \A a \in 1 .. n + 1 : a = n + 1 \/ a \in 1 .. n
      BY <1>1
    <2>3. n + 1 \in 1 .. n + 1
      BY <1>1
    <2> HIDE DEF u
    <2>4. \A a \in DOMAIN u : u[a] \in T /\ \E p \in 1 .. i : l[p] = u[a]
      <3> SUFFICES ASSUME NEW a \in 1 .. n + 1 PROVE u[a] \in T /\ \E p \in 1 .. i : l[p] = u[a]
        BY <2>1
      <3>1. CASE a = n + 1
        BY <1>4, <1>6, <2>1, <3>1
      <3>2. CASE a \in 1 .. n
        <4>1. t[a] \in T /\ \E p \in 1 .. i - 1 : l[p] = t[a]
          BY <1>1, <3>2 DEF FilteredUpTo
        <4> QED BY <1>2, <2>1, <3>2, <4>1
      <3> QED BY <2>2, <3>1, <3>2
    <2>5. \A p \in 1 .. i : l[p] \in T => \E a \in DOMAIN u : u[a] = l[p]
      <3> TAKE p \in 1 .. i
      <3>1. CASE p = i
        BY <2>1, <2>3, <3>1
      <3>2. CASE p # i
        <4>1. p \in 1 .. i - 1
          BY <1>3, <3>2
        <4>2. l[p] \in T => \E a \in 1 .. n : t[a] = l[p]
          BY <1>1, <4>1 DEF FilteredUpTo
        <4> QED BY <2>1, <4>2
      <3> QED BY <3>1, <3>2
    <2>6. Distinct(l) => Distinct(u)
      <3> SUFFICES ASSUME Distinct(l), NEW a \in 1 .. n + 1, NEW b \in 1 .. n + 1, u[a] = u[b] PROVE a = b
        BY <2>1 DEF Distinct
      <3>1. \A c \in 1 .. n : u[c] # l[i]
        <4> TAKE c \in 1 .. n
        <4>1. PICK p \in 1 .. i - 1 : l[p] = t[c]
          BY <1>1 DEF FilteredUpTo
        <4> QED BY <1>2, <1>4, <2>1, <4>1 DEF Distinct
      <3>2. \A c, d \in 1 .. n : u[c] = u[d] => c = d
        BY <1>1, <2>1 DEF FilteredUpTo, Distinct
      <3> QED BY <2>1, <2>2, <3>1, <3>2
    <2>7. ASSUME NEW a \in DOMAIN u, NEW b \in DOMAIN u, a < b
          PROVE  \E p, q \in 1 .. i : p < q /\ l[p] = u[a] /\ l[q] = u[b]
      <3>1. a \in 1 .. n
        BY <1>1, <2>1, <2>7
      <3>2. CASE b \in 1 .. n
        <4>1. PICK p \in 1 .. i - 1, q \in 1 .. i - 1 : p < q /\ l[p] = t[a] /\ l[q] = t[b]
          <5>1. a \in DOMAIN t /\ b \in DOMAIN t
            BY <1>1, <3>1, <3>2
          <5> QED BY <2>7, <5>1 DEF FilteredUpTo
        <4> QED BY <1>2, <2>1, <3>1, <3>2, <4>1
      <3>3. CASE b = n + 1
        <4>1. PICK p \in 1 .. i - 1 : l[p] = t[a]
          BY <1>1, <3>1 DEF FilteredUpTo
        <4> QED BY <1>2, <1>4, <2>1, <3>1, <3>3, <4>1
      <3> QED BY <2>1, <2>2, <3>2, <3>3
    <2>8. Len(u) <= i
      BY <1>1, <2>1
    <2>9. FilteredUpTo(u, l, T, S, i)
      <3> HIDE DEF n
      <3> QED BY <2>1, <2>4, <2>5, <2>6, <2>7, <2>8 DEF FilteredUpTo
    <2> QED BY <1>6, <2>9 DEF u
  <1> QED BY <1>5, <1>6

LEMMA KeptOf ==
  ASSUME NEW S, NEW l \in Seq(S), NEW T
  PROVE  Filtered(Kept(l, T), l, T, S)
  <1> DEFINE n == Len(l)
             L == Seq(S)
             turn(x, i) == IF l[i] \in T THEN Append(x, l[i]) ELSE x
             step == [a \in (1 .. n) \X L |-> turn(a[2], a[1])]
             body(g) == [i \in 0 .. n |-> IF i = 0 THEN <<>>
                                          ELSE IF l[i] \in T THEN Append(g[i - 1], l[i]) ELSE g[i - 1]]
             k == CHOOSE g : g = body(g)
  <1>1. n \in Nat /\ DOMAIN l = 1 .. n /\ \A i \in 1 .. n : l[i] \in S
    OBVIOUS
  <1>2. IsTurn(step, n, L)
    <2>1. \A i \in 1 .. n, x \in L : turn(x, i) \in L
      BY <1>1
    <2> HIDE DEF turn, n, L
    <2> QED BY <2>1 DEF IsTurn
  <1>3. PICK f : Turns(f, step, <<>>, n, L)
    <2>1. <<>> \in L
      OBVIOUS
    <2> HIDE DEF step, n, L
    <2> QED BY <1>1, <1>2, <2>1, Recursion
  <1>4. f[0] = <<>> /\ \A i \in 1 .. n : i - 1 \in 0 .. n /\ f[i - 1] \in L /\ f[i] = turn(f[i - 1], i)
    <2>1. f[0] = <<>> /\ f \in [0 .. n -> L] /\ \A i \in 1 .. n : f[i] = step[<<i, f[i - 1]>>]
      BY <1>3 DEF Turns
    <2>2. \A i \in 1 .. n : i - 1 \in 0 .. n
      BY <1>1
    <2>3. \A i \in 1 .. n, x \in L : step[<<i, x>>] = turn(x, i)
      <3> HIDE DEF turn, n, L
      <3> QED OBVIOUS
    <2> HIDE DEF turn, step, n, L
    <2> QED BY <2>1, <2>2, <2>3
  <1>5. k = body(k)
    <2>1. f = body(f)
      <3>1. f = [i \in 0 .. n |-> f[i]]
        BY <1>3 DEF Turns
      <3>2. \A i \in 0 .. n : i = 0 \/ i \in 1 .. n
        BY <1>1
      <3> QED BY <1>4, <3>1, <3>2
    <2> HIDE DEF body
    <2> QED BY <2>1
  <1> HIDE DEF k
  <1>6. k[0] = <<>> /\ \A i \in 1 .. n : k[i] = turn(k[i - 1], i)
    <2>1. \A i \in 1 .. n : i \in 0 .. n /\ i # 0
      BY <1>1
    <2>2. \A i \in 0 .. n : k[i] = body(k)[i]
      <3> HIDE DEF body
      <3> QED BY <1>5
    <2>3. 0 \in 0 .. n
      BY <1>1
    <2> HIDE DEF n
    <2> QED BY <2>1, <2>2, <2>3
  <1> DEFINE G == {i \in 0 .. n : FilteredUpTo(k[i], l, T, S, i)}
  <1>7. 0 \in G
    <2>1. FilteredUpTo(<<>>, l, T, S, 0)
      BY DEF FilteredUpTo, Distinct
    <2> QED BY <1>1, <1>6, <2>1
  <1>8. \A i \in 1 .. n : i - 1 \in G => i \in G
    <2> SUFFICES ASSUME NEW i \in 1 .. n, FilteredUpTo(k[i - 1], l, T, S, i - 1)
                 PROVE  FilteredUpTo(k[i], l, T, S, i)
      OBVIOUS
    <2>1. k[i] = turn(k[i - 1], i)
      BY <1>6
    <2> QED BY <2>1, FilterTurn
  <1>9. FilteredUpTo(k[n], l, T, S, n)
    <2>1. \A i \in 0 .. n : i \in G
      <3> HIDE DEF G, n
      <3> QED BY <1>1, <1>7, <1>8, Induction
    <2> QED BY <1>1, <2>1
  <1>10. Filtered(k[n], l, T, S)
    <2> DEFINE t == k[n]
    <2>1. FilteredUpTo(t, l, T, S, n) /\ DOMAIN l = 1 .. n
      BY <1>1, <1>9
    <2> HIDE DEF t, n
    <2>2. ToSet(t) = ToSet(l) \cap T
      <3>1. \A a \in DOMAIN t : t[a] \in T /\ t[a] \in ToSet(l)
        BY <2>1 DEF FilteredUpTo, ToSet
      <3>2. \A p \in DOMAIN l : l[p] \in T => l[p] \in ToSet(t)
        BY <2>1 DEF FilteredUpTo, ToSet
      <3> QED BY <3>1, <3>2 DEF ToSet
    <2>3. ASSUME NEW x, NEW y, Prec(t, x, y) PROVE Prec(l, x, y)
      <3>1. PICK a \in DOMAIN t, b \in DOMAIN t : a < b /\ t[a] = x /\ t[b] = y
        BY <2>3 DEF Prec
      <3>2. PICK p \in 1 .. n, q \in 1 .. n : p < q /\ l[p] = t[a] /\ l[q] = t[b]
        BY <2>1, <3>1 DEF FilteredUpTo
      <3> QED BY <2>1, <3>1, <3>2 DEF Prec
    <2> QED BY <2>1, <2>2, <2>3 DEF FilteredUpTo, Filtered, n, t
  <1>11. Kept(l, T) = k[n]
    BY DEF Kept, k
  <1> QED BY <1>10, <1>11

LEMMA WithoutOf ==
  ASSUME NEW S, NEW l \in Seq(S), NEW b, Distinct(l)
  PROVE  LET t == Without(l, b) IN
         /\ t \in Seq(S) /\ Distinct(t) /\ ToSet(t) = ToSet(l) \ {b}
         /\ \A x, y : Prec(t, x, y) => Prec(l, x, y)
  <1>1. Filtered(Without(l, b), l, ToSet(l) \ {b}, S)
    BY KeptOf DEF Without
  <1> QED BY <1>1 DEF Filtered

LEMMA JoinPrec ==
  ASSUME NEW S, NEW a \in Seq(S), NEW l \in Seq(S), NEW x, NEW y, Prec(a \o l, x, y)
  PROVE  Prec(a, x, y) \/ Prec(l, x, y) \/ (x \in ToSet(a) /\ y \in ToSet(l))
  <1> DEFINE t == a \o l
             n == Len(a)
  <1>1. /\ n \in Nat /\ \A k \in DOMAIN a : t[k] = a[k] /\ k <= n /\ k \in Nat
        /\ \A k \in DOMAIN l : t[n + k] = l[k] /\ k \in Nat /\ k >= 1
        /\ \A k \in DOMAIN t : k \in DOMAIN a \/ (k - n \in DOMAIN l /\ k = n + (k - n) /\ k \in Nat)
    BY Joined
  <1>2. PICK i \in DOMAIN t, j \in DOMAIN t : i < j /\ t[i] = x /\ t[j] = y
    BY DEF Prec
  <1> HIDE DEF t, n
  <1>3. CASE j \in DOMAIN a
    <2>1. i \in DOMAIN a
      BY <1>1, <1>2, <1>3
    <2> QED BY <1>1, <1>2, <1>3, <2>1 DEF Prec
  <1>4. CASE i \notin DOMAIN a
    <2>1. i - n \in DOMAIN l /\ j - n \in DOMAIN l /\ i - n < j - n
      BY <1>1, <1>2, <1>4
    <2>2. t[n + (i - n)] = l[i - n] /\ t[n + (j - n)] = l[j - n]
      BY <1>1, <2>1
    <2>3. i = n + (i - n) /\ j = n + (j - n)
      BY <1>1, <1>2, <1>4
    <2>4. l[i - n] = x /\ l[j - n] = y
      BY <1>2, <2>2, <2>3
    <2> QED BY <2>1, <2>4 DEF Prec
  <1>5. CASE i \in DOMAIN a /\ j \notin DOMAIN a
    <2>1. x \in ToSet(a)
      BY <1>1, <1>2, <1>5 DEF ToSet
    <2>2. y \in ToSet(l)
      <3>1. j - n \in DOMAIN l /\ l[j - n] = y
        BY <1>1, <1>2, <1>5
      <3> QED BY <3>1 DEF ToSet
    <2> QED BY <2>1, <2>2
  <1> QED BY <1>3, <1>4, <1>5

LEMMA OnePrec ==
  ASSUME NEW b, NEW x, NEW y
  PROVE  ~Prec(<<b>>, x, y) /\ ToSet(<<b>>) = {b}
  BY DEF Prec, ToSet

LEMMA PrependPrec ==
  ASSUME NEW S, NEW b \in S, NEW l \in Seq(S), NEW x, NEW y, Prec(<<b>> \o l, x, y)
  PROVE  Prec(l, x, y) \/ (x = b /\ y \in ToSet(l))
  <1>1. <<b>> \in Seq(S)
    OBVIOUS
  <1> DEFINE one == <<b>>
  <1>2. Prec(one, x, y) \/ Prec(l, x, y) \/ (x \in ToSet(one) /\ y \in ToSet(l))
    <2>1. one \in Seq(S) /\ Prec(one \o l, x, y)
      BY <1>1
    <2> HIDE DEF one
    <2> QED BY <2>1, JoinPrec
  <1> QED BY <1>2, OnePrec

LEMMA AppendPrec ==
  ASSUME NEW S, NEW b \in S, NEW l \in Seq(S), NEW x, NEW y, Prec(Append(l, b), x, y)
  PROVE  Prec(l, x, y) \/ (y = b /\ x \in ToSet(l))
  <1> DEFINE one == <<b>>
  <1>1. one \in Seq(S) /\ Append(l, b) = l \o one
    OBVIOUS
  <1>2. Prec(l, x, y) \/ Prec(one, x, y) \/ (x \in ToSet(l) /\ y \in ToSet(one))
    <2> HIDE DEF one
    <2> QED BY <1>1, JoinPrec
  <1> QED BY <1>2, OnePrec

\* A part of a list.
Part(t, l, m, n, S) ==
  /\ t \in Seq(S) /\ (Distinct(l) => Distinct(t))
  /\ ToSet(t) = {l[k] : k \in m .. n}
  /\ \A x, y : Prec(t, x, y) => Prec(l, x, y)

LEMMA PartOf ==
  ASSUME NEW S, NEW l \in Seq(S), NEW m \in Nat \ {0}, NEW n \in Int, n <= Len(l)
  PROVE  Part(SubSeq(l, m, n), l, m, n, S) /\ Len(SubSeq(l, m, n)) = IF m <= n THEN n - m + 1 ELSE 0
  <1> DEFINE t == SubSeq(l, m, n)
             z == IF m <= n THEN n - m + 1 ELSE 0
  <1>1. t \in Seq(S) /\ Len(t) = z /\ DOMAIN t = 1 .. z /\ \A k \in 1 .. z : t[k] = l[k + m - 1]
    OBVIOUS
  <1>2. DOMAIN l = 1 .. Len(l) /\ Len(l) \in Nat /\ z \in Nat
    OBVIOUS
  <1>3. \A k \in 1 .. z : k + m - 1 \in m .. n /\ k + m - 1 \in 1 .. Len(l)
    BY <1>2
  <1>4. \A k \in m .. n : k - m + 1 \in 1 .. z /\ (k - m + 1) + m - 1 = k
    BY <1>2
  <1> HIDE DEF t, z
  <1>5. Distinct(l) => Distinct(t)
    <2> SUFFICES ASSUME Distinct(l), NEW i \in 1 .. z, NEW j \in 1 .. z, t[i] = t[j] PROVE i = j
      BY <1>1 DEF Distinct
    <2>1. i + m - 1 = j + m - 1
      <3>1. l[i + m - 1] = l[j + m - 1] /\ i + m - 1 \in DOMAIN l /\ j + m - 1 \in DOMAIN l
        BY <1>1, <1>2, <1>3
      <3> QED BY <3>1 DEF Distinct
    <2> QED BY <2>1
  <1>6. ToSet(t) = {l[k] : k \in m .. n}
    <2>1. \A k \in 1 .. z : t[k] \in {l[i] : i \in m .. n}
      BY <1>1, <1>3
    <2>2. \A k \in m .. n : \E i \in 1 .. z : t[i] = l[k]
      BY <1>1, <1>4
    <2>3. ToSet(t) = {t[k] : k \in 1 .. z}
      BY <1>1 DEF ToSet
    <2> QED BY <2>1, <2>2, <2>3
  <1>7. ASSUME NEW x, NEW y, Prec(t, x, y) PROVE Prec(l, x, y)
    <2>1. PICK i \in 1 .. z, j \in 1 .. z : i < j /\ t[i] = x /\ t[j] = y
      BY <1>1, <1>7 DEF Prec
    <2>2. i + m - 1 < j + m - 1 /\ i + m - 1 \in DOMAIN l /\ j + m - 1 \in DOMAIN l
      BY <1>2, <1>3, <2>1
    <2> QED BY <1>1, <2>1, <2>2 DEF Prec
  <1> QED BY <1>1, <1>5, <1>6, <1>7 DEF Part, t, z

LEMMA TailPart ==
  ASSUME NEW S, NEW l \in Seq(S), l # <<>>, Distinct(l)
  PROVE  /\ Tail(l) \in Seq(S) /\ Distinct(Tail(l)) /\ ToSet(Tail(l)) = ToSet(l) \ {Head(l)}
         /\ Head(l) \in ToSet(l) /\ Head(l) \in S
         /\ \A x, y : Prec(Tail(l), x, y) => Prec(l, x, y)
  <1> DEFINE n == Len(l)
  <1>1. n \in Nat \ {0} /\ DOMAIN l = 1 .. n /\ Head(l) = l[1] /\ 1 \in DOMAIN l /\ l[1] \in S
    OBVIOUS
  <1>2. Tail(l) = SubSeq(l, 2, n)
    OBVIOUS
  <1>3. Part(Tail(l), l, 2, n, S)
    <2>1. n \in Int /\ n <= Len(l) /\ 2 \in Nat \ {0}
      BY <1>1
    <2> HIDE DEF n
    <2> QED BY <1>2, <2>1, PartOf
  <1> HIDE DEF n
  <1>4. \A k \in 1 .. n : k = 1 \/ k \in 2 .. n
    BY <1>1
  <1>5. \A k \in 2 .. n : k \in 1 .. n /\ k # 1 /\ 1 < k
    BY <1>1
  <1>6. ToSet(Tail(l)) = ToSet(l) \ {Head(l)}
    <2>1. \A k \in 2 .. n : l[k] \in ToSet(l) /\ l[k] # l[1]
      BY <1>1, <1>5 DEF ToSet, Distinct
    <2>2. \A x \in ToSet(l) : x # l[1] => \E k \in 2 .. n : x = l[k]
      BY <1>1, <1>4 DEF ToSet
    <2> QED BY <1>1, <1>3, <2>1, <2>2 DEF Part
  <1>7. Head(l) \in ToSet(l) /\ Head(l) \in S
    BY <1>1 DEF ToSet
  <1> QED BY <1>3, <1>6, <1>7 DEF Part

-----------------------------------------------------------------------------
(* The loops, turn by turn *)

Counting(n) == [i \in 1 .. n |-> i]

\* What turn i makes of x, of a loop over k.seq.
Turn(k, x, i) ==
  IF k.op = "erased" THEN Erased(x, k.seq[i])
  ELSE IF k.op = "emptied" THEN Emptied(x, k.seq[i])
  ELSE IF k.op = "inserted" THEN Place(Retrieve(x), k.seq[i])
  ELSE IF k.op = "deleted" THEN Deleted(x, k.seq[i])
  ELSE IF k.op = "uniqued" THEN RangeErased(x, k.seq[i])
  ELSE IF k.op = "positions" THEN x \o PositionsIn(k.s, k.seq[i])
  ELSE IF k.op = "slots" THEN x \o [j \in 1 .. N |-> At(k.seq[i], j - 1)]
  ELSE IF k.op = "sum" THEN x + Cardinality(k.mask[k.seq[i]])
  ELSE IF k.op = "assigned" THEN AssignedAt(x, k.l[k.seq[i]], k.q[k.seq[i]])
  ELSE IF k.op = "new" THEN NewBlock(x)
  ELSE IF k.op = "moved" THEN Moved(x, k.a, k.b)
  ELSE IF k.op = "moved down" THEN MovedDown(x, k.a)
  ELSE IF k.op = "compact" THEN CompactTurn(x)
  ELSE Put(x, k.l[k.seq[i]].block, k.l[k.seq[i]].slot, k.q[k.seq[i]])

\* The function inside FoldLeft.
IsLoop(iter, k, base, n) ==
  iter = [t \in SUBSET (1 .. n) |-> IF t = {} THEN base ELSE Turn(k, iter[t \ {Max(t)}], Max(t))]

LEMMA LoopExists ==
  ASSUME NEW k, NEW base, NEW n \in Nat
  PROVE  \E iter : IsLoop(iter, k, base, n)
  <1> DEFINE T == {i \in 0 .. n : \E iter : IsLoop(iter, k, base, i)}
  <1>1. 0 \in T
    <2> DEFINE iter == [t \in SUBSET (1 .. 0) |-> base]
    <2>1. \A t \in SUBSET (1 .. 0) : t = {}
      OBVIOUS
    <2>2. IsLoop(iter, k, base, 0)
      BY <2>1 DEF IsLoop
    <2> QED BY <2>2
  <1>2. ASSUME NEW i \in 1 .. n, i - 1 \in T PROVE i \in T
    <2>1. PICK h : IsLoop(h, k, base, i - 1)
      BY <1>2
    <2> DEFINE P == SUBSET (1 .. (i - 1))
               Q == SUBSET (1 .. i)
               new(u) == Turn(k, h[u], i)
               g == [t \in Q |-> IF i \in t THEN new(t \ {i}) ELSE h[t]]
               value(f, t) == IF t = {} THEN base ELSE Turn(k, f[t \ {Max(t)}], Max(t))
    <2>2. \A t \in P : h[t] = value(h, t)
      BY <2>1 DEF IsLoop
    <2>3. \A t \in Q : i \notin t => t \in P
      <3>1. \A x \in 1 .. i : x # i => x \in 1 .. (i - 1)
        OBVIOUS
      <3> QED BY <3>1
    <2>4. \A t \in P : t \in Q /\ i \notin t
      <3>1. \A x \in 1 .. (i - 1) : x \in 1 .. i /\ x # i
        OBVIOUS
      <3> QED BY <3>1
    <2>5. ASSUME NEW t \in Q, t # {} PROVE Max(t) \in t /\ \A y \in t : y <= Max(t)
      <3>1. t \subseteq 1 .. i /\ i \in Nat
        OBVIOUS
      <3> HIDE DEF Q
      <3> QED BY <2>5, <3>1, MaxOf
    <2>6. ASSUME NEW t \in Q PROVE g[t] = value(g, t)
      <3>1. CASE i \in t
        <4>1. Max(t) = i
          <5> DEFINE m == Max(t)
          <5>1. m \in t /\ i <= m /\ m \in 1 .. i
            BY <2>5, <3>1
          <5> HIDE DEF m
          <5>2. m = i
            BY <5>1
          <5> QED BY <5>2 DEF m
        <4>2. t \ {i} \in Q /\ i \notin t \ {i}
          OBVIOUS
        <4>3. g[t] = new(t \ {i}) /\ g[t \ {i}] = h[t \ {i}]
          BY <3>1, <4>2
        <4> HIDE DEF g
        <4> QED BY <3>1, <4>1, <4>3
      <3>2. CASE i \notin t
        <4>1. t \in P /\ g[t] = h[t]
          BY <2>3, <3>2
        <4>2. t \ {Max(t)} \in P /\ t \ {Max(t)} \in Q /\ i \notin t \ {Max(t)}
          BY <3>2, <4>1
        <4>3. g[t \ {Max(t)}] = h[t \ {Max(t)}]
          BY <4>2
        <4>4. h[t] = value(h, t)
          BY <2>2, <4>1
        <4> HIDE DEF g
        <4> QED BY <4>1, <4>3, <4>4
      <3> QED BY <3>1, <3>2
    <2>7. g = [t \in Q |-> value(g, t)]
      <3>1. g = [t \in Q |-> g[t]]
        OBVIOUS
      <3> HIDE DEF g, value
      <3> QED BY <2>6, <3>1
    <2>8. IsLoop(g, k, base, i)
      <3> HIDE DEF g
      <3> QED BY <2>7 DEF IsLoop
    <2> QED BY <2>8
  <1> HIDE DEF T
  <1>3. n \in T
    <2>1. n \in 0 .. n /\ \A i \in 0 .. n : i \in T
      BY <1>1, <1>2, Induction
    <2> QED BY <2>1
  <1> QED BY <1>3 DEF T

\* What the loop has after each turn.
After(f, k, base, n) ==
  f[0] = base /\ \A i \in 1 .. n : f[i] = Turn(k, f[i - 1], i)

LEMMA LoopTurns ==
  ASSUME NEW k, NEW base, NEW n \in Nat, NEW iter, IsLoop(iter, k, base, n)
  PROVE  \E f : After(f, k, base, n) /\ f[n] = iter[1 .. n]
  <1> DEFINE f == [i \in 0 .. n |-> iter[1 .. i]]
             value(t) == IF t = {} THEN base ELSE Turn(k, iter[t \ {Max(t)}], Max(t))
  <1>1. \A t \in SUBSET (1 .. n) : iter[t] = value(t)
    BY DEF IsLoop
  <1>2. f[0] = base
    <2>1. 1 .. 0 = {} /\ {} \in SUBSET (1 .. n) /\ 0 \in 0 .. n
      OBVIOUS
    <2>2. iter[{}] = base
      BY <1>1, <2>1
    <2> QED BY <2>1, <2>2
  <1>3. ASSUME NEW i \in 1 .. n PROVE f[i] = Turn(k, f[i - 1], i)
    <2>1. /\ 1 .. i # {} /\ (1 .. i) \in SUBSET (1 .. n) /\ Max(1 .. i) = i
          /\ (1 .. i) \ {i} = 1 .. (i - 1) /\ i \in 0 .. n /\ i - 1 \in 0 .. n
      BY UpTo
    <2>2. iter[1 .. i] = Turn(k, iter[1 .. (i - 1)], i)
      BY <1>1, <2>1
    <2>3. f[i] = iter[1 .. i] /\ f[i - 1] = iter[1 .. (i - 1)]
      BY <2>1
    <2> QED BY <2>2, <2>3
  <1>4. f[n] = iter[1 .. n]
    OBVIOUS
  <1> HIDE DEF f
  <1> QED BY <1>2, <1>3, <1>4 DEF After

LEMMA ErasedTurns ==
  ASSUME NEW s, NEW S, NEW q \in Seq(S)
  PROVE  \E f : /\ f[0] = s /\ f[Len(q)] = ErasedEach(s, q)
                /\ \A i \in 1 .. Len(q) : f[i] = Erased(f[i - 1], q[i])
  <1> DEFINE seq == q
             size == Len(seq)
             k == [op |-> "erased", seq |-> q]
             body(g) == [t \in SUBSET (DOMAIN seq) |->
                           IF t = {} THEN s ELSE Erased(g[t \ {Max(t)}], seq[Max(t)])]
             iter == CHOOSE g : g = body(g)
  <1>1. size \in Nat /\ DOMAIN seq = 1 .. size
    OBVIOUS
  <1>2. \A x, i : Turn(k, x, i) = Erased(x, seq[i])
    BY DEF Turn
  <1>3. ErasedEach(s, q) = iter[DOMAIN seq]
    BY DEF ErasedEach, FoldLeft, MapThenFoldSet
  <1> HIDE DEF size, k
  <1>4. \A g : g = body(g) <=> IsLoop(g, k, s, size)
    <2> TAKE g
    <2> DEFINE turns == [t \in SUBSET (1 .. size) |->
                           IF t = {} THEN s ELSE Turn(k, g[t \ {Max(t)}], Max(t))]
    <2>1. body(g) = turns
      BY <1>1, <1>2
    <2>2. IsLoop(g, k, s, size) <=> g = turns
      BY DEF IsLoop
    <2> HIDE DEF turns, body
    <2> QED BY <2>1, <2>2
  <1>5. IsLoop(iter, k, s, size)
    <2>1. \E g : g = body(g)
      <3>1. size \in Nat
        BY <1>1
      <3> QED BY <1>4, <3>1, LoopExists
    <2> HIDE DEF body
    <2>2. iter = body(iter)
      BY <2>1
    <2> QED BY <1>4, <2>2
  <1> HIDE DEF iter, body
  <1>6. PICK f : After(f, k, s, size) /\ f[size] = iter[1 .. size]
    <2>1. size \in Nat
      BY <1>1
    <2> QED BY <1>5, <2>1, LoopTurns
  <1>7. f[0] = s /\ \A i \in 1 .. size : f[i] = Erased(f[i - 1], seq[i])
    BY <1>2, <1>6 DEF After
  <1> QED BY <1>1, <1>3, <1>6, <1>7 DEF size

LEMMA EmptiedTurns ==
  ASSUME NEW s, NEW S, NEW q \in Seq(S)
  PROVE  \E f : /\ f[0] = s /\ f[Len(q)] = EmptiedEach(s, q)
                /\ \A i \in 1 .. Len(q) : f[i] = Emptied(f[i - 1], q[i])
  <1> DEFINE seq == q
             size == Len(seq)
             k == [op |-> "emptied", seq |-> q]
             body(g) == [t \in SUBSET (DOMAIN seq) |->
                           IF t = {} THEN s ELSE Emptied(g[t \ {Max(t)}], seq[Max(t)])]
             iter == CHOOSE g : g = body(g)
  <1>1. size \in Nat /\ DOMAIN seq = 1 .. size
    OBVIOUS
  <1>2. \A x, i : Turn(k, x, i) = Emptied(x, seq[i])
    BY DEF Turn
  <1>3. EmptiedEach(s, q) = iter[DOMAIN seq]
    BY DEF EmptiedEach, FoldLeft, MapThenFoldSet
  <1> HIDE DEF size, k
  <1>4. \A g : g = body(g) <=> IsLoop(g, k, s, size)
    <2> TAKE g
    <2> DEFINE turns == [t \in SUBSET (1 .. size) |->
                           IF t = {} THEN s ELSE Turn(k, g[t \ {Max(t)}], Max(t))]
    <2>1. body(g) = turns
      BY <1>1, <1>2
    <2>2. IsLoop(g, k, s, size) <=> g = turns
      BY DEF IsLoop
    <2> HIDE DEF turns, body
    <2> QED BY <2>1, <2>2
  <1>5. IsLoop(iter, k, s, size)
    <2>1. \E g : g = body(g)
      <3>1. size \in Nat
        BY <1>1
      <3> QED BY <1>4, <3>1, LoopExists
    <2> HIDE DEF body
    <2>2. iter = body(iter)
      BY <2>1
    <2> QED BY <1>4, <2>2
  <1> HIDE DEF iter, body
  <1>6. PICK f : After(f, k, s, size) /\ f[size] = iter[1 .. size]
    <2>1. size \in Nat
      BY <1>1
    <2> QED BY <1>5, <2>1, LoopTurns
  <1>7. f[0] = s /\ \A i \in 1 .. size : f[i] = Emptied(f[i - 1], seq[i])
    BY <1>2, <1>6 DEF After
  <1> QED BY <1>1, <1>3, <1>6, <1>7 DEF size

LEMMA InsertedTurns ==
  ASSUME NEW s, NEW S, NEW q \in Seq(S)
  PROVE  \E f : /\ f[0] = s /\ f[Len(q)] = Inserted(s, q)
                /\ \A i \in 1 .. Len(q) : f[i] = Place(Retrieve(f[i - 1]), q[i])
  <1> DEFINE seq == q
             size == Len(seq)
             k == [op |-> "inserted", seq |-> q]
             body(g) == [t \in SUBSET (DOMAIN seq) |->
                           IF t = {} THEN s ELSE Place(Retrieve(g[t \ {Max(t)}]), seq[Max(t)])]
             iter == CHOOSE g : g = body(g)
  <1>1. size \in Nat /\ DOMAIN seq = 1 .. size
    OBVIOUS
  <1>2. \A x, i : Turn(k, x, i) = Place(Retrieve(x), seq[i])
    BY DEF Turn
  <1>3. Inserted(s, q) = iter[DOMAIN seq]
    BY DEF Inserted, FoldLeft, MapThenFoldSet
  <1> HIDE DEF size, k
  <1>4. \A g : g = body(g) <=> IsLoop(g, k, s, size)
    <2> TAKE g
    <2> DEFINE turns == [t \in SUBSET (1 .. size) |->
                           IF t = {} THEN s ELSE Turn(k, g[t \ {Max(t)}], Max(t))]
    <2>1. body(g) = turns
      BY <1>1, <1>2
    <2>2. IsLoop(g, k, s, size) <=> g = turns
      BY DEF IsLoop
    <2> HIDE DEF turns, body
    <2> QED BY <2>1, <2>2
  <1>5. IsLoop(iter, k, s, size)
    <2>1. \E g : g = body(g)
      <3>1. size \in Nat
        BY <1>1
      <3> QED BY <1>4, <3>1, LoopExists
    <2> HIDE DEF body
    <2>2. iter = body(iter)
      BY <2>1
    <2> QED BY <1>4, <2>2
  <1> HIDE DEF iter, body
  <1>6. PICK f : After(f, k, s, size) /\ f[size] = iter[1 .. size]
    <2>1. size \in Nat
      BY <1>1
    <2> QED BY <1>5, <2>1, LoopTurns
  <1>7. f[0] = s /\ \A i \in 1 .. size : f[i] = Place(Retrieve(f[i - 1]), seq[i])
    BY <1>2, <1>6 DEF After
  <1> QED BY <1>1, <1>3, <1>6, <1>7 DEF size

LEMMA DeletedTurns ==
  ASSUME NEW s, NEW S, NEW q \in Seq(S)
  PROVE  \E f : /\ f[0] = s /\ f[Len(q)] = DeletedEach(s, q)
                /\ \A i \in 1 .. Len(q) : f[i] = Deleted(f[i - 1], q[i])
  <1> DEFINE seq == q
             size == Len(seq)
             k == [op |-> "deleted", seq |-> q]
             body(g) == [t \in SUBSET (DOMAIN seq) |->
                           IF t = {} THEN s ELSE Deleted(g[t \ {Max(t)}], seq[Max(t)])]
             iter == CHOOSE g : g = body(g)
  <1>1. size \in Nat /\ DOMAIN seq = 1 .. size
    OBVIOUS
  <1>2. \A x, i : Turn(k, x, i) = Deleted(x, seq[i])
    BY DEF Turn
  <1>3. DeletedEach(s, q) = iter[DOMAIN seq]
    BY DEF DeletedEach, FoldLeft, MapThenFoldSet
  <1> HIDE DEF size, k
  <1>4. \A g : g = body(g) <=> IsLoop(g, k, s, size)
    <2> TAKE g
    <2> DEFINE turns == [t \in SUBSET (1 .. size) |->
                           IF t = {} THEN s ELSE Turn(k, g[t \ {Max(t)}], Max(t))]
    <2>1. body(g) = turns
      BY <1>1, <1>2
    <2>2. IsLoop(g, k, s, size) <=> g = turns
      BY DEF IsLoop
    <2> HIDE DEF turns, body
    <2> QED BY <2>1, <2>2
  <1>5. IsLoop(iter, k, s, size)
    <2>1. \E g : g = body(g)
      <3>1. size \in Nat
        BY <1>1
      <3> QED BY <1>4, <3>1, LoopExists
    <2> HIDE DEF body
    <2>2. iter = body(iter)
      BY <2>1
    <2> QED BY <1>4, <2>2
  <1> HIDE DEF iter, body
  <1>6. PICK f : After(f, k, s, size) /\ f[size] = iter[1 .. size]
    <2>1. size \in Nat
      BY <1>1
    <2> QED BY <1>5, <2>1, LoopTurns
  <1>7. f[0] = s /\ \A i \in 1 .. size : f[i] = Deleted(f[i - 1], seq[i])
    BY <1>2, <1>6 DEF After
  <1> QED BY <1>1, <1>3, <1>6, <1>7 DEF size

LEMMA UniquedTurns ==
  ASSUME NEW s, NEW S, NEW q \in Seq(S)
  PROVE  \E f : /\ f[0] = s /\ f[Len(q)] = RangesErased(s, q)
                /\ \A i \in 1 .. Len(q) : f[i] = RangeErased(f[i - 1], q[i])
  <1> DEFINE seq == q
             size == Len(seq)
             k == [op |-> "uniqued", seq |-> q]
             body(g) == [t \in SUBSET (DOMAIN seq) |->
                           IF t = {} THEN s ELSE RangeErased(g[t \ {Max(t)}], seq[Max(t)])]
             iter == CHOOSE g : g = body(g)
  <1>1. size \in Nat /\ DOMAIN seq = 1 .. size
    OBVIOUS
  <1>2. \A x, i : Turn(k, x, i) = RangeErased(x, seq[i])
    BY DEF Turn
  <1>3. RangesErased(s, q) = iter[DOMAIN seq]
    BY DEF RangesErased, FoldLeft, MapThenFoldSet
  <1> HIDE DEF size, k
  <1>4. \A g : g = body(g) <=> IsLoop(g, k, s, size)
    <2> TAKE g
    <2> DEFINE turns == [t \in SUBSET (1 .. size) |->
                           IF t = {} THEN s ELSE Turn(k, g[t \ {Max(t)}], Max(t))]
    <2>1. body(g) = turns
      BY <1>1, <1>2
    <2>2. IsLoop(g, k, s, size) <=> g = turns
      BY DEF IsLoop
    <2> HIDE DEF turns, body
    <2> QED BY <2>1, <2>2
  <1>5. IsLoop(iter, k, s, size)
    <2>1. \E g : g = body(g)
      <3>1. size \in Nat
        BY <1>1
      <3> QED BY <1>4, <3>1, LoopExists
    <2> HIDE DEF body
    <2>2. iter = body(iter)
      BY <2>1
    <2> QED BY <1>4, <2>2
  <1> HIDE DEF iter, body
  <1>6. PICK f : After(f, k, s, size) /\ f[size] = iter[1 .. size]
    <2>1. size \in Nat
      BY <1>1
    <2> QED BY <1>5, <2>1, LoopTurns
  <1>7. f[0] = s /\ \A i \in 1 .. size : f[i] = RangeErased(f[i - 1], seq[i])
    BY <1>2, <1>6 DEF After
  <1> QED BY <1>1, <1>3, <1>6, <1>7 DEF size

LEMMA PositionsTurns ==
  ASSUME NEW s, NEW S, s.active \in Seq(S)
  PROVE  \E f : /\ f[0] = <<>> /\ f[Len(s.active)] = Positions(s)
                /\ \A i \in 1 .. Len(s.active) : f[i] = f[i - 1] \o PositionsIn(s, s.active[i])
  <1> DEFINE seq == s.active
             size == Len(seq)
             k == [op |-> "positions", seq |-> s.active, s |-> s]
             body(g) == [t \in SUBSET (DOMAIN seq) |->
                           IF t = {} THEN <<>> ELSE g[t \ {Max(t)}] \o PositionsIn(s, seq[Max(t)])]
             iter == CHOOSE g : g = body(g)
  <1>1. size \in Nat /\ DOMAIN seq = 1 .. size
    OBVIOUS
  <1>2. \A x, i : Turn(k, x, i) = x \o PositionsIn(s, seq[i])
    BY DEF Turn
  <1>3. Positions(s) = iter[DOMAIN seq]
    BY DEF Positions, FoldLeft, MapThenFoldSet
  <1> HIDE DEF size, k
  <1>4. \A g : g = body(g) <=> IsLoop(g, k, <<>>, size)
    <2> TAKE g
    <2> DEFINE turns == [t \in SUBSET (1 .. size) |->
                           IF t = {} THEN <<>> ELSE Turn(k, g[t \ {Max(t)}], Max(t))]
    <2>1. body(g) = turns
      BY <1>1, <1>2
    <2>2. IsLoop(g, k, <<>>, size) <=> g = turns
      BY DEF IsLoop
    <2> HIDE DEF turns, body
    <2> QED BY <2>1, <2>2
  <1>5. IsLoop(iter, k, <<>>, size)
    <2>1. \E g : g = body(g)
      <3>1. size \in Nat
        BY <1>1
      <3> QED BY <1>4, <3>1, LoopExists
    <2> HIDE DEF body
    <2>2. iter = body(iter)
      BY <2>1
    <2> QED BY <1>4, <2>2
  <1> HIDE DEF iter, body
  <1>6. PICK f : After(f, k, <<>>, size) /\ f[size] = iter[1 .. size]
    <2>1. size \in Nat
      BY <1>1
    <2> QED BY <1>5, <2>1, LoopTurns
  <1>7. f[0] = <<>> /\ \A i \in 1 .. size : f[i] = f[i - 1] \o PositionsIn(s, seq[i])
    BY <1>2, <1>6 DEF After
  <1> QED BY <1>1, <1>3, <1>6, <1>7 DEF size

LEMMA SlotsTurns ==
  ASSUME NEW s, NEW S, s.active \in Seq(S)
  PROVE  \E f : /\ f[0] = <<>> /\ f[Len(s.active)] = ActiveSlots(s)
                /\ \A i \in 1 .. Len(s.active) : f[i] = f[i - 1] \o [j \in 1 .. N |-> At(s.active[i], j - 1)]
  <1> DEFINE seq == s.active
             size == Len(seq)
             k == [op |-> "slots", seq |-> s.active]
             body(g) == [t \in SUBSET (DOMAIN seq) |->
                           IF t = {} THEN <<>> ELSE g[t \ {Max(t)}] \o [j \in 1 .. N |-> At(seq[Max(t)], j - 1)]]
             iter == CHOOSE g : g = body(g)
  <1>1. size \in Nat /\ DOMAIN seq = 1 .. size
    OBVIOUS
  <1>2. \A x, i : Turn(k, x, i) = x \o [j \in 1 .. N |-> At(seq[i], j - 1)]
    BY DEF Turn
  <1>3. ActiveSlots(s) = iter[DOMAIN seq]
    BY DEF ActiveSlots, FoldLeft, MapThenFoldSet
  <1> HIDE DEF size, k
  <1>4. \A g : g = body(g) <=> IsLoop(g, k, <<>>, size)
    <2> TAKE g
    <2> DEFINE turns == [t \in SUBSET (1 .. size) |->
                           IF t = {} THEN <<>> ELSE Turn(k, g[t \ {Max(t)}], Max(t))]
    <2>1. body(g) = turns
      BY <1>1, <1>2
    <2>2. IsLoop(g, k, <<>>, size) <=> g = turns
      BY DEF IsLoop
    <2> HIDE DEF turns, body
    <2> QED BY <2>1, <2>2
  <1>5. IsLoop(iter, k, <<>>, size)
    <2>1. \E g : g = body(g)
      <3>1. size \in Nat
        BY <1>1
      <3> QED BY <1>4, <3>1, LoopExists
    <2> HIDE DEF body
    <2>2. iter = body(iter)
      BY <2>1
    <2> QED BY <1>4, <2>2
  <1> HIDE DEF iter, body
  <1>6. PICK f : After(f, k, <<>>, size) /\ f[size] = iter[1 .. size]
    <2>1. size \in Nat
      BY <1>1
    <2> QED BY <1>5, <2>1, LoopTurns
  <1>7. f[0] = <<>> /\ \A i \in 1 .. size : f[i] = f[i - 1] \o [j \in 1 .. N |-> At(seq[i], j - 1)]
    BY <1>2, <1>6 DEF After
  <1> QED BY <1>1, <1>3, <1>6, <1>7 DEF size

LEMMA SumTurns ==
  ASSUME NEW m, NEW S, NEW q \in Seq(S)
  PROVE  \E f : /\ f[0] = 0 /\ f[Len(q)] = CountIn(m, q)
                /\ \A i \in 1 .. Len(q) : f[i] = f[i - 1] + Cardinality(m[q[i]])
  <1> DEFINE seq == q
             size == Len(seq)
             k == [op |-> "sum", seq |-> q, mask |-> m]
             body(g) == [t \in SUBSET (DOMAIN seq) |->
                           IF t = {} THEN 0 ELSE g[t \ {Max(t)}] + Cardinality(m[seq[Max(t)]])]
             iter == CHOOSE g : g = body(g)
  <1>1. size \in Nat /\ DOMAIN seq = 1 .. size
    OBVIOUS
  <1>2. \A x, i : Turn(k, x, i) = x + Cardinality(m[seq[i]])
    BY DEF Turn
  <1>3. CountIn(m, q) = iter[DOMAIN seq]
    BY DEF CountIn, FoldLeft, MapThenFoldSet
  <1> HIDE DEF size, k
  <1>4. \A g : g = body(g) <=> IsLoop(g, k, 0, size)
    <2> TAKE g
    <2> DEFINE turns == [t \in SUBSET (1 .. size) |->
                           IF t = {} THEN 0 ELSE Turn(k, g[t \ {Max(t)}], Max(t))]
    <2>1. body(g) = turns
      BY <1>1, <1>2
    <2>2. IsLoop(g, k, 0, size) <=> g = turns
      BY DEF IsLoop
    <2> HIDE DEF turns, body
    <2> QED BY <2>1, <2>2
  <1>5. IsLoop(iter, k, 0, size)
    <2>1. \E g : g = body(g)
      <3>1. size \in Nat
        BY <1>1
      <3> QED BY <1>4, <3>1, LoopExists
    <2> HIDE DEF body
    <2>2. iter = body(iter)
      BY <2>1
    <2> QED BY <1>4, <2>2
  <1> HIDE DEF iter, body
  <1>6. PICK f : After(f, k, 0, size) /\ f[size] = iter[1 .. size]
    <2>1. size \in Nat
      BY <1>1
    <2> QED BY <1>5, <2>1, LoopTurns
  <1>7. f[0] = 0 /\ \A i \in 1 .. size : f[i] = f[i - 1] + Cardinality(m[seq[i]])
    BY <1>2, <1>6 DEF After
  <1> QED BY <1>1, <1>3, <1>6, <1>7 DEF size

LEMMA AssignedTurns ==
  ASSUME NEW s, NEW l, NEW q, NEW c \in Nat
  PROVE  \E f : /\ f[0] = s /\ f[c] = AssignedEach(s, l, q, c)
                /\ \A i \in 1 .. c : f[i] = AssignedAt(f[i - 1], l[i], q[i])
  <1> DEFINE seq == Counting(c)
             size == Len(seq)
             k == [op |-> "assigned", l |-> l, q |-> q, seq |-> Counting(c)]
             body(g) == [t \in SUBSET (DOMAIN seq) |->
                           IF t = {} THEN s ELSE AssignedAt(g[t \ {Max(t)}], l[seq[Max(t)]], q[seq[Max(t)]])]
             iter == CHOOSE g : g = body(g)
  <1>1. size \in Nat /\ DOMAIN seq = 1 .. size /\ size = c /\ \A i \in 1 .. size : seq[i] = i
    <2>1. seq \in [1 .. c -> 1 .. c] /\ \A i \in 1 .. c : seq[i] = i
      BY DEF Counting
    <2>2. seq \in Seq(1 .. c) /\ Len(seq) = c
      BY <2>1
    <2> QED BY <2>1, <2>2
  <1>2. \A x, i : Turn(k, x, i) = AssignedAt(x, l[seq[i]], q[seq[i]])
    BY DEF Turn
  <1>3. AssignedEach(s, l, q, c) = iter[DOMAIN seq]
    BY DEF AssignedEach, Counting, FoldLeft, MapThenFoldSet
  <1> HIDE DEF size, k
  <1>4. \A g : g = body(g) <=> IsLoop(g, k, s, size)
    <2> TAKE g
    <2> DEFINE turns == [t \in SUBSET (1 .. size) |->
                           IF t = {} THEN s ELSE Turn(k, g[t \ {Max(t)}], Max(t))]
    <2>1. body(g) = turns
      BY <1>1, <1>2
    <2>2. IsLoop(g, k, s, size) <=> g = turns
      BY DEF IsLoop
    <2> HIDE DEF turns, body
    <2> QED BY <2>1, <2>2
  <1>5. IsLoop(iter, k, s, size)
    <2>1. \E g : g = body(g)
      <3>1. size \in Nat
        BY <1>1
      <3> QED BY <1>4, <3>1, LoopExists
    <2> HIDE DEF body
    <2>2. iter = body(iter)
      BY <2>1
    <2> QED BY <1>4, <2>2
  <1> HIDE DEF iter, body
  <1>6. PICK f : After(f, k, s, size) /\ f[size] = iter[1 .. size]
    <2>1. size \in Nat
      BY <1>1
    <2> QED BY <1>5, <2>1, LoopTurns
  <1>7. f[0] = s /\ \A i \in 1 .. size : f[i] = AssignedAt(f[i - 1], l[seq[i]], q[seq[i]])
    BY <1>2, <1>6 DEF After
  <1> HIDE DEF seq
  <1>8. \A i \in 1 .. size : f[i] = AssignedAt(f[i - 1], l[i], q[i])
    <2> TAKE i \in 1 .. size
    <2>1. seq[i] = i
      BY <1>1
    <2> HIDE DEF size
    <2> QED BY <1>7, <2>1
  <1>9. AssignedEach(s, l, q, c) = f[size]
    BY <1>1, <1>3, <1>6
  <1> QED BY <1>1, <1>7, <1>8, <1>9

LEMMA NewTurns ==
  ASSUME NEW s, NEW c \in Nat
  PROVE  \E f : /\ f[0] = s /\ f[c] = NewBlocks(s, c)
                /\ \A i \in 1 .. c : f[i] = NewBlock(f[i - 1])
  <1> DEFINE seq == Counting(c)
             size == Len(seq)
             k == [op |-> "new", seq |-> Counting(c)]
             body(g) == [t \in SUBSET (DOMAIN seq) |->
                           IF t = {} THEN s ELSE NewBlock(g[t \ {Max(t)}])]
             iter == CHOOSE g : g = body(g)
  <1>1. size \in Nat /\ DOMAIN seq = 1 .. size /\ size = c /\ \A i \in 1 .. size : seq[i] = i
    <2>1. seq \in [1 .. c -> 1 .. c] /\ \A i \in 1 .. c : seq[i] = i
      BY DEF Counting
    <2>2. seq \in Seq(1 .. c) /\ Len(seq) = c
      BY <2>1
    <2> QED BY <2>1, <2>2
  <1>2. \A x, i : Turn(k, x, i) = NewBlock(x)
    BY DEF Turn
  <1>3. NewBlocks(s, c) = iter[DOMAIN seq]
    BY DEF NewBlocks, Counting, FoldLeft, MapThenFoldSet
  <1> HIDE DEF size, k
  <1>4. \A g : g = body(g) <=> IsLoop(g, k, s, size)
    <2> TAKE g
    <2> DEFINE turns == [t \in SUBSET (1 .. size) |->
                           IF t = {} THEN s ELSE Turn(k, g[t \ {Max(t)}], Max(t))]
    <2>1. body(g) = turns
      BY <1>1, <1>2
    <2>2. IsLoop(g, k, s, size) <=> g = turns
      BY DEF IsLoop
    <2> HIDE DEF turns, body
    <2> QED BY <2>1, <2>2
  <1>5. IsLoop(iter, k, s, size)
    <2>1. \E g : g = body(g)
      <3>1. size \in Nat
        BY <1>1
      <3> QED BY <1>4, <3>1, LoopExists
    <2> HIDE DEF body
    <2>2. iter = body(iter)
      BY <2>1
    <2> QED BY <1>4, <2>2
  <1> HIDE DEF iter, body
  <1>6. PICK f : After(f, k, s, size) /\ f[size] = iter[1 .. size]
    <2>1. size \in Nat
      BY <1>1
    <2> QED BY <1>5, <2>1, LoopTurns
  <1>7. f[0] = s /\ \A i \in 1 .. size : f[i] = NewBlock(f[i - 1])
    BY <1>2, <1>6 DEF After
  <1> HIDE DEF seq
  <1>8. \A i \in 1 .. size : f[i] = NewBlock(f[i - 1])
    <2> TAKE i \in 1 .. size
    <2>1. seq[i] = i
      BY <1>1
    <2> HIDE DEF size
    <2> QED BY <1>7, <2>1
  <1>9. NewBlocks(s, c) = f[size]
    BY <1>1, <1>3, <1>6
  <1> QED BY <1>1, <1>7, <1>8, <1>9

LEMMA MovedTurns ==
  ASSUME NEW s, NEW a, NEW b, NEW c \in Nat
  PROVE  \E f : /\ f[0] = s /\ f[c] = MovedTimes(s, a, b, c)
                /\ \A i \in 1 .. c : f[i] = Moved(f[i - 1], a, b)
  <1> DEFINE seq == Counting(c)
             size == Len(seq)
             k == [op |-> "moved", a |-> a, b |-> b, seq |-> Counting(c)]
             body(g) == [t \in SUBSET (DOMAIN seq) |->
                           IF t = {} THEN s ELSE Moved(g[t \ {Max(t)}], a, b)]
             iter == CHOOSE g : g = body(g)
  <1>1. size \in Nat /\ DOMAIN seq = 1 .. size /\ size = c /\ \A i \in 1 .. size : seq[i] = i
    <2>1. seq \in [1 .. c -> 1 .. c] /\ \A i \in 1 .. c : seq[i] = i
      BY DEF Counting
    <2>2. seq \in Seq(1 .. c) /\ Len(seq) = c
      BY <2>1
    <2> QED BY <2>1, <2>2
  <1>2. \A x, i : Turn(k, x, i) = Moved(x, a, b)
    BY DEF Turn
  <1>3. MovedTimes(s, a, b, c) = iter[DOMAIN seq]
    BY DEF MovedTimes, Counting, FoldLeft, MapThenFoldSet
  <1> HIDE DEF size, k
  <1>4. \A g : g = body(g) <=> IsLoop(g, k, s, size)
    <2> TAKE g
    <2> DEFINE turns == [t \in SUBSET (1 .. size) |->
                           IF t = {} THEN s ELSE Turn(k, g[t \ {Max(t)}], Max(t))]
    <2>1. body(g) = turns
      BY <1>1, <1>2
    <2>2. IsLoop(g, k, s, size) <=> g = turns
      BY DEF IsLoop
    <2> HIDE DEF turns, body
    <2> QED BY <2>1, <2>2
  <1>5. IsLoop(iter, k, s, size)
    <2>1. \E g : g = body(g)
      <3>1. size \in Nat
        BY <1>1
      <3> QED BY <1>4, <3>1, LoopExists
    <2> HIDE DEF body
    <2>2. iter = body(iter)
      BY <2>1
    <2> QED BY <1>4, <2>2
  <1> HIDE DEF iter, body
  <1>6. PICK f : After(f, k, s, size) /\ f[size] = iter[1 .. size]
    <2>1. size \in Nat
      BY <1>1
    <2> QED BY <1>5, <2>1, LoopTurns
  <1>7. f[0] = s /\ \A i \in 1 .. size : f[i] = Moved(f[i - 1], a, b)
    BY <1>2, <1>6 DEF After
  <1> HIDE DEF seq
  <1>8. \A i \in 1 .. size : f[i] = Moved(f[i - 1], a, b)
    <2> TAKE i \in 1 .. size
    <2>1. seq[i] = i
      BY <1>1
    <2> HIDE DEF size
    <2> QED BY <1>7, <2>1
  <1>9. MovedTimes(s, a, b, c) = f[size]
    BY <1>1, <1>3, <1>6
  <1> QED BY <1>1, <1>7, <1>8, <1>9

LEMMA MovedDownTurns ==
  ASSUME NEW s, NEW a
  PROVE  \E f : /\ f[0] = s /\ f[N] = CompactOne(s, a)
                /\ \A i \in 1 .. N : f[i] = MovedDown(f[i - 1], a)
  <1> DEFINE seq == Counting(N)
             size == Len(seq)
             k == [op |-> "moved down", a |-> a, seq |-> Counting(N)]
             body(g) == [t \in SUBSET (DOMAIN seq) |->
                           IF t = {} THEN s ELSE MovedDown(g[t \ {Max(t)}], a)]
             iter == CHOOSE g : g = body(g)
  <1>0. N \in Nat
    BY HubAssumption
  <1>1. size \in Nat /\ DOMAIN seq = 1 .. size /\ size = N /\ \A i \in 1 .. size : seq[i] = i
    <2>1. seq \in [1 .. N -> 1 .. N] /\ \A i \in 1 .. N : seq[i] = i
      BY DEF Counting
    <2>2. seq \in Seq(1 .. N) /\ Len(seq) = N
      BY <1>0, <2>1
    <2> QED BY <2>1, <2>2
  <1>2. \A x, i : Turn(k, x, i) = MovedDown(x, a)
    BY DEF Turn
  <1>3. CompactOne(s, a) = iter[DOMAIN seq]
    BY DEF CompactOne, Counting, FoldLeft, MapThenFoldSet
  <1> HIDE DEF size, k
  <1>4. \A g : g = body(g) <=> IsLoop(g, k, s, size)
    <2> TAKE g
    <2> DEFINE turns == [t \in SUBSET (1 .. size) |->
                           IF t = {} THEN s ELSE Turn(k, g[t \ {Max(t)}], Max(t))]
    <2>1. body(g) = turns
      BY <1>1, <1>2
    <2>2. IsLoop(g, k, s, size) <=> g = turns
      BY DEF IsLoop
    <2> HIDE DEF turns, body
    <2> QED BY <2>1, <2>2
  <1>5. IsLoop(iter, k, s, size)
    <2>1. \E g : g = body(g)
      <3>1. size \in Nat
        BY <1>1
      <3> QED BY <1>4, <3>1, LoopExists
    <2> HIDE DEF body
    <2>2. iter = body(iter)
      BY <2>1
    <2> QED BY <1>4, <2>2
  <1> HIDE DEF iter, body
  <1>6. PICK f : After(f, k, s, size) /\ f[size] = iter[1 .. size]
    <2>1. size \in Nat
      BY <1>1
    <2> QED BY <1>5, <2>1, LoopTurns
  <1>7. f[0] = s /\ \A i \in 1 .. size : f[i] = MovedDown(f[i - 1], a)
    BY <1>2, <1>6 DEF After
  <1> HIDE DEF seq
  <1>8. \A i \in 1 .. size : f[i] = MovedDown(f[i - 1], a)
    <2> TAKE i \in 1 .. size
    <2>1. seq[i] = i
      BY <1>1
    <2> HIDE DEF size
    <2> QED BY <1>7, <2>1
  <1>9. CompactOne(s, a) = f[size]
    BY <1>1, <1>3, <1>6
  <1> QED BY <1>1, <1>7, <1>8, <1>9

LEMMA CompactingTurns ==
  ASSUME NEW s, NEW c \in Nat
  PROVE  \E f : /\ f[0] = s /\ f[c] = CompactTurns(s, c)
                /\ \A i \in 1 .. c : f[i] = CompactTurn(f[i - 1])
  <1> DEFINE seq == Counting(c)
             size == Len(seq)
             k == [op |-> "compact", seq |-> Counting(c)]
             body(g) == [t \in SUBSET (DOMAIN seq) |->
                           IF t = {} THEN s ELSE CompactTurn(g[t \ {Max(t)}])]
             iter == CHOOSE g : g = body(g)
  <1>1. size \in Nat /\ DOMAIN seq = 1 .. size /\ size = c /\ \A i \in 1 .. size : seq[i] = i
    <2>1. seq \in [1 .. c -> 1 .. c] /\ \A i \in 1 .. c : seq[i] = i
      BY DEF Counting
    <2>2. seq \in Seq(1 .. c) /\ Len(seq) = c
      BY <2>1
    <2> QED BY <2>1, <2>2
  <1>2. \A x, i : Turn(k, x, i) = CompactTurn(x)
    BY DEF Turn
  <1>3. CompactTurns(s, c) = iter[DOMAIN seq]
    BY DEF CompactTurns, Counting, FoldLeft, MapThenFoldSet
  <1> HIDE DEF size, k
  <1>4. \A g : g = body(g) <=> IsLoop(g, k, s, size)
    <2> TAKE g
    <2> DEFINE turns == [t \in SUBSET (1 .. size) |->
                           IF t = {} THEN s ELSE Turn(k, g[t \ {Max(t)}], Max(t))]
    <2>1. body(g) = turns
      BY <1>1, <1>2
    <2>2. IsLoop(g, k, s, size) <=> g = turns
      BY DEF IsLoop
    <2> HIDE DEF turns, body
    <2> QED BY <2>1, <2>2
  <1>5. IsLoop(iter, k, s, size)
    <2>1. \E g : g = body(g)
      <3>1. size \in Nat
        BY <1>1
      <3> QED BY <1>4, <3>1, LoopExists
    <2> HIDE DEF body
    <2>2. iter = body(iter)
      BY <2>1
    <2> QED BY <1>4, <2>2
  <1> HIDE DEF iter, body
  <1>6. PICK f : After(f, k, s, size) /\ f[size] = iter[1 .. size]
    <2>1. size \in Nat
      BY <1>1
    <2> QED BY <1>5, <2>1, LoopTurns
  <1>7. f[0] = s /\ \A i \in 1 .. size : f[i] = CompactTurn(f[i - 1])
    BY <1>2, <1>6 DEF After
  <1> HIDE DEF seq
  <1>8. \A i \in 1 .. size : f[i] = CompactTurn(f[i - 1])
    <2> TAKE i \in 1 .. size
    <2>1. seq[i] = i
      BY <1>1
    <2> HIDE DEF size
    <2> QED BY <1>7, <2>1
  <1>9. CompactTurns(s, c) = f[size]
    BY <1>1, <1>3, <1>6
  <1> QED BY <1>1, <1>7, <1>8, <1>9

LEMMA OrderedTurns ==
  ASSUME NEW s, NEW l, NEW q, NEW c \in Nat
  PROVE  \E f : /\ f[0] = s /\ f[c] = PutEach(s, l, q, c)
                /\ \A i \in 1 .. c : f[i] = Put(f[i - 1], l[i].block, l[i].slot, q[i])
  <1> DEFINE seq == Counting(c)
             size == Len(seq)
             k == [op |-> "ordered", l |-> l, q |-> q, seq |-> Counting(c)]
             body(g) == [t \in SUBSET (DOMAIN seq) |->
                           IF t = {} THEN s ELSE Put(g[t \ {Max(t)}], l[seq[Max(t)]].block, l[seq[Max(t)]].slot, q[seq[Max(t)]])]
             iter == CHOOSE g : g = body(g)
  <1>1. size \in Nat /\ DOMAIN seq = 1 .. size /\ size = c /\ \A i \in 1 .. size : seq[i] = i
    <2>1. seq \in [1 .. c -> 1 .. c] /\ \A i \in 1 .. c : seq[i] = i
      BY DEF Counting
    <2>2. seq \in Seq(1 .. c) /\ Len(seq) = c
      BY <2>1
    <2> QED BY <2>1, <2>2
  <1>2. \A x, i : Turn(k, x, i) = Put(x, l[seq[i]].block, l[seq[i]].slot, q[seq[i]])
    BY DEF Turn
  <1>3. PutEach(s, l, q, c) = iter[DOMAIN seq]
    BY DEF PutEach, Counting, FoldLeft, MapThenFoldSet
  <1> HIDE DEF size, k
  <1>4. \A g : g = body(g) <=> IsLoop(g, k, s, size)
    <2> TAKE g
    <2> DEFINE turns == [t \in SUBSET (1 .. size) |->
                           IF t = {} THEN s ELSE Turn(k, g[t \ {Max(t)}], Max(t))]
    <2>1. body(g) = turns
      BY <1>1, <1>2
    <2>2. IsLoop(g, k, s, size) <=> g = turns
      BY DEF IsLoop
    <2> HIDE DEF turns, body
    <2> QED BY <2>1, <2>2
  <1>5. IsLoop(iter, k, s, size)
    <2>1. \E g : g = body(g)
      <3>1. size \in Nat
        BY <1>1
      <3> QED BY <1>4, <3>1, LoopExists
    <2> HIDE DEF body
    <2>2. iter = body(iter)
      BY <2>1
    <2> QED BY <1>4, <2>2
  <1> HIDE DEF iter, body
  <1>6. PICK f : After(f, k, s, size) /\ f[size] = iter[1 .. size]
    <2>1. size \in Nat
      BY <1>1
    <2> QED BY <1>5, <2>1, LoopTurns
  <1>7. f[0] = s /\ \A i \in 1 .. size : f[i] = Put(f[i - 1], l[seq[i]].block, l[seq[i]].slot, q[seq[i]])
    BY <1>2, <1>6 DEF After
  <1> HIDE DEF seq
  <1>8. \A i \in 1 .. size : f[i] = Put(f[i - 1], l[i].block, l[i].slot, q[i])
    <2> TAKE i \in 1 .. size
    <2>1. seq[i] = i
      BY <1>1
    <2> HIDE DEF size
    <2> QED BY <1>7, <2>1
  <1>9. PutEach(s, l, q, c) = f[size]
    BY <1>1, <1>3, <1>6
  <1> QED BY <1>1, <1>7, <1>8, <1>9

-----------------------------------------------------------------------------
(* Memory: slots, bits and the cells that have an element *)

\* A slot's bit is set exactly if it has an element, and a block that is not
\* on loan has none.
Memory(m, d, l) ==
  /\ m \in [Blocks -> SUBSET Slots] /\ d \in [Blocks -> [Slots -> Values \cup {Raw}]]
  /\ \A b \in Blocks : \A n \in Slots : n \in m[b] <=> d[b][n] # Raw
  /\ l \subseteq Blocks /\ \A b \in Blocks \ l : m[b] = {}

Cells(m, B) == {c \in B \X Slots : c[2] \in m[c[1]]}

LEMMA SlotFacts ==
  /\ N \in Nat \ {0} /\ IsFiniteSet(Slots) /\ Cardinality(Slots) = N /\ Slots # {} /\ Slots \subseteq Nat
  /\ \A n \in 0 .. N - 1 : n \in Slots
  <1>1. N \in Nat \ {0}
    BY HubAssumption
  <1>2. IsFiniteSet(0 .. N - 1) /\ Cardinality(0 .. N - 1) = N
    <2>1. 0 \in Int /\ N - 1 \in Int /\ ~(0 > N - 1) /\ (N - 1) - 0 + 1 = N
      BY <1>1
    <2> QED BY <2>1, FS_Interval
  <1>3. 0 \in 0 .. N - 1 /\ 0 .. N - 1 \subseteq Nat
    BY <1>1
  <1> QED BY <1>1, <1>2, <1>3 DEF Slots

LEMMA SomeSlots ==
  ASSUME NEW m \in SUBSET Slots
  PROVE  /\ IsFiniteSet(m) /\ Cardinality(m) \in 0 .. N
         /\ (Cardinality(m) = 0 <=> m = {}) /\ (Cardinality(m) = N <=> m = Slots)
  <1>1. IsFiniteSet(Slots) /\ Cardinality(Slots) = N /\ N \in Nat
    BY SlotFacts
  <1>2. IsFiniteSet(m) /\ Cardinality(m) <= N /\ (N = Cardinality(m) => Slots = m)
    BY <1>1, FS_Subset
  <1>3. Cardinality(m) \in Nat
    BY <1>2, FS_CardinalityType
  <1>4. Cardinality(m) = 0 <=> m = {}
    BY <1>2, FS_EmptySet
  <1> QED BY <1>1, <1>2, <1>3, <1>4

LEMMA SlotMore ==
  ASSUME NEW m \in SUBSET Slots, NEW n \in Slots, n \notin m
  PROVE  Cardinality(m \cup {n}) = Cardinality(m) + 1
  BY SomeSlots, FS_AddElement

LEMMA SlotLess ==
  ASSUME NEW m \in SUBSET Slots, NEW n \in m
  PROVE  Cardinality(m \ {n}) = Cardinality(m) - 1
  BY SomeSlots, FS_RemoveElement

\* An element is constructed or assigned.
LEMMA PutMemory ==
  ASSUME NEW m, NEW d, NEW l, Memory(m, d, l), NEW b \in l, NEW n \in Slots, NEW v \in Values
  PROVE  Memory([m EXCEPT ![b] = m[b] \cup {n}], [d EXCEPT ![b] = [d[b] EXCEPT ![n] = v]], l)
  <1> DEFINE m2 == [m EXCEPT ![b] = m[b] \cup {n}]
             row == [d[b] EXCEPT ![n] = v]
             d2 == [d EXCEPT ![b] = row]
  <1>1. /\ b \in Blocks /\ m \in [Blocks -> SUBSET Slots] /\ d \in [Blocks -> [Slots -> Values \cup {Raw}]]
        /\ l \subseteq Blocks /\ v # Raw
    BY HubAssumption DEF Memory
  <1>2. row \in [Slots -> Values \cup {Raw}] /\ row[n] = v /\ \A k \in Slots : k # n => row[k] = d[b][k]
    <2>1. d[b] \in [Slots -> Values \cup {Raw}]
      BY <1>1
    <2> QED BY <2>1
  <1> HIDE DEF row
  <1>3. m2 \in [Blocks -> SUBSET Slots] /\ m2[b] = m[b] \cup {n} /\ \A x \in Blocks : x # b => m2[x] = m[x]
    BY <1>1
  <1>4. /\ d2 \in [Blocks -> [Slots -> Values \cup {Raw}]] /\ d2[b] = row
        /\ \A x \in Blocks : x # b => d2[x] = d[x]
    BY <1>1, <1>2
  <1> HIDE DEF m2, d2
  <1>5. ASSUME NEW x \in Blocks, NEW k \in Slots PROVE k \in m2[x] <=> d2[x][k] # Raw
    <2>1. k \in m[x] <=> d[x][k] # Raw
      BY DEF Memory
    <2>2. CASE x = b
      BY <1>1, <1>2, <1>3, <1>4, <2>1, <2>2
    <2>3. CASE x # b
      BY <1>3, <1>4, <2>1, <2>3
    <2> QED BY <2>2, <2>3
  <1>6. \A x \in Blocks \ l : m2[x] = {}
    BY <1>3 DEF Memory
  <1> QED BY <1>1, <1>3, <1>4, <1>5, <1>6 DEF Memory, m2, d2, row

\* An element is destroyed.
LEMMA FreedMemory ==
  ASSUME NEW m, NEW d, NEW l, Memory(m, d, l), NEW b \in l, NEW n \in Slots
  PROVE  Memory([m EXCEPT ![b] = m[b] \ {n}], [d EXCEPT ![b] = [d[b] EXCEPT ![n] = Raw]], l)
  <1> DEFINE m2 == [m EXCEPT ![b] = m[b] \ {n}]
             row == [d[b] EXCEPT ![n] = Raw]
             d2 == [d EXCEPT ![b] = row]
  <1>1. /\ b \in Blocks /\ m \in [Blocks -> SUBSET Slots] /\ d \in [Blocks -> [Slots -> Values \cup {Raw}]]
        /\ l \subseteq Blocks
    BY DEF Memory
  <1>2. row \in [Slots -> Values \cup {Raw}] /\ row[n] = Raw /\ \A k \in Slots : k # n => row[k] = d[b][k]
    <2>1. d[b] \in [Slots -> Values \cup {Raw}]
      BY <1>1
    <2> QED BY <2>1
  <1> HIDE DEF row
  <1>3. m2 \in [Blocks -> SUBSET Slots] /\ m2[b] = m[b] \ {n} /\ \A x \in Blocks : x # b => m2[x] = m[x]
    <2>1. m[b] \ {n} \in SUBSET Slots
      BY <1>1
    <2> QED BY <1>1, <2>1
  <1>4. /\ d2 \in [Blocks -> [Slots -> Values \cup {Raw}]] /\ d2[b] = row
        /\ \A x \in Blocks : x # b => d2[x] = d[x]
    BY <1>1, <1>2
  <1> HIDE DEF m2, d2
  <1>5. ASSUME NEW x \in Blocks, NEW k \in Slots PROVE k \in m2[x] <=> d2[x][k] # Raw
    <2>1. k \in m[x] <=> d[x][k] # Raw
      BY DEF Memory
    <2>2. CASE x = b
      BY <1>1, <1>2, <1>3, <1>4, <2>1, <2>2
    <2>3. CASE x # b
      BY <1>3, <1>4, <2>1, <2>3
    <2> QED BY <2>2, <2>3
  <1>6. \A x \in Blocks \ l : m2[x] = {}
    BY <1>3 DEF Memory
  <1> QED BY <1>1, <1>3, <1>4, <1>5, <1>6 DEF Memory, m2, d2, row

LEMMA CellsFinite ==
  ASSUME NEW B \in SUBSET Blocks, NEW m
  PROVE  /\ IsFiniteSet(B) /\ IsFiniteSet(Cells(m, B)) /\ Cardinality(Cells(m, B)) \in Nat
         /\ Cardinality(B) \in Nat
         /\ Cardinality(B \X Slots) = Cardinality(B) * N /\ IsFiniteSet(B \X Slots)
  <1>1. IsFiniteSet(B)
    BY HubAssumption, FS_Subset
  <1>2. IsFiniteSet(B \X Slots) /\ Cardinality(B \X Slots) = Cardinality(B) * N
    BY <1>1, SlotFacts, FS_Product
  <1>3. IsFiniteSet(Cells(m, B))
    <2>1. Cells(m, B) \in SUBSET (B \X Slots)
      BY DEF Cells
    <2> QED BY <1>2, <2>1, FS_Subset
  <1> QED BY <1>1, <1>2, <1>3, FS_CardinalityType

\* The cells of one block and those of the others.
LEMMA CellsSplit ==
  ASSUME NEW B \in SUBSET Blocks, NEW m, NEW b \in B, m[b] \subseteq Slots
  PROVE  Cardinality(Cells(m, B)) = Cardinality(Cells(m, B \ {b})) + Cardinality(m[b])
  <1> DEFINE C == Cells(m, B \ {b})
             D == {b} \X m[b]
  <1>1. IsFiniteSet(C) /\ Cardinality(C) \in Nat
    <2>1. B \ {b} \in SUBSET Blocks
      OBVIOUS
    <2> QED BY <2>1, CellsFinite
  <1>2. IsFiniteSet(m[b]) /\ Cardinality(m[b]) \in Nat
    BY SomeSlots, SlotFacts
  <1>3. IsFiniteSet(D) /\ Cardinality(D) = Cardinality(m[b])
    <2>1. IsFiniteSet({b}) /\ Cardinality({b}) = 1
      BY FS_Singleton
    <2>2. IsFiniteSet(D) /\ Cardinality(D) = Cardinality({b}) * Cardinality(m[b])
      BY <1>2, <2>1, FS_Product
    <2> QED BY <1>2, <2>1, <2>2
  <1>4. C \cup D = Cells(m, B) /\ C \cap D = {}
    BY DEF Cells
  <1>5. Cardinality(C \cup D) = Cardinality(C) + Cardinality(D) - Cardinality(C \cap D)
    BY <1>1, <1>3, FS_Union
  <1>6. Cardinality(C \cap D) = 0
    BY <1>4, FS_EmptySet
  <1>7. Cardinality(C \cup D) = Cardinality(C) + Cardinality(m[b])
    <2> HIDE DEF C, D
    <2> QED BY <1>1, <1>2, <1>3, <1>5, <1>6
  <1> QED BY <1>4, <1>7

LEMMA SameCells ==
  ASSUME NEW B, NEW m, NEW m2, \A b \in B : m2[b] = m[b]
  PROVE  Cells(m2, B) = Cells(m, B)
  BY DEF Cells

\* A change at one block.
LEMMA CellsChange ==
  ASSUME NEW B \in SUBSET Blocks, NEW m, NEW m2, NEW b \in B, m[b] \subseteq Slots, m2[b] \subseteq Slots,
         \A x \in B \ {b} : m2[x] = m[x]
  PROVE  Cardinality(Cells(m2, B)) = Cardinality(Cells(m, B)) - Cardinality(m[b]) + Cardinality(m2[b])
  <1>1. Cells(m2, B \ {b}) = Cells(m, B \ {b})
    BY SameCells
  <1> DEFINE c == Cardinality(Cells(m, B \ {b}))
  <1>2. c \in Nat
    <2>1. B \ {b} \in SUBSET Blocks
      OBVIOUS
    <2> QED BY <2>1, CellsFinite
  <1>3. Cardinality(m[b]) \in Nat /\ Cardinality(m2[b]) \in Nat
    BY SomeSlots, SlotFacts
  <1>4. Cardinality(Cells(m, B)) = c + Cardinality(m[b])
    BY CellsSplit
  <1>5. Cardinality(Cells(m2, B)) = c + Cardinality(m2[b])
    <2>1. Cardinality(Cells(m2, B)) = Cardinality(Cells(m2, B \ {b})) + Cardinality(m2[b])
      BY CellsSplit
    <2> QED BY <1>1, <2>1
  <1> HIDE DEF c
  <1> QED BY <1>2, <1>3, <1>4, <1>5

\* At most N for each block that has any; N for each if they all are full.
LEMMA CellsBound ==
  ASSUME NEW B \in SUBSET Blocks, NEW m, \A b \in B : m[b] \subseteq Slots
  PROVE  /\ Cardinality(Cells(m, B)) <= Cardinality({b \in B : m[b] # {}}) * N
         /\ Cardinality({b \in B : m[b] # {}}) <= Cardinality(B)
         /\ (\A b \in B : m[b] = Slots) => Cardinality(Cells(m, B)) = Cardinality(B) * N
  <1> DEFINE A == {b \in B : m[b] # {}}
  <1>1. A \in SUBSET Blocks /\ A \in SUBSET B
    OBVIOUS
  <1>2. IsFiniteSet(A \X Slots) /\ Cardinality(A \X Slots) = Cardinality(A) * N
    BY <1>1, CellsFinite
  <1>3. Cells(m, B) \in SUBSET (A \X Slots)
    BY DEF Cells
  <1>4. Cardinality(Cells(m, B)) <= Cardinality(A \X Slots)
    BY <1>2, <1>3, FS_Subset
  <1>5. Cardinality(A) <= Cardinality(B)
    <2>1. IsFiniteSet(B)
      BY CellsFinite
    <2> QED BY <1>1, <2>1, FS_Subset
  <1>6. ASSUME \A b \in B : m[b] = Slots PROVE Cardinality(Cells(m, B)) = Cardinality(B) * N
    <2>1. Cells(m, B) = B \X Slots
      BY <1>6 DEF Cells
    <2> QED BY <2>1, CellsFinite
  <1> QED BY <1>2, <1>4, <1>5, <1>6

-----------------------------------------------------------------------------
(* The lists of one hub: B are its blocks *)

ActiveSound(a, m, B) == a \in Seq(Blocks) /\ Distinct(a) /\ ToSet(a) = {b \in B : m[b] # {}}

ReservedLast(v, m) == \A x, y \in ToSet(v) : Prec(v, x, y) /\ m[x] = {} => m[y] = {}

AvailableSound(v, m, B) ==
  v \in Seq(Blocks) /\ Distinct(v) /\ ToSet(v) = {b \in B : m[b] # Slots} /\ ReservedLast(v, m)

\* t has the available blocks but b.
OtherAvailable(t, m, b, B) ==
  t \in Seq(Blocks) /\ Distinct(t) /\ ToSet(t) = {x \in B : m[x] # Slots} \ {b} /\ ReservedLast(t, m)

\* Only block b differs.
ChangedAt(m, m2, b, B) ==
  /\ B \subseteq Blocks /\ b \in B /\ m \in [Blocks -> SUBSET Slots] /\ m2 \in [Blocks -> SUBSET Slots]
  /\ \A x \in Blocks : x # b => m2[x] = m[x]

LEMMA PrecFacts ==
  ASSUME NEW S, NEW l \in Seq(S)
  PROVE  /\ \A x, y : Prec(l, x, y) => x \in ToSet(l) /\ y \in ToSet(l)
         /\ Distinct(l) => \A x, y : Prec(l, x, y) => x # y
         /\ Distinct(l) /\ l # <<>> => \A x : ~Prec(l, x, Head(l))
  <1>1. DOMAIN l = 1 .. Len(l) /\ Len(l) \in Nat
    OBVIOUS
  <1>2. ASSUME Distinct(l), l # <<>>, NEW x, Prec(l, x, Head(l)) PROVE FALSE
    <2>1. Head(l) = l[1] /\ 1 \in DOMAIN l
      BY <1>2
    <2>2. PICK i \in DOMAIN l, j \in DOMAIN l : i < j /\ l[i] = x /\ l[j] = l[1]
      BY <1>2, <2>1 DEF Prec
    <2>3. j = 1
      BY <1>2, <2>1, <2>2 DEF Distinct
    <2> QED BY <1>1, <2>2, <2>3
  <1>3. \A x, y : Prec(l, x, y) => x \in ToSet(l) /\ y \in ToSet(l)
    BY DEF Prec, ToSet
  <1>4. ASSUME Distinct(l), NEW x, NEW y, Prec(l, x, y) PROVE x # y
    <2>1. PICK i \in DOMAIN l, j \in DOMAIN l : i < j /\ l[i] = x /\ l[j] = y
      BY <1>4 DEF Prec
    <2> QED BY <1>1, <1>4, <2>1 DEF Distinct
  <1> QED BY <1>2, <1>3, <1>4

LEMMA SameActive ==
  ASSUME NEW a, NEW m, NEW m2, NEW B, ActiveSound(a, m, B), \A x \in B : m2[x] = {} <=> m[x] = {}
  PROVE  ActiveSound(a, m2, B)
  BY DEF ActiveSound

LEMMA SameAvailable ==
  ASSUME NEW v, NEW m, NEW m2, NEW B, AvailableSound(v, m, B),
         \A x \in B : m2[x] = {} <=> m[x] = {}, \A x \in B : m2[x] = Slots <=> m[x] = Slots
  PROVE  AvailableSound(v, m2, B)
  <1>1. ToSet(v) = {b \in B : m2[b] # Slots}
    BY DEF AvailableSound
  <1>2. ReservedLast(v, m2)
    BY <1>1 DEF AvailableSound, ReservedLast
  <1> QED BY <1>1, <1>2 DEF AvailableSound

\* The first element, the last one.
LEMMA FirstElement ==
  ASSUME NEW a, NEW m, NEW m2, NEW B, NEW b, ChangedAt(m, m2, b, B), ActiveSound(a, m, B),
         m[b] = {}, m2[b] # {}
  PROVE  ActiveSound(Append(a, b), m2, B)
  <1>1. b \notin ToSet(a) /\ b \in Blocks
    BY DEF ActiveSound, ChangedAt
  <1>2. Append(a, b) \in Seq(Blocks) /\ Distinct(Append(a, b)) /\ ToSet(Append(a, b)) = ToSet(a) \cup {b}
    BY <1>1, AppendDistinct DEF ActiveSound
  <1> QED BY <1>2 DEF ActiveSound, ChangedAt

LEMMA LastElement ==
  ASSUME NEW a, NEW m, NEW m2, NEW B, NEW b, ChangedAt(m, m2, b, B), ActiveSound(a, m, B), m2[b] = {}
  PROVE  ActiveSound(Without(a, b), m2, B)
  <1>1. Without(a, b) \in Seq(Blocks) /\ Distinct(Without(a, b)) /\ ToSet(Without(a, b)) = ToSet(a) \ {b}
    BY WithoutOf DEF ActiveSound
  <1> QED BY <1>1 DEF ActiveSound, ChangedAt

\* A full block is unlinked.
LEMMA NowFull ==
  ASSUME NEW v, NEW m, NEW m2, NEW B, NEW b, ChangedAt(m, m2, b, B), AvailableSound(v, m, B), m2[b] = Slots
  PROVE  AvailableSound(Without(v, b), m2, B)
  <1> DEFINE t == Without(v, b)
  <1>1. /\ t \in Seq(Blocks) /\ Distinct(t) /\ ToSet(t) = ToSet(v) \ {b}
        /\ \A x, y : Prec(t, x, y) => Prec(v, x, y)
    BY WithoutOf DEF AvailableSound
  <1> HIDE DEF t
  <1>2. ToSet(t) = {x \in B : m2[x] # Slots}
    BY <1>1 DEF AvailableSound, ChangedAt
  <1>3. ReservedLast(t, m2)
    <2> SUFFICES ASSUME NEW x \in ToSet(t), NEW y \in ToSet(t), Prec(t, x, y), m2[x] = {} PROVE m2[y] = {}
      BY DEF ReservedLast
    <2>1. x \in ToSet(v) /\ y \in ToSet(v) /\ x # b /\ y # b /\ x \in B /\ y \in B /\ Prec(v, x, y)
      BY <1>1, <1>2
    <2>2. m2[x] = m[x] /\ m2[y] = m[y]
      BY <2>1 DEF ChangedAt
    <2> QED BY <2>1, <2>2 DEF AvailableSound, ReservedLast
  <1> QED BY <1>1, <1>2, <1>3 DEF AvailableSound, t

LEMMA HeadNowFull ==
  ASSUME NEW v, NEW m, NEW m2, NEW B, NEW b, ChangedAt(m, m2, b, B), AvailableSound(v, m, B),
         m2[b] = Slots, v # <<>>, b = Head(v)
  PROVE  AvailableSound(Tail(v), m2, B)
  <1> DEFINE t == Tail(v)
  <1>1. /\ t \in Seq(Blocks) /\ Distinct(t) /\ ToSet(t) = ToSet(v) \ {b}
        /\ \A x, y : Prec(t, x, y) => Prec(v, x, y)
    BY TailPart DEF AvailableSound
  <1> HIDE DEF t
  <1>2. ToSet(t) = {x \in B : m2[x] # Slots}
    BY <1>1 DEF AvailableSound, ChangedAt
  <1>3. ReservedLast(t, m2)
    <2> SUFFICES ASSUME NEW x \in ToSet(t), NEW y \in ToSet(t), Prec(t, x, y), m2[x] = {} PROVE m2[y] = {}
      BY DEF ReservedLast
    <2>1. x \in ToSet(v) /\ y \in ToSet(v) /\ x # b /\ y # b /\ x \in B /\ y \in B /\ Prec(v, x, y)
      BY <1>1, <1>2
    <2>2. m2[x] = m[x] /\ m2[y] = m[y]
      BY <2>1 DEF ChangedAt
    <2> QED BY <2>1, <2>2 DEF AvailableSound, ReservedLast
  <1> QED BY <1>1, <1>2, <1>3 DEF AvailableSound, t

\* The first available block gets an element and has room left.
LEMMA HeadStays ==
  ASSUME NEW v, NEW m, NEW m2, NEW B, NEW b, ChangedAt(m, m2, b, B), AvailableSound(v, m, B),
         m2[b] # Slots, m2[b] # {}, v # <<>>, b = Head(v)
  PROVE  AvailableSound(v, m2, B)
  <1>1. v \in Seq(Blocks) /\ Distinct(v) /\ b \in ToSet(v)
    BY TailPart DEF AvailableSound
  <1>2. ToSet(v) = {x \in B : m2[x] # Slots}
    BY <1>1 DEF AvailableSound, ChangedAt
  <1>3. ReservedLast(v, m2)
    <2> SUFFICES ASSUME NEW x \in ToSet(v), NEW y \in ToSet(v), Prec(v, x, y), m2[x] = {} PROVE m2[y] = {}
      BY DEF ReservedLast
    <2>1. y # b
      BY <1>1, PrecFacts
    <2>2. m2[x] = m[x] /\ m2[y] = m[y]
      BY <1>2, <2>1 DEF ChangedAt
    <2> QED BY <2>2 DEF AvailableSound, ReservedLast
  <1> QED BY <1>1, <1>2, <1>3 DEF AvailableSound

\* A block that was full is linked in front.
LEMMA NowRoom ==
  ASSUME NEW v, NEW m, NEW m2, NEW B, NEW b, ChangedAt(m, m2, b, B), AvailableSound(v, m, B),
         m[b] = Slots, m2[b] # Slots, m2[b] # {}
  PROVE  AvailableSound(<<b>> \o v, m2, B)
  <1> DEFINE t == <<b>> \o v
  <1>1. b \in Blocks /\ v \in Seq(Blocks) /\ Distinct(v) /\ b \notin ToSet(v)
    BY DEF AvailableSound, ChangedAt
  <1>2. t \in Seq(Blocks) /\ Distinct(t) /\ ToSet(t) = ToSet(v) \cup {b}
    BY <1>1, PrependDistinct
  <1>3. \A x, y : Prec(t, x, y) => Prec(v, x, y) \/ (x = b /\ y \in ToSet(v))
    BY <1>1, PrependPrec
  <1> HIDE DEF t
  <1>4. ToSet(t) = {x \in B : m2[x] # Slots}
    BY <1>2 DEF AvailableSound, ChangedAt
  <1>5. ReservedLast(t, m2)
    <2> SUFFICES ASSUME NEW x \in ToSet(t), NEW y \in ToSet(t), Prec(t, x, y), m2[x] = {} PROVE m2[y] = {}
      BY DEF ReservedLast
    <2>1. Prec(v, x, y)
      BY <1>3
    <2>2. x \in ToSet(v) /\ y \in ToSet(v)
      BY <1>1, <2>1, PrecFacts
    <2>3. m2[x] = m[x] /\ m2[y] = m[y]
      BY <1>1, <1>4, <2>2 DEF ChangedAt
    <2> QED BY <2>1, <2>2, <2>3 DEF AvailableSound, ReservedLast
  <1> QED BY <1>2, <1>4, <1>5 DEF AvailableSound, t

\* A block without elements is linked behind the others.
LEMMA NowReserved ==
  ASSUME NEW v, NEW m, NEW m2, NEW B, NEW b, ChangedAt(m, m2, b, B), m2[b] = {}, OtherAvailable(v, m, b, B)
  PROVE  AvailableSound(Append(v, b), m2, B)
  <1> DEFINE t == Append(v, b)
  <1>0. v \in Seq(Blocks) /\ Distinct(v) /\ ToSet(v) = {x \in B : m[x] # Slots} \ {b} /\ ReservedLast(v, m)
    BY DEF OtherAvailable
  <1>1. b \in Blocks /\ b \notin ToSet(v)
    BY <1>0 DEF ChangedAt
  <1>2. t \in Seq(Blocks) /\ Distinct(t) /\ ToSet(t) = ToSet(v) \cup {b}
    BY <1>0, <1>1, AppendDistinct
  <1>3. \A x, y : Prec(t, x, y) => Prec(v, x, y) \/ (y = b /\ x \in ToSet(v))
    BY <1>0, <1>1, AppendPrec
  <1> HIDE DEF t
  <1>4. ToSet(t) = {x \in B : m2[x] # Slots}
    <2>1. {} # Slots
      BY SlotFacts
    <2> QED BY <1>0, <1>2, <2>1 DEF ChangedAt
  <1>5. ReservedLast(t, m2)
    <2> SUFFICES ASSUME NEW x \in ToSet(t), NEW y \in ToSet(t), Prec(t, x, y), m2[x] = {}, y # b PROVE m2[y] = {}
      BY DEF ReservedLast
    <2>1. Prec(v, x, y)
      BY <1>3
    <2>2. x \in ToSet(v) /\ y \in ToSet(v)
      BY <1>0, <2>1, PrecFacts
    <2>3. m2[x] = m[x] /\ m2[y] = m[y]
      BY <1>0, <1>1, <1>4, <2>2 DEF ChangedAt
    <2> QED BY <1>0, <2>1, <2>2, <2>3 DEF ReservedLast
  <1> QED BY <1>2, <1>4, <1>5 DEF AvailableSound, t

\* What is left without b, wherever it was.
LEMMA RestAvailable ==
  ASSUME NEW v, NEW m, NEW B, NEW b, AvailableSound(v, m, B)
  PROVE  OtherAvailable(Without(v, b), m, b, B)
  <1> DEFINE t == Without(v, b)
  <1>1. /\ t \in Seq(Blocks) /\ Distinct(t) /\ ToSet(t) = ToSet(v) \ {b}
        /\ \A x, y : Prec(t, x, y) => Prec(v, x, y)
    BY WithoutOf DEF AvailableSound
  <1> HIDE DEF t
  <1>2. ReservedLast(t, m)
    BY <1>1 DEF AvailableSound, ReservedLast
  <1> QED BY <1>1, <1>2 DEF AvailableSound, OtherAvailable, t

-----------------------------------------------------------------------------
(* A hub and what its member functions do to it: B are its blocks, F those *)
(* of the others *)

Rows == [Blocks -> [Slots -> Values \cup {Raw}]]

States ==
  [active : Seq(Blocks), available : Seq(Blocks), num : Nat, size : Nat,
   mask : [Blocks -> SUBSET Slots], data : Rows, lent : SUBSET Blocks]

\* The hub with these.
Fields(a, v, k, z, m, d, l) ==
  [active : {a}, available : {v}, num : {k}, size : {z}, mask : {m}, data : {d}, lent : {l}]

Good(s, B, F) ==
  /\ s \in States /\ Memory(s.mask, s.data, s.lent)
  /\ ActiveSound(s.active, s.mask, B) /\ AvailableSound(s.available, s.mask, B)
  /\ s.num = Cardinality(B) /\ s.size = Cardinality(Cells(s.mask, B))
  /\ B \cap F = {} /\ s.lent = B \cup F

\* What a member function leaves alone, what an insertion and an erasure do.
Framed(s, t, F) == \A b \in F : t.mask[b] = s.mask[b] /\ t.data[b] = s.data[b]
Grows(s, t)   == \A b \in Blocks : s.mask[b] \subseteq t.mask[b] /\ \A n \in s.mask[b] : t.data[b][n] = s.data[b][n]
Shrinks(s, t) == \A b \in Blocks : t.mask[b] \subseteq s.mask[b] /\ \A n \in t.mask[b] : t.data[b][n] = s.data[b][n]

LEMMA FieldsOf ==
  ASSUME NEW a, NEW v, NEW k, NEW z, NEW m, NEW d, NEW l, NEW s \in Fields(a, v, k, z, m, d, l)
  PROVE  s.active = a /\ s.available = v /\ s.num = k /\ s.size = z /\ s.mask = m /\ s.data = d /\ s.lent = l
  BY DEF Fields

LEMMA MakeGood ==
  ASSUME NEW B, NEW F, NEW a, NEW v, NEW k, NEW z, NEW m, NEW d, NEW l, NEW s \in Fields(a, v, k, z, m, d, l),
         Memory(m, d, l), ActiveSound(a, m, B), AvailableSound(v, m, B),
         k = Cardinality(B), z = Cardinality(Cells(m, B)), B \cap F = {}, l = B \cup F
  PROVE  Good(s, B, F)
  <1>1. B \in SUBSET Blocks /\ l \subseteq Blocks
    BY DEF Memory
  <1>2. k \in Nat /\ z \in Nat
    BY <1>1, CellsFinite
  <1>3. s \in States
    BY <1>1, <1>2 DEF Fields, States, Rows, Memory, ActiveSound, AvailableSound
  <1> QED BY <1>3, FieldsOf DEF Good

LEMMA GoodFacts ==
  ASSUME NEW s, NEW B, NEW F, Good(s, B, F)
  PROVE  /\ B \in SUBSET Blocks /\ B \subseteq s.lent /\ s.lent \subseteq Blocks
         /\ s.mask \in [Blocks -> SUBSET Slots] /\ \A b \in Blocks : s.mask[b] \subseteq Slots
         /\ s.data \in Rows /\ \A b \in Blocks : s.data[b] \in [Slots -> Values \cup {Raw}]
         /\ s.active \in Seq(Blocks) /\ s.available \in Seq(Blocks) /\ s.num \in Nat /\ s.size \in Nat
         /\ Distinct(s.active) /\ Distinct(s.available)
         /\ \A b \in Blocks : \A n \in s.mask[b] : n \in Slots /\ s.data[b][n] \in Values
         /\ B = ToSet(s.active) \cup ToSet(s.available)
         /\ \A b \in B : b \in ToSet(s.active) <=> s.mask[b] # {}
         /\ \A b \in B : b \in ToSet(s.available) <=> s.mask[b] # Slots
  <1>1. s \in States /\ Memory(s.mask, s.data, s.lent)
    BY DEF Good
  <1>2. B \in SUBSET Blocks /\ B \subseteq s.lent /\ s.lent \subseteq Blocks
    BY DEF Good, Memory
  <1>3. s.mask \in [Blocks -> SUBSET Slots] /\ s.data \in Rows
    BY <1>1 DEF States
  <1>4. \A b \in Blocks : s.mask[b] \subseteq Slots /\ s.data[b] \in [Slots -> Values \cup {Raw}]
    BY <1>3 DEF Rows
  <1>5. \A b \in Blocks : \A n \in s.mask[b] : n \in Slots /\ s.data[b][n] \in Values
    BY <1>1, <1>4 DEF Memory
  <1>6. s.active \in Seq(Blocks) /\ s.available \in Seq(Blocks) /\ s.num \in Nat /\ s.size \in Nat
    BY <1>1 DEF States
  <1>7. B = ToSet(s.active) \cup ToSet(s.available)
    <2>1. {} # Slots
      BY SlotFacts
    <2> QED BY <2>1 DEF Good, ActiveSound, AvailableSound
  <1>8. Distinct(s.active) /\ Distinct(s.available)
    BY DEF Good, ActiveSound, AvailableSound
  <1>9. /\ \A b \in B : b \in ToSet(s.active) <=> s.mask[b] # {}
        /\ \A b \in B : b \in ToSet(s.available) <=> s.mask[b] # Slots
    BY DEF Good, ActiveSound, AvailableSound
  <1> QED BY <1>2, <1>3, <1>4, <1>5, <1>6, <1>7, <1>8, <1>9

\* The two writes.
LEMMA PutIs ==
  ASSUME NEW s \in States, NEW b \in Blocks, NEW n \in Slots, NEW v
  PROVE  Put(s, b, n, v) \in Fields(s.active, s.available, s.num, s.size, [s.mask EXCEPT ![b] = s.mask[b] \cup {n}],
                                    [s.data EXCEPT ![b] = [s.data[b] EXCEPT ![n] = v]], s.lent)
  BY DEF Put, Fields, States

LEMMA FreedIs ==
  ASSUME NEW s \in States, NEW b \in Blocks, NEW n \in Slots
  PROVE  Freed(s, b, n) \in Fields(s.active, s.available, s.num, s.size, [s.mask EXCEPT ![b] = s.mask[b] \ {n}],
                                   [s.data EXCEPT ![b] = [s.data[b] EXCEPT ![n] = Raw]], s.lent)
  BY DEF Freed, Fields, States

\* create_new_available_block
LEMMA NewBlockGood ==
  ASSUME NEW s, NEW B, NEW F, Good(s, B, F), Blocks \ s.lent # {}
  PROVE  LET t == NewBlock(s) IN
         \E b \in Blocks \ s.lent :
           /\ Good(t, B \cup {b}, F) /\ t.available = Append(s.available, b) /\ t.active = s.active
           /\ t.mask = s.mask /\ t.data = s.data /\ t.size = s.size /\ t.num = s.num + 1
           /\ t.lent = s.lent \cup {b}
  <1> DEFINE b == CHOOSE x \in Blocks : x \notin s.lent
             B2 == B \cup {b}
             m == s.mask
             v == Append(s.available, b)
             l == s.lent \cup {b}
             t == NewBlock(s)
  <1>1. b \in Blocks \ s.lent
    OBVIOUS
  <1>2. t \in Fields(s.active, v, s.num + 1, s.size, m, s.data, l)
    <2>1. s \in States
      BY DEF Good
    <2> QED BY <2>1 DEF States, Fields, NewBlock
  <1> HIDE DEF b, t
  <1>3. m[b] = {} /\ b \notin B
    BY <1>1, GoodFacts DEF Good, Memory
  <1>4. Memory(m, s.data, l)
    BY <1>1 DEF Good, Memory
  <1>5. ActiveSound(s.active, m, B2)
    BY <1>3 DEF Good, ActiveSound
  <1>6. AvailableSound(v, m, B2)
    <2>1. ChangedAt(m, m, b, B2)
      BY <1>1, GoodFacts DEF ChangedAt
    <2>2. OtherAvailable(s.available, m, b, B2)
      BY <1>3 DEF Good, AvailableSound, OtherAvailable
    <2> HIDE DEF B2, m
    <2> QED BY <1>3, <2>1, <2>2, NowReserved
  <1>7. s.num + 1 = Cardinality(B2) /\ s.size = Cardinality(Cells(m, B2))
    <2>0. B \in SUBSET Blocks
      BY GoodFacts
    <2>1. IsFiniteSet(B) /\ s.num = Cardinality(B) /\ s.size = Cardinality(Cells(m, B))
      BY <2>0, CellsFinite DEF Good
    <2>2. Cardinality(B2) = Cardinality(B) + 1
      BY <1>3, <2>1, FS_AddElement
    <2>3. Cells(m, B2) = Cells(m, B)
      BY <1>3 DEF Cells
    <2> QED BY <2>1, <2>2, <2>3
  <1>8. B2 \cap F = {} /\ l = B2 \cup F
    BY <1>1 DEF Good
  <1>9. Good(t, B2, F)
    <2> HIDE DEF B2, m, v, l
    <2> QED BY <1>2, <1>4, <1>5, <1>6, <1>7, <1>8, MakeGood
  <1>10. /\ t.available = v /\ t.active = s.active /\ t.mask = s.mask /\ t.data = s.data /\ t.size = s.size
         /\ t.num = s.num + 1 /\ t.lent = l
    <2> DEFINE k == s.num + 1
    <2>1. t \in Fields(s.active, v, k, s.size, m, s.data, l)
      BY <1>2
    <2> HIDE DEF m, v, l, k
    <2>2. /\ t.available = v /\ t.active = s.active /\ t.mask = m /\ t.data = s.data /\ t.size = s.size
          /\ t.num = k /\ t.lent = l
      BY <2>1, FieldsOf
    <2> QED BY <2>2 DEF k, m
  <1> QED BY <1>1, <1>9, <1>10 DEF t

\* A block that is given back before it is linked leaves no trace.
LEMMA NewBlockThrowsIs ==
  ASSUME NEW s \in States, Blocks \ s.lent # {}
  PROVE  NewBlockThrows(s) = s
  <1> DEFINE b == CHOOSE x \in Blocks : x \notin s.lent
  <1>1. b \notin s.lent
    OBVIOUS
  <1> DEFINE a == [s EXCEPT !.lent = @ \cup {b}]
  <1>2. NewBlockThrows(s) \in Fields(s.active, s.available, s.num, s.size, s.mask, s.data, (s.lent \cup {b}) \ {b})
    <2>1. a \in Fields(s.active, s.available, s.num, s.size, s.mask, s.data, s.lent \cup {b})
      BY DEF Fields, States
    <2>2. NewBlockThrows(s) = [a EXCEPT !.lent = @ \ {b}]
      BY DEF NewBlockThrows
    <2> HIDE DEF a, b
    <2> QED BY <2>1, <2>2 DEF Fields
  <1>3. s \in Fields(s.active, s.available, s.num, s.size, s.mask, s.data, s.lent)
    BY DEF Fields, States
  <1> HIDE DEF b
  <1>4. (s.lent \cup {b}) \ {b} = s.lent
    BY <1>1
  <1> QED BY <1>2, <1>3, <1>4 DEF Fields

\* delete_block, of a reserved one
LEMMA DeletedGood ==
  ASSUME NEW s, NEW B, NEW F, Good(s, B, F), NEW b \in B, s.mask[b] = {}
  PROVE  LET t == Deleted(s, b) IN
         /\ Good(t, B \ {b}, F) /\ t.available = Without(s.available, b) /\ t.active = s.active
         /\ t.mask = s.mask /\ t.data = s.data
  <1> DEFINE B2 == B \ {b}
             m == s.mask
             v == Without(s.available, b)
             l == s.lent \ {b}
             t == Deleted(s, b)
  <1>1. t \in Fields(s.active, v, s.num - 1, s.size, m, s.data, l)
    <2>1. s \in States
      BY DEF Good
    <2> QED BY <2>1 DEF States, Fields, Deleted
  <1> HIDE DEF t
  <1>2. Memory(m, s.data, l)
    BY DEF Good, Memory
  <1>3. ActiveSound(s.active, m, B2)
    BY DEF Good, ActiveSound
  <1>4. AvailableSound(v, m, B2)
    <2>1. OtherAvailable(v, m, b, B)
      BY RestAvailable DEF Good
    <2> HIDE DEF v
    <2> QED BY <2>1 DEF AvailableSound, OtherAvailable
  <1>5. s.num - 1 = Cardinality(B2) /\ s.size = Cardinality(Cells(m, B2))
    <2>0. B \in SUBSET Blocks
      BY GoodFacts
    <2>1. IsFiniteSet(B) /\ s.num = Cardinality(B) /\ s.size = Cardinality(Cells(m, B))
      BY <2>0, CellsFinite DEF Good
    <2>2. Cardinality(B2) = Cardinality(B) - 1
      BY <2>1, FS_RemoveElement
    <2>3. Cells(m, B2) = Cells(m, B)
      BY DEF Cells
    <2> QED BY <2>1, <2>2, <2>3
  <1>6. B2 \cap F = {} /\ l = B2 \cup F
    BY DEF Good
  <1>7. Good(t, B2, F)
    <2> HIDE DEF B2, m, v, l
    <2> QED BY <1>1, <1>2, <1>3, <1>4, <1>5, <1>6, MakeGood
  <1>8. t.available = v /\ t.active = s.active /\ t.mask = s.mask /\ t.data = s.data
    BY <1>1, FieldsOf
  <1> QED BY <1>7, <1>8 DEF t

\* The hole of a block with room.
LEMMA HoleIn ==
  ASSUME NEW s, NEW b, s.mask[b] \subseteq Slots, s.mask[b] # Slots
  PROVE  Hole(s, b) \in Slots \ s.mask[b]
  <1> DEFINE T == Slots \ s.mask[b]
  <1>1. T \subseteq Nat /\ T # {}
    BY SlotFacts
  <1> HIDE DEF T
  <1>2. \E n \in T : \A m \in T : n <= m
    BY <1>1, LeastElement
  <1>3. Lowest(T) \in T
    BY <1>2 DEF Lowest
  <1> QED BY <1>3 DEF T, Hole

\* Only block b of the hub differs.
ChangesAt(s, t, b) == \A x \in Blocks : x # b => t.mask[x] = s.mask[x] /\ t.data[x] = s.data[x]

LEMMA ChangesFrame ==
  ASSUME NEW s, NEW t, NEW B, NEW F, Good(s, B, F), NEW b \in B, ChangesAt(s, t, b)
  PROVE  Framed(s, t, F)
  <1>1. b \notin F /\ F \subseteq Blocks
    BY GoodFacts DEF Good
  <1> QED BY <1>1 DEF Framed, ChangesAt

LEMMA SizeAfter ==
  ASSUME NEW s, NEW B, NEW F, Good(s, B, F), NEW m, NEW b, ChangedAt(s.mask, m, b, B)
  PROVE  /\ Cardinality(Cells(m, B)) = s.size - Cardinality(s.mask[b]) + Cardinality(m[b])
         /\ Cardinality(s.mask[b]) \in 0 .. N /\ Cardinality(m[b]) \in 0 .. N /\ s.size \in Nat
  <1>1. s.mask[b] \in SUBSET Slots /\ m[b] \in SUBSET Slots /\ b \in B
    BY DEF ChangedAt
  <1>2. B \in SUBSET Blocks
    BY DEF ChangedAt
  <1>3. \A x \in B \ {b} : m[x] = s.mask[x]
    BY DEF ChangedAt
  <1>4. Cardinality(Cells(m, B)) = Cardinality(Cells(s.mask, B)) - Cardinality(s.mask[b]) + Cardinality(m[b])
    <2> DEFINE r == s.mask
    <2>1. r[b] \subseteq Slots /\ m[b] \subseteq Slots
      BY <1>1
    <2>2. \A x \in B \ {b} : m[x] = r[x]
      BY <1>3
    <2> HIDE DEF r
    <2>3. Cardinality(Cells(m, B)) = Cardinality(Cells(r, B)) - Cardinality(r[b]) + Cardinality(m[b])
      BY <1>1, <1>2, <2>1, <2>2, CellsChange
    <2> QED BY <2>3 DEF r
  <1>5. s.size = Cardinality(Cells(s.mask, B))
    BY DEF Good
  <1>6. s.size \in Nat
    BY GoodFacts
  <1> QED BY <1>1, <1>4, <1>5, <1>6, SomeSlots

\* The end of emplace
LEMMA PlaceGood ==
  ASSUME NEW s, NEW B, NEW F, Good(s, B, F), s.available # <<>>, NEW v \in Values
  PROVE  LET t == Place(s, v) IN
         /\ Good(t, B, F) /\ Framed(s, t, F) /\ Grows(s, t)
         /\ t.num = s.num /\ t.size = s.size + 1 /\ t.lent = s.lent
  <1> DEFINE b == Head(s.available)
             n == Hole(s, b)
             m == [s.mask EXCEPT ![b] = s.mask[b] \cup {n}]
             d == [s.data EXCEPT ![b] = [s.data[b] EXCEPT ![n] = v]]
             a == Activated(s, b)
             w == IF m[b] = Slots THEN Tail(s.available) ELSE s.available
             z == s.size + 1
             u == Put(s, b, n, v)
             t == Place(s, v)
  <1>1. b \in B /\ b \in Blocks /\ b \in s.lent /\ b \in ToSet(s.available)
    BY GoodFacts, TailPart
  <1>2. s.mask[b] \subseteq Slots /\ s.mask[b] # Slots /\ s.mask \in [Blocks -> SUBSET Slots]
        /\ s.data[b] \in [Slots -> Values \cup {Raw}] /\ s.data \in Rows
    BY <1>1, GoodFacts
  <1>3. n \in Slots /\ n \notin s.mask[b]
    BY <1>2, HoleIn
  <1> HIDE DEF b, n
  <1>4. u \in Fields(s.active, s.available, s.num, s.size, m, d, s.lent)
    BY <1>1, <1>3, PutIs DEF Good
  <1>5. t = [u EXCEPT !.active = a, !.available = IF u.mask[b] = Slots THEN Tail(@) ELSE @, !.size = @ + 1]
    BY DEF Place, b, n
  <1>6. t \in Fields(a, w, s.num, z, m, d, s.lent)
    <2>1. u.mask = m
      <3> HIDE DEF m, d, u
      <3> QED BY <1>4, FieldsOf
    <2> HIDE DEF m, d, u, a, t
    <2> QED BY <1>4, <1>5, <2>1 DEF Fields
  <1>7. m[b] = s.mask[b] \cup {n} /\ m \in [Blocks -> SUBSET Slots]
        /\ \A x \in Blocks : x # b => m[x] = s.mask[x]
    BY <1>1, <1>2, <1>3
  <1>8. d[b] = [s.data[b] EXCEPT ![n] = v] /\ \A x \in Blocks : x # b => d[x] = s.data[x]
    BY <1>1, <1>2 DEF Rows
  <1>9. Memory(m, d, s.lent)
    BY <1>1, <1>3, PutMemory DEF Good
  <1>10. ChangedAt(s.mask, m, b, B)
    <2> HIDE DEF m
    <2> QED BY <1>1, <1>2, <1>7, GoodFacts DEF ChangedAt
  <1> HIDE DEF m, u, t
  <1>11. ActiveSound(a, m, B)
    <2>1. ActiveSound(s.active, s.mask, B) /\ m[b] # {}
      BY <1>7 DEF Good
    <2>2. CASE s.mask[b] = {}
      BY <1>10, <2>1, <2>2, FirstElement DEF Activated
    <2>3. CASE s.mask[b] # {}
      <3>1. \A x \in B : m[x] = {} <=> s.mask[x] = {}
        BY <1>7, <2>1, <2>3, GoodFacts
      <3> QED BY <2>1, <2>3, <3>1, SameActive DEF Activated
    <2> QED BY <2>2, <2>3
  <1>12. AvailableSound(w, m, B)
    <2>1. AvailableSound(s.available, s.mask, B) /\ m[b] # {}
      BY <1>7 DEF Good
    <2>2. CASE m[b] = Slots
      BY <1>10, <2>1, <2>2, HeadNowFull DEF b
    <2>3. CASE m[b] # Slots
      BY <1>10, <2>1, <2>3, HeadStays DEF b
    <2> QED BY <2>2, <2>3
  <1>13. z = Cardinality(Cells(m, B))
    <2>1. Cardinality(m[b]) = Cardinality(s.mask[b]) + 1
      BY <1>2, <1>3, <1>7, SlotMore
    <2> QED BY <1>10, <2>1, SizeAfter, SlotFacts
  <1>14. s.num = Cardinality(B) /\ B \cap F = {} /\ s.lent = B \cup F
    BY DEF Good
  <1>15. Good(t, B, F)
    <2> HIDE DEF a, w, z, d
    <2> QED BY <1>6, <1>9, <1>11, <1>12, <1>13, <1>14, MakeGood
  <1>16. t.num = s.num /\ t.size = z /\ t.mask = m /\ t.data = d /\ t.lent = s.lent
    <2> HIDE DEF a, w, z, d
    <2> QED BY <1>6, FieldsOf
  <1> HIDE DEF d
  <1>17. Framed(s, t, F)
    BY <1>1, <1>7, <1>8, <1>16, ChangesFrame DEF ChangesAt
  <1>18. Grows(s, t)
    <2> SUFFICES ASSUME NEW x \in Blocks PROVE s.mask[x] \subseteq m[x] /\ \A k \in s.mask[x] : d[x][k] = s.data[x][k]
      BY <1>16 DEF Grows
    <2>1. CASE x # b
      BY <1>7, <1>8, <2>1
    <2>2. CASE x = b
      BY <1>2, <1>3, <1>7, <1>8, <2>2
    <2> QED BY <2>1, <2>2
  <1> QED BY <1>15, <1>16, <1>17, <1>18 DEF t

\* erase_impl
LEMMA ErasedGood ==
  ASSUME NEW s, NEW B, NEW F, Good(s, B, F), NEW p, p.block \in B, p.slot \in s.mask[p.block]
  PROVE  LET t == Erased(s, p) IN
         /\ Good(t, B, F) /\ Framed(s, t, F) /\ Shrinks(s, t)
         /\ t.mask = [s.mask EXCEPT ![p.block] = s.mask[p.block] \ {p.slot}]
  <1> DEFINE b == p.block
             n == p.slot
             m == [s.mask EXCEPT ![b] = s.mask[b] \ {n}]
             d == [s.data EXCEPT ![b] = [s.data[b] EXCEPT ![n] = Raw]]
             e == m[b] = {}
             y == IF s.mask[b] = Slots THEN <<b>> \o s.available ELSE s.available
             a == IF e THEN Without(s.active, b) ELSE s.active
             w == IF e THEN Append(Without(y, b), b) ELSE y
             z == s.size - 1
             u == Freed(s, b, n)
             t == Erased(s, p)
  <1>1. b \in B /\ b \in Blocks /\ b \in s.lent
    BY GoodFacts
  <1>2. s.mask[b] \subseteq Slots /\ n \in s.mask[b] /\ n \in Slots /\ s.mask \in [Blocks -> SUBSET Slots]
        /\ s.data[b] \in [Slots -> Values \cup {Raw}] /\ s.data \in Rows
    BY <1>1, GoodFacts
  <1> HIDE DEF b, n
  <1>3. u \in Fields(s.active, s.available, s.num, s.size, m, d, s.lent)
    BY <1>1, <1>2, FreedIs DEF Good
  <1>4. u.mask = m
    <2> HIDE DEF m, d, u
    <2> QED BY <1>3, FieldsOf
  <1>5. t \in Fields(a, w, s.num, z, m, d, s.lent)
    <2>1. t = [u EXCEPT !.active = IF u.mask[b] = {} THEN Without(@, b) ELSE @,
                        !.available = IF u.mask[b] = {} THEN Append(Without(y, b), b) ELSE y,
                        !.size = @ - 1]
      BY DEF Erased, b, n
    <2> HIDE DEF m, d, u, t, y
    <2> QED BY <1>3, <1>4, <2>1 DEF Fields
  <1>6. m[b] = s.mask[b] \ {n} /\ m \in [Blocks -> SUBSET Slots]
        /\ \A x \in Blocks : x # b => m[x] = s.mask[x]
    <2>1. s.mask[b] \ {n} \in SUBSET Slots
      BY <1>2
    <2> QED BY <1>1, <1>2, <2>1
  <1>7. d[b] = [s.data[b] EXCEPT ![n] = Raw] /\ \A x \in Blocks : x # b => d[x] = s.data[x]
    BY <1>1, <1>2 DEF Rows
  <1>8. Memory(m, d, s.lent)
    BY <1>1, <1>2, FreedMemory DEF Good
  <1>9. ChangedAt(s.mask, m, b, B)
    <2> HIDE DEF m
    <2> QED BY <1>1, <1>2, <1>6, GoodFacts DEF ChangedAt
  <1>10. m = [s.mask EXCEPT ![p.block] = s.mask[p.block] \ {p.slot}]
    BY DEF b, n
  <1> HIDE DEF m, u, t, d
  <1>11. ActiveSound(a, m, B)
    <2>1. ActiveSound(s.active, s.mask, B)
      BY DEF Good
    <2>2. CASE e
      BY <1>9, <2>1, <2>2, LastElement
    <2>3. CASE ~e
      <3>1. \A x \in B : m[x] = {} <=> s.mask[x] = {}
        BY <1>2, <1>6, <2>3, GoodFacts
      <3> QED BY <2>1, <2>3, <3>1, SameActive
    <2> QED BY <2>2, <2>3
  <1>12. AvailableSound(w, m, B)
    <2>0. AvailableSound(s.available, s.mask, B)
      BY DEF Good
    <2>1. AvailableSound(s.available, s.mask, B) /\ s.available \in Seq(Blocks) /\ Distinct(s.available)
      BY <2>0, GoodFacts
    <2>2. m[b] # Slots
      BY <1>2, <1>6
    <2>3. CASE e
      <3>1. OtherAvailable(Without(y, b), s.mask, b, B)
        <4>1. CASE s.mask[b] # Slots
          <5>1. y = s.available
            BY <4>1
          <5> HIDE DEF y
          <5> QED BY <2>1, <5>1, RestAvailable
        <4>2. CASE s.mask[b] = Slots
          <5>1. b \notin ToSet(s.available)
            BY <1>1, <4>2, GoodFacts
          <5>2. y \in Seq(Blocks) /\ Distinct(y) /\ ToSet(y) = ToSet(s.available) \cup {b}
            BY <1>1, <2>1, <4>2, <5>1, PrependDistinct
          <5>3. \A x1, x2 : Prec(y, x1, x2) => Prec(s.available, x1, x2) \/ (x1 = b /\ x2 \in ToSet(s.available))
            BY <1>1, <2>1, <4>2, PrependPrec
          <5> HIDE DEF y
          <5> DEFINE r == Without(y, b)
          <5>4. /\ r \in Seq(Blocks) /\ Distinct(r) /\ ToSet(r) = ToSet(y) \ {b}
                /\ \A x1, x2 : Prec(r, x1, x2) => Prec(y, x1, x2)
            BY <5>2, WithoutOf
          <5> HIDE DEF r
          <5>5. ReservedLast(r, s.mask)
            <6> SUFFICES ASSUME NEW x1 \in ToSet(r), NEW x2 \in ToSet(r), Prec(r, x1, x2), s.mask[x1] = {}
                         PROVE  s.mask[x2] = {}
              BY DEF ReservedLast
            <6>1. Prec(s.available, x1, x2) /\ x1 \in ToSet(s.available) /\ x2 \in ToSet(s.available)
              BY <5>2, <5>3, <5>4
            <6> QED BY <2>1, <6>1 DEF AvailableSound, ReservedLast
          <5>6. ToSet(r) = {x \in B : s.mask[x] # Slots} \ {b}
            BY <2>1, <5>1, <5>2, <5>4 DEF AvailableSound
          <5> QED BY <5>4, <5>5, <5>6 DEF r, OtherAvailable
        <4> QED BY <4>1, <4>2
      <3> HIDE DEF y
      <3>2. AvailableSound(Append(Without(y, b), b), m, B)
        BY <1>9, <2>3, <3>1, NowReserved
      <3> QED BY <2>3, <3>2
    <2>4. CASE ~e /\ s.mask[b] = Slots
      BY <1>9, <2>1, <2>2, <2>4, NowRoom
    <2>5. CASE ~e /\ s.mask[b] # Slots
      <3>1. (\A x \in B : m[x] = {} <=> s.mask[x] = {}) /\ (\A x \in B : m[x] = Slots <=> s.mask[x] = Slots)
        BY <1>2, <1>6, <2>2, <2>5, GoodFacts
      <3> QED BY <2>1, <2>5, <3>1, SameAvailable
    <2> QED BY <2>3, <2>4, <2>5
  <1>13. z = Cardinality(Cells(m, B))
    <2>1. Cardinality(m[b]) = Cardinality(s.mask[b]) - 1
      BY <1>2, <1>6, SlotLess
    <2> QED BY <1>9, <2>1, SizeAfter, SlotFacts
  <1>14. s.num = Cardinality(B) /\ B \cap F = {} /\ s.lent = B \cup F
    BY DEF Good
  <1>15. Good(t, B, F)
    <2> HIDE DEF a, w, z
    <2> QED BY <1>5, <1>8, <1>11, <1>12, <1>13, <1>14, MakeGood
  <1>16. t.mask = m /\ t.data = d
    <2> HIDE DEF a, w, z
    <2> QED BY <1>5, FieldsOf
  <1>17. Framed(s, t, F)
    BY <1>1, <1>6, <1>7, <1>16, ChangesFrame DEF ChangesAt
  <1>18. Shrinks(s, t)
    <2> SUFFICES ASSUME NEW x \in Blocks PROVE m[x] \subseteq s.mask[x] /\ \A k \in m[x] : d[x][k] = s.data[x][k]
      BY <1>16 DEF Shrinks
    <2>1. CASE x # b
      BY <1>6, <1>7, <2>1
    <2>2. CASE x = b
      BY <1>2, <1>6, <1>7, <2>2
    <2> QED BY <2>1, <2>2
  <1> QED BY <1>10, <1>15, <1>16, <1>17, <1>18 DEF t

\* A whole block is emptied.
LEMMA EmptiedGood ==
  ASSUME NEW s, NEW B, NEW F, Good(s, B, F), NEW b \in B, s.mask[b] # {}
  PROVE  LET t == Emptied(s, b) IN
         /\ Good(t, B, F) /\ Framed(s, t, F) /\ Shrinks(s, t)
         /\ t.mask = [s.mask EXCEPT ![b] = {}]
  <1> DEFINE m == [s.mask EXCEPT ![b] = {}]
             row == [n \in Slots |-> Raw]
             d == [s.data EXCEPT ![b] = row]
             y == IF s.mask[b] = Slots THEN s.available ELSE Without(s.available, b)
             a == Without(s.active, b)
             w == Append(y, b)
             z == s.size - Cardinality(s.mask[b])
             t == Emptied(s, b)
  <1>1. b \in B /\ b \in Blocks /\ b \in s.lent
    BY GoodFacts
  <1>2. s.mask[b] \subseteq Slots /\ s.mask \in [Blocks -> SUBSET Slots] /\ s.data \in Rows
    BY <1>1, GoodFacts
  <1>3. t \in Fields(a, w, s.num, z, m, d, s.lent)
    <2>1. s \in States
      BY DEF Good
    <2> HIDE DEF row
    <2> QED BY <2>1 DEF Emptied, Fields, States, row
  <1>4. m[b] = {} /\ m \in [Blocks -> SUBSET Slots] /\ \A x \in Blocks : x # b => m[x] = s.mask[x]
    BY <1>1, <1>2
  <1>5. row \in [Slots -> Values \cup {Raw}] /\ \A n \in Slots : row[n] = Raw
    OBVIOUS
  <1> HIDE DEF row
  <1>6. d \in Rows /\ d[b] = row /\ \A x \in Blocks : x # b => d[x] = s.data[x]
    BY <1>1, <1>2, <1>5 DEF Rows
  <1> HIDE DEF m, d, t
  <1>7. Memory(m, d, s.lent)
    <2>1. Memory(s.mask, s.data, s.lent)
      BY DEF Good
    <2>2. ASSUME NEW x \in Blocks, NEW n \in Slots PROVE n \in m[x] <=> d[x][n] # Raw
      BY <1>4, <1>5, <1>6, <2>1 DEF Memory
    <2>3. \A x \in Blocks \ s.lent : m[x] = {}
      BY <1>1, <1>4, <2>1 DEF Memory
    <2> QED BY <1>4, <1>6, <2>1, <2>2, <2>3 DEF Memory, Rows
  <1>8. ChangedAt(s.mask, m, b, B)
    BY <1>1, <1>2, <1>4, GoodFacts DEF ChangedAt
  <1>9. ActiveSound(a, m, B)
    <2>1. ActiveSound(s.active, s.mask, B)
      BY DEF Good
    <2> QED BY <1>4, <1>8, <2>1, LastElement
  <1>10. AvailableSound(w, m, B)
    <2>1. AvailableSound(s.available, s.mask, B)
      BY DEF Good
    <2>2. OtherAvailable(y, s.mask, b, B)
      <3>1. CASE s.mask[b] # Slots
        <4>1. y = Without(s.available, b)
          BY <3>1
        <4> HIDE DEF y
        <4> QED BY <2>1, <4>1, RestAvailable
      <3>2. CASE s.mask[b] = Slots
        BY <2>1, <3>2 DEF AvailableSound, OtherAvailable
      <3> QED BY <3>1, <3>2
    <2> HIDE DEF y
    <2> QED BY <1>4, <1>8, <2>2, NowReserved
  <1>11. z = Cardinality(Cells(m, B))
    <2>1. Cardinality(m[b]) = 0
      BY <1>4, FS_EmptySet
    <2> QED BY <1>8, <2>1, SizeAfter, SlotFacts
  <1>12. s.num = Cardinality(B) /\ B \cap F = {} /\ s.lent = B \cup F
    BY DEF Good
  <1> HIDE DEF a, w, z
  <1>13. Good(t, B, F)
    BY <1>3, <1>7, <1>9, <1>10, <1>11, <1>12, MakeGood
  <1>14. t.mask = m /\ t.data = d
    BY <1>3, FieldsOf
  <1>15. Framed(s, t, F)
    BY <1>1, <1>4, <1>6, <1>14, ChangesFrame DEF ChangesAt
  <1>16. Shrinks(s, t)
    BY <1>4, <1>6, <1>14 DEF Shrinks
  <1> QED BY <1>13, <1>14, <1>15, <1>16 DEF t, m

\* A turn of range_assign_impl in an active block
LEMMA AssignedAtGood ==
  ASSUME NEW s, NEW B, NEW F, Good(s, B, F), NEW p, p.block \in ToSet(s.active), p.slot \in Slots, NEW v \in Values
  PROVE  LET t == AssignedAt(s, p, v) IN
         /\ Good(t, B, F) /\ Framed(s, t, F)
         /\ t.active = s.active /\ t.num = s.num /\ t.lent = s.lent
  <1> DEFINE b == p.block
             n == p.slot
             m == [s.mask EXCEPT ![b] = s.mask[b] \cup {n}]
             d == [s.data EXCEPT ![b] = [s.data[b] EXCEPT ![n] = v]]
             full == s.mask[b] # Slots /\ m[b] = Slots
             w == IF full THEN Without(s.available, b) ELSE s.available
             z == IF n \in s.mask[b] THEN s.size ELSE s.size + 1
             u == Put(s, b, n, v)
             t == AssignedAt(s, p, v)
  <1>1. b \in B /\ b \in Blocks /\ b \in s.lent /\ s.mask[b] # {}
    BY GoodFacts
  <1>2. s.mask[b] \subseteq Slots /\ n \in Slots /\ s.mask \in [Blocks -> SUBSET Slots]
        /\ s.data[b] \in [Slots -> Values \cup {Raw}] /\ s.data \in Rows
    BY <1>1, GoodFacts
  <1> HIDE DEF b, n
  <1>3. u \in Fields(s.active, s.available, s.num, s.size, m, d, s.lent)
    BY <1>1, <1>2, PutIs DEF Good
  <1>4. u.mask = m
    <2> HIDE DEF m, d, u
    <2> QED BY <1>3, FieldsOf
  <1>5. t \in Fields(s.active, w, s.num, z, m, d, s.lent)
    <2>1. t = [u EXCEPT !.available = IF s.mask[b] # Slots /\ u.mask[b] = Slots THEN Without(@, b) ELSE @,
                        !.size = IF n \in s.mask[b] THEN @ ELSE @ + 1]
      BY DEF AssignedAt, b, n
    <2> HIDE DEF m, d, u, t
    <2> QED BY <1>3, <1>4, <2>1 DEF Fields
  <1>6. m[b] = s.mask[b] \cup {n} /\ m \in [Blocks -> SUBSET Slots]
        /\ \A x \in Blocks : x # b => m[x] = s.mask[x]
    BY <1>1, <1>2
  <1>7. d[b] = [s.data[b] EXCEPT ![n] = v] /\ \A x \in Blocks : x # b => d[x] = s.data[x]
    BY <1>1, <1>2 DEF Rows
  <1>8. Memory(m, d, s.lent)
    BY <1>1, <1>2, PutMemory DEF Good
  <1>9. ChangedAt(s.mask, m, b, B)
    <2> HIDE DEF m
    <2> QED BY <1>1, <1>2, <1>6, GoodFacts DEF ChangedAt
  <1> HIDE DEF m, u, t, d
  <1>10. \A x \in B : m[x] = {} <=> s.mask[x] = {}
    BY <1>1, <1>6, GoodFacts
  <1>11. ActiveSound(s.active, m, B)
    <2>1. ActiveSound(s.active, s.mask, B)
      BY DEF Good
    <2> QED BY <1>10, <2>1, SameActive
  <1>12. AvailableSound(w, m, B)
    <2>1. AvailableSound(s.available, s.mask, B)
      BY DEF Good
    <2>2. CASE full
      BY <1>9, <2>1, <2>2, NowFull
    <2>3. CASE ~full
      <3>0. m[b] = Slots <=> s.mask[b] = Slots
        BY <1>2, <1>6, <2>3
      <3>1. \A x \in B : m[x] = Slots <=> s.mask[x] = Slots
        <4>1. B \subseteq Blocks
          BY GoodFacts
        <4> QED BY <1>6, <3>0, <4>1
      <3> QED BY <1>10, <2>1, <2>3, <3>1, SameAvailable
    <2> QED BY <2>2, <2>3
  <1>13. z = Cardinality(Cells(m, B))
    <2>1. CASE n \in s.mask[b]
      <3>1. m[b] = s.mask[b]
        BY <1>6, <2>1
      <3> QED BY <1>9, <2>1, <3>1, SizeAfter, SlotFacts
    <2>2. CASE n \notin s.mask[b]
      <3>1. Cardinality(m[b]) = Cardinality(s.mask[b]) + 1
        BY <1>2, <1>6, <2>2, SlotMore
      <3> QED BY <1>9, <2>2, <3>1, SizeAfter, SlotFacts
    <2> QED BY <2>1, <2>2
  <1>14. s.num = Cardinality(B) /\ B \cap F = {} /\ s.lent = B \cup F
    BY DEF Good
  <1> HIDE DEF w, z
  <1>15. Good(t, B, F)
    BY <1>5, <1>8, <1>11, <1>12, <1>13, <1>14, MakeGood
  <1>16. t.active = s.active /\ t.num = s.num /\ t.mask = m /\ t.data = d /\ t.lent = s.lent
    BY <1>5, FieldsOf
  <1>17. Framed(s, t, F)
    BY <1>1, <1>6, <1>7, <1>16, ChangesFrame DEF ChangesAt
  <1> QED BY <1>15, <1>16, <1>17 DEF t

\* An element is assigned to.
LEMMA PutGood ==
  ASSUME NEW s, NEW B, NEW F, Good(s, B, F), NEW b \in B, NEW n \in s.mask[b], NEW v \in Values
  PROVE  LET t == Put(s, b, n, v) IN Good(t, B, F) /\ Framed(s, t, F) /\ t.mask = s.mask
  <1> DEFINE m == [s.mask EXCEPT ![b] = s.mask[b] \cup {n}]
             d == [s.data EXCEPT ![b] = [s.data[b] EXCEPT ![n] = v]]
             t == Put(s, b, n, v)
  <1>1. b \in Blocks /\ b \in s.lent
    BY GoodFacts
  <1>2. s.mask[b] \subseteq Slots /\ n \in Slots /\ s.mask \in [Blocks -> SUBSET Slots]
        /\ s.data[b] \in [Slots -> Values \cup {Raw}] /\ s.data \in Rows
    BY <1>1, GoodFacts
  <1>3. t \in Fields(s.active, s.available, s.num, s.size, m, d, s.lent)
    BY <1>1, <1>2, PutIs DEF Good
  <1>4. m = s.mask
    <2>1. s.mask[b] \cup {n} = s.mask[b]
      OBVIOUS
    <2> QED BY <1>2, <2>1
  <1>5. \A x \in Blocks : x # b => d[x] = s.data[x]
    BY <1>1, <1>2 DEF Rows
  <1>6. Memory(m, d, s.lent)
    BY <1>1, <1>2, PutMemory DEF Good
  <1> HIDE DEF t, d, m
  <1>7. /\ ActiveSound(s.active, m, B) /\ AvailableSound(s.available, m, B) /\ s.num = Cardinality(B)
        /\ s.size = Cardinality(Cells(m, B)) /\ B \cap F = {} /\ s.lent = B \cup F
    BY <1>4 DEF Good
  <1>8. Good(t, B, F)
    BY <1>3, <1>6, <1>7, MakeGood
  <1>9. t.mask = m /\ t.data = d
    BY <1>3, FieldsOf
  <1>10. Framed(s, t, F)
    BY <1>4, <1>5, <1>9, ChangesFrame DEF ChangesAt
  <1> QED BY <1>4, <1>8, <1>9, <1>10 DEF t

-----------------------------------------------------------------------------
(* Insertion *)

\* A hub whose blocks are those that are on loan and not in F.
Sound(s, F) == \E B : Good(s, B, F)

LEMMA SameFrame ==
  ASSUME NEW s, NEW F
  PROVE  Framed(s, s, F) /\ Grows(s, s) /\ Shrinks(s, s)
  BY DEF Framed, Grows, Shrinks

LEMMA FrameTrans ==
  ASSUME NEW s, NEW t, NEW u, NEW F, Framed(s, t, F), Framed(t, u, F)
  PROVE  Framed(s, u, F)
  BY DEF Framed

LEMMA GrowsTrans ==
  ASSUME NEW s, NEW t, NEW u, Grows(s, t), Grows(t, u)
  PROVE  Grows(s, u)
  BY DEF Grows

LEMMA ShrinksTrans ==
  ASSUME NEW s, NEW t, NEW u, Shrinks(s, t), Shrinks(t, u)
  PROVE  Shrinks(s, u)
  BY DEF Shrinks

\* The elements there is room for, with the blocks still to be lent.
Room(s) == s.num * N - s.size + N * Unlent(s)

LEMMA UnlentFacts ==
  ASSUME NEW s, s.lent \subseteq Blocks
  PROVE  /\ Unlent(s) \in Nat /\ (Unlent(s) = 0 <=> Blocks \ s.lent = {})
         /\ IsFiniteSet(Blocks \ s.lent)
  <1>1. IsFiniteSet(Blocks \ s.lent)
    BY HubAssumption, FS_Difference
  <1> QED BY <1>1, FS_CardinalityType, FS_EmptySet DEF Unlent

LEMMA RoomFacts ==
  ASSUME NEW s, NEW B, NEW F, Good(s, B, F)
  PROVE  s.num \in Nat /\ s.size \in Nat /\ Unlent(s) \in Nat /\ N \in Nat /\ Room(s) \in Int
  <1>1. s.num \in Nat /\ s.size \in Nat
    BY GoodFacts
  <1>2. Unlent(s) \in Nat
    BY GoodFacts, UnlentFacts
  <1>3. N \in Nat
    BY SlotFacts
  <1>4. s.num * N \in Int /\ N * Unlent(s) \in Int
    BY <1>1, <1>2, <1>3
  <1> QED BY <1>1, <1>2, <1>3, <1>4 DEF Room

LEMMA RoomIsThere ==
  ASSUME NEW s, NEW B, NEW F, Good(s, B, F), Room(s) >= 1, s.available = <<>>
  PROVE  Blocks \ s.lent # {}
  <1> SUFFICES ASSUME Blocks \ s.lent = {} PROVE FALSE
    OBVIOUS
  <1>1. Unlent(s) = 0
    BY UnlentFacts, GoodFacts
  <1>2. \A b \in B : s.mask[b] = Slots
    BY GoodFacts DEF ToSet
  <1>3. Cardinality(Cells(s.mask, B)) = Cardinality(B) * N
    <2>1. B \in SUBSET Blocks /\ \A b \in B : s.mask[b] \subseteq Slots
      BY GoodFacts
    <2> QED BY <1>2, <2>1, CellsBound
  <1>4. s.size = s.num * N /\ s.size \in Nat /\ N \in Nat
    <2>1. s.size = Cardinality(Cells(s.mask, B)) /\ s.num = Cardinality(B)
      BY DEF Good
    <2> QED BY <1>3, <2>1, RoomFacts
  <1> QED BY <1>1, <1>4 DEF Room

LEMMA RetrieveGood ==
  ASSUME NEW s, NEW F, Sound(s, F), Room(s) >= 1
  PROVE  LET t == Retrieve(s) IN
         /\ Sound(t, F) /\ t.available # <<>> /\ t.mask = s.mask /\ t.data = s.data /\ Room(t) = Room(s)
  <1>1. PICK B : Good(s, B, F)
    BY DEF Sound
  <1>2. CASE s.available # <<>>
    BY <1>2 DEF Retrieve
  <1>3. CASE s.available = <<>>
    <2> DEFINE t == NewBlock(s)
    <2>1. PICK b \in Blocks \ s.lent :
            /\ Good(t, B \cup {b}, F) /\ t.available = Append(s.available, b) /\ t.active = s.active
            /\ t.mask = s.mask /\ t.data = s.data /\ t.size = s.size /\ t.num = s.num + 1
            /\ t.lent = s.lent \cup {b}
      <3>1. Blocks \ s.lent # {}
        BY <1>1, <1>3, RoomIsThere
      <3> QED BY <1>1, <3>1, NewBlockGood
    <2> HIDE DEF t
    <2>2. t.available # <<>>
      <3>1. s.available \in Seq(Blocks)
        BY <1>1, GoodFacts
      <3> QED BY <2>1, <3>1
    <2>3. Unlent(t) = Unlent(s) - 1
      <3>1. Blocks \ t.lent = (Blocks \ s.lent) \ {b}
        BY <2>1
      <3>2. IsFiniteSet(Blocks \ s.lent)
        BY HubAssumption, FS_Difference
      <3>3. Cardinality((Blocks \ s.lent) \ {b}) = Cardinality(Blocks \ s.lent) - 1
        BY <2>1, <3>2, FS_RemoveElement
      <3> QED BY <3>1, <3>3 DEF Unlent
    <2>4. Room(t) = Room(s)
      <3> DEFINE k == Unlent(s)
                 n == s.num
                 z == s.size
      <3>1. k \in Nat /\ n \in Nat /\ z \in Nat /\ N \in Nat
        BY <1>1, GoodFacts, SlotFacts, UnlentFacts
      <3>2. Room(s) = n * N - z + N * k
        BY DEF Room
      <3>3. Room(t) = (n + 1) * N - z + N * (k - 1)
        BY <2>1, <2>3 DEF Room
      <3> HIDE DEF k, n, z
      <3> QED BY <3>1, <3>2, <3>3
    <2> QED BY <1>3, <2>1, <2>2, <2>4 DEF Retrieve, Sound, t
  <1> QED BY <1>2, <1>3

\* What insertions make of s, with room for n more.
Inserting(s, t, F, n) == Sound(t, F) /\ Framed(s, t, F) /\ Grows(s, t) /\ Room(t) >= n

LEMMA PlaceTurn ==
  ASSUME NEW s, NEW t, NEW F, NEW n \in Nat, Inserting(s, t, F, n + 1), NEW v \in Values
  PROVE  Inserting(s, Place(Retrieve(t), v), F, n)
  <1> DEFINE r == Retrieve(t)
             u == Place(r, v)
  <1>1. Sound(t, F) /\ Framed(s, t, F) /\ Grows(s, t) /\ Room(t) >= n + 1
    BY DEF Inserting
  <1>2. Room(t) \in Int
    <2>1. PICK B : Good(t, B, F)
      BY <1>1 DEF Sound
    <2> QED BY <2>1, RoomFacts
  <1>3. /\ Sound(r, F) /\ r.available # <<>> /\ r.mask = t.mask /\ r.data = t.data /\ Room(r) = Room(t)
    BY <1>1, <1>2, RetrieveGood
  <1> HIDE DEF r
  <1>4. PICK B : Good(r, B, F)
    BY <1>3 DEF Sound
  <1>5. Good(u, B, F) /\ Framed(r, u, F) /\ Grows(r, u) /\ u.num = r.num /\ u.size = r.size + 1 /\ u.lent = r.lent
    BY <1>3, <1>4, PlaceGood
  <1> HIDE DEF u
  <1>6. Room(u) = Room(r) - 1
    <2>1. r.num \in Nat /\ r.size \in Nat /\ N \in Nat /\ Unlent(r) \in Nat
      BY <1>4, GoodFacts, SlotFacts, UnlentFacts
    <2>2. Unlent(u) = Unlent(r)
      BY <1>5 DEF Unlent
    <2> QED BY <1>5, <2>1, <2>2 DEF Room
  <1>7. Framed(s, r, F) /\ Grows(s, r)
    BY <1>1, <1>3 DEF Framed, Grows
  <1>8. Framed(s, u, F) /\ Grows(s, u)
    BY <1>5, <1>7, FrameTrans, GrowsTrans
  <1>9. Room(u) >= n
    BY <1>1, <1>2, <1>3, <1>6
  <1> QED BY <1>5, <1>8, <1>9 DEF Inserting, Sound, u, r

LEMMA InsertedGood ==
  ASSUME NEW s, NEW F, Sound(s, F), NEW q \in Seq(Values), NEW k \in Nat, Room(s) >= Len(q) + k
  PROVE  Inserting(s, Inserted(s, q), F, k)
  <1> DEFINE n == Len(q)
  <1>1. PICK f : /\ f[0] = s /\ f[n] = Inserted(s, q)
                 /\ \A i \in 1 .. n : f[i] = Place(Retrieve(f[i - 1]), q[i])
    BY InsertedTurns
  <1>2. n \in Nat /\ \A i \in 1 .. n : q[i] \in Values
    OBVIOUS
  <1>3. Room(s) >= n + k
    OBVIOUS
  <1> HIDE DEF n
  <1> DEFINE G == {i \in 0 .. n : Inserting(s, f[i], F, n - i + k)}
  <1>4. 0 \in G
    <2>1. Inserting(s, s, F, n - 0 + k)
      BY <1>2, <1>3, SameFrame DEF Inserting
    <2> QED BY <1>1, <1>2, <2>1
  <1>5. ASSUME NEW i \in 1 .. n, i - 1 \in G PROVE i \in G
    <2> DEFINE j == n - i + k
    <2>1. j \in Nat /\ n - (i - 1) + k = j + 1 /\ i \in 0 .. n
      BY <1>2
    <2>2. Inserting(s, f[i - 1], F, j + 1)
      BY <1>5, <2>1
    <2> HIDE DEF j
    <2>3. Inserting(s, f[i], F, j)
      BY <1>1, <1>2, <2>1, <2>2, PlaceTurn
    <2> QED BY <2>1, <2>3 DEF j
  <1>6. n \in G
    <2> HIDE DEF G
    <2>1. \A i \in 0 .. n : i \in G
      BY <1>2, <1>4, <1>5, Induction
    <2> QED BY <1>2, <2>1
  <1>7. Inserting(s, f[n], F, k)
    <2>1. n - n + k = k
      BY <1>2
    <2> QED BY <1>6, <2>1
  <1> QED BY <1>1, <1>7

-----------------------------------------------------------------------------
(* Positions *)

Places == {At(b, n) : b \in Blocks, n \in Slots}

LEMMA PlaceFacts ==
  /\ \A b, n : At(b, n).block = b /\ At(b, n).slot = n
  /\ \A b \in Blocks : \A n \in Slots : At(b, n) \in Places
  /\ \A p \in Places : p.block \in Blocks /\ p.slot \in Slots /\ p = At(p.block, p.slot)
  BY DEF Places, At

\* The elements of some blocks.
ElementsOf(m, B) == {p \in Places : p.block \in B /\ p.slot \in m[p.block]}

LEMMA AscendingOf ==
  ASSUME NEW m \in SUBSET Slots
  PROVE  LET t == Ascending(m) IN t \in Seq(Slots) /\ Distinct(t) /\ ToSet(t) = m
  <1> DEFINE l == [i \in 1 .. N |-> i - 1]
             t == Ascending(m)
  <1>1. N \in Nat /\ \A i \in 1 .. N : i - 1 \in Slots
    BY SlotFacts DEF Slots
  <1>2. l \in Seq(Slots) /\ DOMAIN l = 1 .. N /\ \A i \in 1 .. N : l[i] = i - 1
    BY <1>1
  <1>3. Distinct(l)
    <2> HIDE DEF l
    <2> QED BY <1>1, <1>2 DEF Distinct
  <1>4. m \subseteq ToSet(l)
    <2>1. \A n \in Slots : n + 1 \in 1 .. N /\ (n + 1) - 1 = n
      BY <1>1 DEF Slots
    <2>2. \A n \in m : n + 1 \in DOMAIN l /\ l[n + 1] = n
      <3> HIDE DEF l
      <3> QED BY <1>2, <2>1
    <2> HIDE DEF l
    <2> QED BY <2>2 DEF ToSet
  <1>5. Filtered(t, l, m, Slots)
    <2>1. t = Kept(l, m)
      BY DEF Ascending
    <2> HIDE DEF l, t
    <2> QED BY <1>2, <2>1, KeptOf
  <1> HIDE DEF l, t
  <1> QED BY <1>3, <1>4, <1>5 DEF Filtered, t

LEMMA PositionsInOf ==
  ASSUME NEW s, NEW b \in Blocks, s.mask[b] \in SUBSET Slots
  PROVE  LET t == PositionsIn(s, b) IN
         t \in Seq(Places) /\ Distinct(t) /\ ToSet(t) = {At(b, n) : n \in s.mask[b]}
  <1> DEFINE a == Ascending(s.mask[b])
             t == [i \in DOMAIN a |-> At(b, a[i])]
  <1>1. a \in Seq(Slots) /\ Distinct(a) /\ ToSet(a) = s.mask[b]
    BY AscendingOf
  <1>2. PositionsIn(s, b) = t
    BY DEF PositionsIn
  <1> HIDE DEF a
  <1>3. DOMAIN a = 1 .. Len(a) /\ Len(a) \in Nat /\ \A i \in DOMAIN a : a[i] \in Slots
    BY <1>1
  <1>4. DOMAIN t = DOMAIN a /\ \A i \in DOMAIN a : t[i] = At(b, a[i]) /\ t[i] \in Places
    BY <1>3, PlaceFacts
  <1>5. t \in Seq(Places)
    BY <1>3, <1>4
  <1> HIDE DEF t
  <1>6. Distinct(t)
    BY <1>1, <1>4, PlaceFacts DEF Distinct
  <1>7. ToSet(t) = {At(b, n) : n \in s.mask[b]}
    BY <1>1, <1>4 DEF ToSet
  <1> QED BY <1>2, <1>5, <1>6, <1>7

\* The positions of the first i active blocks.
PositionsUpTo(q, s, i) ==
  /\ q \in Seq(Places) /\ Distinct(q)
  /\ ToSet(q) = {p \in Places : p.slot \in s.mask[p.block] /\ \E k \in 1 .. i : p.block = s.active[k]}

LEMMA PositionsOf ==
  ASSUME NEW s, NEW B, NEW F, Good(s, B, F)
  PROVE  LET q == Positions(s) IN q \in Seq(Places) /\ Distinct(q) /\ ToSet(q) = ElementsOf(s.mask, B)
  <1> DEFINE a == s.active
             n == Len(a)
  <1>1. a \in Seq(Blocks) /\ Distinct(a) /\ n \in Nat /\ DOMAIN a = 1 .. n /\ \A i \in 1 .. n : a[i] \in Blocks
    <2>1. a \in Seq(Blocks) /\ Distinct(a)
      BY GoodFacts
    <2> QED BY <2>1
  <1>2. PICK f : f[0] = <<>> /\ f[n] = Positions(s) /\ \A i \in 1 .. n : f[i] = f[i - 1] \o PositionsIn(s, a[i])
    BY <1>1, PositionsTurns
  <1>3. \A b \in Blocks : s.mask[b] \in SUBSET Slots
    BY GoodFacts
  <1> HIDE DEF a, n
  <1> DEFINE G == {i \in 0 .. n : PositionsUpTo(f[i], s, i)}
  <1>4. 0 \in G
    <2>1. PositionsUpTo(<<>>, s, 0)
      BY DEF PositionsUpTo, Distinct, ToSet
    <2> QED BY <1>1, <1>2, <2>1
  <1>5. ASSUME NEW i \in 1 .. n, i - 1 \in G PROVE i \in G
    <2> DEFINE q == f[i - 1]
               b == a[i]
               r == PositionsIn(s, b)
    <2>1. PositionsUpTo(q, s, i - 1)
      BY <1>5
    <2>2. b \in Blocks /\ f[i] = q \o r /\ i \in Nat
      BY <1>1, <1>2
    <2>3. r \in Seq(Places) /\ Distinct(r) /\ ToSet(r) = {At(b, k) : k \in s.mask[b]}
      BY <1>3, <2>2, PositionsInOf
    <2> HIDE DEF q, b, r
    <2>4. \A k \in 1 .. i - 1 : a[k] # b
      <3>1. \A k \in 1 .. i - 1 : k \in 1 .. n /\ k # i
        BY <1>1
      <3> QED BY <1>1, <3>1 DEF Distinct, b
    <2>5. ToSet(q) \cap ToSet(r) = {}
      BY <2>1, <2>3, <2>4, PlaceFacts DEF PositionsUpTo, a
    <2>6. q \o r \in Seq(Places) /\ Distinct(q \o r) /\ ToSet(q \o r) = ToSet(q) \cup ToSet(r)
      BY <2>1, <2>3, <2>5, JoinDistinct DEF PositionsUpTo
    <2>7. ToSet(q) \cup ToSet(r)
            = {p \in Places : p.slot \in s.mask[p.block] /\ \E k \in 1 .. i : p.block = s.active[k]}
      <3>1. \A k \in 1 .. i : k = i \/ k \in 1 .. i - 1
        BY <2>2
      <3>2. i \in 1 .. i /\ \A k \in 1 .. i - 1 : k \in 1 .. i
        BY <2>2
      <3>3. ToSet(q) = {p \in Places : p.slot \in s.mask[p.block] /\ \E k \in 1 .. i - 1 : p.block = s.active[k]}
        BY <2>1 DEF PositionsUpTo
      <3>4. ToSet(r) = {p \in Places : p.slot \in s.mask[p.block] /\ p.block = b}
        <4>1. s.mask[b] \subseteq Slots
          BY <1>3, <2>2
        <4>2. \A p \in ToSet(r) : p \in Places /\ p.slot \in s.mask[p.block] /\ p.block = b
          BY <2>2, <2>3, <4>1, PlaceFacts
        <4>3. \A p \in Places : p.slot \in s.mask[p.block] /\ p.block = b => p \in ToSet(r)
          BY <2>3, PlaceFacts
        <4> QED BY <4>2, <4>3
      <3>5. s.active[i] = b
        BY DEF a, b
      <3> QED BY <3>1, <3>2, <3>3, <3>4, <3>5
    <2>8. PositionsUpTo(f[i], s, i)
      BY <2>2, <2>6, <2>7 DEF PositionsUpTo
    <2>9. i \in 0 .. n
      BY <1>1
    <2> QED BY <2>8, <2>9
  <1>6. PositionsUpTo(f[n], s, n)
    <2>1. \A i \in 0 .. n : i \in G
      <3> HIDE DEF G
      <3> QED BY <1>1, <1>4, <1>5, Induction
    <2> QED BY <1>1, <2>1
  <1>7. \A p \in Places : (\E k \in 1 .. n : p.block = s.active[k]) <=> p.block \in ToSet(s.active)
    BY <1>1 DEF ToSet, a
  <1>8. {p \in Places : p.slot \in s.mask[p.block] /\ \E k \in 1 .. n : p.block = s.active[k]} = ElementsOf(s.mask, B)
    BY <1>7, GoodFacts DEF ElementsOf
  <1> QED BY <1>2, <1>6, <1>8 DEF PositionsUpTo

-----------------------------------------------------------------------------
(* Erasure *)

\* What erasures make of s, with the same blocks.
Erasing(s, t, B, F) == Good(t, B, F) /\ Framed(s, t, F) /\ Shrinks(s, t)

LEMMA ErasingTrans ==
  ASSUME NEW s, NEW t, NEW u, NEW B, NEW F, Erasing(s, t, B, F), Erasing(t, u, B, F)
  PROVE  Erasing(s, u, B, F)
  BY FrameTrans, ShrinksTrans DEF Erasing

\* Some of the elements, and some of the blocks with elements.
AreElements(q, s, B) == q \in Seq(Places) /\ Distinct(q) /\ ToSet(q) \subseteq ElementsOf(s.mask, B)
AreActive(q, s, B) == q \in Seq(Blocks) /\ Distinct(q) /\ \A b \in ToSet(q) : b \in B /\ s.mask[b] # {}

\* The first i positions are erased.
ErasedUpTo(s, t, B, F, q, i) ==
  /\ Erasing(s, t, B, F)
  /\ \A b \in Blocks : t.mask[b] = {n \in s.mask[b] : \A k \in 1 .. i : q[k] # At(b, n)}

LEMMA ErasedEachGood ==
  ASSUME NEW s, NEW B, NEW F, Good(s, B, F), NEW q \in Seq(Places), AreElements(q, s, B)
  PROVE  LET t == ErasedEach(s, q) IN
         /\ Erasing(s, t, B, F)
         /\ \A b \in Blocks : t.mask[b] = {n \in s.mask[b] : At(b, n) \notin ToSet(q)}
  <1> DEFINE n == Len(q)
  <1>1. n \in Nat /\ DOMAIN q = 1 .. n /\ \A i \in 1 .. n : q[i] \in Places
    OBVIOUS
  <1>2. PICK f : /\ f[0] = s /\ f[n] = ErasedEach(s, q)
                 /\ \A i \in 1 .. n : f[i] = Erased(f[i - 1], q[i])
    BY ErasedTurns
  <1> HIDE DEF n
  <1>3. \A i \in 1 .. n : q[i].block \in B /\ q[i].slot \in s.mask[q[i].block]
    BY <1>1 DEF AreElements, ToSet, ElementsOf
  <1> DEFINE G == {i \in 0 .. n : ErasedUpTo(s, f[i], B, F, q, i)}
  <1>4. 0 \in G
    <2>1. \A b \in Blocks : s.mask[b] = {x \in s.mask[b] : \A k \in 1 .. 0 : q[k] # At(b, x)}
      OBVIOUS
    <2>2. ErasedUpTo(s, s, B, F, q, 0)
      BY <2>1, SameFrame DEF ErasedUpTo, Erasing
    <2> QED BY <1>1, <1>2, <2>2
  <1>5. ASSUME NEW i \in 1 .. n, i - 1 \in G PROVE i \in G
    <2> DEFINE t == f[i - 1]
               p == q[i]
               u == Erased(t, p)
    <2>1. /\ Erasing(s, t, B, F) /\ Good(t, B, F)
          /\ \A b \in Blocks : t.mask[b] = {x \in s.mask[b] : \A k \in 1 .. i - 1 : q[k] # At(b, x)}
      BY <1>5 DEF ErasedUpTo, Erasing
    <2>2. p \in Places /\ p.block \in B /\ p.slot \in s.mask[p.block] /\ f[i] = u
      BY <1>1, <1>2, <1>3
    <2>3. p.block \in Blocks /\ At(p.block, p.slot) = p
      BY <2>2, PlaceFacts
    <2>4. \A k \in 1 .. i - 1 : q[k] # p
      <3>1. \A k \in 1 .. i - 1 : k \in 1 .. n /\ k # i
        BY <1>1
      <3> QED BY <1>1, <3>1 DEF Distinct, AreElements
    <2> HIDE DEF t, p, u
    <2>5. p.slot \in t.mask[p.block]
      BY <2>1, <2>2, <2>3, <2>4
    <2>6. /\ Good(u, B, F) /\ Framed(t, u, F) /\ Shrinks(t, u)
          /\ u.mask = [t.mask EXCEPT ![p.block] = t.mask[p.block] \ {p.slot}]
      BY <2>1, <2>2, <2>5, ErasedGood DEF u
    <2>7. Erasing(s, u, B, F)
      BY <2>1, <2>6, ErasingTrans DEF Erasing
    <2>8. ASSUME NEW b \in Blocks PROVE u.mask[b] = {x \in s.mask[b] : \A k \in 1 .. i : q[k] # At(b, x)}
      <3>1. i \in 1 .. i /\ (\A k \in 1 .. i : k = i \/ k \in 1 .. i - 1) /\ (\A k \in 1 .. i - 1 : k \in 1 .. i)
        BY <1>1
      <3>2. t.mask \in [Blocks -> SUBSET Slots]
        BY <2>1, GoodFacts
      <3>3. \A x : p = At(b, x) <=> p.block = b /\ p.slot = x
        BY <2>2, PlaceFacts
      <3>4. u.mask[b] = {x \in t.mask[b] : p # At(b, x)}
        <4>1. CASE b = p.block
          BY <2>6, <3>2, <3>3, <4>1
        <4>2. CASE b # p.block
          BY <2>6, <3>2, <3>3, <4>2
        <4> QED BY <4>1, <4>2
      <3>5. q[i] = p
        BY DEF p
      <3> QED BY <2>1, <3>1, <3>4, <3>5
    <2>9. ErasedUpTo(s, f[i], B, F, q, i)
      BY <2>2, <2>7, <2>8 DEF ErasedUpTo
    <2>10. i \in 0 .. n
      BY <1>1
    <2> QED BY <2>9, <2>10
  <1>6. ErasedUpTo(s, f[n], B, F, q, n)
    <2>1. \A i \in 0 .. n : i \in G
      <3> HIDE DEF G
      <3> QED BY <1>1, <1>4, <1>5, Induction
    <2> QED BY <1>1, <2>1
  <1>7. \A b, x : (\A k \in 1 .. n : q[k] # At(b, x)) <=> At(b, x) \notin ToSet(q)
    BY <1>1 DEF ToSet
  <1> QED BY <1>2, <1>6, <1>7 DEF ErasedUpTo

\* The first i blocks are emptied.
EmptiedUpTo(s, t, B, F, q, i) ==
  /\ Erasing(s, t, B, F)
  /\ \A b \in Blocks : t.mask[b] = IF \E k \in 1 .. i : q[k] = b THEN {} ELSE s.mask[b]

LEMMA EmptiedEachGood ==
  ASSUME NEW s, NEW B, NEW F, Good(s, B, F), NEW q \in Seq(Blocks), AreActive(q, s, B)
  PROVE  LET t == EmptiedEach(s, q) IN
         /\ Erasing(s, t, B, F)
         /\ \A b \in Blocks : t.mask[b] = IF b \in ToSet(q) THEN {} ELSE s.mask[b]
  <1> DEFINE n == Len(q)
  <1>1. n \in Nat /\ DOMAIN q = 1 .. n /\ \A i \in 1 .. n : q[i] \in Blocks
    OBVIOUS
  <1>2. PICK f : /\ f[0] = s /\ f[n] = EmptiedEach(s, q)
                 /\ \A i \in 1 .. n : f[i] = Emptied(f[i - 1], q[i])
    BY EmptiedTurns
  <1> HIDE DEF n
  <1>3. \A i \in 1 .. n : q[i] \in B /\ s.mask[q[i]] # {}
    BY <1>1 DEF AreActive, ToSet
  <1> DEFINE G == {i \in 0 .. n : EmptiedUpTo(s, f[i], B, F, q, i)}
  <1>4. 0 \in G
    <2>1. \A b \in Blocks : s.mask[b] = IF \E k \in 1 .. 0 : q[k] = b THEN {} ELSE s.mask[b]
      OBVIOUS
    <2>2. EmptiedUpTo(s, s, B, F, q, 0)
      BY <2>1, SameFrame DEF EmptiedUpTo, Erasing
    <2> QED BY <1>1, <1>2, <2>2
  <1>5. ASSUME NEW i \in 1 .. n, i - 1 \in G PROVE i \in G
    <2> DEFINE t == f[i - 1]
               c == q[i]
               u == Emptied(t, c)
    <2>1. /\ Erasing(s, t, B, F) /\ Good(t, B, F)
          /\ \A b \in Blocks : t.mask[b] = IF \E k \in 1 .. i - 1 : q[k] = b THEN {} ELSE s.mask[b]
      BY <1>5 DEF EmptiedUpTo, Erasing
    <2>2. c \in Blocks /\ c \in B /\ s.mask[c] # {} /\ f[i] = u
      BY <1>1, <1>2, <1>3
    <2>3. \A k \in 1 .. i - 1 : q[k] # c
      <3>1. \A k \in 1 .. i - 1 : k \in 1 .. n /\ k # i
        BY <1>1
      <3> QED BY <1>1, <3>1 DEF Distinct, AreActive
    <2>4. q[i] = c
      OBVIOUS
    <2> HIDE DEF t, c, u
    <2>5. t.mask[c] # {}
      BY <2>1, <2>2, <2>3
    <2>6. /\ Good(u, B, F) /\ Framed(t, u, F) /\ Shrinks(t, u)
          /\ u.mask = [t.mask EXCEPT ![c] = {}]
      BY <2>1, <2>2, <2>5, EmptiedGood DEF u
    <2>7. Erasing(s, u, B, F)
      BY <2>1, <2>6, ErasingTrans DEF Erasing
    <2>8. ASSUME NEW b \in Blocks PROVE u.mask[b] = IF \E k \in 1 .. i : q[k] = b THEN {} ELSE s.mask[b]
      <3>1. i \in 1 .. i /\ (\A k \in 1 .. i : k = i \/ k \in 1 .. i - 1) /\ (\A k \in 1 .. i - 1 : k \in 1 .. i)
        BY <1>1
      <3>2. t.mask \in [Blocks -> SUBSET Slots]
        BY <2>1, GoodFacts
      <3>3. u.mask[b] = IF b = c THEN {} ELSE t.mask[b]
        BY <2>6, <3>2
      <3> QED BY <2>1, <2>4, <3>1, <3>3
    <2>9. EmptiedUpTo(s, f[i], B, F, q, i)
      BY <2>2, <2>7, <2>8 DEF EmptiedUpTo
    <2>10. i \in 0 .. n
      BY <1>1
    <2> QED BY <2>9, <2>10
  <1>6. EmptiedUpTo(s, f[n], B, F, q, n)
    <2>1. \A i \in 0 .. n : i \in G
      <3> HIDE DEF G
      <3> QED BY <1>1, <1>4, <1>5, Induction
    <2> QED BY <1>1, <2>1
  <1>7. \A b : (\E k \in 1 .. n : q[k] = b) <=> b \in ToSet(q)
    BY <1>1 DEF ToSet
  <1> QED BY <1>2, <1>6, <1>7 DEF EmptiedUpTo

\* The place a block has in a list.
Index(l, b) == SelectInSeq(l, LAMBDA x : x = b)

LEMMA IndexFacts ==
  ASSUME NEW S, NEW l \in Seq(S), NEW b
  PROVE  /\ Index(l, b) \in 0 .. Len(l) /\ Len(l) \in Nat /\ (b \in ToSet(l) => Index(l, b) # 0)
         /\ Index(l, b) # 0 => l[Index(l, b)] = b /\ Index(l, b) \in DOMAIN l
  <1> DEFINE I == {i \in 1 .. Len(l) : l[i] = b}
  <1>1. Len(l) \in Nat /\ DOMAIN l = 1 .. Len(l)
    OBVIOUS
  <1>2. Index(l, b) = IF I # {} THEN Min(I) ELSE 0
    BY DEF Index, SelectInSeq
  <1>3. I # {} => Min(I) \in I
    <2> HAVE I # {}
    <2>1. I \subseteq Nat
      BY <1>1
    <2> HIDE DEF I
    <2>2. \E n \in I : \A m \in I : n <= m
      BY <2>1, LeastElement
    <2> QED BY <2>2 DEF Min
  <1>4. b \in ToSet(l) => I # {}
    BY <1>1 DEF ToSet
  <1> QED BY <1>1, <1>2, <1>3, <1>4

\* erase(first, last), wherever the positions are: the lists stay sound.
LEMMA ErasedRangeGood ==
  ASSUME NEW s, NEW B, NEW F, Good(s, B, F), NEW i, NEW j
  PROVE  Erasing(s, ErasedRange(s, i, j), B, F)
  <1> DEFINE q == Positions(s)
             first == PositionAt(q, i)
             last == PositionAt(q, j)
             index(b) == IF b = Header THEN Len(s.active) + 1 ELSE Index(s.active, b)
             H == {p \in ToSet(q) : /\ p.block = first.block /\ p.slot >= first.slot
                                    /\ p.block = last.block => p.slot < last.slot}
             T == {p \in ToSet(q) : p.block # first.block /\ InLastBlock(p, last)}
             head == Kept(q, H)
             tail == Kept(q, T)
             x == first.block
             y == last.block
             whole == SubSeq(s.active, index(x) + 1, index(y) - 1)
             t == ErasedEach(s, head)
             u == EmptiedEach(t, whole)
  <1>1. ErasedRange(s, i, j) = ErasedEach(u, tail)
    BY DEF ErasedRange, Index
  <1>2. q \in Seq(Places) /\ Distinct(q) /\ ToSet(q) = ElementsOf(s.mask, B)
    BY PositionsOf
  <1>3. /\ head \in Seq(Places) /\ Distinct(head) /\ ToSet(head) \subseteq ElementsOf(s.mask, B)
        /\ \A p \in ToSet(head) : p.block = x
    <2> HIDE DEF q, H
    <2>1. Filtered(head, q, H, Places)
      BY <1>2, KeptOf
    <2>2. H \subseteq ToSet(q) /\ \A p \in H : p.block = x
      BY DEF H
    <2> HIDE DEF head
    <2> QED BY <1>2, <2>1, <2>2 DEF Filtered
  <1>4. /\ tail \in Seq(Places) /\ Distinct(tail) /\ ToSet(tail) \subseteq ElementsOf(s.mask, B)
        /\ \A p \in ToSet(tail) : p.block # x /\ p.block = y
    <2> HIDE DEF q, T
    <2>1. Filtered(tail, q, T, Places)
      BY <1>2, KeptOf
    <2>2. T \subseteq ToSet(q) /\ \A p \in T : p.block # x /\ p.block = y
      BY DEF T, InLastBlock
    <2> HIDE DEF tail
    <2> QED BY <1>2, <2>1, <2>2 DEF Filtered
  <1> HIDE DEF head, tail, q, x, y
  <1>5. /\ whole \in Seq(Blocks) /\ Distinct(whole) /\ ToSet(whole) \subseteq ToSet(s.active)
        /\ x \notin ToSet(whole) /\ y \notin ToSet(whole)
    <2> DEFINE a == s.active
               z == Len(a)
               m == index(x) + 1
               n == index(y) - 1
    <2>1. a \in Seq(Blocks) /\ Distinct(a) /\ z \in Nat /\ DOMAIN a = 1 .. z /\ Header \notin ToSet(a)
      <3>1. a \in Seq(Blocks) /\ Distinct(a)
        BY GoodFacts
      <3> QED BY <3>1, HubAssumption DEF ToSet
    <2>2. \A b : Index(a, b) \in 0 .. z /\ (b \in ToSet(a) => Index(a, b) # 0)
      BY <2>1, IndexFacts
    <2>3. \A b : Index(a, b) # 0 => a[Index(a, b)] = b /\ Index(a, b) \in DOMAIN a
      BY <2>1, IndexFacts
    <2>4. \A b : index(b) \in 0 .. z + 1
      BY <2>1, <2>2
    <2>5. \A b : \A k \in 1 .. z : a[k] = b => index(b) = k
      <3> SUFFICES ASSUME NEW b, NEW k \in 1 .. z, a[k] = b PROVE index(b) = k
        OBVIOUS
      <3>1. b \in ToSet(a) /\ b # Header
        BY <2>1 DEF ToSet
      <3>2. Index(a, b) \in DOMAIN a /\ a[Index(a, b)] = b
        BY <2>2, <2>3, <3>1
      <3>3. Index(a, b) = k
        BY <2>1, <3>2 DEF Distinct
      <3> QED BY <3>1, <3>3
    <2> HIDE DEF index, a, z
    <2>6. m \in Nat \ {0} /\ n \in Int /\ n <= z
      BY <2>1, <2>4
    <2>7. Part(SubSeq(a, m, n), a, m, n, Blocks)
      <3> HIDE DEF m, n
      <3> QED BY <2>1, <2>6, PartOf DEF z
    <2>8. \A k \in m .. n : k \in 1 .. z /\ k # index(x) /\ k # index(y)
      BY <2>1, <2>4
    <2>9. \A k \in m .. n : a[k] \in ToSet(a) /\ a[k] # x /\ a[k] # y
      BY <2>1, <2>5, <2>8 DEF ToSet
    <2> HIDE DEF m, n
    <2>10. whole = SubSeq(a, m, n)
      BY DEF a, m, n
    <2> HIDE DEF whole
    <2> QED BY <2>1, <2>7, <2>9, <2>10 DEF Part, a
  <1> HIDE DEF whole
  <1>6. Erasing(s, t, B, F) /\ \A b \in Blocks : t.mask[b] = {n \in s.mask[b] : At(b, n) \notin ToSet(head)}
    BY <1>3, ErasedEachGood DEF AreElements
  <1> HIDE DEF t
  <1>7. B \subseteq Blocks /\ \A b \in ToSet(s.active) : b \in B /\ s.mask[b] # {}
    <2>1. B \in SUBSET Blocks /\ B = ToSet(s.active) \cup ToSet(s.available)
      BY GoodFacts
    <2>2. \A b \in B : b \in ToSet(s.active) <=> s.mask[b] # {}
      BY GoodFacts
    <2> QED BY <2>1, <2>2
  <1>8. \A b \in Blocks : b # x => t.mask[b] = s.mask[b]
    <2> SUFFICES ASSUME NEW b \in Blocks, b # x PROVE t.mask[b] = s.mask[b]
      OBVIOUS
    <2>1. \A n : At(b, n) \notin ToSet(head)
      BY <1>3, PlaceFacts
    <2> QED BY <1>6, <2>1
  <1>9. Erasing(t, u, B, F) /\ \A b \in Blocks : u.mask[b] = IF b \in ToSet(whole) THEN {} ELSE t.mask[b]
    <2>1. Good(t, B, F)
      BY <1>6 DEF Erasing
    <2>2. \A b \in ToSet(whole) : b \in B /\ t.mask[b] # {}
      BY <1>5, <1>7, <1>8
    <2>3. whole \in Seq(Blocks) /\ AreActive(whole, t, B)
      BY <1>5, <2>2 DEF AreActive
    <2> QED BY <2>1, <2>3, EmptiedEachGood
  <1> HIDE DEF u
  <1>10. ToSet(tail) \subseteq ElementsOf(u.mask, B)
    BY <1>4, <1>5, <1>7, <1>8, <1>9 DEF ElementsOf
  <1>11. Erasing(u, ErasedEach(u, tail), B, F)
    <2>1. Good(u, B, F)
      BY <1>9 DEF Erasing
    <2> QED BY <1>4, <1>10, <2>1, ErasedEachGood DEF AreElements
  <1> QED BY <1>1, <1>6, <1>9, <1>11, ErasingTrans

\* erase_if
LEMMA ErasedIfGood ==
  ASSUME NEW s, NEW B, NEW F, Good(s, B, F), NEW gone, NEW k \in Nat, k <= Len(Positions(s))
  PROVE  Erasing(s, ErasedIf(s, gone, k), B, F)
  <1> DEFINE q == Positions(s)
             r == SubSeq(q, 1, k)
             T == {p \in ToSet(q) : ValueAt(s, p) \in gone}
             e == Kept(r, T)
  <1>1. q \in Seq(Places) /\ Distinct(q) /\ ToSet(q) = ElementsOf(s.mask, B)
    BY PositionsOf
  <1>2. Part(r, q, 1, k, Places)
    <2>1. k \in Int /\ k <= Len(q) /\ 1 \in Nat \ {0}
      OBVIOUS
    <2> HIDE DEF q
    <2> QED BY <1>1, <2>1, PartOf
  <1> HIDE DEF q, r, T
  <1>3. r \in Seq(Places) /\ Distinct(r) /\ Filtered(e, r, T, Places)
    BY <1>1, <1>2, KeptOf DEF Part
  <1> HIDE DEF e
  <1>4. e \in Seq(Places) /\ Distinct(e) /\ ToSet(e) \subseteq ElementsOf(s.mask, B)
    BY <1>1, <1>3 DEF Filtered, T
  <1>5. Erasing(s, ErasedEach(s, e), B, F)
    BY <1>4, ErasedEachGood DEF AreElements
  <1> QED BY <1>5 DEF ErasedIf, e, r, T, q

\* unique: one range after the other.
LEMMA UniquedGood ==
  ASSUME NEW s, NEW B, NEW F, Good(s, B, F)
  PROVE  Erasing(s, Uniqued(s), B, F)
  <1> DEFINE q == GroupRests(s)
             n == Len(q)
  <1>1. q \in Seq(ToSet(q)) /\ n \in Nat
    <2> DEFINE starts == GroupStarts(s)
    <2>1. \E S : starts \in Seq(S)
      <3> DEFINE c == Contents(s)
                 l == [i \in DOMAIN c |-> i]
                 T == {i \in DOMAIN c : i = 1 \/ c[i] # c[i - 1]}
      <3>1. Positions(s) \in Seq(Places)
        BY PositionsOf
      <3>2. DOMAIN c = 1 .. Len(Positions(s)) /\ Len(Positions(s)) \in Nat
        BY <3>1 DEF Contents
      <3> HIDE DEF c
      <3>3. l \in Seq(Nat)
        BY <3>2
      <3> HIDE DEF l, T
      <3>4. Filtered(Kept(l, T), l, T, Nat)
        BY <3>3, KeptOf
      <3>5. starts = Kept(l, T)
        BY DEF GroupStarts, l, T, c
      <3> QED BY <3>4, <3>5 DEF Filtered
    <2>2. DOMAIN starts = 1 .. Len(starts) /\ Len(starts) \in Nat
      <3> HIDE DEF starts
      <3> QED BY <2>1
    <2>3. DOMAIN q = DOMAIN starts /\ q = [k \in DOMAIN starts |-> q[k]]
      BY DEF GroupRests
    <2> HIDE DEF q, starts
    <2>4. \A k \in DOMAIN starts : q[k] \in ToSet(q)
      BY <2>3 DEF ToSet
    <2> QED BY <2>2, <2>3, <2>4
  <1>2. Uniqued(s) = RangesErased(s, q)
    BY DEF Uniqued
  <1> HIDE DEF q
  <1>3. PICK f : /\ f[0] = s /\ f[n] = RangesErased(s, q)
                 /\ \A i \in 1 .. n : f[i] = RangeErased(f[i - 1], q[i])
    <2> DEFINE S == ToSet(q)
    <2>1. q \in Seq(S)
      BY <1>1
    <2> HIDE DEF S
    <2> QED BY <2>1, UniquedTurns
  <1> HIDE DEF n
  <1> DEFINE G == {i \in 0 .. n : Erasing(s, f[i], B, F)}
  <1>4. 0 \in G
    <2>1. Erasing(s, s, B, F)
      BY SameFrame DEF Erasing
    <2> QED BY <1>1, <1>3, <2>1
  <1>5. ASSUME NEW i \in 1 .. n, i - 1 \in G PROVE i \in G
    <2> DEFINE t == f[i - 1]
               r == q[i]
    <2>1. Erasing(s, t, B, F) /\ Good(t, B, F) /\ f[i] = RangeErased(t, r) /\ i \in 0 .. n
      BY <1>1, <1>3, <1>5 DEF Erasing
    <2> HIDE DEF t, r
    <2>2. Erasing(t, RangeErased(t, r), B, F)
      <3>1. CASE r = <<>>
        BY <2>1, <3>1, SameFrame DEF RangeErased, Erasing
      <3>2. CASE r # <<>>
        <4> DEFINE k == SelectInSeq(Positions(t), LAMBDA p : p = r[1])
        <4>1. RangeErased(t, r) = ErasedRange(t, k, k + Len(r))
          BY <3>2 DEF RangeErased
        <4> HIDE DEF k
        <4> QED BY <2>1, <4>1, ErasedRangeGood
      <3> QED BY <3>1, <3>2
    <2>3. Erasing(s, f[i], B, F)
      BY <2>1, <2>2, ErasingTrans
    <2> QED BY <2>1, <2>3
  <1>6. Erasing(s, f[n], B, F)
    <2>1. \A i \in 0 .. n : i \in G
      <3> HIDE DEF G
      <3> QED BY <1>1, <1>4, <1>5, Induction
    <2> QED BY <1>1, <2>1
  <1> QED BY <1>2, <1>3, <1>6

-----------------------------------------------------------------------------
(* Assignment *)

\* The slots of the first i active blocks.
SlotsUpTo(q, s, i) ==
  q \in Seq(Places) /\ Len(q) = N * i /\ \A k \in DOMAIN q : q[k].block \in ToSet(s.active)

LEMMA ActiveSlotsOf ==
  ASSUME NEW s, s.active \in Seq(Blocks)
  PROVE  SlotsUpTo(ActiveSlots(s), s, Len(s.active))
  <1> DEFINE a == s.active
             n == Len(a)
             row(b) == [j \in 1 .. N |-> At(b, j - 1)]
  <1>1. a \in Seq(Blocks) /\ n \in Nat /\ DOMAIN a = 1 .. n /\ \A i \in 1 .. n : a[i] \in Blocks
    OBVIOUS
  <1>2. PICK f : f[0] = <<>> /\ f[n] = ActiveSlots(s) /\ \A i \in 1 .. n : f[i] = f[i - 1] \o row(a[i])
    BY <1>1, SlotsTurns
  <1>3. \A b \in Blocks : row(b) \in Seq(Places) /\ Len(row(b)) = N /\ \A k \in DOMAIN row(b) : row(b)[k].block = b
    <2> SUFFICES ASSUME NEW b \in Blocks
                 PROVE  row(b) \in Seq(Places) /\ Len(row(b)) = N /\ \A k \in DOMAIN row(b) : row(b)[k].block = b
      OBVIOUS
    <2> DEFINE r == row(b)
    <2>1. N \in Nat /\ \A j \in 1 .. N : j - 1 \in Slots
      BY SlotFacts DEF Slots
    <2>2. DOMAIN r = 1 .. N /\ \A j \in 1 .. N : r[j] = At(b, j - 1)
      OBVIOUS
    <2>3. \A j \in 1 .. N : r[j] \in Places /\ r[j].block = b
      BY <2>1, <2>2, PlaceFacts
    <2>4. r = [j \in 1 .. N |-> r[j]]
      OBVIOUS
    <2> HIDE DEF r
    <2>5. r \in Seq(Places) /\ Len(r) = N
      BY <2>1, <2>2, <2>3, <2>4
    <2> QED BY <2>2, <2>3, <2>5 DEF r
  <1> HIDE DEF row, n, a
  <1> DEFINE G == {i \in 0 .. n : SlotsUpTo(f[i], s, i)}
  <1>4. 0 \in G
    <2>1. SlotsUpTo(<<>>, s, 0)
      BY SlotFacts DEF SlotsUpTo
    <2> QED BY <1>1, <1>2, <2>1
  <1>5. ASSUME NEW i \in 1 .. n, i - 1 \in G PROVE i \in G
    <2> DEFINE q == f[i - 1]
               b == a[i]
               r == row(b)
               t == q \o r
    <2>1. q \in Seq(Places) /\ Len(q) = N * (i - 1) /\ \A k \in DOMAIN q : q[k].block \in ToSet(s.active)
      BY <1>5 DEF SlotsUpTo
    <2>2. b \in Blocks /\ f[i] = t /\ i \in Nat /\ b \in ToSet(s.active)
      <3>1. i \in DOMAIN a /\ f[i] = f[i - 1] \o row(a[i])
        BY <1>1, <1>2
      <3>2. b \in Blocks /\ f[i] = t /\ i \in Nat
        BY <1>1, <3>1
      <3>3. b \in ToSet(a)
        BY <3>1 DEF ToSet
      <3> QED BY <3>2, <3>3 DEF a
    <2>3. r \in Seq(Places) /\ Len(r) = N /\ \A k \in DOMAIN r : r[k].block = b
      BY <1>3, <2>2
    <2> HIDE DEF q, b, r
    <2>4. t \in Seq(Places) /\ Len(t) = Len(q) + Len(r)
      <3>1. q \in Seq(Places) /\ r \in Seq(Places)
        BY <2>1, <2>3
      <3> QED BY <3>1, Joined
    <2>5. /\ \A k \in DOMAIN q : t[k] = q[k]
          /\ \A k \in DOMAIN r : t[Len(q) + k] = r[k]
          /\ \A k \in DOMAIN t : k \in DOMAIN q \/ (k - Len(q) \in DOMAIN r /\ k = Len(q) + (k - Len(q)))
      <3>1. q \in Seq(Places) /\ r \in Seq(Places)
        BY <2>1, <2>3
      <3> QED BY <3>1, Joined
    <2> HIDE DEF t
    <2>6. \A k \in DOMAIN t : t[k].block \in ToSet(s.active)
      <3> SUFFICES ASSUME NEW k \in DOMAIN t PROVE t[k].block \in ToSet(s.active)
        OBVIOUS
      <3>1. CASE k \in DOMAIN q
        BY <2>1, <2>5, <3>1
      <3>2. CASE k \notin DOMAIN q
        <4>1. k - Len(q) \in DOMAIN r /\ k = Len(q) + (k - Len(q))
          BY <2>5, <3>2
        <4> DEFINE x == k - Len(q)
        <4>2. x \in DOMAIN r /\ t[Len(q) + x] = r[x] /\ k = Len(q) + x
          BY <2>5, <4>1
        <4> HIDE DEF x
        <4> QED BY <2>2, <2>3, <4>2
      <3> QED BY <3>1, <3>2
    <2>7. Len(t) = N * i
      <3>1. N * (i - 1) + N = N * i
        BY <2>2, SlotFacts
      <3> QED BY <2>1, <2>3, <2>4, <3>1
    <2>8. SlotsUpTo(f[i], s, i) /\ i \in 0 .. n
      BY <1>1, <2>2, <2>4, <2>6, <2>7 DEF SlotsUpTo
    <2> QED BY <2>8
  <1>6. SlotsUpTo(f[n], s, n)
    <2>1. \A i \in 0 .. n : i \in G
      <3> HIDE DEF G
      <3> QED BY <1>1, <1>4, <1>5, Induction
    <2> QED BY <1>1, <2>1
  <1> QED BY <1>2, <1>6 DEF n, a

\* What assignments to the active blocks make of s.
Assigning(s, t, B, F) ==
  Good(t, B, F) /\ Framed(s, t, F) /\ t.active = s.active /\ t.num = s.num /\ t.lent = s.lent

LEMMA AssignedEachGood ==
  ASSUME NEW s, NEW B, NEW F, Good(s, B, F), NEW c \in Nat, NEW l, NEW q,
         \A i \in 1 .. c : l[i].block \in ToSet(s.active) /\ l[i].slot \in Slots /\ q[i] \in Values
  PROVE  Assigning(s, AssignedEach(s, l, q, c), B, F)
  <1>1. PICK f : /\ f[0] = s /\ f[c] = AssignedEach(s, l, q, c)
                 /\ \A i \in 1 .. c : f[i] = AssignedAt(f[i - 1], l[i], q[i])
    BY AssignedTurns
  <1> DEFINE G == {i \in 0 .. c : Assigning(s, f[i], B, F)}
  <1>2. 0 \in G
    <2>1. Assigning(s, s, B, F)
      BY SameFrame DEF Assigning
    <2> QED BY <1>1, <2>1
  <1>3. ASSUME NEW i \in 1 .. c, i - 1 \in G PROVE i \in G
    <2> DEFINE t == f[i - 1]
               p == l[i]
               v == q[i]
               u == AssignedAt(t, p, v)
    <2>1. Assigning(s, t, B, F) /\ f[i] = u /\ i \in 0 .. c
      BY <1>1, <1>3
    <2>2. p.block \in ToSet(s.active) /\ p.slot \in Slots /\ v \in Values
      OBVIOUS
    <2> HIDE DEF t, p, v
    <2>3. Good(t, B, F) /\ p.block \in ToSet(t.active)
      BY <2>1, <2>2 DEF Assigning
    <2>4. Good(u, B, F) /\ Framed(t, u, F) /\ u.active = t.active /\ u.num = t.num /\ u.lent = t.lent
      BY <2>2, <2>3, AssignedAtGood
    <2> HIDE DEF u
    <2>5. Assigning(s, f[i], B, F)
      BY <2>1, <2>4, FrameTrans DEF Assigning
    <2> QED BY <2>1, <2>5
  <1>4. \A i \in 0 .. c : i \in G
    <2> HIDE DEF G
    <2> QED BY <1>2, <1>3, Induction
  <1> QED BY <1>1, <1>4

\* At most N elements in each active block, at most N in each block.
LEMMA SizeBound ==
  ASSUME NEW s, NEW B, NEW F, Good(s, B, F)
  PROVE  /\ s.size <= Len(s.active) * N /\ s.size <= s.num * N /\ Len(s.active) \in Nat
         /\ Room(s) >= 0
  <1>1. B \in SUBSET Blocks /\ \A b \in B : s.mask[b] \subseteq Slots
    BY GoodFacts
  <1>2. /\ Cardinality(Cells(s.mask, B)) <= Cardinality({b \in B : s.mask[b] # {}}) * N
        /\ Cardinality({b \in B : s.mask[b] # {}}) <= Cardinality(B)
    <2> DEFINE m == s.mask
    <2>1. \A b \in B : m[b] \subseteq Slots
      BY <1>1
    <2> HIDE DEF m
    <2>2. /\ Cardinality(Cells(m, B)) <= Cardinality({b \in B : m[b] # {}}) * N
          /\ Cardinality({b \in B : m[b] # {}}) <= Cardinality(B)
      BY <1>1, <2>1, CellsBound
    <2> QED BY <2>2 DEF m
  <1> DEFINE k == Len(s.active)
             n == s.num
             z == s.size
  <1>3. Cardinality({b \in B : s.mask[b] # {}}) = k /\ k \in Nat
    <2>1. s.active \in Seq(Blocks) /\ Distinct(s.active) /\ ToSet(s.active) = {b \in B : s.mask[b] # {}}
      BY DEF Good, ActiveSound
    <2>2. Cardinality(ToSet(s.active)) = k
      BY <2>1, DistinctCount
    <2> QED BY <2>1, <2>2
  <1>4. z = Cardinality(Cells(s.mask, B)) /\ n = Cardinality(B)
    BY DEF Good
  <1>5. n \in Nat /\ z \in Nat /\ N \in Nat /\ Unlent(s) \in Nat
    BY RoomFacts
  <1>6. z <= k * N /\ k <= n
    BY <1>2, <1>3, <1>4
  <1>7. Room(s) = n * N - z + N * Unlent(s)
    BY DEF Room
  <1> HIDE DEF k, n, z
  <1>8. k * N <= n * N /\ N * Unlent(s) >= 0 /\ k * N \in Nat /\ n * N \in Nat /\ N * Unlent(s) \in Nat
    <2>1. PICK e \in Nat : n = k + e
      <3>1. n - k \in Nat /\ n = k + (n - k)
        BY <1>3, <1>5, <1>6
      <3> QED BY <3>1
    <2>2. n * N = k * N + e * N /\ e * N \in Nat
      BY <1>3, <1>5, <2>1
    <2> DEFINE U == Unlent(s)
    <2>3. U \in Nat
      BY <1>5
    <2> HIDE DEF U
    <2>4. N * U \in Nat
      BY <1>5, <2>3
    <2>5. k * N \in Nat
      BY <1>3, <1>5
    <2>6. n * N \in Nat
      BY <1>5
    <2> QED BY <2>2, <2>4, <2>5, <2>6 DEF U
  <1> DEFINE kN == k * N
             nN == n * N
             NU == N * Unlent(s)
  <1>9. z <= kN /\ kN <= nN /\ NU >= 0 /\ kN \in Nat /\ nN \in Nat /\ NU \in Nat /\ Room(s) = nN - z + NU
    BY <1>6, <1>7, <1>8
  <1> HIDE DEF kN, nN, NU
  <1>10. z <= nN /\ Room(s) >= 0
    BY <1>5, <1>9
  <1> QED BY <1>3, <1>6, <1>10 DEF k, n, z, nN

LEMMA AssignedUpToGood ==
  ASSUME NEW s, NEW B, NEW F, Good(s, B, F), NEW q \in Seq(Values), NEW k \in 0 .. Len(q),
         k <= s.num * N + N * Unlent(s)
  PROVE  Sound(AssignedUpTo(s, q, k), F) /\ Framed(s, AssignedUpTo(s, q, k), F)
  <1> DEFINE l == ActiveSlots(s)
             n == Len(l)
             c == IF k < n THEN k ELSE n
             t == AssignedEach(s, l, q, c)
             r == SubSeq(q, c + 1, k)
             u == Inserted(t, r)
  <1>1. AssignedUpTo(s, q, k) = u
    BY DEF AssignedUpTo
  <1>2. SlotsUpTo(l, s, Len(s.active))
    <2>1. s.active \in Seq(Blocks)
      BY GoodFacts
    <2> QED BY <2>1, ActiveSlotsOf
  <1> HIDE DEF l
  <1>3. l \in Seq(Places) /\ n \in Nat /\ DOMAIN l = 1 .. n /\ n = N * Len(s.active)
        /\ \A i \in 1 .. n : l[i].block \in ToSet(s.active) /\ l[i].slot \in Slots
    <2>1. l \in Seq(Places) /\ n = N * Len(s.active) /\ \A i \in DOMAIN l : l[i].block \in ToSet(s.active)
      BY <1>2 DEF SlotsUpTo
    <2>2. n \in Nat /\ DOMAIN l = 1 .. n /\ \A i \in 1 .. n : l[i] \in Places
      BY <2>1
    <2> QED BY <2>1, <2>2, PlaceFacts
  <1> HIDE DEF n
  <1>4. k \in Nat /\ Len(q) \in Nat /\ k <= Len(q) /\ DOMAIN q = 1 .. Len(q) /\ \A i \in 1 .. Len(q) : q[i] \in Values
    OBVIOUS
  <1>5. c \in Nat /\ c <= k /\ c <= n
    BY <1>3, <1>4
  <1>6. \A i \in 1 .. c : l[i].block \in ToSet(s.active) /\ l[i].slot \in Slots /\ q[i] \in Values
    BY <1>3, <1>4, <1>5
  <1>7. r \in Seq(Values) /\ Len(r) = k - c
    <2> HIDE DEF c
    <2> QED BY <1>4, <1>5
  <1>8. c = k \/ (c = n /\ n <= k)
    BY <1>3, <1>4
  <1> HIDE DEF c
  <1>9. Assigning(s, t, B, F)
    BY <1>5, <1>6, AssignedEachGood
  <1> HIDE DEF t, r
  <1>10. Good(t, B, F) /\ Framed(s, t, F) /\ t.active = s.active /\ t.num = s.num /\ t.lent = s.lent
    BY <1>9 DEF Assigning
  <1>11. Room(t) >= Len(r) + 0
    <2>1. /\ t.size <= Len(t.active) * N /\ Room(t) >= 0 /\ Len(t.active) \in Nat
          /\ t.num \in Nat /\ t.size \in Nat /\ Unlent(t) \in Nat /\ N \in Nat /\ Room(t) \in Int
      BY <1>10, SizeBound, RoomFacts
    <2>2. CASE c = k
      BY <1>4, <1>7, <2>1, <2>2
    <2>3. CASE c = n
      <3> DEFINE x == t.num * N
                 y == N * Unlent(t)
                 z == Len(t.active)
      <3>1. k <= x + y
        BY <1>10 DEF Unlent
      <3>2. Room(t) = x - t.size + y
        BY DEF Room
      <3>3. n = z * N /\ z * N \in Nat
        <4>1. z \in Nat /\ N \in Nat /\ n = N * z
          BY <1>3, <1>10, <2>1
        <4> HIDE DEF z
        <4> QED BY <4>1
      <3>4. x \in Nat /\ y \in Nat
        <4> DEFINE e == t.num
                   g == Unlent(t)
        <4>1. e \in Nat /\ g \in Nat /\ N \in Nat
          BY <2>1
        <4> HIDE DEF e, g
        <4>2. e * N \in Nat /\ N * g \in Nat
          BY <4>1
        <4> QED BY <4>2 DEF e, g
      <3>5. t.size <= n
        BY <2>1, <3>3
      <3>6. Len(r) = k - n /\ n \in Nat /\ k \in Nat
        BY <1>3, <1>4, <1>7, <2>3, <3>3
      <3>7. t.size \in Nat
        BY <2>1
      <3> HIDE DEF x, y, z
      <3> QED BY <3>1, <3>2, <3>4, <3>5, <3>6, <3>7
    <2> QED BY <1>8, <2>2, <2>3
  <1>12. Inserting(t, u, F, 0)
    <2>1. Sound(t, F)
      BY <1>10 DEF Sound
    <2> QED BY <1>7, <1>11, <2>1, InsertedGood
  <1> HIDE DEF u
  <1>13. Sound(u, F) /\ Framed(s, u, F)
    BY <1>10, <1>12, FrameTrans DEF Inserting
  <1> QED BY <1>1, <1>13

LEMMA AssignedGood ==
  ASSUME NEW s, NEW B, NEW F, Good(s, B, F), NEW q \in Seq(Values), Len(q) <= s.num * N + N * Unlent(s)
  PROVE  Sound(Assigned(s, q), F) /\ Framed(s, Assigned(s, q), F)
  <1> DEFINE t == AssignedUpTo(s, q, Len(q))
             n == Len(Positions(t))
             u == ErasedRange(t, Len(q) + 1, n + 1)
  <1>1. Sound(t, F) /\ Framed(s, t, F)
    <2>1. Len(q) \in 0 .. Len(q)
      OBVIOUS
    <2> QED BY <2>1, AssignedUpToGood
  <1>2. PICK C : Good(t, C, F)
    BY <1>1 DEF Sound
  <1>3. Assigned(s, q) = IF Len(q) >= n THEN t ELSE u
    BY DEF Assigned
  <1> HIDE DEF t, n
  <1>4. Erasing(t, u, C, F)
    BY <1>2, ErasedRangeGood
  <1>5. Sound(u, F) /\ Framed(s, u, F)
    BY <1>1, <1>4, FrameTrans DEF Erasing, Sound
  <1> QED BY <1>1, <1>3, <1>5

-----------------------------------------------------------------------------
(* Capacity *)

\* What a function that leaves the elements alone makes of s.
Keeping(s, t, F) == Sound(t, F) /\ t.mask = s.mask /\ t.data = s.data

LEMMA KeepingFrame ==
  ASSUME NEW s, NEW t, NEW F, Keeping(s, t, F)
  PROVE  Sound(t, F) /\ Framed(s, t, F) /\ Grows(s, t) /\ Shrinks(s, t)
  BY DEF Keeping, Framed, Grows, Shrinks

\* reserve, up to some block
NewUpTo(s, t, F, i) == Keeping(s, t, F) /\ Unlent(t) = Unlent(s) - i /\ t.num = s.num + i

LEMMA NewBlocksGood ==
  ASSUME NEW s, NEW F, Sound(s, F), NEW c \in Nat, c <= Unlent(s)
  PROVE  Keeping(s, NewBlocks(s, c), F) /\ NewBlocks(s, c).num = s.num + c
  <1>1. PICK f : f[0] = s /\ f[c] = NewBlocks(s, c) /\ \A i \in 1 .. c : f[i] = NewBlock(f[i - 1])
    BY NewTurns
  <1>2. Unlent(s) \in Nat /\ s.num \in Nat
    <2>1. PICK B : Good(s, B, F)
      BY DEF Sound
    <2> QED BY <2>1, RoomFacts
  <1> DEFINE G == {i \in 0 .. c : NewUpTo(s, f[i], F, i)}
  <1>3. 0 \in G
    <2>1. NewUpTo(s, s, F, 0)
      BY <1>2 DEF NewUpTo, Keeping
    <2> QED BY <1>1, <2>1
  <1>4. ASSUME NEW i \in 1 .. c, i - 1 \in G PROVE i \in G
    <2> DEFINE t == f[i - 1]
               u == NewBlock(t)
    <2>1. NewUpTo(s, t, F, i - 1) /\ f[i] = u /\ i \in 0 .. c /\ i \in Nat
      BY <1>1, <1>4
    <2> HIDE DEF t
    <2>2. PICK B : Good(t, B, F)
      BY <2>1 DEF NewUpTo, Keeping, Sound
    <2>3. Blocks \ t.lent # {}
      <3>1. Unlent(t) >= 1
        BY <1>2, <2>1 DEF NewUpTo
      <3>2. t.lent \subseteq Blocks
        BY <2>2, GoodFacts
      <3>3. Unlent(t) = 0 <=> Blocks \ t.lent = {}
        BY <3>2, UnlentFacts
      <3> QED BY <3>1, <3>3
    <2>4. PICK b \in Blocks \ t.lent :
            /\ Good(u, B \cup {b}, F) /\ u.available = Append(t.available, b) /\ u.active = t.active
            /\ u.mask = t.mask /\ u.data = t.data /\ u.size = t.size /\ u.num = t.num + 1
            /\ u.lent = t.lent \cup {b}
      BY <2>2, <2>3, NewBlockGood
    <2> HIDE DEF u
    <2>5. Unlent(u) = Unlent(t) - 1
      <3>1. Blocks \ u.lent = (Blocks \ t.lent) \ {b}
        BY <2>4
      <3>2. IsFiniteSet(Blocks \ t.lent)
        BY HubAssumption, FS_Difference
      <3>3. Cardinality((Blocks \ t.lent) \ {b}) = Cardinality(Blocks \ t.lent) - 1
        BY <2>4, <3>2, FS_RemoveElement
      <3> QED BY <3>1, <3>3 DEF Unlent
    <2>6. Keeping(s, u, F)
      BY <2>1, <2>4 DEF NewUpTo, Keeping, Sound
    <2>7. Unlent(u) = Unlent(s) - i /\ u.num = s.num + i
      BY <1>2, <2>1, <2>4, <2>5 DEF NewUpTo
    <2> QED BY <2>1, <2>6, <2>7 DEF NewUpTo
  <1>5. \A i \in 0 .. c : i \in G
    <2> HIDE DEF G
    <2> QED BY <1>3, <1>4, Induction
  <1> QED BY <1>1, <1>5 DEF NewUpTo

LEMMA RetrieveThrowsIs ==
  ASSUME NEW s, NEW F, Sound(s, F), Room(s) >= 1
  PROVE  RetrieveThrows(s) = s
  <1>1. PICK B : Good(s, B, F)
    BY DEF Sound
  <1>2. s \in States
    BY <1>1 DEF Good
  <1>3. CASE s.available = <<>>
    <2>1. Blocks \ s.lent # {}
      BY <1>1, <1>3, RoomIsThere
    <2> QED BY <1>2, <1>3, <2>1, NewBlockThrowsIs DEF RetrieveThrows
  <1>4. CASE s.available # <<>>
    BY <1>4 DEF RetrieveThrows
  <1> QED BY <1>3, <1>4

\* An emplace that throws
LEMMA RestoredGood ==
  ASSUME NEW s, NEW F, Sound(s, F), Room(s) >= 1
  PROVE  Keeping(s, Restored(Retrieve(s), FirstAvailable(s)), F)
  <1>1. PICK B : Good(s, B, F)
    BY DEF Sound
  <1>2. CASE s.available # <<>>
    <2>1. Retrieve(s) = s
      BY <1>2 DEF Retrieve
    <2>2. Restored(s, FirstAvailable(s)) = s
      BY DEF Restored
    <2> QED BY <2>1, <2>2 DEF Keeping
  <1>3. CASE s.available = <<>>
    <2> DEFINE t == NewBlock(s)
    <2>1. PICK b \in Blocks \ s.lent :
            /\ Good(t, B \cup {b}, F) /\ t.available = Append(s.available, b) /\ t.active = s.active
            /\ t.mask = s.mask /\ t.data = s.data /\ t.size = s.size /\ t.num = s.num + 1
            /\ t.lent = s.lent \cup {b}
      <3>1. Blocks \ s.lent # {}
        BY <1>1, <1>3, RoomIsThere
      <3> QED BY <1>1, <3>1, NewBlockGood
    <2>2. Retrieve(s) = t
      BY <1>3 DEF Retrieve
    <2> HIDE DEF t
    <2>3. Head(t.available) = b
      BY <1>3, <2>1
    <2>4. t.mask[b] = {}
      BY <1>1, <2>1 DEF Good, Memory
    <2> DEFINE C == B \cup {b}
    <2>5. b \in C
      OBVIOUS
    <2> HIDE DEF C
    <2>6. /\ Good(Deleted(t, b), C \ {b}, F) /\ Deleted(t, b).mask = t.mask /\ Deleted(t, b).data = t.data
      <3>1. Good(t, C, F)
        BY <2>1 DEF C
      <3> QED BY <2>4, <2>5, <3>1, DeletedGood
    <2>7. Restored(t, FirstAvailable(s)) = t \/ Restored(t, FirstAvailable(s)) = Deleted(t, b)
      BY <2>3 DEF Restored
    <2> QED BY <2>1, <2>2, <2>6, <2>7 DEF Keeping, Sound
  <1> QED BY <1>2, <1>3

\* The reserved blocks, from the back of the available list.
LEMMA BackEmptyOf ==
  ASSUME NEW s, NEW B, NEW F, Good(s, B, F)
  PROVE  LET q == BackEmpty(s) IN q \in Seq(Blocks) /\ Distinct(q) /\ ToSet(q) = {b \in B : s.mask[b] = {}}
  <1> DEFINE v == s.available
             z == Len(v)
             I == {i \in 1 .. z : s.mask[v[i]] # {}}
             k == SelectLastInSeq(v, LAMBDA b : s.mask[b] # {})
             q == SubSeq(v, k + 1, z)
  <1>1. v \in Seq(Blocks) /\ Distinct(v) /\ ToSet(v) = {b \in B : s.mask[b] # Slots} /\ ReservedLast(v, s.mask)
    BY DEF Good, AvailableSound
  <1>2. z \in Nat /\ DOMAIN v = 1 .. z
    BY <1>1
  <1>3. k = IF I # {} THEN Max(I) ELSE 0
    BY DEF SelectLastInSeq
  <1>4. BackEmpty(s) = q
    BY DEF BackEmpty
  <1> HIDE DEF v, z, k
  <1>5. k \in 0 .. z /\ (k # 0 => k \in I) /\ \A i \in I : i <= k
    <2>1. CASE I = {}
      <3>1. k = 0
        <4> HIDE DEF I
        <4> QED BY <1>3, <2>1
      <3>2. 0 \in 0 .. z
        BY <1>2
      <3> HIDE DEF I
      <3> QED BY <2>1, <3>1, <3>2
    <2>2. CASE I # {}
      <3>1. I \subseteq 1 .. z
        OBVIOUS
      <3> HIDE DEF I
      <3>2. Max(I) \in I /\ \A i \in I : i <= Max(I)
        BY <1>2, <2>2, <3>1, MaxOf
      <3>3. k = Max(I)
        BY <1>3, <2>2
      <3>4. k \in I /\ k \in 1 .. z /\ \A i \in I : i <= k
        BY <3>1, <3>2, <3>3
      <3> QED BY <1>2, <3>4
    <2> QED BY <2>1, <2>2
  <1>6. Part(q, v, k + 1, z, Blocks)
    <2>1. k + 1 \in Nat \ {0} /\ z \in Int /\ z <= Len(v)
      BY <1>2, <1>5 DEF z
    <2> QED BY <1>1, <2>1, PartOf
  <1>7. q \in Seq(Blocks) /\ Distinct(q) /\ ToSet(q) = {v[i] : i \in k + 1 .. z}
    BY <1>1, <1>6 DEF Part
  <1>8. \A i \in k + 1 .. z : i \in 1 .. z /\ i \notin I
    BY <1>2, <1>5
  <1>9. \A i \in k + 1 .. z : v[i] \in B /\ s.mask[v[i]] = {}
    <2> TAKE i \in k + 1 .. z
    <2>1. i \in 1 .. z /\ i \notin I
      BY <1>8
    <2>2. v[i] \in ToSet(v)
      BY <1>2, <2>1 DEF ToSet
    <2> QED BY <1>1, <2>1, <2>2
  <1>10. ASSUME NEW b \in B, s.mask[b] = {} PROVE \E i \in k + 1 .. z : v[i] = b
    <2>1. b \in ToSet(v)
      BY <1>1, <1>10, SlotFacts
    <2>2. PICK i \in 1 .. z : v[i] = b
      BY <1>2, <2>1 DEF ToSet
    <2>3. ~(i <= k)
      <3> SUFFICES ASSUME i <= k PROVE FALSE
        OBVIOUS
      <3>1. k \in I /\ k \in 1 .. z /\ s.mask[v[k]] # {}
        BY <1>5, <2>2
      <3>2. i < k
        <4>1. i # k
          BY <1>10, <2>2, <3>1
        <4> QED BY <1>2, <1>5, <4>1
      <3>3. Prec(v, b, v[k]) /\ b \in ToSet(v) /\ v[k] \in ToSet(v)
        BY <1>2, <2>1, <2>2, <3>1, <3>2 DEF Prec, ToSet
      <3> QED BY <1>1, <1>10, <3>1, <3>3 DEF ReservedLast
    <2>4. i \in k + 1 .. z
      BY <1>2, <1>5, <2>2, <2>3
    <2> QED BY <2>2, <2>4
  <1>11. ToSet(q) = {b \in B : s.mask[b] = {}}
    BY <1>7, <1>9, <1>10
  <1> QED BY <1>4, <1>7, <1>11

\* Blocks without elements.
AreReserved(q, s, B) == q \in Seq(Blocks) /\ Distinct(q) /\ \A b \in ToSet(q) : b \in B /\ s.mask[b] = {}

\* The first i of them are deleted.
DeletedUpTo(s, t, B, F, q, i) ==
  Good(t, {b \in B : \A k \in 1 .. i : q[k] # b}, F) /\ t.mask = s.mask /\ t.data = s.data

LEMMA DeletedEachGood ==
  ASSUME NEW s, NEW B, NEW F, Good(s, B, F), NEW q \in Seq(Blocks), AreReserved(q, s, B)
  PROVE  LET t == DeletedEach(s, q) IN Good(t, B \ ToSet(q), F) /\ t.mask = s.mask /\ t.data = s.data
  <1> DEFINE n == Len(q)
  <1>1. n \in Nat /\ DOMAIN q = 1 .. n /\ \A i \in 1 .. n : q[i] \in Blocks
    OBVIOUS
  <1>2. PICK f : /\ f[0] = s /\ f[n] = DeletedEach(s, q)
                 /\ \A i \in 1 .. n : f[i] = Deleted(f[i - 1], q[i])
    BY DeletedTurns
  <1> HIDE DEF n
  <1>3. \A i \in 1 .. n : q[i] \in B /\ s.mask[q[i]] = {}
    BY <1>1 DEF AreReserved, ToSet
  <1> DEFINE rest(i) == {b \in B : \A k \in 1 .. i : q[k] # b}
             G == {i \in 0 .. n : DeletedUpTo(s, f[i], B, F, q, i)}
  <1>4. 0 \in G
    <2>1. rest(0) = B
      OBVIOUS
    <2>2. DeletedUpTo(s, s, B, F, q, 0)
      BY <2>1 DEF DeletedUpTo
    <2> QED BY <1>1, <1>2, <2>2
  <1>5. ASSUME NEW i \in 1 .. n, i - 1 \in G PROVE i \in G
    <2> DEFINE t == f[i - 1]
               c == q[i]
               u == Deleted(t, c)
               C == rest(i - 1)
    <2>1. Good(t, C, F) /\ t.mask = s.mask /\ t.data = s.data /\ f[i] = u /\ i \in 0 .. n
      BY <1>1, <1>2, <1>5 DEF DeletedUpTo
    <2>2. \A k \in 1 .. i - 1 : q[k] # c
      <3>1. \A k \in 1 .. i - 1 : k \in 1 .. n /\ k # i
        BY <1>1
      <3> QED BY <1>1, <3>1 DEF Distinct, AreReserved
    <2>3. c \in C /\ s.mask[c] = {}
      BY <1>3, <2>2
    <2>4. C \ {c} = rest(i)
      <3>1. i \in 1 .. i /\ (\A k \in 1 .. i : k = i \/ k \in 1 .. i - 1) /\ (\A k \in 1 .. i - 1 : k \in 1 .. i)
        BY <1>1
      <3> QED BY <3>1
    <2> HIDE DEF t, c, C
    <2>5. Good(u, C \ {c}, F) /\ u.mask = t.mask /\ u.data = t.data
      <3>1. t.mask[c] = {}
        BY <2>1, <2>3
      <3> QED BY <2>1, <2>3, <3>1, DeletedGood
    <2> HIDE DEF u
    <2>6. DeletedUpTo(s, f[i], B, F, q, i)
      BY <2>1, <2>4, <2>5 DEF DeletedUpTo
    <2> QED BY <2>1, <2>6
  <1>6. DeletedUpTo(s, f[n], B, F, q, n)
    <2>1. \A i \in 0 .. n : i \in G
      <3> HIDE DEF G
      <3> QED BY <1>1, <1>4, <1>5, Induction
    <2> QED BY <1>1, <2>1
  <1>7. rest(n) = B \ ToSet(q)
    BY <1>1 DEF ToSet, n
  <1> QED BY <1>2, <1>6, <1>7 DEF DeletedUpTo

LEMMA SurplusType ==
  ASSUME NEW s, s.num \in Nat, NEW n \in Nat
  PROVE  Surplus(s, n) \in Nat
  <1>1. N \in Nat \ {0}
    BY SlotFacts
  <1> DEFINE c == Capacity(s)
  <1>2. c \in Nat
    BY <1>1 DEF Capacity
  <1> HIDE DEF c
  <1>3. ~(c <= n) => (c - n) \div N \in Nat
    BY <1>1, <1>2
  <1> QED BY <1>3 DEF Surplus, c

\* The blocks R are deleted: as many reserved ones as trim_capacity may, or all.
TrimmedBy(s, t, B, F, n, R) ==
  LET reserved == {b \in B : s.mask[b] = {}} IN
  /\ R \subseteq reserved /\ Good(t, B \ R, F) /\ t.mask = s.mask /\ t.data = s.data
  /\ Cardinality(R) <= Surplus(s, n) /\ (R = reserved \/ Cardinality(R) = Surplus(s, n))

\* trim_capacity
LEMMA TrimmedIs ==
  ASSUME NEW s, NEW B, NEW F, Good(s, B, F), NEW n \in Nat
  PROVE  \E R : TrimmedBy(s, Trimmed(s, n), B, F, n, R)
  <1> DEFINE e == BackEmpty(s)
             r == Reverse(e)
             x == Surplus(s, n)
             c == IF x < Len(r) THEN x ELSE Len(r)
             q == SubSeq(r, 1, c)
             E == {b \in B : s.mask[b] = {}}
             R == ToSet(q)
             t == DeletedEach(s, q)
  <1>1. Trimmed(s, n) = t
    BY DEF Trimmed
  <1>2. e \in Seq(Blocks) /\ Distinct(e) /\ ToSet(e) = E
    BY BackEmptyOf
  <1> HIDE DEF e, E
  <1>3. r \in Seq(Blocks) /\ Distinct(r) /\ ToSet(r) = E
    BY <1>2, ReverseDistinct
  <1>4. x \in Nat
    BY GoodFacts, SurplusType
  <1> HIDE DEF r, x
  <1>5. c \in Nat /\ c <= Len(r) /\ Len(r) \in Nat /\ c <= x /\ (c = x \/ c = Len(r))
    BY <1>3, <1>4
  <1> HIDE DEF c
  <1>6. Part(q, r, 1, c, Blocks) /\ Len(q) = c
    <2>1. 1 \in Nat \ {0} /\ c \in Int
      BY <1>5
    <2>2. r \in Seq(Blocks) /\ c <= Len(r)
      BY <1>3, <1>5
    <2>3. Part(q, r, 1, c, Blocks) /\ Len(q) = IF 1 <= c THEN c - 1 + 1 ELSE 0
      BY <2>1, <2>2, PartOf
    <2> HIDE DEF q
    <2>4. Len(q) = c
      BY <1>5, <2>3
    <2> QED BY <2>3, <2>4
  <1>7. R \subseteq E
    <2>1. \A k \in 1 .. c : k \in DOMAIN r
      BY <1>3, <1>5
    <2> QED BY <1>3, <1>6, <2>1 DEF Part, ToSet
  <1>8. c = Len(r) => R = E
    <2>1. DOMAIN r = 1 .. Len(r)
      BY <1>3
    <2> QED BY <1>3, <1>6, <2>1 DEF Part, ToSet
  <1> HIDE DEF q
  <1>9. q \in Seq(Blocks) /\ Distinct(q)
    BY <1>3, <1>6 DEF Part
  <1>10. AreReserved(q, s, B)
    BY <1>7, <1>9 DEF AreReserved, E
  <1>11. Good(t, B \ R, F) /\ t.mask = s.mask /\ t.data = s.data
    BY <1>9, <1>10, DeletedEachGood
  <1>12. Cardinality(R) = c
    BY <1>6, <1>9, DistinctCount
  <1> HIDE DEF R, t
  <1>13. Cardinality(R) <= x /\ (R = E \/ Cardinality(R) = x)
    BY <1>5, <1>8, <1>12
  <1>14. TrimmedBy(s, t, B, F, n, R)
    BY <1>7, <1>11, <1>13 DEF TrimmedBy, E, x
  <1> QED BY <1>1, <1>14

LEMMA TrimmedGood ==
  ASSUME NEW s, NEW F, Sound(s, F), NEW n \in Nat
  PROVE  Keeping(s, Trimmed(s, n), F)
  <1>1. PICK B : Good(s, B, F)
    BY DEF Sound
  <1>2. PICK R : TrimmedBy(s, Trimmed(s, n), B, F, n, R)
    BY <1>1, TrimmedIs
  <1> QED BY <1>2 DEF TrimmedBy, Keeping, Sound

-----------------------------------------------------------------------------
(* Compaction: elements change their blocks *)

LEMMA HighestIn ==
  ASSUME NEW T, T \subseteq Slots, T # {}
  PROVE  Highest(T) \in T /\ \A k \in T : k <= Highest(T)
  <1> DEFINE R == {N - k : k \in T}
  <1>1. N \in Nat /\ \A k \in Slots : k \in Nat /\ N - k \in Nat
    BY SlotFacts DEF Slots
  <1>2. R \subseteq Nat /\ R # {}
    BY <1>1
  <1>3. PICK r \in R : \A q \in R : r <= q
    <2> HIDE DEF R
    <2> QED BY <1>2, LeastElement
  <1>4. PICK n \in T : r = N - n
    OBVIOUS
  <1>5. \A k \in T : k <= n
    <2> TAKE k \in T
    <2>1. N - n <= N - k
      BY <1>3, <1>4
    <2>2. k \in Nat /\ n \in Nat
      BY <1>1
    <2> HIDE DEF R
    <2> QED BY <1>1, <2>1, <2>2
  <1>6. \E x \in T : \A k \in T : x >= k
    BY <1>1, <1>4, <1>5
  <1>7. Highest(T) \in T /\ \A k \in T : Highest(T) >= k
    BY <1>6 DEF Highest
  <1> QED BY <1>1, <1>7

Typed(s) == s \in States /\ Memory(s.mask, s.data, s.lent)

SameLists(s, t) ==
  t.active = s.active /\ t.available = s.available /\ t.num = s.num /\ t.size = s.size /\ t.lent = s.lent

LEMMA TypedFacts ==
  ASSUME NEW s, Typed(s)
  PROVE  /\ s.lent \subseteq Blocks /\ s.mask \in [Blocks -> SUBSET Slots] /\ s.data \in Rows
         /\ \A b \in Blocks : s.mask[b] \subseteq Slots /\ s.data[b] \in [Slots -> Values \cup {Raw}]
         /\ \A b \in Blocks : \A n \in s.mask[b] : s.data[b][n] \in Values
  <1>1. s.lent \subseteq Blocks /\ s.mask \in [Blocks -> SUBSET Slots] /\ s.data \in Rows
    BY DEF Typed, States
  <1>2. \A b \in Blocks : s.mask[b] \subseteq Slots /\ s.data[b] \in [Slots -> Values \cup {Raw}]
    BY <1>1 DEF Rows
  <1>3. \A b \in Blocks : \A n \in s.mask[b] : s.data[b][n] \in Values
    BY <1>2 DEF Typed, Memory
  <1> QED BY <1>1, <1>2, <1>3

LEMMA FieldsTyped ==
  ASSUME NEW s \in States, NEW m, NEW d, Memory(m, d, s.lent),
         NEW t \in Fields(s.active, s.available, s.num, s.size, m, d, s.lent)
  PROVE  Typed(t) /\ SameLists(s, t) /\ t.mask = m /\ t.data = d
  <1>1. /\ t.active = s.active /\ t.available = s.available /\ t.num = s.num /\ t.size = s.size
        /\ t.mask = m /\ t.data = d /\ t.lent = s.lent
    BY FieldsOf
  <1>2. t \in States
    BY DEF Fields, States, Memory, Rows
  <1> QED BY <1>1, <1>2 DEF Typed, SameLists

LEMMA PutTyped ==
  ASSUME NEW s, Typed(s), NEW b \in s.lent, NEW n \in Slots, NEW v \in Values
  PROVE  LET t == Put(s, b, n, v) IN
         Typed(t) /\ SameLists(s, t) /\ ChangesAt(s, t, b) /\ t.mask[b] = s.mask[b] \cup {n}
  <1> DEFINE m == [s.mask EXCEPT ![b] = s.mask[b] \cup {n}]
             d == [s.data EXCEPT ![b] = [s.data[b] EXCEPT ![n] = v]]
             t == Put(s, b, n, v)
  <1>1. s \in States /\ Memory(s.mask, s.data, s.lent)
    BY DEF Typed
  <1>2. b \in Blocks /\ s.mask \in [Blocks -> SUBSET Slots] /\ s.data \in Rows
    BY TypedFacts
  <1>3. t \in Fields(s.active, s.available, s.num, s.size, m, d, s.lent)
    BY <1>1, <1>2, PutIs
  <1>4. Memory(m, d, s.lent)
    BY <1>1, PutMemory
  <1>5. m[b] = s.mask[b] \cup {n} /\ \A x \in Blocks : x # b => m[x] = s.mask[x] /\ d[x] = s.data[x]
    BY <1>2 DEF Rows
  <1> HIDE DEF t, m, d
  <1>6. Typed(t) /\ SameLists(s, t) /\ t.mask = m /\ t.data = d
    BY <1>1, <1>3, <1>4, FieldsTyped
  <1> QED BY <1>5, <1>6 DEF ChangesAt, t

LEMMA FreedTyped ==
  ASSUME NEW s, Typed(s), NEW b \in s.lent, NEW n \in Slots
  PROVE  LET t == Freed(s, b, n) IN
         Typed(t) /\ SameLists(s, t) /\ ChangesAt(s, t, b) /\ t.mask[b] = s.mask[b] \ {n}
  <1> DEFINE m == [s.mask EXCEPT ![b] = s.mask[b] \ {n}]
             d == [s.data EXCEPT ![b] = [s.data[b] EXCEPT ![n] = Raw]]
             t == Freed(s, b, n)
  <1>1. s \in States /\ Memory(s.mask, s.data, s.lent)
    BY DEF Typed
  <1>2. b \in Blocks /\ s.mask \in [Blocks -> SUBSET Slots] /\ s.data \in Rows
    BY TypedFacts
  <1>3. t \in Fields(s.active, s.available, s.num, s.size, m, d, s.lent)
    BY <1>1, <1>2, FreedIs
  <1>4. Memory(m, d, s.lent)
    BY <1>1, FreedMemory
  <1>5. m[b] = s.mask[b] \ {n} /\ \A x \in Blocks : x # b => m[x] = s.mask[x] /\ d[x] = s.data[x]
    BY <1>2 DEF Rows
  <1> HIDE DEF t, m, d
  <1>6. Typed(t) /\ SameLists(s, t) /\ t.mask = m /\ t.data = d
    BY <1>1, <1>3, <1>4, FieldsTyped
  <1> QED BY <1>5, <1>6 DEF ChangesAt, t

\* Only blocks x and y differ, and they have as many elements as before.
Elsewhere(s, t, x, y) == \A b \in Blocks \ {x, y} : t.mask[b] = s.mask[b] /\ t.data[b] = s.data[b]
Held(s, x) == Cardinality(s.mask[x])

Mutual(s, t, x, y) ==
  Typed(t) /\ SameLists(s, t) /\ Elsewhere(s, t, x, y) /\ Held(t, x) + Held(t, y) = Held(s, x) + Held(s, y)

LEMMA HeldFacts ==
  ASSUME NEW s, Typed(s), NEW b \in Blocks
  PROVE  Held(s, b) \in 0 .. N /\ N \in Nat /\ (Held(s, b) = 0 <=> s.mask[b] = {}) /\ (Held(s, b) = N <=> s.mask[b] = Slots)
  <1>1. s.mask[b] \in SUBSET Slots
    BY TypedFacts
  <1> QED BY <1>1, SomeSlots, SlotFacts DEF Held

\* An element moves from block y to block x.
LEMMA MovedOther ==
  ASSUME NEW s, Typed(s), NEW x \in s.lent, NEW y \in s.lent, x # y, s.mask[x] # Slots, s.mask[y] # {}
  PROVE  LET t == Moved(s, x, y) IN
         /\ Typed(t) /\ SameLists(s, t) /\ Elsewhere(s, t, x, y)
         /\ Held(t, x) = Held(s, x) + 1 /\ Held(t, y) = Held(s, y) - 1
  <1> DEFINE h == Hole(s, x)
             m == Highest(s.mask[y])
             v == s.data[y][m]
             u == Put(s, x, h, v)
             t == Freed(u, y, m)
  <1>1. Moved(s, x, y) = t
    BY DEF Moved
  <1>2. x \in Blocks /\ y \in Blocks /\ s.mask[x] \subseteq Slots /\ s.mask[y] \subseteq Slots
    BY TypedFacts
  <1>3. h \in Slots /\ h \notin s.mask[x]
    BY <1>2, HoleIn
  <1>4. m \in s.mask[y] /\ m \in Slots
    BY <1>2, HighestIn
  <1> HIDE DEF h, m
  <1>5. v \in Values
    BY <1>2, <1>4, TypedFacts
  <1> HIDE DEF v
  <1>6. Typed(u) /\ SameLists(s, u) /\ ChangesAt(s, u, x) /\ u.mask[x] = s.mask[x] \cup {h}
    BY <1>3, <1>5, PutTyped
  <1> HIDE DEF u
  <1>7. Typed(t) /\ SameLists(u, t) /\ ChangesAt(u, t, y) /\ t.mask[y] = u.mask[y] \ {m}
    <2>1. y \in u.lent
      BY <1>6 DEF SameLists
    <2> QED BY <1>4, <1>6, <2>1, FreedTyped
  <1> HIDE DEF t
  <1>8. SameLists(s, t)
    BY <1>6, <1>7 DEF SameLists
  <1>9. Elsewhere(s, t, x, y)
    BY <1>6, <1>7 DEF Elsewhere, ChangesAt
  <1>10. t.mask[x] = s.mask[x] \cup {h} /\ t.mask[y] = s.mask[y] \ {m}
    BY <1>2, <1>6, <1>7 DEF ChangesAt
  <1>11. Held(t, x) = Held(s, x) + 1 /\ Held(t, y) = Held(s, y) - 1
    BY <1>2, <1>3, <1>4, <1>10, SlotMore, SlotLess DEF Held
  <1> QED BY <1>1, <1>7, <1>8, <1>9, <1>11

\* An element moves down in its block.
LEMMA MovedSame ==
  ASSUME NEW s, Typed(s), NEW x \in s.lent, s.mask[x] # Slots, s.mask[x] # {}
  PROVE  LET t == Moved(s, x, x) IN
         Typed(t) /\ SameLists(s, t) /\ ChangesAt(s, t, x) /\ Held(t, x) = Held(s, x)
  <1> DEFINE h == Hole(s, x)
             m == Highest(s.mask[x])
             v == s.data[x][m]
             u == Put(s, x, h, v)
             t == Freed(u, x, m)
  <1>1. Moved(s, x, x) = t
    BY DEF Moved
  <1>2. x \in Blocks /\ s.mask[x] \subseteq Slots
    BY TypedFacts
  <1>3. h \in Slots /\ h \notin s.mask[x]
    BY <1>2, HoleIn
  <1>4. m \in s.mask[x] /\ m \in Slots
    BY <1>2, HighestIn
  <1> HIDE DEF h, m
  <1>5. v \in Values
    BY <1>2, <1>4, TypedFacts
  <1> HIDE DEF v
  <1>6. Typed(u) /\ SameLists(s, u) /\ ChangesAt(s, u, x) /\ u.mask[x] = s.mask[x] \cup {h}
    BY <1>3, <1>5, PutTyped
  <1> HIDE DEF u
  <1>7. Typed(t) /\ SameLists(u, t) /\ ChangesAt(u, t, x) /\ t.mask[x] = u.mask[x] \ {m}
    <2>1. x \in u.lent
      BY <1>6 DEF SameLists
    <2> QED BY <1>4, <1>6, <2>1, FreedTyped
  <1> HIDE DEF t
  <1>8. SameLists(s, t) /\ ChangesAt(s, t, x)
    BY <1>6, <1>7 DEF SameLists, ChangesAt
  <1>9. Held(t, x) = Held(s, x)
    <2>1. Held(u, x) = Held(s, x) + 1
      BY <1>2, <1>3, <1>6, SlotMore DEF Held
    <2>2. Held(t, x) = Held(u, x) - 1
      <3>1. u.mask[x] \in SUBSET Slots /\ m \in u.mask[x]
        BY <1>2, <1>4, <1>6, TypedFacts
      <3> QED BY <1>7, <3>1, SlotLess DEF Held
    <2>3. Held(s, x) \in 0 .. N /\ N \in Nat
      BY <1>2, HeldFacts
    <2> QED BY <2>1, <2>2, <2>3
  <1> QED BY <1>1, <1>7, <1>8, <1>9

\* The payloads of two blocks change places.
LEMMA SwapTyped ==
  ASSUME NEW s, Typed(s), NEW x \in s.lent, NEW y \in s.lent, x # y
  PROVE  LET t == SwapPayload(s, x, y) IN
         /\ Typed(t) /\ SameLists(s, t) /\ Elsewhere(s, t, x, y)
         /\ t.mask[x] = s.mask[y] /\ t.mask[y] = s.mask[x]
  <1> DEFINE m == [[s.mask EXCEPT ![x] = s.mask[y]] EXCEPT ![y] = s.mask[x]]
             d == [[s.data EXCEPT ![x] = s.data[y]] EXCEPT ![y] = s.data[x]]
             t == SwapPayload(s, x, y)
  <1>1. s \in States /\ Memory(s.mask, s.data, s.lent)
    BY DEF Typed
  <1>2. x \in Blocks /\ y \in Blocks /\ s.mask \in [Blocks -> SUBSET Slots] /\ s.data \in Rows
    BY TypedFacts
  <1>3. t \in Fields(s.active, s.available, s.num, s.size, m, d, s.lent)
    BY <1>1 DEF SwapPayload, Fields, States
  <1>4. /\ m \in [Blocks -> SUBSET Slots] /\ m[x] = s.mask[y] /\ m[y] = s.mask[x]
        /\ \A b \in Blocks \ {x, y} : m[b] = s.mask[b]
    BY <1>2
  <1>5. /\ d \in Rows /\ d[x] = s.data[y] /\ d[y] = s.data[x]
        /\ \A b \in Blocks \ {x, y} : d[b] = s.data[b]
    BY <1>2 DEF Rows
  <1> HIDE DEF t, m, d
  <1>6. Memory(m, d, s.lent)
    <2>1. ASSUME NEW b \in Blocks, NEW n \in Slots PROVE n \in m[b] <=> d[b][n] # Raw
      <3>1. \A c \in Blocks : n \in s.mask[c] <=> s.data[c][n] # Raw
        BY <1>1 DEF Memory
      <3>2. CASE b = x
        BY <1>2, <1>4, <1>5, <3>1, <3>2
      <3>3. CASE b = y
        BY <1>2, <1>4, <1>5, <3>1, <3>3
      <3>4. CASE b \in Blocks \ {x, y}
        BY <1>4, <1>5, <3>1, <3>4
      <3> QED BY <3>2, <3>3, <3>4
    <2>2. \A b \in Blocks \ s.lent : m[b] = {}
      BY <1>1, <1>4 DEF Memory
    <2> QED BY <1>1, <1>4, <1>5, <2>1, <2>2 DEF Memory, Rows
  <1>7. Typed(t) /\ SameLists(s, t) /\ t.mask = m /\ t.data = d
    BY <1>1, <1>3, <1>6, FieldsTyped
  <1> QED BY <1>4, <1>5, <1>7 DEF Elsewhere, t

\* i elements have moved from y to x.
MovedUpTo(s, t, x, y, i) ==
  Typed(t) /\ SameLists(s, t) /\ Elsewhere(s, t, x, y) /\ Held(t, x) = Held(s, x) + i /\ Held(t, y) = Held(s, y) - i

LEMMA MovedTimesTyped ==
  ASSUME NEW s, Typed(s), NEW x \in s.lent, NEW y \in s.lent, x # y,
         NEW c \in Nat, c <= Held(s, y), c <= N - Held(s, x)
  PROVE  MovedUpTo(s, MovedTimes(s, x, y, c), x, y, c)
  <1>0. /\ Held(s, x) \in Nat /\ Held(s, y) \in Nat /\ N \in Nat
        /\ x \in Blocks /\ y \in Blocks
    <2>1. x \in Blocks /\ y \in Blocks
      BY TypedFacts
    <2> QED BY <2>1, HeldFacts
  <1>1. PICK f : f[0] = s /\ f[c] = MovedTimes(s, x, y, c) /\ \A i \in 1 .. c : f[i] = Moved(f[i - 1], x, y)
    BY MovedTurns
  <1> DEFINE G == {i \in 0 .. c : MovedUpTo(s, f[i], x, y, i)}
  <1>2. 0 \in G
    <2>1. MovedUpTo(s, s, x, y, 0)
      BY <1>0 DEF MovedUpTo, SameLists, Elsewhere
    <2> QED BY <1>1, <2>1
  <1>3. ASSUME NEW i \in 1 .. c, i - 1 \in G PROVE i \in G
    <2> DEFINE t == f[i - 1]
               u == Moved(t, x, y)
    <2>1. MovedUpTo(s, t, x, y, i - 1) /\ f[i] = u /\ i \in 0 .. c /\ i \in Nat /\ i <= c
      BY <1>1, <1>3
    <2> HIDE DEF t
    <2>2. /\ Typed(t) /\ SameLists(s, t) /\ Elsewhere(s, t, x, y)
          /\ Held(t, x) = Held(s, x) + (i - 1) /\ Held(t, y) = Held(s, y) - (i - 1)
      BY <2>1 DEF MovedUpTo
    <2>3. x \in t.lent /\ y \in t.lent
      BY <2>2 DEF SameLists
    <2>4. Held(t, x) # N /\ Held(t, y) # 0
      BY <1>0, <2>1, <2>2
    <2>5. t.mask[x] # Slots /\ t.mask[y] # {}
      BY <1>0, <2>2, <2>4, HeldFacts
    <2>6. /\ Typed(u) /\ SameLists(t, u) /\ Elsewhere(t, u, x, y)
          /\ Held(u, x) = Held(t, x) + 1 /\ Held(u, y) = Held(t, y) - 1
      BY <2>2, <2>3, <2>5, MovedOther
    <2> HIDE DEF u
    <2>7. SameLists(s, u) /\ Elsewhere(s, u, x, y)
      BY <2>2, <2>6 DEF SameLists, Elsewhere
    <2>8. Held(u, x) = Held(s, x) + i /\ Held(u, y) = Held(s, y) - i
      BY <1>0, <2>1, <2>2, <2>6
    <2>9. MovedUpTo(s, u, x, y, i)
      BY <2>6, <2>7, <2>8 DEF MovedUpTo
    <2> QED BY <2>1, <2>9
  <1>4. \A i \in 0 .. c : i \in G
    <2> HIDE DEF G
    <2> QED BY <1>2, <1>3, Induction
  <1>5. c \in 0 .. c
    OBVIOUS
  <1> QED BY <1>1, <1>4, <1>5

\* Block x or y has neither no element nor N of them.
Between(s, x) == s.mask[x] # {} /\ s.mask[x] # Slots

\* compact(pbx, pby)
LEMMA CompactTwoTyped ==
  ASSUME NEW s, Typed(s), NEW x \in s.lent, NEW y \in s.lent, x # y, Between(s, x), Between(s, y)
  PROVE  LET t == CompactTwo(s, x, y) IN
         Mutual(s, t, x, y) /\ t.mask[x] # {} /\ t.mask[y] # Slots /\ (t.mask[x] = Slots \/ t.mask[y] = {})
  <1> DEFINE t  == IF Cardinality(s.mask[x]) < Cardinality(s.mask[y]) THEN SwapPayload(s, x, y) ELSE s
             cx == Held(t, x)
             cy == Held(t, y)
             k  == IF N - cx < cy THEN N - cx ELSE cy
             u  == MovedTimes(t, x, y, k)
  <1>0. x \in Blocks /\ y \in Blocks
    BY TypedFacts
  <1>1. CompactTwo(s, x, y) = u
    BY DEF CompactTwo, Held
  <1>2. /\ Typed(t) /\ SameLists(s, t) /\ Elsewhere(s, t, x, y)
        /\ Held(t, x) + Held(t, y) = Held(s, x) + Held(s, y) /\ Between(t, x) /\ Between(t, y)
    <2>1. CASE Cardinality(s.mask[x]) < Cardinality(s.mask[y])
      <3> DEFINE p == SwapPayload(s, x, y)
      <3>1. /\ Typed(p) /\ SameLists(s, p) /\ Elsewhere(s, p, x, y)
            /\ p.mask[x] = s.mask[y] /\ p.mask[y] = s.mask[x]
        BY SwapTyped
      <3>2. t = p
        BY <2>1
      <3> HIDE DEF p, t
      <3>3. Held(p, x) = Held(s, y) /\ Held(p, y) = Held(s, x)
        BY <3>1 DEF Held
      <3>4. Held(s, x) \in Nat /\ Held(s, y) \in Nat
        BY <1>0, HeldFacts
      <3>5. Held(p, x) + Held(p, y) = Held(s, x) + Held(s, y)
        BY <3>3, <3>4
      <3> QED BY <3>1, <3>2, <3>5 DEF Between
    <2>2. CASE ~(Cardinality(s.mask[x]) < Cardinality(s.mask[y]))
      <3>1. t = s
        BY <2>2
      <3> HIDE DEF t
      <3> QED BY <3>1 DEF SameLists, Elsewhere
    <2> QED BY <2>1, <2>2
  <1> HIDE DEF t
  <1>3. cx \in 1 .. N - 1 /\ cy \in 1 .. N - 1 /\ N \in Nat
    <2>1. /\ cx \in 0 .. N /\ cx # 0 /\ cx # N /\ cy \in 0 .. N /\ cy # 0 /\ cy # N /\ N \in Nat
      BY <1>0, <1>2, HeldFacts DEF Between
    <2> QED BY <2>1
  <1> HIDE DEF cx, cy
  <1>4. k \in Nat /\ k <= cy /\ k <= N - cx /\ (cx + k = N \/ cy - k = 0)
    BY <1>3
  <1> HIDE DEF k
  <1>5. x \in t.lent /\ y \in t.lent
    BY <1>2 DEF SameLists
  <1>6. MovedUpTo(t, u, x, y, k)
    BY <1>2, <1>4, <1>5, MovedTimesTyped DEF cx, cy
  <1> HIDE DEF u
  <1>7. Typed(u) /\ SameLists(t, u) /\ Elsewhere(t, u, x, y) /\ Held(u, x) = cx + k /\ Held(u, y) = cy - k
    BY <1>6 DEF MovedUpTo, cx, cy
  <1>8. Held(u, x) # 0 /\ Held(u, y) # N /\ (Held(u, x) = N \/ Held(u, y) = 0)
    BY <1>3, <1>4, <1>7
  <1>9. Held(u, x) + Held(u, y) = cx + cy
    BY <1>3, <1>4, <1>7
  <1>10. SameLists(s, u) /\ Elsewhere(s, u, x, y)
    BY <1>2, <1>7 DEF SameLists, Elsewhere
  <1>11. Mutual(s, u, x, y)
    BY <1>2, <1>7, <1>9, <1>10 DEF Mutual, cx, cy
  <1>12. u.mask[x] # {} /\ u.mask[y] # Slots /\ (u.mask[x] = Slots \/ u.mask[y] = {})
    BY <1>0, <1>7, <1>8, HeldFacts
  <1> QED BY <1>1, <1>11, <1>12

\* The lists after a turn that moved elements from y to x.
Settled(u, x, y) == IF u.mask[x] = Slots THEN Full(Vacated(u, y), x) ELSE Vacated(u, y)

\* What a turn that moves elements leaves of the hub.
Moving(s, t, B, F) == Good(t, B, F) /\ Framed(s, t, F)

LEMMA SettledGood ==
  ASSUME NEW s, NEW B, NEW F, Good(s, B, F), NEW x \in B, NEW y \in B, x # y, Between(s, x), Between(s, y),
         NEW u, Mutual(s, u, x, y), u.mask[x] # {}, u.mask[y] # Slots
  PROVE  LET t == Settled(u, x, y) IN
         Moving(s, t, B, F) /\ t.active = (IF u.mask[y] # {} THEN s.active ELSE Without(s.active, y)) /\ t.mask = u.mask
  <1> DEFINE a == IF u.mask[y] # {} THEN s.active ELSE Without(s.active, y)
             v == IF u.mask[y] # {} THEN s.available ELSE Append(Without(s.available, y), y)
             w == IF u.mask[x] = Slots THEN Without(v, x) ELSE v
             t == Settled(u, x, y)
             m == [s.mask EXCEPT ![y] = u.mask[y]]
             o == s.mask
             p == u.mask
  <1>1. /\ Typed(u) /\ SameLists(s, u) /\ Elsewhere(s, u, x, y) /\ Held(u, x) + Held(u, y) = Held(s, x) + Held(s, y)
        /\ u \in States /\ Memory(u.mask, u.data, u.lent)
    BY DEF Mutual, Typed
  <1>2. x \in Blocks /\ y \in Blocks /\ B \subseteq Blocks
    BY GoodFacts
  <1>3. o \in [Blocks -> SUBSET Slots] /\ p \in [Blocks -> SUBSET Slots]
    BY <1>1, TypedFacts, GoodFacts
  <1>4. m \in [Blocks -> SUBSET Slots] /\ m[y] = p[y] /\ \A b \in Blocks : b # y => m[b] = o[b]
    BY <1>2, <1>3
  <1>5. t \in Fields(a, w, s.num, s.size, u.mask, u.data, s.lent)
    BY <1>1 DEF Settled, Full, Vacated, Fields, States, SameLists
  <1> HIDE DEF m, t, o, p
  <1>6. ChangedAt(o, m, y, B) /\ ChangedAt(m, p, x, B)
    <2>1. \A b \in Blocks : b # x => p[b] = m[b]
      BY <1>1, <1>4 DEF Elsewhere, o, p
    <2> QED BY <1>2, <1>3, <1>4, <2>1 DEF ChangedAt
  <1>7. o[y] # {} /\ o[y] # Slots /\ o[x] # {} /\ o[x] # Slots /\ m[x] = o[x] /\ p[x] # {} /\ p[y] # Slots
    BY <1>2, <1>4 DEF Between, o, p
  <1>8. ActiveSound(s.active, o, B) /\ AvailableSound(s.available, o, B)
    BY DEF Good, o
  <1>9. ActiveSound(a, m, B)
    <2>1. CASE p[y] # {}
      <3>1. \A b \in B : m[b] = {} <=> o[b] = {}
        BY <1>2, <1>4, <1>7, <2>1
      <3>2. a = s.active
        BY <2>1 DEF p
      <3> HIDE DEF a
      <3> QED BY <1>8, <3>1, <3>2, SameActive
    <2>2. CASE p[y] = {}
      <3>1. a = Without(s.active, y) /\ m[y] = {}
        BY <1>4, <2>2 DEF p
      <3> HIDE DEF a
      <3> QED BY <1>6, <1>8, <3>1, LastElement
    <2> QED BY <2>1, <2>2
  <1>10. AvailableSound(v, m, B)
    <2>1. CASE p[y] # {}
      <3>1. \A b \in B : m[b] = {} <=> o[b] = {}
        BY <1>2, <1>4, <1>7, <2>1
      <3>2. \A b \in B : m[b] = Slots <=> o[b] = Slots
        BY <1>2, <1>4, <1>7
      <3>3. v = s.available
        BY <2>1 DEF p
      <3> HIDE DEF v
      <3> QED BY <1>8, <3>1, <3>2, <3>3, SameAvailable
    <2>2. CASE p[y] = {}
      <3> DEFINE r == Without(s.available, y)
      <3>1. v = Append(r, y) /\ m[y] = {}
        BY <1>4, <2>2 DEF p
      <3>2. OtherAvailable(r, o, y, B)
        BY <1>8, RestAvailable
      <3> HIDE DEF v, r
      <3> QED BY <1>6, <3>1, <3>2, NowReserved
    <2> QED BY <2>1, <2>2
  <1> HIDE DEF a, v
  <1>11. \A b \in B : p[b] = {} <=> m[b] = {}
    BY <1>6, <1>7 DEF ChangedAt
  <1>12. ActiveSound(a, p, B)
    BY <1>9, <1>11, SameActive
  <1>13. AvailableSound(w, p, B)
    <2>1. CASE p[x] # Slots
      <3>1. \A b \in B : p[b] = Slots <=> m[b] = Slots
        BY <1>6, <1>7, <2>1 DEF ChangedAt
      <3>2. w = v
        BY <2>1 DEF p
      <3> HIDE DEF w
      <3> QED BY <1>10, <1>11, <3>1, <3>2, SameAvailable
    <2>2. CASE p[x] = Slots
      <3>1. w = Without(v, x)
        BY <2>2 DEF p
      <3> HIDE DEF w
      <3> QED BY <1>6, <1>10, <2>2, <3>1, NowFull
    <2> QED BY <2>1, <2>2
  <1> HIDE DEF w
  <1>14. s.size = Cardinality(Cells(p, B))
    <2>1. B \in SUBSET Blocks /\ \A b \in B : o[b] \subseteq Slots /\ m[b] \subseteq Slots /\ p[b] \subseteq Slots
      BY <1>2, <1>3, <1>4
    <2>2. (\A b \in B \ {y} : m[b] = o[b]) /\ (\A b \in B \ {x} : p[b] = m[b])
      BY <1>6 DEF ChangedAt
    <2>3. Cardinality(Cells(m, B)) = Cardinality(Cells(o, B)) - Cardinality(o[y]) + Cardinality(m[y])
      BY <2>1, <2>2, CellsChange
    <2>4. Cardinality(Cells(p, B)) = Cardinality(Cells(m, B)) - Cardinality(m[x]) + Cardinality(p[x])
      BY <2>1, <2>2, CellsChange
    <2>5. Cardinality(p[x]) + Cardinality(p[y]) = Cardinality(o[x]) + Cardinality(o[y])
      BY <1>1 DEF Held, o, p
    <2>6. /\ Cardinality(o[x]) \in Nat /\ Cardinality(o[y]) \in Nat
          /\ Cardinality(p[x]) \in Nat /\ Cardinality(p[y]) \in Nat
      <3>1. Held(s, x) \in 0 .. N /\ Held(s, y) \in 0 .. N /\ Held(u, x) \in 0 .. N /\ Held(u, y) \in 0 .. N /\ N \in Nat
        <4>1. Typed(s)
          BY DEF Good, Typed
        <4> QED BY <1>1, <1>2, <4>1, HeldFacts
      <3> QED BY <3>1 DEF Held, o, p
    <2>7. s.size = Cardinality(Cells(o, B)) /\ s.size \in Nat
      <3>1. s.size = Cardinality(Cells(s.mask, B))
        BY DEF Good
      <3> QED BY <3>1, GoodFacts DEF o
    <2> QED BY <1>4, <1>7, <2>3, <2>4, <2>5, <2>6, <2>7
  <1>15. /\ s.num = Cardinality(B) /\ B \cap F = {} /\ s.lent = B \cup F
         /\ Memory(u.mask, u.data, s.lent)
    <2>1. s.num = Cardinality(B) /\ B \cap F = {} /\ s.lent = B \cup F
      BY DEF Good
    <2> QED BY <1>1, <2>1 DEF SameLists
  <1>16. Good(t, B, F)
    BY <1>5, <1>12, <1>13, <1>14, <1>15, MakeGood DEF p
  <1>17. t.active = a /\ t.mask = u.mask /\ t.data = u.data
    BY <1>5, FieldsOf
  <1>18. Framed(s, t, F)
    <2>1. \A b \in F : b \in Blocks /\ b # x /\ b # y
      <3>1. s.lent \subseteq Blocks
        BY GoodFacts
      <3> QED BY <1>15, <3>1
    <2> QED BY <1>1, <1>17, <2>1 DEF Framed, Elsewhere
  <1> QED BY <1>16, <1>17, <1>18 DEF Moving, t, a

\* An element is put into a list, in front of another or at the end.
LEMMA LinkedBefore ==
  ASSUME NEW S, NEW l \in Seq(S), Distinct(l), NEW x \in S, x \notin ToSet(l), NEW y, y = Header \/ y \in ToSet(l)
  PROVE  LET t == LinkBefore(l, x, y) IN t \in Seq(S) /\ Distinct(t) /\ ToSet(t) = ToSet(l) \cup {x}
  <1> DEFINE i == Index(l, y)
             t == LinkBefore(l, x, y)
  <1>1. t = IF y = Header THEN Append(l, x) ELSE InsertAt(l, i, x)
    BY DEF LinkBefore, Index, SelectInSeq
  <1> HIDE DEF t
  <1>2. CASE y = Header
    BY <1>1, <1>2, AppendDistinct DEF t
  <1>3. CASE y # Header
    <2> DEFINE u == SubSeq(l, 1, i - 1)
               v == SubSeq(l, i, Len(l))
               w == <<x>> \o v
    <2>1. i \in 1 .. Len(l) /\ Len(l) \in Nat
      BY <1>3, IndexFacts
    <2>2. t = u \o <<x>> \o v
      BY <1>1, <1>3 DEF InsertAt
    <2> HIDE DEF i
    <2>3. Part(u, l, 1, i - 1, S) /\ Part(v, l, i, Len(l), S)
      BY <2>1, PartOf
    <2> HIDE DEF u, v
    <2>4. /\ u \in Seq(S) /\ Distinct(u) /\ ToSet(u) = {l[k] : k \in 1 .. i - 1}
          /\ v \in Seq(S) /\ Distinct(v) /\ ToSet(v) = {l[k] : k \in i .. Len(l)}
      BY <2>3 DEF Part
    <2>5. /\ ToSet(l) = ToSet(u) \cup ToSet(v) /\ ToSet(u) \cap ToSet(v) = {}
      <3>1. DOMAIN l = 1 .. Len(l) /\ ToSet(l) = {l[k] : k \in 1 .. Len(l)}
        BY DEF ToSet
      <3>2. ASSUME NEW k \in 1 .. i - 1, NEW m \in i .. Len(l) PROVE l[k] # l[m]
        BY <2>1, <3>1 DEF Distinct
      <3> QED BY <2>1, <2>4, <3>1, <3>2
    <2>6. w \in Seq(S) /\ Distinct(w) /\ ToSet(w) = ToSet(v) \cup {x}
      <3>1. x \notin ToSet(v)
        BY <2>5
      <3> QED BY <2>4, <3>1, PrependDistinct
    <2>7. t = u \o w
      BY <2>2, <2>4
    <2> HIDE DEF w
    <2> DEFINE z == u \o w
    <2>8. z \in Seq(S) /\ Distinct(z) /\ ToSet(z) = ToSet(u) \cup ToSet(w)
      <3>1. ToSet(u) \cap ToSet(w) = {}
        BY <2>5, <2>6
      <3>2. u \in Seq(S) /\ w \in Seq(S) /\ Distinct(u) /\ Distinct(w)
        BY <2>4, <2>6
      <3> QED BY <3>1, <3>2, JoinDistinct
    <2> HIDE DEF z
    <2>9. t = z
      BY <2>7 DEF z
    <2> QED BY <2>5, <2>6, <2>8, <2>9 DEF t
  <1> QED BY <1>2, <1>3 DEF t

\* x goes elsewhere in the active list.
LEMMA MovedBeforeGood ==
  ASSUME NEW s, NEW B, NEW F, Good(s, B, F), NEW x \in ToSet(s.active),
         NEW y, y = Header \/ (y \in ToSet(s.active) /\ y # x)
  PROVE  LET t == MovedBefore(s, x, y) IN
         Good(t, B, F) /\ t.mask = s.mask /\ t.data = s.data /\ ToSet(t.active) = ToSet(s.active)
  <1> DEFINE r == Without(s.active, x)
             a == LinkBefore(r, x, y)
             t == MovedBefore(s, x, y)
  <1>1. s.active \in Seq(Blocks) /\ Distinct(s.active) /\ x \in Blocks
    BY GoodFacts DEF ToSet
  <1>2. r \in Seq(Blocks) /\ Distinct(r) /\ ToSet(r) = ToSet(s.active) \ {x}
    BY <1>1, WithoutOf
  <1>3. t \in Fields(a, s.available, s.num, s.size, s.mask, s.data, s.lent)
    BY DEF MovedBefore, Fields, Good, States
  <1> HIDE DEF r, t
  <1>4. a \in Seq(Blocks) /\ Distinct(a) /\ ToSet(a) = ToSet(s.active)
    <2>1. x \notin ToSet(r) /\ (y = Header \/ y \in ToSet(r))
      BY <1>2
    <2>2. a \in Seq(Blocks) /\ Distinct(a) /\ ToSet(a) = ToSet(r) \cup {x}
      BY <1>1, <1>2, <2>1, LinkedBefore
    <2> QED BY <1>2, <2>2
  <1> HIDE DEF a
  <1>5. ActiveSound(a, s.mask, B)
    <2>1. ActiveSound(s.active, s.mask, B)
      BY DEF Good
    <2> QED BY <1>4, <2>1 DEF ActiveSound
  <1>6. /\ Memory(s.mask, s.data, s.lent) /\ AvailableSound(s.available, s.mask, B) /\ s.num = Cardinality(B)
        /\ s.size = Cardinality(Cells(s.mask, B)) /\ B \cap F = {} /\ s.lent = B \cup F
    BY DEF Good
  <1>7. Good(t, B, F)
    BY <1>3, <1>5, <1>6, MakeGood
  <1>8. t.active = a /\ t.mask = s.mask /\ t.data = s.data
    BY <1>3, FieldsOf
  <1> QED BY <1>4, <1>7, <1>8 DEF t

\* The block behind x, and the first with room behind x.
LEMMA NextInIs ==
  ASSUME NEW S, NEW l \in Seq(S), NEW x \in ToSet(l)
  PROVE  NextIn(l, x) \in {Header} \cup ToSet(l)
  <1> DEFINE i == Index(l, x)
  <1>1. i \in 1 .. Len(l) /\ Len(l) \in Nat /\ DOMAIN l = 1 .. Len(l)
    BY IndexFacts
  <1>2. NextIn(l, x) = IF i = Len(l) THEN Header ELSE l[i + 1]
    BY DEF NextIn, Index, SelectInSeq
  <1> HIDE DEF i
  <1>3. i # Len(l) => i + 1 \in DOMAIN l
    <2> DEFINE n == Len(l)
    <2>1. i \in 1 .. n /\ n \in Nat /\ DOMAIN l = 1 .. n
      BY <1>1
    <2> HIDE DEF n
    <2>2. i # n => i + 1 \in 1 .. n
      BY <2>1
    <2> QED BY <2>1, <2>2 DEF n
  <1> QED BY <1>2, <1>3 DEF ToSet

LEMMA NextNotFullIs ==
  ASSUME NEW s, NEW B, NEW F, Good(s, B, F), NEW x \in ToSet(s.active)
  PROVE  LET y == NextNotFull(s, x) IN
         y = Header \/ (y \in ToSet(s.active) /\ y # x /\ s.mask[y] # Slots)
  <1> DEFINE l == s.active
             i == Index(l, x)
             r == [k \in 1 .. Len(l) - i |-> l[i + k]]
             J == {k \in 1 .. Len(r) : s.mask[r[k]] # Slots}
             j == IF J # {} THEN Min(J) ELSE 0
  <1>1. l \in Seq(Blocks) /\ Distinct(l)
    BY GoodFacts
  <1>2. i \in 1 .. Len(l) /\ Len(l) \in Nat /\ DOMAIN l = 1 .. Len(l) /\ l[i] = x
    BY <1>1, IndexFacts
  <1>3. NextNotFull(s, x) = IF j = 0 THEN Header ELSE l[i + j]
    BY DEF NextNotFull, Index, SelectInSeq
  <1> HIDE DEF l, i
  <1>4. Len(r) = Len(l) - i /\ \A k \in 1 .. Len(l) - i : r[k] = l[i + k]
    BY <1>2
  <1> HIDE DEF r
  <1>5. j = 0 \/ j \in J
    <2>1. J \subseteq Nat
      BY <1>2, <1>4
    <2> HIDE DEF J
    <2>2. J # {} => \E n \in J : \A m \in J : n <= m
      BY <2>1, LeastElement
    <2> QED BY <2>2 DEF Min
  <1> HIDE DEF j
  <1>6. CASE j = 0
    BY <1>3, <1>6
  <1>7. CASE j # 0
    <2>1. j \in 1 .. Len(l) - i /\ s.mask[l[i + j]] # Slots
      BY <1>4, <1>5, <1>7
    <2>2. i + j \in DOMAIN l /\ i \in DOMAIN l /\ i + j # i
      BY <1>2, <2>1
    <2>3. l[i + j] # x
      BY <1>1, <1>2, <2>2 DEF Distinct
    <2> QED BY <1>3, <1>7, <2>1, <2>2, <2>3 DEF ToSet, l
  <1> QED BY <1>6, <1>7

\* A turn of the loop that fills the last block from its lowest slot.
LEMMA MovedDownGood ==
  ASSUME NEW s, NEW B, NEW F, Good(s, B, F), NEW x \in B, Between(s, x)
  PROVE  LET t == MovedDown(s, x) IN Moving(s, t, B, F) /\ Between(t, x) /\ t.active = s.active
  <1> DEFINE t == Moved(s, x, x)
             o == s.mask
             p == t.mask
  <1>0. x \in Blocks /\ x \in s.lent /\ B \in SUBSET Blocks
    BY GoodFacts
  <1>1. Typed(t) /\ SameLists(s, t) /\ ChangesAt(s, t, x) /\ Held(t, x) = Held(s, x)
    <2>1. Typed(s)
      BY DEF Good, Typed
    <2>2. s.mask[x] # Slots /\ s.mask[x] # {}
      BY DEF Between
    <2> QED BY <1>0, <2>1, <2>2, MovedSame
  <1> HIDE DEF t
  <1>2. Between(t, x)
    <2>1. Typed(s)
      BY DEF Good, Typed
    <2>2. Held(s, x) # 0 /\ Held(s, x) # N
      BY <1>0, <2>1, HeldFacts DEF Between
    <2>3. Held(t, x) # 0 /\ Held(t, x) # N
      BY <1>1, <2>2
    <2> QED BY <1>0, <1>1, <2>3, HeldFacts DEF Between
  <1> HIDE DEF o, p
  <1>3. /\ \A b \in B : p[b] = {} <=> o[b] = {}
        /\ \A b \in B : p[b] = Slots <=> o[b] = Slots
    BY <1>0, <1>1, <1>2 DEF ChangesAt, Between, o, p
  <1>4. ActiveSound(s.active, p, B) /\ AvailableSound(s.available, p, B)
    <2>1. ActiveSound(s.active, o, B) /\ AvailableSound(s.available, o, B)
      BY DEF Good, o
    <2> QED BY <1>3, <2>1, SameActive, SameAvailable
  <1>5. s.size = Cardinality(Cells(p, B))
    <2>1. o \in [Blocks -> SUBSET Slots] /\ p \in [Blocks -> SUBSET Slots]
      BY <1>1, GoodFacts, TypedFacts DEF o, p
    <2>2. o[x] \subseteq Slots /\ p[x] \subseteq Slots /\ \A b \in B \ {x} : p[b] = o[b]
      BY <1>0, <1>1, <2>1 DEF ChangesAt, o, p
    <2>3. Cardinality(Cells(p, B)) = Cardinality(Cells(o, B)) - Cardinality(o[x]) + Cardinality(p[x])
      BY <1>0, <2>2, CellsChange
    <2>4. Cardinality(o[x]) = Cardinality(p[x]) /\ Cardinality(o[x]) \in Nat
      <3>1. Held(t, x) \in 0 .. N /\ N \in Nat
        BY <1>0, <1>1, HeldFacts
      <3> QED BY <1>1, <3>1 DEF Held, o, p
    <2>5. s.size = Cardinality(Cells(o, B))
      BY DEF Good, o
    <2>6. s.size \in Nat
      BY GoodFacts
    <2> QED BY <2>3, <2>4, <2>5, <2>6
  <1>6. Good(t, B, F)
    <2>1. s.num = Cardinality(B) /\ B \cap F = {} /\ s.lent = B \cup F
      BY DEF Good
    <2>2. /\ t.active = s.active /\ t.available = s.available /\ t.num = s.num /\ t.size = s.size
          /\ t.lent = s.lent /\ t \in States /\ Memory(t.mask, t.data, t.lent)
      BY <1>1 DEF SameLists, Typed
    <2> QED BY <1>4, <1>5, <2>1, <2>2 DEF Good, p
  <1>7. Framed(s, t, F)
    BY <1>1, ChangesFrame
  <1>8. t.active = s.active
    BY <1>1 DEF SameLists
  <1>9. Framed(s, s, F)
    BY SameFrame
  <1>10. MovedDown(s, x) = s \/ MovedDown(s, x) = t
    BY DEF MovedDown, t
  <1>11. CASE MovedDown(s, x) = s
    BY <1>9, <1>11 DEF Moving
  <1>12. CASE MovedDown(s, x) = t
    BY <1>2, <1>6, <1>7, <1>8, <1>12 DEF Moving
  <1> QED BY <1>10, <1>11, <1>12

LEMMA MovingTrans ==
  ASSUME NEW s, NEW t, NEW u, NEW B, NEW F, Moving(s, t, B, F), Moving(t, u, B, F)
  PROVE  Moving(s, u, B, F)
  <1>1. Framed(s, t, F) /\ Framed(t, u, F) /\ Good(u, B, F)
    BY DEF Moving
  <1>2. Framed(s, u, F)
    BY <1>1, FrameTrans
  <1> QED BY <1>1, <1>2 DEF Moving

\* compact(pb)
LEMMA CompactOneGood ==
  ASSUME NEW s, NEW B, NEW F, Good(s, B, F), NEW x \in B, Between(s, x)
  PROVE  Moving(s, CompactOne(s, x), B, F)
  <1>1. PICK f : f[0] = s /\ f[N] = CompactOne(s, x) /\ \A i \in 1 .. N : f[i] = MovedDown(f[i - 1], x)
    BY MovedDownTurns
  <1> DEFINE G == {i \in 0 .. N : Moving(s, f[i], B, F) /\ Between(f[i], x)}
  <1>2. 0 \in G
    <2>1. Moving(s, s, B, F)
      BY SameFrame DEF Moving
    <2> QED BY <1>1, <2>1, SlotFacts
  <1>3. ASSUME NEW i \in 1 .. N, i - 1 \in G PROVE i \in G
    <2> DEFINE t == f[i - 1]
               u == MovedDown(t, x)
    <2>1. Moving(s, t, B, F) /\ Between(t, x) /\ f[i] = u /\ i \in 0 .. N
      BY <1>1, <1>3
    <2> HIDE DEF t
    <2>2. Good(t, B, F)
      BY <2>1 DEF Moving
    <2>3. Moving(t, u, B, F) /\ Between(u, x)
      BY <2>1, <2>2, MovedDownGood
    <2> HIDE DEF u
    <2>4. Moving(s, u, B, F)
      BY <2>1, <2>3, MovingTrans
    <2> QED BY <2>1, <2>3, <2>4
  <1>4. N \in Nat
    BY SlotFacts
  <1>5. \A i \in 0 .. N : i \in G
    <2> HIDE DEF G
    <2> QED BY <1>2, <1>3, <1>4, Induction
  <1>6. N \in 0 .. N
    BY <1>4
  <1> QED BY <1>1, <1>5, <1>6

\* What compact's loops have, with x at a block of the list or past its end.
Compacting(s, c, B, F) ==
  /\ c \in [s : {c.s}, x : {c.x}] /\ Moving(s, c.s, B, F)
  /\ c.x = Header \/ c.x \in ToSet(c.s.active)

LEMMA MakeCompacting ==
  ASSUME NEW s, NEW B, NEW F, NEW t, NEW x, Moving(s, t, B, F), x = Header \/ x \in ToSet(t.active)
  PROVE  Compacting(s, [s |-> t, x |-> x], B, F)
  BY DEF Compacting

\* A turn in which elements move from y to x.
LEMMA FillGood ==
  ASSUME NEW s, NEW B, NEW F, Good(s, B, F), NEW x \in B, NEW y \in B, x # y, Between(s, x), Between(s, y)
  PROVE  LET u == CompactTwo(s, x, y)
             w == Settled(u, x, y)
         IN  Moving(s, w, B, F) /\ x \in ToSet(w.active)
  <1> DEFINE u == CompactTwo(s, x, y)
             w == Settled(u, x, y)
  <1>1. x \in s.lent /\ y \in s.lent /\ x \in Blocks
    BY GoodFacts
  <1>2. Typed(s)
    BY DEF Good, Typed
  <1>3. Mutual(s, u, x, y) /\ u.mask[x] # {} /\ u.mask[y] # Slots
    BY <1>1, <1>2, CompactTwoTyped
  <1> HIDE DEF u
  <1>4. Moving(s, w, B, F) /\ w.mask = u.mask
    BY <1>3, SettledGood
  <1> HIDE DEF w
  <1>5. Good(w, B, F) /\ w.mask[x] # {}
    BY <1>3, <1>4 DEF Moving
  <1>6. x \in ToSet(w.active)
    BY <1>5, GoodFacts
  <1> QED BY <1>4, <1>6 DEF u, w

\* One turn of compact's loops
LEMMA CompactTurnGood ==
  ASSUME NEW s, NEW B, NEW F, Good(s, B, F), NEW c, Compacting(s, c, B, F)
  PROVE  Compacting(s, CompactTurn(c), B, F)
  <1> DEFINE r == c.s
             x == c.x
             y == NextNotFull(r, x)
             t == IF y # NextIn(r.active, x) THEN MovedBefore(r, x, y) ELSE r
             u == CompactTwo(t, x, y)
             w == Settled(u, x, y)
             n == NextIn(r.active, x)
             o == NextIn(w.active, x)
             one == CompactOne(t, x)
             d == CompactTurn(c)
  <1>1. d = IF x = Header THEN c
            ELSE IF r.mask[x] = Slots THEN [c EXCEPT !.x = n]
            ELSE IF y = Header THEN [s |-> one, x |-> Header]
            ELSE [s |-> w, x |-> IF u.mask[x] = Slots THEN o ELSE x]
    BY DEF CompactTurn, Settled
  <1>2. /\ c \in [s : {r}, x : {x}] /\ Moving(s, r, B, F) /\ Good(r, B, F)
        /\ x = Header \/ x \in ToSet(r.active)
    BY DEF Compacting, Moving
  <1> HIDE DEF d, r, x
  <1>3. CASE x = Header
    BY <1>1, <1>3 DEF d
  <1>4. CASE x # Header /\ r.mask[x] = Slots
    <2>1. d = [s |-> r, x |-> n]
      BY <1>1, <1>2, <1>4
    <2>2. r.active \in Seq(Blocks) /\ x \in ToSet(r.active)
      BY <1>2, <1>4, GoodFacts
    <2>3. n = Header \/ n \in ToSet(r.active)
      BY <2>2, NextInIs
    <2> HIDE DEF n
    <2>4. Compacting(s, [s |-> r, x |-> n], B, F)
      BY <1>2, <2>3, MakeCompacting
    <2> QED BY <2>1, <2>4 DEF d
  <1>5. CASE x # Header /\ r.mask[x] # Slots
    <2>1. x \in ToSet(r.active)
      BY <1>2, <1>5
    <2>2. x \in B /\ r.mask[x] # {} /\ B \subseteq Blocks
      <3>1. ActiveSound(r.active, r.mask, B)
        BY <1>2 DEF Good
      <3> QED BY <1>2, <2>1, <3>1, GoodFacts DEF ActiveSound
    <2>3. y = Header \/ (y \in ToSet(r.active) /\ y # x /\ r.mask[y] # Slots)
      BY <1>2, <2>1, NextNotFullIs
    <2> HIDE DEF y, n
    <2>4. Good(t, B, F) /\ t.mask = r.mask /\ t.data = r.data
      <3>1. CASE y # n
        <4> DEFINE p == MovedBefore(r, x, y)
        <4>1. Good(p, B, F) /\ p.mask = r.mask /\ p.data = r.data
          BY <1>2, <2>1, <2>3, MovedBeforeGood
        <4>2. t = p
          BY <3>1 DEF n
        <4> HIDE DEF p, t
        <4> QED BY <4>1, <4>2
      <3>2. CASE y = n
        <4>1. t = r
          BY <3>2 DEF n
        <4> HIDE DEF t
        <4> QED BY <1>2, <4>1
      <3> QED BY <3>1, <3>2
    <2> HIDE DEF t
    <2>5. Moving(s, t, B, F) /\ Between(t, x)
      <3>1. Framed(r, t, F)
        BY <2>4 DEF Framed
      <3>2. Moving(r, t, B, F)
        BY <2>4, <3>1 DEF Moving
      <3> QED BY <1>2, <1>5, <2>2, <2>4, <3>2, MovingTrans DEF Between
    <2>6. CASE y = Header
      <3>1. Moving(t, one, B, F)
        BY <2>2, <2>4, <2>5, CompactOneGood
      <3> HIDE DEF one
      <3>2. Moving(s, one, B, F)
        BY <2>5, <3>1, MovingTrans
      <3>3. Compacting(s, [s |-> one, x |-> Header], B, F)
        BY <3>2, MakeCompacting
      <3> QED BY <1>1, <1>5, <2>6, <3>3 DEF d
    <2>7. CASE y # Header
      <3>1. y \in B /\ y # x /\ Between(t, y)
        <4>1. ActiveSound(r.active, r.mask, B)
          BY <1>2 DEF Good
        <4>2. y \in B /\ r.mask[y] # {}
          BY <2>3, <2>7, <4>1 DEF ActiveSound
        <4> QED BY <2>3, <2>4, <2>7, <4>2 DEF Between
      <3>2. Moving(t, w, B, F) /\ x \in ToSet(w.active)
        BY <2>2, <2>4, <2>5, <3>1, FillGood
      <3> HIDE DEF w, u
      <3>3. Moving(s, w, B, F)
        BY <2>5, <3>2, MovingTrans
      <3>4. o = Header \/ o \in ToSet(w.active)
        <4>1. w.active \in Seq(Blocks)
          <5>1. Good(w, B, F)
            BY <3>2 DEF Moving
          <5> QED BY <5>1, GoodFacts
        <4> QED BY <3>2, <4>1, NextInIs
      <3> DEFINE e == IF u.mask[x] = Slots THEN o ELSE x
      <3> HIDE DEF o
      <3>5. e = Header \/ e \in ToSet(w.active)
        BY <3>2, <3>4
      <3>6. d = [s |-> w, x |-> e]
        BY <1>1, <1>5, <2>7
      <3> HIDE DEF e
      <3>7. Compacting(s, [s |-> w, x |-> e], B, F)
        BY <3>3, <3>5, MakeCompacting
      <3> QED BY <3>6, <3>7 DEF d
    <2> QED BY <2>6, <2>7
  <1> QED BY <1>3, <1>4, <1>5

\* compact, after any number of turns
LEMMA CompactTurnsGood ==
  ASSUME NEW s, NEW B, NEW F, Good(s, B, F), NEW c, Compacting(s, c, B, F), NEW n \in Nat
  PROVE  Compacting(s, CompactTurns(c, n), B, F)
  <1>1. PICK f : f[0] = c /\ f[n] = CompactTurns(c, n) /\ \A i \in 1 .. n : f[i] = CompactTurn(f[i - 1])
    BY CompactingTurns
  <1> DEFINE G == {i \in 0 .. n : Compacting(s, f[i], B, F)}
  <1>2. 0 \in G
    BY <1>1
  <1>3. ASSUME NEW i \in 1 .. n, i - 1 \in G PROVE i \in G
    <2> DEFINE d == f[i - 1]
               e == CompactTurn(d)
    <2>1. Compacting(s, d, B, F) /\ f[i] = e /\ i \in 0 .. n
      BY <1>1, <1>3
    <2> HIDE DEF d
    <2>2. Compacting(s, e, B, F)
      BY <2>1, CompactTurnGood
    <2> HIDE DEF e
    <2> QED BY <2>1, <2>2
  <1>4. \A i \in 0 .. n : i \in G
    <2> HIDE DEF G
    <2> QED BY <1>2, <1>3, Induction
  <1>5. n \in 0 .. n
    OBVIOUS
  <1> QED BY <1>1, <1>4, <1>5

LEMMA CompactedGood ==
  ASSUME NEW s, NEW B, NEW F, Good(s, B, F)
  PROVE  Moving(s, Compacted(s), B, F)
  <1> DEFINE x == IF s.active = <<>> THEN Header ELSE s.active[1]
             n == 2 * Len(s.active)
             c == [s |-> s, x |-> x]
             d == CompactTurns(c, n)
  <1>1. s.active \in Seq(Blocks)
    BY GoodFacts
  <1>2. x = Header \/ x \in ToSet(s.active)
    BY <1>1 DEF ToSet
  <1>3. n \in Nat
    BY <1>1
  <1> HIDE DEF x, n
  <1>4. Moving(s, s, B, F)
    BY SameFrame DEF Moving
  <1>5. Compacting(s, c, B, F)
    BY <1>2, <1>4, MakeCompacting
  <1> HIDE DEF c
  <1>6. Compacting(s, d, B, F)
    BY <1>3, <1>5, CompactTurnsGood
  <1>7. Compacted(s) = d.s
    BY DEF Compacted, c, x, n
  <1> HIDE DEF d
  <1> QED BY <1>6, <1>7 DEF Compacting

\* shrink_to_fit
LEMMA ShrunkGood ==
  ASSUME NEW s, NEW B, NEW F, Good(s, B, F)
  PROVE  Sound(Shrunk(s), F) /\ Framed(s, Shrunk(s), F)
  <1> DEFINE t == Compacted(s)
             u == Trimmed(t, 0)
  <1>1. Good(t, B, F) /\ Framed(s, t, F)
    BY CompactedGood DEF Moving
  <1> HIDE DEF t
  <1>2. Sound(t, F)
    BY <1>1 DEF Sound
  <1>3. Keeping(t, u, F)
    BY <1>2, TrimmedGood
  <1>4. Shrunk(s) = u
    BY DEF Shrunk, t
  <1> HIDE DEF u
  <1>5. Sound(u, F) /\ Framed(t, u, F)
    BY <1>3, KeepingFrame
  <1>6. Framed(s, u, F)
    BY <1>1, <1>5, FrameTrans
  <1> QED BY <1>4, <1>5, <1>6

-----------------------------------------------------------------------------
(* Sorting *)

\* The elements that do not come behind element i.
NotBehind(c, i) == {j \in DOMAIN c : c[j] < c[i] \/ (c[j] = c[i] /\ j <= i)}

\* Each element has a place of its own, and so each place has an element.
LEMMA EveryRank ==
  ASSUME NEW c \in Seq(Nat), NEW k \in DOMAIN c
  PROVE  \E i \in DOMAIN c : Rank(c, i) = k
  <1> DEFINE n == Len(c)
             D == 1 .. n
             rank == [i \in D |-> Rank(c, i)]
  <1>1. n \in Nat /\ DOMAIN c = D /\ \A i \in D : c[i] \in Nat /\ i \in Nat
    OBVIOUS
  <1>2. IsFiniteSet(D) /\ Cardinality(D) = n
    <2>1. 1 \in Int /\ n \in Int /\ (IF 1 > n THEN 0 ELSE n - 1 + 1) = n
      BY <1>1
    <2> QED BY <2>1, FS_Interval
  <1>3. \A i \in D : Rank(c, i) = Cardinality(NotBehind(c, i)) /\ NotBehind(c, i) \in SUBSET D
    BY <1>1 DEF Rank, NotBehind
  <1>4. \A i \in D : i \in NotBehind(c, i)
    BY <1>1 DEF NotBehind
  <1> HIDE DEF n, D
  <1>5. ASSUME NEW i \in D PROVE Rank(c, i) \in 1 .. n
    <2> DEFINE T == NotBehind(c, i)
    <2>1. T \in SUBSET D /\ i \in T /\ Rank(c, i) = Cardinality(T)
      BY <1>3, <1>4
    <2> HIDE DEF T
    <2>2. IsFiniteSet(T) /\ Cardinality(T) <= n
      BY <1>2, <2>1, FS_Subset
    <2>3. Cardinality(T) \in Nat
      BY <2>2, FS_CardinalityType
    <2>4. Cardinality(T) # 0
      BY <2>1, <2>2, FS_EmptySet
    <2> QED BY <1>1, <2>1, <2>2, <2>3, <2>4
  <1>6. ASSUME NEW i \in D, NEW j \in D, j \notin NotBehind(c, i) PROVE Rank(c, i) # Rank(c, j)
    <2> DEFINE T == NotBehind(c, i)
               U == NotBehind(c, j)
    <2>1. T \subseteq U
      <3>1. c[i] \in Nat /\ c[j] \in Nat /\ i \in Nat /\ j \in Nat /\ j \in DOMAIN c
        BY <1>1
      <3>2. c[i] < c[j] \/ (c[i] = c[j] /\ i < j)
        BY <1>6, <3>1 DEF NotBehind
      <3>3. ASSUME NEW x \in T PROVE x \in U
        <4>1. x \in DOMAIN c /\ c[x] \in Nat /\ x \in Nat /\ (c[x] < c[i] \/ (c[x] = c[i] /\ x <= i))
          BY <1>1 DEF NotBehind
        <4>2. c[x] < c[j] \/ (c[x] = c[j] /\ x <= j)
          BY <3>1, <3>2, <4>1
        <4> QED BY <4>1, <4>2 DEF NotBehind
      <3> HIDE DEF T, U
      <3> QED BY <3>3
    <2>2. T \in SUBSET D /\ U \in SUBSET D /\ Rank(c, i) = Cardinality(T) /\ Rank(c, j) = Cardinality(U)
      BY <1>3
    <2>3. j \in U /\ j \notin T
      BY <1>4, <1>6
    <2> HIDE DEF T, U
    <2>4. IsFiniteSet(U)
      BY <1>2, <2>2, FS_Subset
    <2>5. Cardinality(U) = Cardinality(T) => U = T
      BY <2>1, <2>4, FS_Subset
    <2> QED BY <2>2, <2>3, <2>5
  <1>7. \A i, j \in D : i # j => j \notin NotBehind(c, i) \/ i \notin NotBehind(c, j)
    BY <1>1 DEF NotBehind
  <1>8. \A i, j \in D : i # j => Rank(c, i) # Rank(c, j)
    BY <1>6, <1>7
  <1>9. rank \in [D -> D]
    BY <1>5 DEF D
  <1>10. \A i \in D : rank[i] = Rank(c, i)
    OBVIOUS
  <1> HIDE DEF rank
  <1>11. rank \in Injection(D, D)
    BY <1>8, <1>9, <1>10 DEF Injection, IsInjective
  <1>12. rank \in Surjection(D, D)
    BY <1>2, <1>11, FS_Injection
  <1>13. \E i \in D : rank[i] = k
    BY <1>1, <1>12 DEF Surjection
  <1> QED BY <1>1, <1>10, <1>13

LEMMA InOrderOf ==
  ASSUME NEW c \in Seq(Values)
  PROVE  DOMAIN InOrder(c) = DOMAIN c /\ \A k \in DOMAIN c : InOrder(c)[k] \in Values
  <1>1. c \in Seq(Nat)
    <2>1. Len(c) \in Nat /\ c \in [1 .. Len(c) -> Values] /\ Values \subseteq Nat
      BY HubAssumption
    <2>2. c \in [1 .. Len(c) -> Nat]
      BY <2>1
    <2> QED BY <2>1, <2>2
  <1>2. ASSUME NEW k \in DOMAIN c PROVE c[CHOOSE i \in DOMAIN c : Rank(c, i) = k] \in Values
    <2> DEFINE j == CHOOSE i \in DOMAIN c : Rank(c, i) = k
    <2>1. \E i \in DOMAIN c : Rank(c, i) = k
      BY <1>1, EveryRank
    <2>2. j \in DOMAIN c
      BY <2>1
    <2> HIDE DEF j
    <2>3. c[j] \in Values
      BY <2>2
    <2> QED BY <2>3 DEF j
  <1> QED BY <1>2 DEF InOrder

\* The contents of a hub
LEMMA ContentsOf ==
  ASSUME NEW s, NEW B, NEW F, Good(s, B, F)
  PROVE  Contents(s) \in Seq(Values) /\ DOMAIN Contents(s) = DOMAIN Positions(s) /\ Len(Positions(s)) \in Nat
  <1> DEFINE q == Positions(s)
             c == Contents(s)
  <1>1. q \in Seq(Places) /\ ToSet(q) = ElementsOf(s.mask, B)
    BY PositionsOf
  <1>2. c = [i \in DOMAIN q |-> s.data[q[i].block][q[i].slot]]
    BY DEF Contents, ValueAt
  <1> HIDE DEF q, c
  <1>3. ASSUME NEW i \in DOMAIN q PROVE s.data[q[i].block][q[i].slot] \in Values
    <2>1. q[i] \in ElementsOf(s.mask, B)
      BY <1>1 DEF ToSet
    <2>2. q[i].block \in B /\ q[i].slot \in s.mask[q[i].block]
      BY <2>1 DEF ElementsOf
    <2> QED BY <2>2, GoodFacts
  <1>4. Len(q) \in Nat /\ DOMAIN q = 1 .. Len(q)
    BY <1>1
  <1>5. c \in Seq(Values) /\ DOMAIN c = DOMAIN q
    BY <1>2, <1>3, <1>4
  <1> QED BY <1>4, <1>5 DEF q, c

\* sort: each place gets an element.
LEMMA OrderedGood ==
  ASSUME NEW s, NEW B, NEW F, Good(s, B, F)
  PROVE  Moving(s, Ordered(s), B, F)
  <1> DEFINE l == Positions(s)
             q == InOrder(Contents(s))
             n == Len(l)
  <1>1. l \in Seq(Places) /\ ToSet(l) = ElementsOf(s.mask, B)
    BY PositionsOf
  <1>2. n \in Nat /\ DOMAIN l = 1 .. n
    BY <1>1
  <1>3. \A k \in 1 .. n : q[k] \in Values
    <2>1. Contents(s) \in Seq(Values) /\ DOMAIN Contents(s) = DOMAIN l
      BY ContentsOf
    <2> QED BY <1>2, <2>1, InOrderOf
  <1>4. Ordered(s) = PutEach(s, l, q, n)
    BY DEF Ordered
  <1> HIDE DEF l, q, n
  <1>5. \A k \in 1 .. n : l[k].block \in B /\ l[k].slot \in s.mask[l[k].block]
    <2> TAKE k \in 1 .. n
    <2>1. l[k] \in ElementsOf(s.mask, B)
      BY <1>1, <1>2 DEF ToSet
    <2> QED BY <2>1 DEF ElementsOf
  <1>6. PICK f : /\ f[0] = s /\ f[n] = PutEach(s, l, q, n)
                 /\ \A i \in 1 .. n : f[i] = Put(f[i - 1], l[i].block, l[i].slot, q[i])
    <2>1. n \in Nat
      BY <1>2
    <2> QED BY <2>1, OrderedTurns
  <1> DEFINE G == {i \in 0 .. n : Moving(s, f[i], B, F) /\ f[i].mask = s.mask}
  <1>7. 0 \in G
    <2>1. Moving(s, s, B, F)
      BY SameFrame DEF Moving
    <2> QED BY <1>2, <1>6, <2>1
  <1>8. ASSUME NEW i \in 1 .. n, i - 1 \in G PROVE i \in G
    <2> DEFINE t == f[i - 1]
               b == l[i].block
               m == l[i].slot
               v == q[i]
               u == Put(t, b, m, v)
    <2>1. Moving(s, t, B, F) /\ t.mask = s.mask /\ f[i] = u /\ i \in 0 .. n
      BY <1>2, <1>6, <1>8
    <2>2. b \in B /\ m \in s.mask[b] /\ v \in Values
      BY <1>3, <1>5
    <2> HIDE DEF t, b, m, v
    <2>3. Good(t, B, F) /\ m \in t.mask[b]
      BY <2>1, <2>2 DEF Moving
    <2>4. Good(u, B, F) /\ Framed(t, u, F) /\ u.mask = t.mask
      BY <2>2, <2>3, PutGood
    <2> HIDE DEF u
    <2>5. Moving(t, u, B, F)
      BY <2>4 DEF Moving
    <2>6. Moving(s, u, B, F)
      BY <2>1, <2>5, MovingTrans
    <2> QED BY <2>1, <2>4, <2>6
  <1>9. \A i \in 0 .. n : i \in G
    <2> HIDE DEF G
    <2> QED BY <1>2, <1>7, <1>8, Induction
  <1>10. n \in 0 .. n
    BY <1>2
  <1> QED BY <1>4, <1>6, <1>9, <1>10

-----------------------------------------------------------------------------
(* The elements of some blocks *)

IsMask(m) == m \in [Blocks -> SUBSET Slots]

LEMMA CountCells ==
  ASSUME NEW m, IsMask(m), NEW q \in Seq(Blocks), Distinct(q)
  PROVE  CountIn(m, q) = Cardinality(Cells(m, ToSet(q)))
  <1> DEFINE n == Len(q)
             C(i) == Cells(m, FirstOf(q, i))
  <1>1. PICK f : f[0] = 0 /\ f[Len(q)] = CountIn(m, q) /\ \A i \in 1 .. Len(q) : f[i] = f[i - 1] + Cardinality(m[q[i]])
    BY SumTurns
  <1>2. n \in Nat /\ DOMAIN q = 1 .. n /\ \A i \in 1 .. n : q[i] \in Blocks
    OBVIOUS
  <1>3. f[0] = 0 /\ f[n] = CountIn(m, q) /\ \A i \in 1 .. n : f[i] = f[i - 1] + Cardinality(m[q[i]])
    BY <1>1
  <1> HIDE DEF n
  <1> DEFINE G == {i \in 0 .. n : f[i] = Cardinality(C(i))}
  <1>4. 0 \in G
    <2>1. FirstOf(q, 0) = {}
      BY DEF FirstOf
    <2>2. C(0) = {}
      BY <2>1 DEF Cells
    <2>3. Cardinality({}) = 0
      BY FS_EmptySet
    <2>4. Cardinality(C(0)) = 0
      BY <2>2, <2>3
    <2> HIDE DEF C
    <2>5. 0 \in 0 .. n
      BY <1>2
    <2> QED BY <1>3, <2>4, <2>5
  <1>5. ASSUME NEW i \in 1 .. n, i - 1 \in G PROVE i \in G
    <2> DEFINE b == q[i]
               T == FirstOf(q, i)
               U == FirstOf(q, i - 1)
    <2>1. b \in Blocks /\ b \in T /\ T \in SUBSET Blocks
      BY <1>2 DEF FirstOf
    <2>2. U = T \ {b}
      <3>1. ASSUME NEW k \in 1 .. i - 1 PROVE q[k] # b /\ q[k] \in T
        BY <1>2 DEF Distinct, FirstOf
      <3>2. ASSUME NEW k \in 1 .. i, q[k] # b PROVE k \in 1 .. i - 1
        BY <1>2, <3>2
      <3> QED BY <3>1, <3>2 DEF FirstOf
    <2>3. f[i] = f[i - 1] + Cardinality(m[b]) /\ i \in 0 .. n /\ f[i - 1] = Cardinality(Cells(m, U))
      BY <1>2, <1>3, <1>5
    <2> HIDE DEF b, T, U
    <2>4. m[b] \in SUBSET Slots
      BY <2>1 DEF IsMask
    <2>5. Cardinality(Cells(m, T)) = Cardinality(Cells(m, T \ {b})) + Cardinality(m[b])
      BY <2>1, <2>4, CellsSplit
    <2>6. f[i] = Cardinality(Cells(m, T))
      BY <2>2, <2>3, <2>5
    <2> QED BY <2>3, <2>6 DEF T
  <1>6. \A i \in 0 .. n : i \in G
    <2> HIDE DEF G
    <2> QED BY <1>2, <1>4, <1>5, Induction
  <1>7. FirstOf(q, n) = ToSet(q)
    BY <1>2 DEF FirstOf, ToSet
  <1>8. n \in 0 .. n
    BY <1>2
  <1> QED BY <1>3, <1>6, <1>7, <1>8

\* Cells of two sets of blocks
LEMMA CellsUnion ==
  ASSUME NEW A \in SUBSET Blocks, NEW B \in SUBSET Blocks, A \cap B = {}, NEW m
  PROVE  /\ Cardinality(Cells(m, B \cup A)) = Cardinality(Cells(m, B)) + Cardinality(Cells(m, A))
         /\ Cardinality(B \cup A) = Cardinality(B) + Cardinality(A)
         /\ Cardinality(Cells(m, A)) \in Nat /\ Cardinality(Cells(m, B)) \in Nat
         /\ Cardinality(A) \in Nat /\ Cardinality(B) \in Nat
  <1> DEFINE S == Cells(m, B)
             T == Cells(m, A)
  <1>1. /\ IsFiniteSet(S) /\ IsFiniteSet(T) /\ IsFiniteSet(A) /\ IsFiniteSet(B)
        /\ Cardinality(T) \in Nat /\ Cardinality(S) \in Nat /\ Cardinality(A) \in Nat /\ Cardinality(B) \in Nat
    BY CellsFinite
  <1>2. Cells(m, B \cup A) = S \cup T /\ S \cap T = {}
    BY DEF Cells
  <1> HIDE DEF S, T
  <1>3. Cardinality(S \cap T) = 0 /\ Cardinality(B \cap A) = 0
    BY <1>2, FS_EmptySet
  <1>4. Cardinality(S \cup T) = Cardinality(S) + Cardinality(T) - Cardinality(S \cap T)
    BY <1>1, FS_Union
  <1>5. Cardinality(B \cup A) = Cardinality(B) + Cardinality(A) - Cardinality(B \cap A)
    BY <1>1, FS_Union
  <1>6. Cardinality(S \cup T) = Cardinality(S) + Cardinality(T) /\ Cardinality(B \cup A) = Cardinality(B) + Cardinality(A)
    BY <1>1, <1>3, <1>4, <1>5
  <1>7. Cardinality(Cells(m, B \cup A)) = Cardinality(S \cup T)
    BY <1>2
  <1> QED BY <1>1, <1>6, <1>7 DEF S, T

\* A hub's elements are those of its active blocks.
LEMMA ActiveCount ==
  ASSUME NEW s, NEW B, NEW F, Good(s, B, F)
  PROVE  LET A == ToSet(s.active) IN
         /\ A \in SUBSET B /\ CountIn(s.mask, s.active) = s.size /\ Cardinality(Cells(s.mask, A)) = s.size
         /\ Cardinality(A) = Len(s.active) /\ Len(s.active) \in Nat
         /\ A = {b \in B : s.mask[b] # {}} /\ Cardinality(Cells(s.mask, B \ A)) = 0
         /\ Cardinality(B \ A) = s.num - Len(s.active)
  <1> DEFINE A == ToSet(s.active)
             m == s.mask
  <1>1. ActiveSound(s.active, m, B) /\ s.num = Cardinality(B) /\ s.size = Cardinality(Cells(m, B))
    BY DEF Good
  <1>2. A = {b \in B : m[b] # {}} /\ s.active \in Seq(Blocks) /\ Distinct(s.active)
    BY <1>1 DEF ActiveSound
  <1>3. B \in SUBSET Blocks /\ m \in [Blocks -> SUBSET Slots]
    BY GoodFacts
  <1>4. Len(s.active) \in Nat /\ Cardinality(A) = Len(s.active)
    <2> DEFINE q == s.active
    <2>1. q \in Seq(Blocks) /\ Distinct(q)
      BY <1>2
    <2> HIDE DEF q
    <2>2. Len(q) \in Nat /\ Cardinality(ToSet(q)) = Len(q)
      BY <2>1, DistinctCount
    <2> QED BY <2>2 DEF q
  <1> HIDE DEF A, m
  <1>5. A \in SUBSET B
    BY <1>2
  <1>6. CountIn(m, s.active) = Cardinality(Cells(m, A))
    BY <1>2, <1>3, CountCells DEF A, IsMask
  <1> DEFINE R == B \ A
  <1>7. R \in SUBSET Blocks /\ A \in SUBSET Blocks /\ A \cap R = {} /\ R \cup A = B
    BY <1>3, <1>5
  <1>8. Cells(m, R) = {}
    BY <1>2 DEF Cells
  <1> HIDE DEF R
  <1>9. Cardinality(Cells(m, R)) = 0
    BY <1>8, FS_EmptySet
  <1>10. /\ Cardinality(Cells(m, R \cup A)) = Cardinality(Cells(m, R)) + Cardinality(Cells(m, A))
         /\ Cardinality(R \cup A) = Cardinality(R) + Cardinality(A)
         /\ Cardinality(Cells(m, A)) \in Nat /\ Cardinality(R) \in Nat
    BY <1>7, CellsUnion
  <1>11. Cardinality(Cells(m, A)) = s.size
    BY <1>1, <1>7, <1>9, <1>10
  <1>12. Cardinality(R) = s.num - Len(s.active)
    <2>1. s.num = Cardinality(R) + Cardinality(A)
      BY <1>1, <1>7, <1>10
    <2> QED BY <1>4, <1>10, <2>1
  <1> QED BY <1>2, <1>4, <1>5, <1>6, <1>9, <1>11, <1>12 DEF A, m, R

\* Two hubs of one memory.
Apart(s, B, x, C) ==
  /\ Good(s, B, s.lent \ B) /\ Good(x, C, x.lent \ C) /\ B \cap C = {}
  /\ x.mask = s.mask /\ x.data = s.data /\ x.lent = s.lent

\* splice: the hub that gets the active blocks of the other one
LEMMA SplicedGood ==
  ASSUME NEW s, NEW B, NEW x, NEW C, Apart(s, B, x, C), NEW y, y.active = x.active
  PROVE  LET t == Spliced(s, y)
             A == ToSet(x.active)
         IN  /\ Good(t, B \cup A, s.lent \ (B \cup A))
             /\ t.mask = s.mask /\ t.data = s.data /\ t.lent = s.lent
  <1> DEFINE A == ToSet(x.active)
             E == B \cup A
             m == s.mask
             k == Kept(x.active, NotFull(s))
             r == Reverse(k)
             a == s.active \o x.active
             v == r \o s.available
             n == s.num + Len(x.active)
             z == s.size + CountIn(m, x.active)
             t == Spliced(s, y)
  <1>1. /\ Good(s, B, s.lent \ B) /\ Good(x, C, x.lent \ C) /\ B \cap C = {}
        /\ x.mask = m /\ x.data = s.data /\ x.lent = s.lent
    BY DEF Apart
  <1>2. t \in Fields(a, v, n, z, m, s.data, s.lent)
    <2>1. s \in States
      BY <1>1 DEF Good
    <2> QED BY <2>1 DEF Spliced, Fields, States
  <1>3. /\ A \in SUBSET C /\ CountIn(m, x.active) = Cardinality(Cells(m, A))
        /\ Cardinality(A) = Len(x.active) /\ A = {b \in C : m[b] # {}}
    <2>1. Good(x, C, x.lent \ C) /\ x.mask = m
      BY <1>1
    <2>2. /\ A \in SUBSET C /\ CountIn(x.mask, x.active) = x.size /\ Cardinality(Cells(x.mask, A)) = x.size
          /\ Cardinality(A) = Len(x.active) /\ A = {b \in C : x.mask[b] # {}}
      <3> DEFINE F == x.lent \ C
      <3>1. Good(x, C, F)
        BY <2>1
      <3> HIDE DEF m, F
      <3> QED BY <3>1, ActiveCount
    <2> QED BY <2>1, <2>2
  <1>4. B \in SUBSET Blocks /\ C \in SUBSET Blocks /\ C \subseteq s.lent /\ B \subseteq s.lent /\ s.lent \subseteq Blocks
    BY <1>1, GoodFacts
  <1>5. /\ ActiveSound(s.active, m, B) /\ AvailableSound(s.available, m, B)
        /\ s.num = Cardinality(B) /\ s.size = Cardinality(Cells(m, B)) /\ Memory(m, s.data, s.lent)
    BY <1>1 DEF Good
  <1>6. x.active \in Seq(Blocks) /\ Distinct(x.active)
    BY <1>1, GoodFacts
  <1>7. k \in Seq(Blocks) /\ Distinct(k) /\ ToSet(k) = A \cap NotFull(s)
    BY <1>6, KeptOf DEF Filtered
  <1> HIDE DEF A, m, k, t
  <1>8. r \in Seq(Blocks) /\ Distinct(r) /\ ToSet(r) = A \cap NotFull(s)
    BY <1>7, ReverseDistinct
  <1> HIDE DEF r
  <1>9. ActiveSound(a, m, E)
    <2> DEFINE p == s.active
               q == x.active
    <2>1. p \in Seq(Blocks) /\ Distinct(p) /\ ToSet(p) = {b \in B : m[b] # {}}
      BY <1>5 DEF ActiveSound
    <2>2. q \in Seq(Blocks) /\ Distinct(q) /\ ToSet(q) = A
      BY <1>6 DEF A
    <2> HIDE DEF p, q
    <2>3. ToSet(p) \cap ToSet(q) = {}
      BY <1>1, <1>3, <2>1, <2>2
    <2>4. p \o q \in Seq(Blocks) /\ Distinct(p \o q) /\ ToSet(p \o q) = ToSet(p) \cup ToSet(q)
      BY <2>1, <2>2, <2>3, JoinDistinct
    <2>5. ToSet(p) \cup ToSet(q) = {b \in E : m[b] # {}}
      BY <1>3, <2>1, <2>2
    <2>6. a = p \o q
      BY DEF p, q
    <2> HIDE DEF a
    <2> QED BY <2>4, <2>5, <2>6 DEF ActiveSound
  <1>10. AvailableSound(v, m, E)
    <2> DEFINE q == s.available
    <2>1. q \in Seq(Blocks) /\ Distinct(q) /\ ToSet(q) = {b \in B : m[b] # Slots} /\ ReservedLast(q, m)
      BY <1>5 DEF AvailableSound
    <2>2. NotFull(s) = {b \in Blocks : m[b] # Slots}
      BY DEF NotFull, m
    <2>3. v = r \o q
      OBVIOUS
    <2> HIDE DEF q, v
    <2>4. ToSet(r) \cap ToSet(q) = {}
      BY <1>1, <1>3, <1>8, <2>1
    <2>5. r \o q \in Seq(Blocks) /\ Distinct(r \o q) /\ ToSet(r \o q) = ToSet(r) \cup ToSet(q)
      BY <1>8, <2>1, <2>4, JoinDistinct
    <2>6. ToSet(r) \cup ToSet(q) = {b \in E : m[b] # Slots}
      BY <1>3, <1>4, <1>8, <2>1, <2>2
    <2>7. ASSUME NEW c \in ToSet(v), NEW d \in ToSet(v), Prec(v, c, d), m[c] = {} PROVE m[d] = {}
      <3>1. Prec(r, c, d) \/ Prec(q, c, d) \/ (c \in ToSet(r) /\ d \in ToSet(q))
        BY <1>8, <2>1, <2>3, <2>7, JoinPrec
      <3>2. c \notin ToSet(r)
        BY <1>3, <1>8, <2>7
      <3>3. Prec(q, c, d)
        BY <1>8, <3>1, <3>2, PrecFacts
      <3>4. c \in ToSet(q) /\ d \in ToSet(q)
        BY <2>1, <3>3, PrecFacts
      <3> QED BY <2>1, <2>7, <3>3, <3>4 DEF ReservedLast
    <2>8. ReservedLast(v, m)
      BY <2>7 DEF ReservedLast
    <2> QED BY <2>3, <2>5, <2>6, <2>8 DEF AvailableSound
  <1> HIDE DEF a, v
  <1>11. n = Cardinality(E) /\ z = Cardinality(Cells(m, E))
    <2>1. A \in SUBSET Blocks /\ A \cap B = {}
      BY <1>1, <1>3, <1>4
    <2>2. /\ Cardinality(Cells(m, B \cup A)) = Cardinality(Cells(m, B)) + Cardinality(Cells(m, A))
          /\ Cardinality(B \cup A) = Cardinality(B) + Cardinality(A)
      BY <1>4, <2>1, CellsUnion
    <2> QED BY <1>3, <1>5, <2>2
  <1>12. E \cap (s.lent \ E) = {} /\ s.lent = E \cup (s.lent \ E)
    BY <1>3, <1>4
  <1> HIDE DEF n, z, E
  <1>13. Good(t, E, s.lent \ E)
    BY <1>2, <1>5, <1>9, <1>10, <1>11, <1>12, MakeGood
  <1>14. t.mask = m /\ t.data = s.data /\ t.lent = s.lent
    BY <1>2, FieldsOf
  <1> QED BY <1>13, <1>14 DEF t, E, A, m

\* splice: the hub that is left with its reserved blocks
LEMMA SplicedFromGood ==
  ASSUME NEW x, NEW C, NEW F, Good(x, C, F), NEW t,
         t \in Fields(<<>>, Kept(x.available, {b \in Blocks : x.mask[b] = {}}), x.num - Len(x.active),
                      x.size - CountIn(x.mask, x.active), x.mask, x.data, x.lent)
  PROVE  LET A == ToSet(x.active) IN Good(t, C \ A, x.lent \ (C \ A))
  <1> DEFINE A == ToSet(x.active)
             E == C \ A
             m == x.mask
             T == {b \in Blocks : m[b] = {}}
             v == Kept(x.available, T)
             n == x.num - Len(x.active)
             z == x.size - CountIn(m, x.active)
  <1>1. /\ A \in SUBSET C /\ CountIn(m, x.active) = x.size
        /\ A = {b \in C : m[b] # {}} /\ Cardinality(Cells(m, C \ A)) = 0
        /\ Cardinality(C \ A) = n
    BY ActiveCount
  <1>2. C \in SUBSET Blocks /\ C \subseteq x.lent /\ x.size \in Nat
    BY GoodFacts
  <1>3. t \in Fields(<<>>, v, n, z, m, x.data, x.lent)
    OBVIOUS
  <1>4. AvailableSound(x.available, m, C) /\ Memory(m, x.data, x.lent)
    BY DEF Good
  <1> HIDE DEF A, m, T, n
  <1>5. ActiveSound(<<>>, m, E)
    <2>1. <<>> \in Seq(Blocks) /\ Distinct(<<>>) /\ ToSet(<<>>) = {}
      BY DEF Distinct, ToSet
    <2>2. {b \in E : m[b] # {}} = {}
      BY <1>1
    <2> QED BY <2>1, <2>2 DEF ActiveSound
  <1>6. AvailableSound(v, m, E)
    <2> DEFINE q == x.available
    <2>1. q \in Seq(Blocks) /\ Distinct(q) /\ ToSet(q) = {b \in C : m[b] # Slots} /\ ReservedLast(q, m)
      BY <1>4 DEF AvailableSound
    <2> HIDE DEF q
    <2> DEFINE k == Kept(q, T)
    <2>2. Filtered(k, q, T, Blocks)
      BY <2>1, KeptOf
    <2> HIDE DEF k
    <2>3. /\ k \in Seq(Blocks) /\ Distinct(k) /\ ToSet(k) = ToSet(q) \cap T
          /\ \A c, d : Prec(k, c, d) => Prec(q, c, d)
      BY <2>1, <2>2 DEF Filtered
    <2>4. ToSet(k) = {b \in E : m[b] # Slots}
      BY <1>1, <1>2, <2>1, <2>3, SlotFacts DEF T
    <2>5. ReservedLast(k, m)
      BY <2>1, <2>3 DEF ReservedLast
    <2> QED BY <2>3, <2>4, <2>5 DEF AvailableSound, k, q
  <1> HIDE DEF v
  <1>7. z = Cardinality(Cells(m, E)) /\ n = Cardinality(E)
    BY <1>1, <1>2
  <1>8. E \cap (x.lent \ E) = {} /\ x.lent = E \cup (x.lent \ E)
    BY <1>2
  <1> HIDE DEF z, E
  <1>9. Good(t, E, x.lent \ E)
    BY <1>3, <1>4, <1>5, <1>6, <1>7, <1>8, MakeGood
  <1> QED BY <1>9 DEF E, A

-----------------------------------------------------------------------------
(* All hubs *)

Own(r) == ToSet(r.active) \cup ToSet(r.available)

\* A hub whose lists and counts are r.
HubOf(r, m, d, l) ==
  [active |-> r.active, available |-> r.available, num |-> r.num, size |-> r.size, mask |-> m, data |-> d, lent |-> l]

Heads == [active : Seq(Blocks), available : Seq(Blocks), num : Nat, size : Nat]

GoodHub(r, m, d, l) == r \in Heads /\ Good(HubOf(r, m, d, l), Own(r), l \ Own(r))

\* The hubs are sound and share the blocks that are on loan.
AllGood(p, m, d, l) ==
  /\ p \in [Hubs -> Heads] /\ Memory(m, d, l)
  /\ \A h \in Hubs : GoodHub(p[h], m, d, l)
  /\ \A h, g \in Hubs : h # g => Own(p[h]) \cap Own(p[g]) = {}
  /\ \A h \in Hubs : Own(p[h]) \subseteq l
  /\ \A b \in l : \E h \in Hubs : b \in Own(p[h])

LEMMA HubOfIs ==
  ASSUME NEW r, NEW m, NEW d, NEW l
  PROVE  LET s == HubOf(r, m, d, l) IN
         /\ s.active = r.active /\ s.available = r.available /\ s.num = r.num /\ s.size = r.size
         /\ s.mask = m /\ s.data = d /\ s.lent = l /\ Own(s) = Own(r)
         /\ s \in Fields(r.active, r.available, r.num, r.size, m, d, l)
  BY DEF HubOf, Own, Fields

LEMMA OwnIs ==
  ASSUME NEW s, NEW B, NEW F, Good(s, B, F)
  PROVE  B = Own(s) /\ F = s.lent \ B /\ B \subseteq s.lent
  <1>1. B \cap F = {} /\ s.lent = B \cup F
    BY DEF Good
  <1>2. B = Own(s)
    BY GoodFacts DEF Own
  <1> QED BY <1>1, <1>2

LEMMA BlistIs ==
  ASSUME NEW t, t \in States
  PROVE  /\ Blist(t) \in Heads /\ Own(Blist(t)) = Own(t)
         /\ Blist(t).active = t.active /\ Blist(t).available = t.available
         /\ Blist(t).num = t.num /\ Blist(t).size = t.size
  BY DEF Blist, Heads, Own, States

\* The hub that is left by a member function
LEMMA GoodHead ==
  ASSUME NEW t, NEW B, NEW F, Good(t, B, F)
  PROVE  GoodHub(Blist(t), t.mask, t.data, t.lent) /\ Own(Blist(t)) = B /\ t.lent \ B = F
  <1> DEFINE r == Blist(t)
             s == HubOf(r, t.mask, t.data, t.lent)
  <1>1. t \in States
    BY DEF Good
  <1>2. /\ r \in Heads /\ Own(r) = Own(t)
        /\ r.active = t.active /\ r.available = t.available /\ r.num = t.num /\ r.size = t.size
    BY <1>1, BlistIs
  <1>3. B = Own(t) /\ F = t.lent \ B
    BY OwnIs
  <1> HIDE DEF r
  <1>4. s \in Fields(t.active, t.available, t.num, t.size, t.mask, t.data, t.lent)
    BY <1>2, HubOfIs
  <1>5. /\ Memory(t.mask, t.data, t.lent)
        /\ ActiveSound(t.active, t.mask, B) /\ AvailableSound(t.available, t.mask, B)
        /\ t.num = Cardinality(B) /\ t.size = Cardinality(Cells(t.mask, B))
        /\ B \cap F = {} /\ t.lent = B \cup F
    BY DEF Good
  <1> HIDE DEF s
  <1>6. Good(s, B, F)
    BY <1>4, <1>5, MakeGood
  <1> QED BY <1>2, <1>3, <1>6 DEF GoodHub, s, r

\* Another hub: its blocks are as they were.
LEMMA GoodBeside ==
  ASSUME NEW r, NEW m, NEW d, NEW l, GoodHub(r, m, d, l), NEW m2, NEW d2, NEW l2, Memory(m2, d2, l2),
         Own(r) \subseteq l2, \A b \in Own(r) : m2[b] = m[b]
  PROVE  GoodHub(r, m2, d2, l2)
  <1> DEFINE B == Own(r)
             s == HubOf(r, m, d, l)
             t == HubOf(r, m2, d2, l2)
  <1>1. r \in Heads /\ Good(s, B, l \ B)
    BY DEF GoodHub
  <1>2. s.active = r.active /\ s.available = r.available /\ s.num = r.num /\ s.size = r.size /\ s.mask = m
    BY HubOfIs
  <1>3. t \in Fields(r.active, r.available, r.num, r.size, m2, d2, l2)
    BY HubOfIs
  <1> HIDE DEF s, t
  <1>4. /\ ActiveSound(r.active, m, B) /\ AvailableSound(r.available, m, B)
        /\ r.num = Cardinality(B) /\ r.size = Cardinality(Cells(m, B))
    BY <1>1, <1>2 DEF Good
  <1> HIDE DEF B
  <1>5. \A b \in B : m2[b] = m[b]
    BY DEF B
  <1>6. ActiveSound(r.active, m2, B)
    BY <1>4, <1>5, SameActive
  <1>7. AvailableSound(r.available, m2, B)
    BY <1>4, <1>5, SameAvailable
  <1>8. r.size = Cardinality(Cells(m2, B))
    BY <1>4, <1>5, SameCells
  <1>9. B \cap (l2 \ B) = {} /\ l2 = B \cup (l2 \ B)
    BY DEF B
  <1>10. Good(t, B, l2 \ B)
    BY <1>3, <1>4, <1>6, <1>7, <1>8, <1>9, MakeGood
  <1> QED BY <1>1, <1>10 DEF GoodHub, B, t

\* One hub becomes t.
LEMMA OneBecomes ==
  ASSUME NEW p, NEW m, NEW d, NEW l, AllGood(p, m, d, l), NEW h \in Hubs,
         NEW t, Sound(t, l \ Own(p[h])), Framed(HubOf(p[h], m, d, l), t, l \ Own(p[h]))
  PROVE  AllGood([p EXCEPT ![h] = Blist(t)], t.mask, t.data, t.lent)
  <1> DEFINE F == l \ Own(p[h])
             q == [p EXCEPT ![h] = Blist(t)]
  <1>1. PICK B : Good(t, B, F)
    BY DEF Sound
  <1>2. /\ p \in [Hubs -> Heads] /\ \A g \in Hubs : GoodHub(p[g], m, d, l)
        /\ \A g \in Hubs : g # h => Own(p[h]) \cap Own(p[g]) = {}
        /\ \A f, g \in Hubs : f # g => Own(p[f]) \cap Own(p[g]) = {}
        /\ \A g \in Hubs : Own(p[g]) \subseteq l
        /\ \A b \in l : \E g \in Hubs : b \in Own(p[g])
    BY DEF AllGood
  <1>3. \A b \in F : t.mask[b] = m[b]
    BY HubOfIs DEF Framed
  <1>4. /\ GoodHub(Blist(t), t.mask, t.data, t.lent) /\ Own(Blist(t)) = B
        /\ B \cap F = {} /\ t.lent = B \cup F /\ Memory(t.mask, t.data, t.lent) /\ Blist(t) \in Heads
    <2>1. B \cap F = {} /\ t.lent = B \cup F /\ Memory(t.mask, t.data, t.lent)
      BY <1>1 DEF Good
    <2> HIDE DEF F
    <2>2. GoodHub(Blist(t), t.mask, t.data, t.lent) /\ Own(Blist(t)) = B
      BY <1>1, GoodHead
    <2> QED BY <2>1, <2>2 DEF GoodHub
  <1>5. q[h] = Blist(t) /\ q \in [Hubs -> Heads] /\ \A g \in Hubs : g # h => q[g] = p[g]
    BY <1>2, <1>4
  <1>6. \A g \in Hubs : g # h => Own(p[g]) \subseteq F
    BY <1>2
  <1>7. \A b \in F : \E g \in Hubs : g # h /\ b \in Own(p[g])
    BY <1>2
  <1> HIDE DEF F, q
  <1>8. ASSUME NEW g \in Hubs PROVE GoodHub(q[g], t.mask, t.data, t.lent)
    <2>1. CASE g = h
      BY <1>4, <1>5, <2>1
    <2>2. CASE g # h
      <3>1. GoodHub(p[g], m, d, l) /\ q[g] = p[g]
        BY <1>2, <1>5, <2>2
      <3>2. Own(p[g]) \subseteq t.lent /\ \A b \in Own(p[g]) : t.mask[b] = m[b]
        BY <1>3, <1>4, <1>6, <2>2
      <3>3. Memory(t.mask, t.data, t.lent)
        BY <1>4
      <3>4. GoodHub(p[g], t.mask, t.data, t.lent)
        BY <3>1, <3>2, <3>3, GoodBeside
      <3> QED BY <3>1, <3>4
    <2> QED BY <2>1, <2>2
  <1>9. ASSUME NEW f \in Hubs, NEW g \in Hubs, f # g PROVE Own(q[f]) \cap Own(q[g]) = {}
    <2>1. CASE f = h
      BY <1>4, <1>5, <1>6, <1>9, <2>1
    <2>2. CASE g = h
      BY <1>4, <1>5, <1>6, <1>9, <2>2
    <2>3. CASE f # h /\ g # h
      BY <1>2, <1>5, <1>9, <2>3
    <2> QED BY <2>1, <2>2, <2>3
  <1>10. ASSUME NEW g \in Hubs PROVE Own(q[g]) \subseteq t.lent
    BY <1>4, <1>5, <1>6
  <1>11. ASSUME NEW b \in t.lent PROVE \E g \in Hubs : b \in Own(q[g])
    BY <1>4, <1>5, <1>7
  <1> QED BY <1>4, <1>5, <1>8, <1>9, <1>10, <1>11 DEF AllGood, q

\* Two hubs share their blocks anew.
LEMMA TwoShare ==
  ASSUME NEW p, NEW m, NEW d, NEW l, AllGood(p, m, d, l), NEW h \in Hubs, NEW x \in Hubs, h # x,
         NEW r, NEW v, GoodHub(r, m, d, l), GoodHub(v, m, d, l), Own(r) \cap Own(v) = {},
         Own(r) \cup Own(v) = Own(p[h]) \cup Own(p[x])
  PROVE  AllGood([p EXCEPT ![h] = r, ![x] = v], m, d, l)
  <1> DEFINE q == [p EXCEPT ![h] = r, ![x] = v]
  <1>1. /\ p \in [Hubs -> Heads] /\ Memory(m, d, l) /\ \A g \in Hubs : GoodHub(p[g], m, d, l)
        /\ \A f, g \in Hubs : f # g => Own(p[f]) \cap Own(p[g]) = {}
        /\ \A g \in Hubs : Own(p[g]) \subseteq l
        /\ \A b \in l : \E g \in Hubs : b \in Own(p[g])
    BY DEF AllGood
  <1>2. r \in Heads /\ v \in Heads
    BY DEF GoodHub
  <1>3. /\ q \in [Hubs -> Heads] /\ q[h] = r /\ q[x] = v
        /\ \A g \in Hubs : g # h /\ g # x => q[g] = p[g]
    BY <1>1, <1>2
  <1> HIDE DEF q
  <1>4. \A g \in Hubs : GoodHub(q[g], m, d, l)
    BY <1>1, <1>3
  <1>5. Own(r) \subseteq l /\ Own(v) \subseteq l
    BY <1>1
  <1>6. \A g \in Hubs : g # h /\ g # x => Own(p[g]) \cap Own(r) = {} /\ Own(p[g]) \cap Own(v) = {}
    BY <1>1
  <1>7. ASSUME NEW f \in Hubs, NEW g \in Hubs, f # g PROVE Own(q[f]) \cap Own(q[g]) = {}
    <2>1. CASE f = h
      BY <1>3, <1>6, <1>7, <2>1
    <2>2. CASE f = x
      BY <1>3, <1>6, <1>7, <2>2
    <2>3. CASE f # h /\ f # x
      <3>1. CASE g = h
        BY <1>3, <1>6, <2>3, <3>1
      <3>2. CASE g = x
        BY <1>3, <1>6, <2>3, <3>2
      <3>3. CASE g # h /\ g # x
        BY <1>1, <1>3, <1>7, <2>3, <3>3
      <3> QED BY <3>1, <3>2, <3>3
    <2> QED BY <2>1, <2>2, <2>3
  <1>8. ASSUME NEW g \in Hubs PROVE Own(q[g]) \subseteq l
    BY <1>1, <1>3, <1>5
  <1>9. ASSUME NEW b \in l PROVE \E g \in Hubs : b \in Own(q[g])
    <2>1. PICK g \in Hubs : b \in Own(p[g])
      BY <1>1
    <2>2. CASE g = h \/ g = x
      BY <1>3, <2>1, <2>2
    <2>3. CASE g # h /\ g # x
      BY <1>3, <2>1, <2>3
    <2> QED BY <2>2, <2>3
  <1> QED BY <1>1, <1>3, <1>4, <1>7, <1>8, <1>9 DEF AllGood, q

LEMMA SwappedGood ==
  ASSUME NEW p, NEW m, NEW d, NEW l, AllGood(p, m, d, l), NEW h \in Hubs, NEW x \in Hubs, h # x
  PROVE  AllGood([p EXCEPT ![h] = p[x], ![x] = p[h]], m, d, l)
  <1>1. GoodHub(p[x], m, d, l) /\ GoodHub(p[h], m, d, l) /\ Own(p[x]) \cap Own(p[h]) = {}
    BY DEF AllGood
  <1> QED BY <1>1, TwoShare

\* reset(), and what the hub is then
LEMMA ResetGood ==
  ASSUME NEW s, NEW B, NEW F, Good(s, B, F)
  PROVE  LET t == HubOf(Empty, ResetMemory(s).mask, ResetMemory(s).data, ResetMemory(s).lent) IN
         Sound(t, F) /\ Framed(s, t, F)
  <1> DEFINE D == Dropped(s)
             m == [b \in Blocks |-> IF b \in D THEN {} ELSE s.mask[b]]
             row == [n \in Slots |-> Raw]
             d == [b \in Blocks |-> IF b \in D THEN row ELSE s.data[b]]
             l == s.lent \ D
             t == HubOf(Empty, ResetMemory(s).mask, ResetMemory(s).data, ResetMemory(s).lent)
  <1>1. D = B
    <2>1. ToSet(BackEmpty(s)) = {b \in B : s.mask[b] = {}}
      BY BackEmptyOf
    <2>2. ActiveSound(s.active, s.mask, B)
      BY DEF Good
    <2>3. ToSet(s.active) = {b \in B : s.mask[b] # {}}
      BY <2>2 DEF ActiveSound
    <2> QED BY <2>1, <2>3 DEF Dropped
  <1>2. ResetMemory(s).mask = m /\ ResetMemory(s).data = d /\ ResetMemory(s).lent = l
    BY DEF ResetMemory
  <1>3. Empty.active = <<>> /\ Empty.available = <<>> /\ Empty.num = 0 /\ Empty.size = 0
    BY DEF Empty
  <1> HIDE DEF D
  <1>4. row \in [Slots -> Values \cup {Raw}] /\ \A n \in Slots : row[n] = Raw
    OBVIOUS
  <1> HIDE DEF row
  <1>5. /\ s.mask \in [Blocks -> SUBSET Slots] /\ s.data \in Rows /\ s.lent \subseteq Blocks
        /\ B \subseteq s.lent
    BY GoodFacts
  <1>6. m \in [Blocks -> SUBSET Slots] /\ \A b \in Blocks : m[b] = IF b \in D THEN {} ELSE s.mask[b]
    BY <1>5
  <1>7. d \in Rows /\ \A b \in Blocks : d[b] = IF b \in D THEN row ELSE s.data[b]
    BY <1>4, <1>5 DEF Rows
  <1> HIDE DEF m, d
  <1>8. Memory(m, d, l)
    <2>1. /\ Memory(s.mask, s.data, s.lent)
      BY DEF Good
    <2>2. ASSUME NEW b \in Blocks, NEW n \in Slots PROVE n \in m[b] <=> d[b][n] # Raw
      <3>1. CASE b \in D
        BY <1>4, <1>6, <1>7, <3>1
      <3>2. CASE b \notin D
        BY <1>6, <1>7, <2>1, <3>2 DEF Memory
      <3> QED BY <3>1, <3>2
    <2>3. \A b \in Blocks \ l : m[b] = {}
      BY <1>6, <2>1 DEF Memory
    <2>4. l \subseteq Blocks
      BY <1>5
    <2> QED BY <1>6, <1>7, <2>2, <2>3, <2>4 DEF Memory, Rows
  <1>9. t \in Fields(<<>>, <<>>, 0, 0, m, d, l)
    BY <1>2, <1>3, HubOfIs
  <1> HIDE DEF t
  <1>10. ActiveSound(<<>>, m, {}) /\ AvailableSound(<<>>, m, {})
    <2>1. <<>> \in Seq(Blocks) /\ Distinct(<<>>) /\ ToSet(<<>>) = {}
      BY DEF Distinct, ToSet
    <2> QED BY <2>1 DEF ActiveSound, AvailableSound, ReservedLast
  <1>11. 0 = Cardinality({}) /\ 0 = Cardinality(Cells(m, {}))
    <2>1. Cells(m, {}) = {}
      BY DEF Cells
    <2> QED BY <2>1, FS_EmptySet
  <1>12. {} \cap F = {} /\ l = {} \cup F
    <2>1. B \cap F = {} /\ s.lent = B \cup F
      BY DEF Good
    <2> QED BY <1>1, <2>1
  <1>13. Good(t, {}, F)
    BY <1>8, <1>9, <1>10, <1>11, <1>12, MakeGood
  <1>14. t.mask = m /\ t.data = d
    BY <1>9, FieldsOf
  <1>15. Framed(s, t, F)
    <2>1. \A b \in F : b \in Blocks /\ b \notin D
      <3>1. B \cap F = {} /\ s.lent = B \cup F
        BY DEF Good
      <3> QED BY <1>1, <1>5, <3>1
    <2> QED BY <1>6, <1>7, <1>14, <2>1 DEF Framed
  <1> QED BY <1>13, <1>15 DEF Sound, t

-----------------------------------------------------------------------------
(* Capacities: compact ends with all blocks full but one *)

\* In a list without repetition, one of two stands before the other.
LEMMA PrecOrder ==
  ASSUME NEW S, NEW l \in Seq(S), Distinct(l)
  PROVE  /\ \A x, y : Prec(l, x, y) => ~Prec(l, y, x)
         /\ \A x, y, z : Prec(l, x, y) /\ Prec(l, y, z) => Prec(l, x, z)
         /\ \A x, y \in ToSet(l) : x = y \/ Prec(l, x, y) \/ Prec(l, y, x)
  <1>1. DOMAIN l = 1 .. Len(l) /\ Len(l) \in Nat
    OBVIOUS
  <1>2. ASSUME NEW x, NEW y, Prec(l, x, y), Prec(l, y, x) PROVE FALSE
    <2>1. PICK i \in DOMAIN l, j \in DOMAIN l : i < j /\ l[i] = x /\ l[j] = y
      BY <1>2 DEF Prec
    <2>2. PICK k \in DOMAIN l, m \in DOMAIN l : k < m /\ l[k] = y /\ l[m] = x
      BY <1>2 DEF Prec
    <2>3. k = j /\ m = i
      BY <2>1, <2>2 DEF Distinct
    <2> QED BY <1>1, <2>1, <2>2, <2>3
  <1>3. ASSUME NEW x, NEW y, NEW z, Prec(l, x, y), Prec(l, y, z) PROVE Prec(l, x, z)
    <2>1. PICK i \in DOMAIN l, j \in DOMAIN l : i < j /\ l[i] = x /\ l[j] = y
      BY <1>3 DEF Prec
    <2>2. PICK k \in DOMAIN l, m \in DOMAIN l : k < m /\ l[k] = y /\ l[m] = z
      BY <1>3 DEF Prec
    <2>3. k = j
      BY <2>1, <2>2 DEF Distinct
    <2>4. i < m
      BY <1>1, <2>1, <2>2, <2>3
    <2> QED BY <2>1, <2>2, <2>4 DEF Prec
  <1>4. ASSUME NEW x \in ToSet(l), NEW y \in ToSet(l), x # y PROVE Prec(l, x, y) \/ Prec(l, y, x)
    <2>1. PICK i \in DOMAIN l : l[i] = x
      BY DEF ToSet
    <2>2. PICK j \in DOMAIN l : l[j] = y
      BY DEF ToSet
    <2>3. i < j \/ j < i
      BY <1>1, <1>4, <2>1, <2>2
    <2> QED BY <2>1, <2>2, <2>3 DEF Prec
  <1> QED BY <1>2, <1>3, <1>4

\* The block behind x: nothing is between.
LEMMA NextInOrder ==
  ASSUME NEW S, NEW l \in Seq(S), Distinct(l), NEW x \in ToSet(l)
  PROVE  LET n == NextIn(l, x) IN
         \/ n = Header /\ \A b : ~Prec(l, x, b)
         \/ /\ n \in ToSet(l) /\ Prec(l, x, n)
            /\ \A b : Prec(l, b, n) => b = x \/ Prec(l, b, x)
  <1> DEFINE i == Index(l, x)
             n == Len(l)
  <1>1. i \in 1 .. n /\ n \in Nat /\ DOMAIN l = 1 .. n /\ l[i] = x
    BY IndexFacts
  <1>2. NextIn(l, x) = IF i = n THEN Header ELSE l[i + 1]
    BY DEF NextIn, Index, SelectInSeq
  <1> HIDE DEF i, n
  <1>3. CASE i = n
    <2>1. ASSUME NEW b, Prec(l, x, b) PROVE FALSE
      <3>1. PICK p \in DOMAIN l, q \in DOMAIN l : p < q /\ l[p] = x /\ l[q] = b
        BY <2>1 DEF Prec
      <3>2. p = i
        BY <1>1, <3>1 DEF Distinct
      <3> QED BY <1>1, <1>3, <3>1, <3>2
    <2> QED BY <1>2, <1>3, <2>1
  <1>4. CASE i # n
    <2> DEFINE m == i + 1
    <2>1. m \in DOMAIN l /\ i \in DOMAIN l /\ i < m
      BY <1>1, <1>4
    <2>2. NextIn(l, x) = l[m]
      BY <1>2, <1>4
    <2>3. l[m] \in ToSet(l) /\ Prec(l, x, l[m])
      BY <1>1, <2>1 DEF Prec, ToSet
    <2>4. ASSUME NEW b, Prec(l, b, l[m]) PROVE b = x \/ Prec(l, b, x)
      <3>1. PICK p \in DOMAIN l, q \in DOMAIN l : p < q /\ l[p] = b /\ l[q] = l[m]
        BY <2>4 DEF Prec
      <3>2. q = m
        BY <2>1, <3>1 DEF Distinct
      <3>3. p = i \/ p < i
        BY <1>1, <3>1, <3>2
      <3> QED BY <1>1, <2>1, <3>1, <3>3 DEF Prec
    <2> QED BY <2>2, <2>3, <2>4
  <1> QED BY <1>3, <1>4

\* x in front of y: what is before y, and not x, is before x.
LEMMA LinkedOrder ==
  ASSUME NEW S, NEW l \in Seq(S), Distinct(l), NEW x \in S, x \notin ToSet(l), NEW y \in ToSet(l), y # Header
  PROVE  LET t == LinkBefore(l, x, y) IN
         /\ \A b : Prec(t, b, x) => Prec(l, b, y)
         /\ \A b : Prec(t, x, b) => b = y \/ Prec(l, y, b)
  <1> DEFINE i == Index(l, y)
             t == LinkBefore(l, x, y)
             u == SubSeq(l, 1, i - 1)
             v == SubSeq(l, i, Len(l))
             w == <<x>> \o v
  <1>1. t = InsertAt(l, i, x)
    BY DEF LinkBefore, Index, SelectInSeq
  <1>2. i \in 1 .. Len(l) /\ Len(l) \in Nat /\ DOMAIN l = 1 .. Len(l) /\ l[i] = y
    BY IndexFacts
  <1>3. t = u \o <<x>> \o v
    BY <1>1 DEF InsertAt
  <1> HIDE DEF i, t
  <1>4. Part(u, l, 1, i - 1, S) /\ Part(v, l, i, Len(l), S)
    BY <1>2, PartOf
  <1> HIDE DEF u, v
  <1>5. /\ u \in Seq(S) /\ ToSet(u) = {l[k] : k \in 1 .. i - 1} /\ v \in Seq(S) /\ ToSet(v) = {l[k] : k \in i .. Len(l)}
    BY <1>4 DEF Part
  <1>6. x \notin ToSet(u) /\ x \notin ToSet(v)
    <2>1. \A k \in 1 .. i - 1 : l[k] \in ToSet(l)
      BY <1>2 DEF ToSet
    <2>2. \A k \in i .. Len(l) : l[k] \in ToSet(l)
      BY <1>2 DEF ToSet
    <2> QED BY <1>5, <2>1, <2>2
  <1>7. w \in Seq(S) /\ t = u \o w /\ ToSet(w) = ToSet(v) \cup {x}
    <2>1. w \in Seq(S) /\ t = u \o w
      BY <1>3, <1>5
    <2>2. DOMAIN w = 1 .. Len(v) + 1 /\ w[1] = x /\ \A k \in 1 .. Len(v) : w[k + 1] = v[k]
      BY <1>5
    <2>3. \A k \in 1 .. Len(v) + 1 : k = 1 \/ (k - 1 \in 1 .. Len(v) /\ k = (k - 1) + 1)
      BY <1>5
    <2>4. DOMAIN v = 1 .. Len(v) /\ Len(v) \in Nat /\ \A k \in 1 .. Len(v) : k + 1 \in 1 .. Len(v) + 1
      BY <1>5
    <2>5. 1 \in 1 .. Len(v) + 1
      BY <2>4
    <2> HIDE DEF w
    <2>6. ASSUME NEW b \in ToSet(w) PROVE b \in ToSet(v) \cup {x}
      <3>1. PICK k \in 1 .. Len(v) + 1 : w[k] = b
        BY <2>2, <2>6 DEF ToSet
      <3>2. CASE k = 1
        BY <2>2, <3>1, <3>2
      <3>3. CASE k # 1
        <4> DEFINE m == k - 1
        <4>1. m \in 1 .. Len(v) /\ k = m + 1
          BY <2>3, <3>3
        <4> HIDE DEF m
        <4>2. v[m] = b /\ m \in DOMAIN v
          BY <2>2, <2>4, <3>1, <4>1
        <4> QED BY <4>2 DEF ToSet
      <3> QED BY <3>2, <3>3
    <2>7. ASSUME NEW b \in ToSet(v) \cup {x} PROVE b \in ToSet(w)
      BY <2>2, <2>4, <2>5, <2>7 DEF ToSet
    <2> QED BY <2>1, <2>6, <2>7
  <1>8. \A b : Prec(w, x, b) => b \in ToSet(v)
    <2> TAKE b
    <2>1. Prec(w, x, b) => Prec(v, x, b) \/ (x = x /\ b \in ToSet(v))
      BY <1>5, PrependPrec
    <2> QED BY <1>5, <1>6, <2>1, PrecFacts
  <1>9. \A b : ~Prec(w, b, x)
    <2> TAKE b
    <2>1. Prec(w, b, x) => Prec(v, b, x) \/ (b = x /\ x \in ToSet(v))
      BY <1>5, PrependPrec
    <2> QED BY <1>5, <1>6, <2>1, PrecFacts
  <1> HIDE DEF w
  <1>10. ASSUME NEW b, Prec(t, b, x) PROVE Prec(l, b, y)
    <2>1. Prec(u, b, x) \/ Prec(w, b, x) \/ (b \in ToSet(u) /\ x \in ToSet(w))
      <3>1. Prec(u \o w, b, x)
        BY <1>7, <1>10
      <3> QED BY <1>5, <1>7, <3>1, JoinPrec
    <2>2. ~Prec(u, b, x)
      BY <1>5, <1>6, PrecFacts
    <2>3. b \in ToSet(u)
      BY <1>9, <2>1, <2>2
    <2>4. PICK k \in 1 .. i - 1 : l[k] = b
      BY <1>5, <2>3
    <2>5. k \in DOMAIN l /\ i \in DOMAIN l /\ k < i
      BY <1>2
    <2> QED BY <1>2, <2>4, <2>5 DEF Prec
  <1>11. ASSUME NEW b, Prec(t, x, b) PROVE b = y \/ Prec(l, y, b)
    <2>1. Prec(u, x, b) \/ Prec(w, x, b) \/ (x \in ToSet(u) /\ b \in ToSet(w))
      <3>1. Prec(u \o w, x, b)
        BY <1>7, <1>11
      <3> QED BY <1>5, <1>7, <3>1, JoinPrec
    <2>2. ~Prec(u, x, b)
      BY <1>5, <1>6, PrecFacts
    <2>3. b \in ToSet(v)
      BY <1>6, <1>8, <2>1, <2>2
    <2>4. PICK k \in i .. Len(l) : l[k] = b
      BY <1>5, <2>3
    <2>5. k \in DOMAIN l /\ i \in DOMAIN l /\ (k = i \/ i < k)
      BY <1>2
    <2> QED BY <1>2, <2>4, <2>5 DEF Prec
  <1> QED BY <1>10, <1>11 DEF t

\* The first block with room behind x: those between are full.
LEMMA NextNotFullOrder ==
  ASSUME NEW s, NEW B, NEW F, Good(s, B, F), NEW x \in ToSet(s.active)
  PROVE  LET y == NextNotFull(s, x)
             l == s.active
         IN  \/ y = Header /\ \A b : Prec(l, x, b) => s.mask[b] = Slots
             \/ /\ y # Header /\ y \in ToSet(l) /\ y # x /\ s.mask[y] # Slots /\ Prec(l, x, y)
                /\ \A b : Prec(l, x, b) /\ Prec(l, b, y) => s.mask[b] = Slots
  <1> DEFINE l == s.active
             n == Len(l)
             i == Index(l, x)
             r == [k \in 1 .. n - i |-> l[i + k]]
             J == {k \in 1 .. Len(r) : s.mask[r[k]] # Slots}
             j == IF J # {} THEN Min(J) ELSE 0
  <1>1. l \in Seq(Blocks) /\ Distinct(l) /\ Header \notin Blocks
    BY GoodFacts, HubAssumption
  <1>2. i \in 1 .. n /\ n \in Nat /\ DOMAIN l = 1 .. n /\ l[i] = x
    BY <1>1, IndexFacts
  <1>3. NextNotFull(s, x) = IF j = 0 THEN Header ELSE l[i + j]
    BY DEF NextNotFull, Index, SelectInSeq
  <1> HIDE DEF l, i, n
  <1>4. Len(r) = n - i /\ \A k \in 1 .. n - i : r[k] = l[i + k]
    BY <1>2
  <1> HIDE DEF r
  <1>5. (J = {} /\ j = 0) \/ (j \in J /\ \A k \in J : j <= k)
    <2>1. J \subseteq Nat
      BY <1>2, <1>4
    <2> HIDE DEF J
    <2>2. J # {} => \E a \in J : \A m \in J : a <= m
      BY <2>1, LeastElement
    <2> QED BY <2>2 DEF Min
  <1> HIDE DEF j
  <1>6. ASSUME NEW b, Prec(l, x, b) PROVE \E k \in 1 .. n - i : b = l[i + k]
    <2>1. PICK p \in DOMAIN l, q \in DOMAIN l : p < q /\ l[p] = x /\ l[q] = b
      BY <1>6 DEF Prec
    <2>2. p = i
      BY <1>1, <1>2, <2>1 DEF Distinct
    <2>3. q - i \in 1 .. n - i /\ i + (q - i) = q
      BY <1>2, <2>1, <2>2
    <2> QED BY <2>1, <2>3
  <1>7. CASE J = {} /\ j = 0
    <2>1. \A k \in 1 .. n - i : s.mask[l[i + k]] = Slots
      BY <1>4, <1>7
    <2> QED BY <1>3, <1>6, <1>7, <2>1 DEF l
  <1>8. CASE j \in J /\ \A k \in J : j <= k
    <2>1. j \in 1 .. n - i /\ s.mask[l[i + j]] # Slots /\ j # 0
      BY <1>2, <1>4, <1>8
    <2> DEFINE y == l[i + j]
               m == i + j
    <2>2. m \in DOMAIN l /\ i \in DOMAIN l /\ i < m
      BY <1>2, <2>1
    <2>3. y \in ToSet(l) /\ y \in Blocks /\ y # x /\ Prec(l, x, y)
      BY <1>1, <1>2, <2>2 DEF ToSet, Prec, Distinct
    <2>4. ASSUME NEW b, Prec(l, x, b), Prec(l, b, y) PROVE s.mask[b] = Slots
      <3>1. PICK k \in 1 .. n - i : b = l[i + k]
        BY <1>6, <2>4
      <3>2. PICK p \in DOMAIN l, q \in DOMAIN l : p < q /\ l[p] = b /\ l[q] = y
        BY <2>4 DEF Prec
      <3>3. q = m /\ p = i + k
        <4>1. i + k \in DOMAIN l
          BY <1>2
        <4> QED BY <1>1, <2>2, <3>1, <3>2, <4>1 DEF Distinct
      <3>4. k < j
        BY <1>2, <2>1, <3>2, <3>3
      <3>5. k \notin J
        BY <1>8, <2>1, <3>4
      <3> QED BY <1>4, <3>1, <3>5
    <2>5. NextNotFull(s, x) = y
      BY <1>3, <2>1
    <2> QED BY <1>1, <2>1, <2>3, <2>4, <2>5 DEF l
  <1> QED BY <1>5, <1>7, <1>8

BeforeFull(l, m, x) == \A b : Prec(l, b, x) => m[b] = Slots

\* x and what is behind it.
Ahead(l, x) == {b \in ToSet(l) : b = x \/ Prec(l, x, b)}

\* x is moved behind the full blocks.
LEMMA PassedOrder ==
  ASSUME NEW r, NEW B, NEW F, Good(r, B, F), NEW x \in ToSet(r.active), r.mask[x] # Slots,
         BeforeFull(r.active, r.mask, x), NextNotFull(r, x) # Header
  PROVE  LET y == NextNotFull(r, x)
             t == IF y # NextIn(r.active, x) THEN MovedBefore(r, x, y) ELSE r
         IN  /\ BeforeFull(t.active, r.mask, x)
             /\ Ahead(t.active, x) \subseteq Ahead(r.active, x) /\ y \in Ahead(r.active, x)
  <1> DEFINE y == NextNotFull(r, x)
             l == r.active
             q == Without(l, x)
             a == LinkBefore(q, x, y)
             t == IF y # NextIn(r.active, x) THEN MovedBefore(r, x, y) ELSE r
  <1>1. l \in Seq(Blocks) /\ Distinct(l) /\ x \in Blocks
    BY GoodFacts
  <1>2. /\ y # Header /\ y \in ToSet(l) /\ y # x /\ Prec(l, x, y) /\ r.mask[y] # Slots
        /\ \A b : Prec(l, x, b) /\ Prec(l, b, y) => r.mask[b] = Slots
    BY NextNotFullOrder
  <1>3. MovedBefore(r, x, y).active = a
    BY DEF MovedBefore, Good, States
  <1> HIDE DEF y
  <1>4. t.active = a \/ t.active = l
    BY <1>3
  <1>5. q \in Seq(Blocks) /\ Distinct(q) /\ ToSet(q) = ToSet(l) \ {x} /\ \A c, d : Prec(q, c, d) => Prec(l, c, d)
    BY <1>1, WithoutOf
  <1> HIDE DEF l, q, t
  <1>6. (\A b : Prec(a, b, x) => Prec(q, b, y)) /\ (\A b : Prec(a, x, b) => b = y \/ Prec(q, y, b))
    <2>1. x \notin ToSet(q) /\ y \in ToSet(q)
      BY <1>2, <1>5
    <2> QED BY <1>1, <1>2, <1>5, <2>1, LinkedOrder
  <1>7. ToSet(a) = ToSet(l)
    <2>1. x \notin ToSet(q) /\ (y = Header \/ y \in ToSet(q))
      BY <1>2, <1>5
    <2>2. a \in Seq(Blocks) /\ Distinct(a) /\ ToSet(a) = ToSet(q) \cup {x}
      <3>1. q \in Seq(Blocks) /\ Distinct(q) /\ x \in Blocks
        BY <1>1, <1>5
      <3> QED BY <2>1, <3>1, LinkedBefore
    <2> QED BY <1>5, <2>2 DEF l
  <1> HIDE DEF a
  <1>8. \A b : Prec(l, b, x) => r.mask[b] = Slots
    BY DEF BeforeFull, l
  <1>9. \A b, c, d : Prec(l, b, c) /\ Prec(l, c, d) => Prec(l, b, d)
    BY <1>1, PrecOrder
  <1>10. BeforeFull(a, r.mask, x)
    <2> SUFFICES ASSUME NEW b, Prec(a, b, x) PROVE r.mask[b] = Slots
      BY DEF BeforeFull
    <2>1. Prec(q, b, y) /\ Prec(l, b, y)
      BY <1>5, <1>6
    <2>2. b \in ToSet(l) /\ b # x
      BY <1>5, <2>1, PrecFacts
    <2>3. Prec(l, b, x) \/ Prec(l, x, b)
      BY <1>1, <2>2, PrecOrder DEF l
    <2> QED BY <1>2, <1>8, <2>1, <2>3
  <1>11. Ahead(a, x) \subseteq Ahead(l, x)
    <2> SUFFICES ASSUME NEW b \in ToSet(l), Prec(a, x, b) PROVE Prec(l, x, b)
      BY <1>7 DEF Ahead
    <2>1. b = y \/ Prec(l, y, b)
      BY <1>5, <1>6
    <2> QED BY <1>2, <1>9, <2>1
  <1>12. y \in Ahead(l, x)
    BY <1>2 DEF Ahead
  <1>13. BeforeFull(l, r.mask, x) /\ Ahead(l, x) \subseteq Ahead(l, x)
    BY DEF l
  <1> QED BY <1>4, <1>10, <1>11, <1>12, <1>13 DEF l, t, y

\* Nothing stands behind the last block, and less behind the next than behind x.
LEMMA NextPasses ==
  ASSUME NEW l \in Seq(Blocks), Distinct(l), NEW x \in ToSet(l), NEW m, m[x] = Slots, BeforeFull(l, m, x)
  PROVE  LET n == NextIn(l, x) IN
         \/ n = Header /\ \A b \in ToSet(l) : m[b] = Slots
         \/ n \in ToSet(l) /\ BeforeFull(l, m, n) /\ Ahead(l, n) \subseteq Ahead(l, x) \ {x}
  <1> DEFINE n == NextIn(l, x)
  <1>1. \/ n = Header /\ \A b : ~Prec(l, x, b)
        \/ n \in ToSet(l) /\ Prec(l, x, n) /\ \A b : Prec(l, b, n) => b = x \/ Prec(l, b, x)
    BY NextInOrder
  <1> HIDE DEF n
  <1>2. \A b : Prec(l, b, x) => m[b] = Slots
    BY DEF BeforeFull
  <1>3. /\ \A b, c : Prec(l, b, c) => ~Prec(l, c, b)
        /\ \A b, c, d : Prec(l, b, c) /\ Prec(l, c, d) => Prec(l, b, d)
        /\ \A b, c \in ToSet(l) : b = c \/ Prec(l, b, c) \/ Prec(l, c, b)
    BY PrecOrder
  <1>4. CASE n = Header /\ \A b : ~Prec(l, x, b)
    BY <1>2, <1>3, <1>4 DEF n
  <1>5. CASE n \in ToSet(l) /\ Prec(l, x, n) /\ \A b : Prec(l, b, n) => b = x \/ Prec(l, b, x)
    <2>1. BeforeFull(l, m, n)
      BY <1>2, <1>5 DEF BeforeFull
    <2>2. ASSUME NEW b \in Ahead(l, n) PROVE b \in Ahead(l, x) \ {x}
      <3>1. b \in ToSet(l) /\ (b = n \/ Prec(l, n, b))
        BY <2>2 DEF Ahead
      <3>2. Prec(l, x, b)
        BY <1>3, <1>5, <3>1
      <3>3. b # x
        BY <1>3, <3>2
      <3> QED BY <3>1, <3>2, <3>3 DEF Ahead
    <2> QED BY <1>5, <2>1, <2>2 DEF n
  <1> QED BY <1>1, <1>4, <1>5

\* compact(pb) moves the elements of pb only.
LEMMA CompactOneKeeps ==
  ASSUME NEW s, NEW B, NEW F, Good(s, B, F), NEW x \in B, Between(s, x)
  PROVE  LET t == CompactOne(s, x) IN SameLists(s, t) /\ ChangesAt(s, t, x)
  <1>1. PICK f : f[0] = s /\ f[N] = CompactOne(s, x) /\ \A i \in 1 .. N : f[i] = MovedDown(f[i - 1], x)
    BY MovedDownTurns
  <1> DEFINE G == {i \in 0 .. N : /\ Moving(s, f[i], B, F) /\ Between(f[i], x)
                                  /\ SameLists(s, f[i]) /\ ChangesAt(s, f[i], x)}
  <1>2. 0 \in G
    <2>1. Moving(s, s, B, F)
      BY SameFrame DEF Moving
    <2>2. SameLists(s, s) /\ ChangesAt(s, s, x)
      BY DEF SameLists, ChangesAt
    <2> QED BY <1>1, <2>1, <2>2, SlotFacts
  <1>3. ASSUME NEW i \in 1 .. N, i - 1 \in G PROVE i \in G
    <2> DEFINE t == f[i - 1]
               u == MovedDown(t, x)
               v == Moved(t, x, x)
    <2>1. /\ Moving(s, t, B, F) /\ Between(t, x) /\ SameLists(s, t) /\ ChangesAt(s, t, x)
          /\ f[i] = u /\ i \in 0 .. N
      BY <1>1, <1>3
    <2>2. u = t \/ u = v
      BY DEF MovedDown
    <2> HIDE DEF t
    <2>3. Good(t, B, F)
      BY <2>1 DEF Moving
    <2>4. Moving(t, u, B, F) /\ Between(u, x)
      BY <2>1, <2>3, MovedDownGood
    <2>5. SameLists(t, v) /\ ChangesAt(t, v, x)
      <3>1. Typed(t)
        BY <2>3 DEF Good, Typed
      <3>2. x \in t.lent
        BY <2>3, GoodFacts
      <3>3. t.mask[x] # Slots /\ t.mask[x] # {}
        BY <2>1 DEF Between
      <3> QED BY <3>1, <3>2, <3>3, MovedSame
    <2> HIDE DEF u, v
    <2>6. Moving(s, u, B, F)
      BY <2>1, <2>4, MovingTrans
    <2>7. SameLists(s, u) /\ ChangesAt(s, u, x)
      <3>1. SameLists(s, v) /\ ChangesAt(s, v, x)
        BY <2>1, <2>5 DEF SameLists, ChangesAt
      <3> QED BY <2>1, <2>2, <3>1
    <2> QED BY <2>1, <2>4, <2>6, <2>7
  <1>4. N \in Nat
    BY SlotFacts
  <1>5. \A i \in 0 .. N : i \in G
    <2> HIDE DEF G
    <2> QED BY <1>2, <1>3, <1>4, Induction
  <1>6. N \in 0 .. N
    BY <1>4
  <1> QED BY <1>1, <1>5, <1>6

\* compact(pbx, pby), with the lists after it.
LEMMA FillIs ==
  ASSUME NEW s, NEW B, NEW F, Good(s, B, F), NEW x \in B, NEW y \in B, x # y, Between(s, x), Between(s, y)
  PROVE  LET u == CompactTwo(s, x, y)
             w == Settled(u, x, y)
         IN  /\ Good(w, B, F) /\ x \in ToSet(w.active) /\ w.mask = u.mask /\ w.size = s.size
             /\ w.active = IF w.mask[y] # {} THEN s.active ELSE Without(s.active, y)
             /\ w.mask[x] = Slots \/ w.mask[y] = {}
             /\ \A b \in Blocks \ {x, y} : w.mask[b] = s.mask[b]
  <1> DEFINE u == CompactTwo(s, x, y)
             w == Settled(u, x, y)
  <1>1. x \in s.lent /\ y \in s.lent /\ x \in Blocks
    BY GoodFacts
  <1>2. Typed(s)
    BY DEF Good, Typed
  <1>3. Mutual(s, u, x, y) /\ u.mask[x] # {} /\ u.mask[y] # Slots /\ (u.mask[x] = Slots \/ u.mask[y] = {})
    BY <1>1, <1>2, CompactTwoTyped
  <1> HIDE DEF u
  <1>4. Moving(s, w, B, F) /\ w.active = (IF u.mask[y] # {} THEN s.active ELSE Without(s.active, y)) /\ w.mask = u.mask
    BY <1>3, SettledGood
  <1>5. w.size = s.size
    <2>1. u \in States /\ u.size = s.size
      BY <1>3 DEF Mutual, Typed, SameLists
    <2>2. Vacated(u, y).size = u.size
      BY <2>1 DEF Vacated, States
    <2>3. Full(Vacated(u, y), x).size = Vacated(u, y).size
      BY <2>1 DEF Vacated, Full, States
    <2> QED BY <2>1, <2>2, <2>3 DEF Settled
  <1> HIDE DEF w
  <1>6. x \in ToSet(w.active) /\ Good(w, B, F)
    <2>1. Good(w, B, F) /\ w.mask[x] # {}
      BY <1>3, <1>4 DEF Moving
    <2> QED BY <2>1, GoodFacts
  <1>7. \A b \in Blocks \ {x, y} : w.mask[b] = s.mask[b]
    BY <1>3, <1>4 DEF Mutual, Elsewhere
  <1> QED BY <1>3, <1>4, <1>5, <1>6, <1>7 DEF u, w

\* At most one block has room.
NearlyFull(l, m) == \E b : \A d \in ToSet(l) : d # b => m[d] = Slots

\* compact at block x, with at most k blocks ahead.
Passing(z, r, x, k) ==
  /\ r.size = z
  /\ \/ x = Header /\ NearlyFull(r.active, r.mask)
     \/ x \in ToSet(r.active) /\ BeforeFull(r.active, r.mask, x) /\ Cardinality(Ahead(r.active, x)) <= k

LEMMA FewerAhead ==
  ASSUME NEW T, T \subseteq Blocks, NEW e \in T, NEW A, A \subseteq T \ {e}, NEW k \in Nat, Cardinality(T) <= k + 1
  PROVE  Cardinality(A) <= k
  <1>1. IsFiniteSet(T)
    BY HubAssumption, FS_Subset
  <1>2. IsFiniteSet(T \ {e}) /\ Cardinality(T \ {e}) = Cardinality(T) - 1
    BY <1>1, FS_RemoveElement
  <1>3. Cardinality(A) <= Cardinality(T \ {e})
    BY <1>2, FS_Subset
  <1>4. IsFiniteSet(A) /\ Cardinality(T) \in Nat /\ Cardinality(A) \in Nat
    <2>1. IsFiniteSet(A)
      BY <1>2, FS_Subset
    <2> QED BY <1>1, <2>1, FS_CardinalityType
  <1> QED BY <1>2, <1>3, <1>4

\* x is full: it is passed.
LEMMA PassFull ==
  ASSUME NEW r, NEW B, NEW F, Good(r, B, F), NEW x \in ToSet(r.active), r.mask[x] = Slots,
         NEW k \in Nat, Passing(r.size, r, x, k + 1)
  PROVE  Passing(r.size, r, NextIn(r.active, x), k)
  <1> DEFINE l == r.active
             n == NextIn(l, x)
  <1>1. l \in Seq(Blocks) /\ Distinct(l) /\ x \in Blocks
    BY GoodFacts DEF ToSet
  <1>2. x # Header
    BY <1>1, HubAssumption
  <1>3. BeforeFull(l, r.mask, x) /\ Cardinality(Ahead(l, x)) <= k + 1
    BY <1>2 DEF Passing
  <1>4. \/ n = Header /\ \A b \in ToSet(l) : r.mask[b] = Slots
        \/ n \in ToSet(l) /\ BeforeFull(l, r.mask, n) /\ Ahead(l, n) \subseteq Ahead(l, x) \ {x}
    <2> DEFINE m == r.mask
    <2>1. m[x] = Slots /\ BeforeFull(l, m, x)
      BY <1>3
    <2> HIDE DEF m
    <2>2. \/ n = Header /\ \A b \in ToSet(l) : m[b] = Slots
          \/ n \in ToSet(l) /\ BeforeFull(l, m, n) /\ Ahead(l, n) \subseteq Ahead(l, x) \ {x}
      BY <1>1, <2>1, NextPasses
    <2> QED BY <2>2 DEF m
  <1>5. x \in Ahead(l, x) /\ Ahead(l, x) \subseteq Blocks
    BY <1>1 DEF Ahead, ToSet
  <1> HIDE DEF n
  <1>6. ASSUME Ahead(l, n) \subseteq Ahead(l, x) \ {x} PROVE Cardinality(Ahead(l, n)) <= k
    <2> DEFINE T == Ahead(l, x)
               A == Ahead(l, n)
    <2>1. x \in T /\ T \subseteq Blocks /\ A \subseteq T \ {x} /\ Cardinality(T) <= k + 1
      BY <1>3, <1>5, <1>6
    <2> HIDE DEF T, A
    <2>2. Cardinality(A) <= k
      BY <2>1, FewerAhead
    <2> QED BY <2>2 DEF A
  <1>7. CASE n = Header /\ \A b \in ToSet(l) : r.mask[b] = Slots
    BY <1>7 DEF Passing, NearlyFull, n
  <1>8. CASE n \in ToSet(l) /\ BeforeFull(l, r.mask, n) /\ Ahead(l, n) \subseteq Ahead(l, x) \ {x}
    BY <1>6, <1>8 DEF Passing, n
  <1> QED BY <1>4, <1>7, <1>8

\* The list with x behind the full blocks.
LEMMA MovedBehind ==
  ASSUME NEW r, NEW B, NEW F, Good(r, B, F), NEW x \in ToSet(r.active), r.mask[x] # Slots
  PROVE  LET y == NextNotFull(r, x)
             t == IF y # NextIn(r.active, x) THEN MovedBefore(r, x, y) ELSE r
         IN  /\ Good(t, B, F) /\ t.mask = r.mask /\ ToSet(t.active) = ToSet(r.active) /\ t.size = r.size
             /\ x \in B /\ Between(t, x)
  <1> DEFINE y == NextNotFull(r, x)
             n == NextIn(r.active, x)
             p == MovedBefore(r, x, y)
             t == IF y # n THEN p ELSE r
  <1>1. x \in B /\ r.mask[x] # {}
    <2>1. ActiveSound(r.active, r.mask, B)
      BY DEF Good
    <2> QED BY <2>1 DEF ActiveSound
  <1>2. y = Header \/ (y \in ToSet(r.active) /\ y # x)
    BY NextNotFullIs
  <1> HIDE DEF y, n
  <1>3. Good(p, B, F) /\ p.mask = r.mask /\ ToSet(p.active) = ToSet(r.active)
    BY <1>2, MovedBeforeGood
  <1>4. p.size = r.size
    BY DEF MovedBefore, Good, States
  <1> HIDE DEF p
  <1>5. t = p \/ t = r
    OBVIOUS
  <1> HIDE DEF t
  <1>6. Good(t, B, F) /\ t.mask = r.mask /\ ToSet(t.active) = ToSet(r.active) /\ t.size = r.size
    BY <1>3, <1>4, <1>5
  <1>7. Between(t, x)
    BY <1>1, <1>6 DEF Between
  <1> QED BY <1>1, <1>6, <1>7 DEF t, p, y, n

\* Nothing behind x has room: x is the last.
LEMMA PassLast ==
  ASSUME NEW r, NEW B, NEW F, Good(r, B, F), NEW x \in ToSet(r.active), r.mask[x] # Slots,
         BeforeFull(r.active, r.mask, x), NextNotFull(r, x) = Header
  PROVE  LET y == NextNotFull(r, x)
             t == IF y # NextIn(r.active, x) THEN MovedBefore(r, x, y) ELSE r
         IN  \A k : Passing(r.size, CompactOne(t, x), Header, k)
  <1> DEFINE y == NextNotFull(r, x)
             t == IF y # NextIn(r.active, x) THEN MovedBefore(r, x, y) ELSE r
             u == CompactOne(t, x)
  <1>1. /\ Good(t, B, F) /\ t.mask = r.mask /\ ToSet(t.active) = ToSet(r.active) /\ t.size = r.size
        /\ x \in B /\ Between(t, x)
    BY MovedBehind
  <1> HIDE DEF t
  <1>2. SameLists(t, u) /\ ChangesAt(t, u, x)
    BY <1>1, CompactOneKeeps
  <1> HIDE DEF u
  <1>3. \A b : Prec(r.active, x, b) => r.mask[b] = Slots
    BY NextNotFullOrder
  <1>4. \A b : Prec(r.active, b, x) => r.mask[b] = Slots
    BY DEF BeforeFull
  <1>5. r.active \in Seq(Blocks) /\ Distinct(r.active)
    BY GoodFacts
  <1>6. \A b \in ToSet(r.active) : b # x => r.mask[b] = Slots
    <2>1. \A b \in ToSet(r.active) : b = x \/ Prec(r.active, b, x) \/ Prec(r.active, x, b)
      BY <1>5, PrecOrder
    <2> QED BY <1>3, <1>4, <2>1
  <1>7. \A b \in ToSet(u.active) : b # x => u.mask[b] = Slots
    <2> TAKE b \in ToSet(u.active)
    <2>1. b \in ToSet(r.active)
      BY <1>1, <1>2 DEF SameLists
    <2>2. b \in Blocks
      BY <1>5, <2>1 DEF ToSet
    <2> QED BY <1>1, <1>2, <1>6, <2>1, <2>2 DEF ChangesAt
  <1>8. u.size = r.size
    BY <1>1, <1>2 DEF SameLists
  <1> QED BY <1>7, <1>8 DEF Passing, NearlyFull, u, t

LEMMA AheadFinite ==
  ASSUME NEW l \in Seq(Blocks), NEW x, NEW A, A \subseteq Ahead(l, x)
  PROVE  Cardinality(A) <= Cardinality(Ahead(l, x)) /\ Ahead(l, x) \subseteq Blocks /\ Cardinality(A) \in Nat
         /\ Cardinality(Ahead(l, x)) \in Nat
  <1> DEFINE T == Ahead(l, x)
  <1>1. T \subseteq Blocks
    BY DEF Ahead, ToSet
  <1> HIDE DEF T
  <1>2. IsFiniteSet(T) /\ A \subseteq T
    BY <1>1, HubAssumption, FS_Subset DEF T
  <1>3. Cardinality(A) <= Cardinality(T) /\ IsFiniteSet(A)
    BY <1>2, FS_Subset
  <1>4. Cardinality(A) \in Nat /\ Cardinality(T) \in Nat
    BY <1>2, <1>3, FS_CardinalityType
  <1> QED BY <1>1, <1>3, <1>4 DEF T

\* x is filled from the next with room: x is full, or that one is vacated.
LEMMA PassFill ==
  ASSUME NEW r, NEW B, NEW F, Good(r, B, F), NEW x \in ToSet(r.active), r.mask[x] # Slots,
         NextNotFull(r, x) # Header, NEW k \in Nat, Passing(r.size, r, x, k + 1)
  PROVE  LET y == NextNotFull(r, x)
             t == IF y # NextIn(r.active, x) THEN MovedBefore(r, x, y) ELSE r
             u == CompactTwo(t, x, y)
             w == Settled(u, x, y)
         IN  Passing(r.size, w, IF u.mask[x] = Slots THEN NextIn(w.active, x) ELSE x, k)
  <1> DEFINE y == NextNotFull(r, x)
             t == IF y # NextIn(r.active, x) THEN MovedBefore(r, x, y) ELSE r
             u == CompactTwo(t, x, y)
             w == Settled(u, x, y)
             l == r.active
             a == t.active
             v == w.active
  <1>1. /\ Good(t, B, F) /\ t.mask = r.mask /\ ToSet(a) = ToSet(l) /\ t.size = r.size
        /\ x \in B /\ Between(t, x)
    BY MovedBehind
  <1>2. l \in Seq(Blocks) /\ Distinct(l) /\ x \in Blocks /\ x # Header
    BY GoodFacts, HubAssumption DEF ToSet
  <1>3. BeforeFull(l, r.mask, x) /\ Cardinality(Ahead(l, x)) <= k + 1
    BY <1>2 DEF Passing
  <1>4. /\ y # Header /\ y \in ToSet(l) /\ y # x /\ r.mask[y] # Slots
    BY NextNotFullOrder
  <1>5. BeforeFull(a, r.mask, x) /\ Ahead(a, x) \subseteq Ahead(l, x) /\ y \in Ahead(l, x)
    BY <1>3, PassedOrder
  <1> HIDE DEF y, t
  <1>6. a \in Seq(Blocks) /\ Distinct(a) /\ B \subseteq Blocks
    BY <1>1, GoodFacts
  <1>7. y \in B /\ Between(t, y)
    <2>1. ActiveSound(t.active, t.mask, B)
      BY <1>1 DEF Good
    <2>2. y \in B /\ t.mask[y] # {}
      BY <1>1, <1>4, <2>1 DEF ActiveSound
    <2> QED BY <1>1, <1>4, <2>2 DEF Between
  <1>8. /\ Good(w, B, F) /\ x \in ToSet(v) /\ w.mask = u.mask /\ w.size = t.size
        /\ v = (IF w.mask[y] # {} THEN a ELSE Without(a, y))
        /\ w.mask[x] = Slots \/ w.mask[y] = {}
        /\ \A b \in Blocks \ {x, y} : w.mask[b] = t.mask[b]
    BY <1>1, <1>4, <1>7, FillIs
  <1> HIDE DEF w
  <1>9. v \in Seq(Blocks) /\ Distinct(v)
    BY <1>8, GoodFacts
  <1> HIDE DEF a, v, l
  <1>10. /\ \A b, c : Prec(v, b, c) => Prec(a, b, c)
         /\ ToSet(v) \subseteq ToSet(a) /\ (w.mask[y] = {} => y \notin ToSet(v))
    <2>1. LET q == Without(a, y) IN ToSet(q) = ToSet(a) \ {y} /\ \A b, c : Prec(q, b, c) => Prec(a, b, c)
      BY <1>6, WithoutOf
    <2> QED BY <1>8, <2>1
  <1>11. BeforeFull(v, w.mask, x)
    <2> SUFFICES ASSUME NEW b, Prec(v, b, x) PROVE w.mask[b] = Slots
      BY DEF BeforeFull
    <2>1. Prec(a, b, x) /\ r.mask[b] = Slots
      BY <1>5, <1>10 DEF BeforeFull
    <2>2. b # x /\ b # y /\ b \in ToSet(a)
      BY <1>4, <1>6, <2>1, PrecFacts
    <2>3. b \in Blocks
      BY <1>6, <2>2 DEF ToSet
    <2> QED BY <1>1, <1>8, <2>1, <2>2, <2>3
  <1>12. Ahead(v, x) \subseteq Ahead(l, x) /\ (w.mask[y] = {} => y \notin Ahead(v, x))
    <2>1. Ahead(v, x) \subseteq Ahead(a, x)
      BY <1>10 DEF Ahead
    <2> QED BY <1>5, <1>10, <2>1 DEF Ahead
  <1>13. CASE u.mask[x] = Slots
    <2>1. Cardinality(Ahead(v, x)) <= k + 1
      <3>1. /\ Cardinality(Ahead(v, x)) <= Cardinality(Ahead(l, x))
            /\ Cardinality(Ahead(v, x)) \in Nat /\ Cardinality(Ahead(l, x)) \in Nat
        <4>1. l \in Seq(Blocks)
          BY <1>2
        <4> QED BY <1>12, <4>1, AheadFinite
      <3>2. Cardinality(Ahead(l, x)) <= k + 1
        BY <1>3 DEF l
      <3> QED BY <3>1, <3>2
    <2>2. Passing(w.size, w, x, k + 1)
      BY <1>8, <1>11, <2>1 DEF Passing, v
    <2>3. x \in ToSet(w.active) /\ w.mask[x] = Slots
      BY <1>8, <1>13 DEF v
    <2>4. Passing(w.size, w, NextIn(w.active, x), k)
      BY <1>8, <2>2, <2>3, PassFull
    <2> QED BY <1>1, <1>8, <1>13, <2>4 DEF w, u, t, y
  <1>14. CASE u.mask[x] # Slots
    <2>1. w.mask[y] = {}
      BY <1>8, <1>14
    <2> DEFINE T == Ahead(l, x)
               A == Ahead(v, x)
    <2>2. A \subseteq T \ {y} /\ y \in T /\ T \subseteq Blocks
      <3>1. l \in Seq(Blocks) /\ y \in T
        BY <1>2, <1>5 DEF l
      <3> QED BY <1>12, <2>1, <3>1, AheadFinite
    <2>3. Cardinality(T) <= k + 1
      BY <1>3 DEF l
    <2> HIDE DEF T, A
    <2>4. Cardinality(A) <= k
      BY <2>2, <2>3, FewerAhead
    <2>5. Passing(r.size, w, x, k)
      BY <1>1, <1>8, <1>11, <2>4 DEF Passing, v, A
    <2> QED BY <1>14, <2>5 DEF w, u, t, y
  <1> QED BY <1>13, <1>14

\* One turn of compact's loops
LEMMA PassTurn ==
  ASSUME NEW s, NEW B, NEW F, NEW c, Compacting(s, c, B, F), NEW k \in Nat, NEW z, Passing(z, c.s, c.x, k + 1)
  PROVE  Passing(z, CompactTurn(c).s, CompactTurn(c).x, k)
  <1> DEFINE r == c.s
             x == c.x
             y == NextNotFull(r, x)
             t == IF y # NextIn(r.active, x) THEN MovedBefore(r, x, y) ELSE r
             u == CompactTwo(t, x, y)
             w == Settled(u, x, y)
             n == NextIn(r.active, x)
             o == NextIn(w.active, x)
             one == CompactOne(t, x)
             d == CompactTurn(c)
  <1>1. d = IF x = Header THEN c
            ELSE IF r.mask[x] = Slots THEN [c EXCEPT !.x = n]
            ELSE IF y = Header THEN [s |-> one, x |-> Header]
            ELSE [s |-> w, x |-> IF u.mask[x] = Slots THEN o ELSE x]
    BY DEF CompactTurn, Settled
  <1>2. /\ c \in [s : {r}, x : {x}] /\ Good(r, B, F) /\ z = r.size
        /\ x = Header \/ x \in ToSet(r.active)
    BY DEF Compacting, Moving, Passing
  <1>3. CASE x = Header
    <2>1. r.size = z /\ NearlyFull(r.active, r.mask)
      <3>1. r.active \in Seq(Blocks) /\ Header \notin ToSet(r.active)
        BY <1>2, GoodFacts, HubAssumption DEF ToSet
      <3> QED BY <1>3, <3>1 DEF Passing
    <2>2. d = c
      BY <1>1, <1>3
    <2> QED BY <1>3, <2>1, <2>2 DEF Passing
  <1>4. Passing(r.size, r, x, k + 1)
    BY <1>2
  <1>5. CASE x # Header /\ r.mask[x] = Slots
    <2>1. Passing(r.size, r, n, k)
      BY <1>2, <1>4, <1>5, PassFull
    <2>2. d.s = r /\ d.x = n
      BY <1>1, <1>2, <1>5
    <2> QED BY <1>2, <2>1, <2>2
  <1>6. CASE x # Header /\ r.mask[x] # Slots /\ y = Header
    <2>1. BeforeFull(r.active, r.mask, x)
      BY <1>4, <1>6 DEF Passing
    <2>2. Passing(r.size, one, Header, k)
      BY <1>2, <1>6, <2>1, PassLast
    <2> HIDE DEF one
    <2>3. d.s = one /\ d.x = Header
      BY <1>1, <1>6
    <2> QED BY <1>2, <2>2, <2>3
  <1>7. CASE x # Header /\ r.mask[x] # Slots /\ y # Header
    <2> DEFINE e == IF u.mask[x] = Slots THEN o ELSE x
    <2>1. Passing(r.size, w, e, k)
      BY <1>2, <1>4, <1>7, PassFill
    <2> HIDE DEF w, e
    <2>2. d.s = w /\ d.x = e
      BY <1>1, <1>7 DEF e
    <2> QED BY <1>2, <2>1, <2>2
  <1> QED BY <1>3, <1>5, <1>6, <1>7

LEMMA PassStart ==
  ASSUME NEW s, NEW B, NEW F, Good(s, B, F)
  PROVE  Passing(s.size, s, IF s.active = <<>> THEN Header ELSE s.active[1], 2 * Len(s.active))
  <1> DEFINE l == s.active
             n == Len(l)
  <1>1. l \in Seq(Blocks) /\ Distinct(l) /\ n \in Nat /\ Cardinality(ToSet(l)) = n
    BY GoodFacts, ActiveCount
  <1>2. CASE l = <<>>
    <2>1. ToSet(l) = {}
      BY <1>2 DEF ToSet
    <2> QED BY <1>2, <2>1 DEF Passing, NearlyFull
  <1>3. CASE l # <<>>
    <2> DEFINE x == l[1]
               A == Ahead(l, x)
    <2>1. x \in ToSet(l) /\ Head(l) = x
      BY <1>1, <1>3 DEF ToSet
    <2>2. \A b : ~Prec(l, b, x)
      BY <1>1, <1>3, <2>1, PrecFacts
    <2>3. Cardinality(A) <= 2 * n
      <3>1. A \subseteq ToSet(l)
        BY DEF Ahead
      <3>2. ToSet(l) \subseteq Blocks
        BY <1>1 DEF ToSet
      <3> DEFINE T == ToSet(l)
      <3>3. A \subseteq T /\ T \subseteq Blocks /\ Cardinality(T) = n
        BY <1>1, <3>1, <3>2
      <3> HIDE DEF A, T, n
      <3>4. IsFiniteSet(T)
        BY <3>3, HubAssumption, FS_Subset
      <3>5. Cardinality(A) <= Cardinality(T) /\ IsFiniteSet(A)
        BY <3>3, <3>4, FS_Subset
      <3>6. Cardinality(A) \in Nat
        BY <3>5, FS_CardinalityType
      <3> QED BY <1>1, <3>3, <3>5, <3>6
    <2>4. BeforeFull(l, s.mask, x)
      BY <2>2 DEF BeforeFull
    <2> QED BY <1>3, <2>1, <2>3, <2>4 DEF Passing
  <1> QED BY <1>2, <1>3

\* compact leaves at most one block with room.
LEMMA CompactedPacked ==
  ASSUME NEW s, NEW B, NEW F, Good(s, B, F)
  PROVE  LET t == Compacted(s) IN Good(t, B, F) /\ t.size = s.size /\ NearlyFull(t.active, t.mask)
  <1> DEFINE x == IF s.active = <<>> THEN Header ELSE s.active[1]
             n == 2 * Len(s.active)
             c == [s |-> s, x |-> x]
             d == CompactTurns(c, n)
             z == s.size
  <1>1. s.active \in Seq(Blocks)
    BY GoodFacts
  <1>2. x = Header \/ x \in ToSet(s.active)
    BY <1>1 DEF ToSet
  <1>3. n \in Nat
    BY <1>1
  <1>4. Moving(s, s, B, F)
    BY SameFrame DEF Moving
  <1>5. Compacted(s) = d.s
    BY DEF Compacted
  <1>6. Passing(z, s, x, n)
    BY PassStart
  <1> HIDE DEF x, n
  <1>7. Compacting(s, c, B, F)
    BY <1>2, <1>4, MakeCompacting
  <1>8. Passing(z, c.s, c.x, n)
    BY <1>6
  <1> HIDE DEF c
  <1>9. PICK f : f[0] = c /\ f[n] = d /\ \A i \in 1 .. n : f[i] = CompactTurn(f[i - 1])
    BY <1>3, CompactingTurns
  <1> HIDE DEF d, z
  <1> DEFINE G == {i \in 0 .. n : Compacting(s, f[i], B, F) /\ Passing(z, f[i].s, f[i].x, n - i)}
  <1>10. 0 \in G
    <2>1. n - 0 = n
      BY <1>3
    <2> QED BY <1>3, <1>7, <1>8, <1>9, <2>1
  <1>11. ASSUME NEW i \in 1 .. n, i - 1 \in G PROVE i \in G
    <2> DEFINE p == f[i - 1]
               q == CompactTurn(p)
               k == n - i
    <2>1. k \in Nat /\ n - (i - 1) = k + 1 /\ i \in 0 .. n
      BY <1>3
    <2>2. Compacting(s, p, B, F) /\ Passing(z, p.s, p.x, k + 1) /\ f[i] = q
      BY <1>9, <1>11, <2>1
    <2> HIDE DEF p, k
    <2>3. Compacting(s, q, B, F)
      BY <2>2, CompactTurnGood
    <2>4. Passing(z, q.s, q.x, k)
      BY <2>1, <2>2, PassTurn
    <2> HIDE DEF q
    <2> QED BY <2>1, <2>2, <2>3, <2>4 DEF k
  <1>12. \A i \in 0 .. n : i \in G
    <2> HIDE DEF G
    <2> QED BY <1>3, <1>10, <1>11, Induction
  <1>13. Compacting(s, d, B, F) /\ Passing(z, d.s, d.x, 0)
    <2>1. n \in 0 .. n /\ n - n = 0
      BY <1>3
    <2> QED BY <1>9, <1>12, <2>1
  <1>14. Good(d.s, B, F)
    BY <1>13 DEF Compacting, Moving
  <1>15. NearlyFull(d.s.active, d.s.mask) /\ d.s.size = z
    <2> SUFFICES ASSUME d.x \in ToSet(d.s.active), Cardinality(Ahead(d.s.active, d.x)) <= 0 PROVE FALSE
      BY <1>13 DEF Passing
    <2> DEFINE A == Ahead(d.s.active, d.x)
    <2>1. d.x \in A /\ A \subseteq Blocks /\ Cardinality(A) \in Nat
      <3>1. d.s.active \in Seq(Blocks)
        BY <1>14, GoodFacts
      <3> QED BY <3>1, AheadFinite DEF Ahead
    <2>2. Cardinality(A) <= 0
      OBVIOUS
    <2> HIDE DEF A
    <2>3. IsFiniteSet(A)
      BY <2>1, HubAssumption, FS_Subset
    <2>4. A = {}
      BY <2>1, <2>2, <2>3, FS_EmptySet
    <2> QED BY <2>1, <2>4
  <1> QED BY <1>5, <1>14, <1>15 DEF z

LEMMA DivideByN ==
  ASSUME NEW a \in Nat
  PROVE  LET q == a \div N IN q \in Nat /\ q * N <= a /\ a < q * N + N
  <1>1. N \in Nat \ {0}
    BY SlotFacts
  <1>2. a \div N \in Nat /\ a % N \in 0 .. N - 1 /\ a = N * (a \div N) + (a % N)
    BY <1>1
  <1> DEFINE q == a \div N
             r == a % N
  <1> HIDE DEF q, r
  <1>3. q \in Nat /\ r \in 0 .. N - 1 /\ a = N * q + r
    BY <1>2 DEF q, r
  <1> QED BY <1>1, <1>3 DEF q

\* reserve asks for as many blocks as are missing.
LEMMA ReservedEnough ==
  ASSUME NEW s, NEW F, Sound(s, F), NEW n \in Nat, BlocksFor(s, n) <= Unlent(s)
  PROVE  Capacity(Reserved(s, n)) >= n
  <1> DEFINE c == Capacity(s)
             k == BlocksFor(s, n)
             t == Reserved(s, n)
             m == n - c - 1
             q == m \div N
  <1>1. N \in Nat \ {0} /\ s.num \in Nat /\ c \in Nat /\ c = s.num * N
    <2>1. PICK B : Good(s, B, F)
      BY DEF Sound
    <2>2. N \in Nat \ {0} /\ s.num \in Nat
      BY <2>1, RoomFacts, SlotFacts
    <2> QED BY <2>2 DEF Capacity
  <1> HIDE DEF c
  <1>2. k = IF n <= c THEN 0 ELSE q + 1
    BY DEF BlocksFor, c
  <1> HIDE DEF m
  <1>3. n > c => m \in Nat /\ n = c + m + 1
    BY <1>1 DEF m
  <1>4. n > c => q \in Nat /\ m < q * N + N
    BY <1>3, DivideByN
  <1> HIDE DEF q, k
  <1>5. k \in Nat
    BY <1>1, <1>2, <1>4
  <1>6. t.num = s.num + k
    <2>1. k <= Unlent(s)
      BY DEF k
    <2>2. NewBlocks(s, k).num = s.num + k
      BY <1>5, <2>1, NewBlocksGood
    <2> QED BY <2>2 DEF Reserved, k
  <1> HIDE DEF t
  <1>7. Capacity(t) = (s.num + k) * N
    BY <1>6 DEF Capacity
  <1>8. CASE n <= c
    BY <1>1, <1>2, <1>7, <1>8 DEF t
  <1>9. CASE n > c
    <2>1. k = q + 1 /\ q \in Nat /\ m \in Nat /\ m < q * N + N /\ n = c + m + 1
      BY <1>1, <1>2, <1>3, <1>4, <1>9
    <2> DEFINE p == s.num
    <2>2. p \in Nat /\ c = p * N
      BY <1>1
    <2>3. Capacity(t) = (p + k) * N
      BY <1>7
    <2> HIDE DEF p
    <2>4. (p + k) * N = p * N + q * N + N
      BY <1>1, <2>1, <2>2
    <2>5. q * N \in Nat
      BY <1>1, <2>1
    <2>6. Capacity(t) >= n
      BY <1>1, <2>1, <2>2, <2>3, <2>4, <2>5
    <2> QED BY <2>6 DEF t
  <1> QED BY <1>1, <1>8, <1>9

\* trim_capacity(n) leaves room for n, and no block it could delete.
LEMMA TrimmedEnough ==
  ASSUME NEW s, NEW B, NEW F, Good(s, B, F), NEW n \in 0 .. Capacity(s)
  PROVE  LET t == Trimmed(s, n) IN
         /\ Capacity(t) >= n
         /\ Capacity(t) - n < N \/ \A b \in ToSet(t.available) : t.mask[b] # {}
  <1> DEFINE c == Capacity(s)
             x == Surplus(s, n)
             t == Trimmed(s, n)
             E == {b \in B : s.mask[b] = {}}
             p == s.num
             a == c - n
  <1>1. N \in Nat \ {0} /\ p \in Nat /\ c \in Nat /\ c = p * N /\ n \in Nat /\ n <= c /\ B \in SUBSET Blocks
        /\ p = Cardinality(B)
    <2>1. N \in Nat \ {0} /\ s.num \in Nat /\ B \in SUBSET Blocks
      BY GoodFacts, SlotFacts
    <2>2. c \in Nat
      BY <2>1 DEF Capacity
    <2> QED BY <2>1, <2>2 DEF Capacity, Good
  <1>2. PICK R :
          /\ R \subseteq E /\ Good(t, B \ R, F) /\ t.mask = s.mask
          /\ Cardinality(R) <= x /\ (R = E \/ Cardinality(R) = x)
    <2>1. PICK R : TrimmedBy(s, t, B, F, n, R)
      <3>1. n \in Nat
        BY <1>1
      <3> QED BY <3>1, TrimmedIs
    <2> QED BY <2>1 DEF TrimmedBy
  <1> HIDE DEF E, t
  <1>3. a \in Nat /\ x = IF c <= n THEN 0 ELSE a \div N
    BY <1>1 DEF Surplus
  <1> HIDE DEF c, x, a
  <1>4. x \in Nat /\ x * N <= a /\ a < x * N + N
    <2>1. CASE c <= n
      BY <1>1, <1>3, <2>1 DEF a
    <2>2. CASE ~(c <= n)
      <3>1. x = a \div N
        BY <1>3, <2>2
      <3> QED BY <1>3, <3>1, DivideByN
    <2> QED BY <2>1, <2>2
  <1> DEFINE d == Cardinality(R)
  <1>5. d \in Nat /\ t.num = p - d
    <2>1. R \subseteq B
      BY <1>2 DEF E
    <2>2. IsFiniteSet(B)
      BY <1>1, CellsFinite
    <2>3. IsFiniteSet(R) /\ d \in Nat
      BY <2>1, <2>2, FS_Subset, FS_CardinalityType
    <2>4. Cardinality(B \ R) = Cardinality(B) - Cardinality(B \cap R)
      BY <2>2, FS_Difference
    <2>5. B \cap R = R
      BY <2>1
    <2>6. t.num = Cardinality(B \ R)
      BY <1>2 DEF Good
    <2> QED BY <1>1, <2>3, <2>4, <2>5, <2>6
  <1>6. Capacity(t) = (p - d) * N
    BY <1>5 DEF Capacity
  <1>7. d <= x /\ (R = E \/ d = x)
    BY <1>2
  <1> HIDE DEF d, p
  <1>8. (p - d) * N = p * N - d * N /\ d * N \in Nat /\ x * N \in Nat
    BY <1>1, <1>4, <1>5
  <1>9. d * N <= x * N
    BY <1>1, <1>4, <1>5, <1>7
  <1>10. Capacity(t) >= n
    BY <1>1, <1>3, <1>4, <1>6, <1>8, <1>9 DEF a
  <1>11. CASE d = x
    BY <1>1, <1>3, <1>4, <1>6, <1>8, <1>10, <1>11 DEF a, t
  <1>12. CASE R = E
    <2>1. \A b \in ToSet(t.available) : t.mask[b] # {}
      <3> TAKE b \in ToSet(t.available)
      <3>1. b \in B \ R
        BY <1>2 DEF Good, AvailableSound
      <3> QED BY <1>2, <1>12, <3>1 DEF E
    <2> QED BY <1>10, <2>1 DEF t
  <1> QED BY <1>7, <1>11, <1>12

\* All but one of the blocks are full, and that one has an element.
LEMMA NearlyFullSize ==
  ASSUME NEW s, NEW B, NEW F, Good(s, B, F), \A b \in B : s.mask[b] # {},
         NEW e, \A b \in B : b # e => s.mask[b] = Slots
  PROVE  Capacity(s) < s.size + N
  <1> DEFINE m == s.mask
             z == s.size
             p == s.num
  <1>1. B \in SUBSET Blocks /\ (\A b \in B : m[b] \subseteq Slots) /\ z = Cardinality(Cells(m, B)) /\ p = Cardinality(B)
        /\ p \in Nat /\ z \in Nat /\ N \in Nat \ {0} /\ IsFiniteSet(B)
    <2>1. B \in SUBSET Blocks /\ (\A b \in B : m[b] \subseteq Slots) /\ p \in Nat /\ z \in Nat
      BY GoodFacts
    <2>2. z = Cardinality(Cells(m, B)) /\ p = Cardinality(B)
      BY DEF Good
    <2> QED BY <2>1, <2>2, SlotFacts, CellsFinite
  <1>2. \A b \in B : m[b] # {} /\ (b # e => m[b] = Slots)
    OBVIOUS
  <1>3. Capacity(s) = p * N
    BY DEF Capacity
  <1> HIDE DEF m, z, p
  <1>4. CASE e \notin B
    <2>1. \A b \in B : m[b] = Slots
      BY <1>2, <1>4
    <2>2. z = p * N
      BY <1>1, <2>1, CellsBound
    <2> QED BY <1>1, <1>3, <2>2 DEF z
  <1>5. CASE e \in B
    <2> DEFINE C == B \ {e}
               r == Cardinality(Cells(m, C))
               d == Cardinality(m[e])
    <2>1. C \in SUBSET Blocks /\ \A b \in C : m[b] = Slots
      BY <1>1, <1>2
    <2>2. Cardinality(C) = p - 1
      BY <1>1, <1>5, FS_RemoveElement
    <2>3. z = r + d
      BY <1>1, <1>5, CellsSplit
    <2> HIDE DEF C
    <2>4. r = Cardinality(C) * N
      <3>1. \A b \in C : m[b] \subseteq Slots
        BY <2>1
      <3> QED BY <2>1, <3>1, CellsBound
    <2>5. d \in Nat /\ d # 0
      <3>1. IsFiniteSet(m[e])
        BY <1>1, <1>5, SlotFacts, FS_Subset
      <3>2. m[e] # {}
        BY <1>2, <1>5
      <3> QED BY <3>1, <3>2, FS_CardinalityType, FS_EmptySet
    <2> HIDE DEF r, d
    <2>6. r = p * N - N
      BY <1>1, <2>2, <2>4
    <2>7. p * N \in Nat
      BY <1>1
    <2> QED BY <1>1, <1>3, <2>3, <2>5, <2>6, <2>7 DEF z
  <1> QED BY <1>4, <1>5

\* shrink_to_fit leaves the fewest blocks.
LEMMA ShrunkLeast ==
  ASSUME NEW s, NEW B, NEW F, Good(s, B, F)
  PROVE  Capacity(Shrunk(s)) < s.size + N
  <1> DEFINE t == Compacted(s)
             u == Trimmed(t, 0)
  <1>1. Shrunk(s) = u
    BY DEF Shrunk
  <1>2. Good(t, B, F) /\ t.size = s.size /\ NearlyFull(t.active, t.mask)
    BY CompactedPacked
  <1> HIDE DEF t
  <1>3. PICK R : /\ R \subseteq {b \in B : t.mask[b] = {}} /\ Good(u, B \ R, F) /\ u.mask = t.mask
    <2>1. 0 \in Nat
      OBVIOUS
    <2>2. PICK R : TrimmedBy(t, u, B, F, 0, R)
      BY <1>2, <2>1, TrimmedIs
    <2> QED BY <2>2 DEF TrimmedBy
  <1>4. Capacity(u) - 0 < N \/ \A b \in ToSet(u.available) : u.mask[b] # {}
    <2>1. 0 \in 0 .. Capacity(t)
      <3>1. t.num \in Nat /\ N \in Nat
        BY <1>2, RoomFacts
      <3>2. Capacity(t) \in Nat
        BY <3>1 DEF Capacity
      <3> QED BY <3>2
    <2> QED BY <1>2, <2>1, TrimmedEnough
  <1> HIDE DEF u
  <1>5. u.size = s.size /\ s.size \in Nat /\ N \in Nat /\ Capacity(u) \in Nat
    <2>1. Cells(u.mask, B \ R) = Cells(t.mask, B)
      BY <1>3 DEF Cells
    <2>2. u.size = Cardinality(Cells(u.mask, B \ R)) /\ t.size = Cardinality(Cells(t.mask, B))
      BY <1>2, <1>3 DEF Good
    <2>3. t.size \in Nat /\ u.num \in Nat /\ N \in Nat
      BY <1>2, <1>3, RoomFacts
    <2>4. Capacity(u) \in Nat
      BY <2>3 DEF Capacity
    <2> QED BY <1>2, <2>1, <2>2, <2>3, <2>4
  <1>6. CASE Capacity(u) - 0 < N
    BY <1>1, <1>5, <1>6
  <1>7. CASE \A b \in ToSet(u.available) : u.mask[b] # {}
    <2> DEFINE C == B \ R
    <2>1. \A b \in C : u.mask[b] # {}
      <3>1. Good(u, C, F)
        BY <1>3
      <3> HIDE DEF C
      <3>2. C = ToSet(u.active) \cup ToSet(u.available) /\ \A b \in C : b \in ToSet(u.active) <=> u.mask[b] # {}
        BY <3>1, GoodFacts
      <3> QED BY <1>7, <3>2
    <2>2. PICK e : \A b \in ToSet(t.active) : b # e => t.mask[b] = Slots
      BY <1>2 DEF NearlyFull
    <2>3. ToSet(t.active) = {b \in B : t.mask[b] # {}}
      BY <1>2 DEF Good, ActiveSound
    <2>4. \A b \in C : b # e => u.mask[b] = Slots
      BY <1>3, <2>1, <2>2, <2>3
    <2>5. Good(u, C, F)
      BY <1>3
    <2> HIDE DEF C
    <2>6. Capacity(u) < u.size + N
      BY <2>1, <2>4, <2>5, NearlyFullSize
    <2> QED BY <1>1, <1>5, <2>6
  <1> QED BY <1>4, <1>6, <1>7

LEMMA SameFields ==
  ASSUME NEW a, NEW v, NEW k, NEW z, NEW m, NEW d, NEW l,
         NEW s \in Fields(a, v, k, z, m, d, l), NEW t \in Fields(a, v, k, z, m, d, l)
  PROVE  s = t
  BY DEF Fields

\* An emplace that throws releases the block it has got.
LEMMA RestoredSame ==
  ASSUME NEW s, NEW B, NEW F, Good(s, B, F), Room(s) >= 1
  PROVE  Restored(Retrieve(s), FirstAvailable(s)) = s
  <1>1. CASE s.available # <<>>
    <2>1. Retrieve(s) = s
      BY <1>1 DEF Retrieve
    <2> QED BY <2>1 DEF Restored
  <1>2. CASE s.available = <<>>
    <2> DEFINE t == NewBlock(s)
    <2>1. PICK b \in Blocks \ s.lent :
            /\ Good(t, B \cup {b}, F) /\ t.available = Append(s.available, b) /\ t.active = s.active
            /\ t.mask = s.mask /\ t.data = s.data /\ t.size = s.size /\ t.num = s.num + 1
            /\ t.lent = s.lent \cup {b}
      <3>1. Blocks \ s.lent # {}
        BY <1>2, RoomIsThere
      <3> QED BY <3>1, NewBlockGood
    <2>2. Retrieve(s) = t
      BY <1>2 DEF Retrieve
    <2> HIDE DEF t
    <2> DEFINE u == Deleted(t, b)
               v == Without(t.available, b)
    <2>3. t.available = <<b>> /\ Head(t.available) = b /\ b # Header
      BY <1>2, <2>1, HubAssumption
    <2>4. Restored(t, FirstAvailable(s)) = u
      <3>1. FirstAvailable(s) = Header
        BY <1>2 DEF FirstAvailable
      <3>2. FirstAvailable(t) = b
        <4>1. t.available # <<>>
          BY <2>3
        <4> QED BY <2>3, <4>1 DEF FirstAvailable
      <3> QED BY <2>3, <3>1, <3>2 DEF Restored
    <2>5. v = <<>>
      <3> DEFINE q == t.available
      <3>1. q \in Seq(Blocks) /\ Distinct(q) /\ ToSet(q) = {b}
        <4>1. q \in Seq(Blocks) /\ Distinct(q)
          BY <2>1, GoodFacts
        <4>2. ToSet(q) = {b}
          BY <2>3 DEF ToSet
        <4> QED BY <4>1, <4>2
      <3> HIDE DEF q
      <3>2. Without(q, b) \in Seq(Blocks) /\ ToSet(Without(q, b)) = {}
        BY <3>1, WithoutOf
      <3> DEFINE w == Without(q, b)
      <3>3. w \in Seq(Blocks) /\ ToSet(w) = {}
        BY <3>2
      <3> HIDE DEF w
      <3>4. w = <<>>
        BY <3>3 DEF ToSet
      <3> QED BY <3>4 DEF w, q
    <2>6. u \in Fields(t.active, v, t.num - 1, t.size, t.mask, t.data, t.lent \ {b})
      <3>1. t \in States
        BY <2>1 DEF Good
      <3> QED BY <3>1 DEF States, Fields, Deleted
    <2> HIDE DEF u, v
    <2>7. t.num - 1 = s.num /\ t.lent \ {b} = s.lent
      <3>1. s.num \in Nat
        BY GoodFacts
      <3> QED BY <2>1, <3>1
    <2>8. u \in Fields(s.active, s.available, s.num, s.size, s.mask, s.data, s.lent)
      BY <1>2, <2>1, <2>5, <2>6, <2>7
    <2>9. s \in Fields(s.active, s.available, s.num, s.size, s.mask, s.data, s.lent)
      BY DEF Good, States, Fields
    <2> QED BY <2>2, <2>4, <2>8, <2>9, SameFields
  <1> QED BY <1>1, <1>2

-----------------------------------------------------------------------------
(* The invariant and the actions *)

IInv == AllGood(hubs, mask, data, lent)

\* The blocks of the other hubs.
Others(h) == lent \ Own(hubs[h])

LEMMA HubGood ==
  ASSUME IInv, NEW h \in Hubs
  PROVE  /\ Good(Hub(h), Own(hubs[h]), Others(h)) /\ Sound(Hub(h), Others(h))
         /\ hubs[h] \in Heads /\ Hub(h) = HubOf(hubs[h], mask, data, lent)
  <1>1. Hub(h) = HubOf(hubs[h], mask, data, lent)
    BY DEF Hub, HubOf
  <1>2. GoodHub(hubs[h], mask, data, lent)
    BY DEF IInv, AllGood
  <1> QED BY <1>1, <1>2 DEF GoodHub, Others, Sound

\* A member function of one hub
LEMMA Becoming ==
  ASSUME IInv, NEW h \in Hubs, NEW t, Sound(t, Others(h)), Framed(Hub(h), t, Others(h)), Becomes(h, t)
  PROVE  IInv'
  <1>1. Framed(HubOf(hubs[h], mask, data, lent), t, lent \ Own(hubs[h])) /\ Sound(t, lent \ Own(hubs[h]))
    BY HubGood DEF Others
  <1>2. AllGood([hubs EXCEPT ![h] = Blist(t)], t.mask, t.data, t.lent)
    BY <1>1, OneBecomes DEF IInv
  <1> QED BY <1>2 DEF Becomes, IInv

LEMMA FitsRoom ==
  ASSUME NEW s, NEW n, Fits(s, n)
  PROVE  Room(s) >= n
  BY DEF Fits, Room

LEMMA InsertStep ==
  ASSUME IInv, NEW h \in Hubs, NEW q \in Seq(Values), Fits(Hub(h), Len(q)), Becomes(h, Inserted(Hub(h), q))
  PROVE  IInv'
  <1> DEFINE s == Hub(h)
             F == Others(h)
             t == Inserted(s, q)
  <1>1. Sound(s, F)
    BY HubGood
  <1>2. Room(s) >= Len(q) + 0
    <2>1. Room(s) >= Len(q)
      BY FitsRoom
    <2>2. Len(q) \in Nat
      OBVIOUS
    <2> QED BY <2>1, <2>2
  <1> HIDE DEF s, F
  <1>3. Inserting(s, t, F, 0)
    BY <1>1, <1>2, InsertedGood
  <1>4. Sound(t, F) /\ Framed(s, t, F)
    BY <1>3 DEF Inserting
  <1> QED BY <1>4, Becoming DEF s, F

LEMMA EmplaceStep ==
  ASSUME IInv, NEW h \in Hubs, Emplace(h)
  PROVE  IInv'
  <1>1. PICK v \in Values : Fits(Hub(h), 1) /\ Becomes(h, Inserted(Hub(h), <<v>>))
    BY DEF Emplace
  <1>2. <<v>> \in Seq(Values) /\ Len(<<v>>) = 1
    OBVIOUS
  <1> QED BY <1>1, <1>2, InsertStep

LEMMA InsertRangeStep ==
  ASSUME IInv, NEW h \in Hubs, Insert(h)
  PROVE  IInv'
  <1>1. PICK q \in Ranges : Fits(Hub(h), Len(q)) /\ Becomes(h, Inserted(Hub(h), q))
    BY DEF Insert
  <1>2. q \in Seq(Values)
    BY HubAssumption
  <1> QED BY <1>1, <1>2, InsertStep

LEMMA KeepingStep ==
  ASSUME IInv, NEW h \in Hubs, NEW t, Keeping(Hub(h), t, Others(h)), Becomes(h, t)
  PROVE  IInv'
  <1>1. Sound(t, Others(h)) /\ Framed(Hub(h), t, Others(h))
    BY KeepingFrame
  <1> QED BY <1>1, Becoming

LEMMA EmplaceThrowsStep ==
  ASSUME IInv, NEW h \in Hubs, EmplaceThrows(h)
  PROVE  IInv'
  <1> DEFINE s == Hub(h)
             t == Restored(Retrieve(s), FirstAvailable(s))
             u == RetrieveThrows(s)
  <1>1. Fits(s, 1) /\ (Becomes(h, u) \/ Becomes(h, t))
    BY DEF EmplaceThrows
  <1>2. Sound(s, Others(h)) /\ Room(s) >= 1
    BY <1>1, HubGood, FitsRoom
  <1> HIDE DEF s
  <1>3. Keeping(s, t, Others(h))
    BY <1>2, RestoredGood
  <1>4. Keeping(s, u, Others(h))
    <2>1. u = s
      BY <1>2, RetrieveThrowsIs
    <2>2. Keeping(s, s, Others(h))
      BY <1>2 DEF Keeping
    <2> QED BY <2>1, <2>2
  <1> HIDE DEF t, u
  <1> QED BY <1>1, <1>3, <1>4, KeepingStep DEF s

LEMMA InsertThrowsStep ==
  ASSUME IInv, NEW h \in Hubs, InsertThrows(h)
  PROVE  IInv'
  <1> DEFINE s == Hub(h)
             F == Others(h)
  <1>0. PICK q \in Ranges : \E k \in 0 .. Len(q) - 1 :
          /\ Fits(s, k + 1)
          /\ \/ Becomes(h, RetrieveThrows(Inserted(s, SubSeq(q, 1, k))))
             \/ Becomes(h, Retrieve(Inserted(s, SubSeq(q, 1, k))))
    BY DEF InsertThrows
  <1>1. PICK k \in 0 .. Len(q) - 1 :
          /\ Fits(s, k + 1)
          /\ \/ Becomes(h, RetrieveThrows(Inserted(s, SubSeq(q, 1, k))))
             \/ Becomes(h, Retrieve(Inserted(s, SubSeq(q, 1, k))))
    BY <1>0
  <1> DEFINE r == SubSeq(q, 1, k)
             t == Inserted(s, r)
             u == Retrieve(t)
  <1>2. r \in Seq(Values) /\ Len(r) = k /\ k \in Nat
    <2>1. q \in Seq(Values)
      BY HubAssumption
    <2> QED BY <2>1
  <1>3. Sound(s, F) /\ Room(s) >= k + 1
    BY <1>1, HubGood, FitsRoom
  <1> DEFINE w == RetrieveThrows(t)
  <1>4. Becomes(h, w) \/ Becomes(h, u)
    BY <1>1
  <1> HIDE DEF s, F, r
  <1>5. Inserting(s, t, F, 1)
    <2>1. Room(s) >= Len(r) + 1
      BY <1>2, <1>3
    <2> QED BY <1>2, <1>3, <2>1, InsertedGood
  <1> HIDE DEF t
  <1>6. Sound(t, F) /\ Framed(s, t, F) /\ Room(t) >= 1
    BY <1>5 DEF Inserting
  <1>7. Sound(u, F) /\ u.mask = t.mask /\ u.data = t.data
    BY <1>6, RetrieveGood
  <1>8. w = t
    BY <1>6, RetrieveThrowsIs
  <1> HIDE DEF u, w
  <1>9. Framed(s, u, F)
    BY <1>6, <1>7 DEF Framed
  <1> QED BY <1>4, <1>6, <1>7, <1>8, <1>9, Becoming DEF s, F

\* Whatever erases
LEMMA ErasingStep ==
  ASSUME IInv, NEW h \in Hubs, NEW t, Erasing(Hub(h), t, Own(hubs[h]), Others(h)), Becomes(h, t)
  PROVE  IInv'
  <1>1. Sound(t, Others(h)) /\ Framed(Hub(h), t, Others(h))
    BY DEF Erasing, Sound
  <1> QED BY <1>1, Becoming

LEMMA EraseStep ==
  ASSUME IInv, NEW h \in Hubs, Erase(h)
  PROVE  IInv'
  <1>1. PICK i, j : Becomes(h, ErasedRange(Hub(h), i, j))
    BY DEF Erase
  <1>2. Erasing(Hub(h), ErasedRange(Hub(h), i, j), Own(hubs[h]), Others(h))
    BY HubGood, ErasedRangeGood
  <1> QED BY <1>1, <1>2, ErasingStep

LEMMA UniqueStep ==
  ASSUME IInv, NEW h \in Hubs, Unique(h)
  PROVE  IInv'
  <1>1. Becomes(h, Uniqued(Hub(h)))
    BY DEF Unique
  <1>2. Erasing(Hub(h), Uniqued(Hub(h)), Own(hubs[h]), Others(h))
    BY HubGood, UniquedGood
  <1> QED BY <1>1, <1>2, ErasingStep

LEMMA ReserveStep ==
  ASSUME IInv, NEW h \in Hubs, Reserve(h)
  PROVE  IInv'
  <1>1. PICK k \in 0 .. Unlent(Hub(h)) :
          \/ Becomes(h, NewBlocks(Hub(h), k))
          \/ /\ Blocks \ NewBlocks(Hub(h), k).lent # {}
             /\ Becomes(h, NewBlockThrows(NewBlocks(Hub(h), k)))
    BY DEF Reserve
  <1>2. Sound(Hub(h), Others(h))
    BY HubGood
  <1>3. k \in Nat /\ k <= Unlent(Hub(h))
    <2> DEFINE n == Unlent(Hub(h))
    <2>1. n \in Nat
      <3>1. Good(Hub(h), Own(hubs[h]), Others(h))
        BY HubGood
      <3> QED BY <3>1, RoomFacts
    <2>2. k \in 0 .. n
      OBVIOUS
    <2> HIDE DEF n
    <2>3. k \in Nat /\ k <= n
      BY <2>1, <2>2
    <2> QED BY <2>3 DEF n
  <1> DEFINE t == NewBlocks(Hub(h), k)
  <1>4. Keeping(Hub(h), t, Others(h))
    BY <1>2, <1>3, NewBlocksGood
  <1>5. (Blocks \ t.lent # {}) => NewBlockThrows(t) = t
    <2>1. t \in States
      BY <1>4 DEF Keeping, Sound, Good
    <2> HIDE DEF t
    <2> QED BY <2>1, NewBlockThrowsIs
  <1>6. Becomes(h, t)
    <2>1. Becomes(h, t) \/ (Blocks \ t.lent # {} /\ Becomes(h, NewBlockThrows(t)))
      BY <1>1
    <2> HIDE DEF t
    <2> QED BY <1>5, <2>1
  <1> HIDE DEF t
  <1> QED BY <1>4, <1>6, KeepingStep

LEMMA TrimStep ==
  ASSUME IInv, NEW h \in Hubs, TrimCapacity(h)
  PROVE  IInv'
  <1>1. PICK n \in 0 .. Capacity(Hub(h)) : Becomes(h, Trimmed(Hub(h), n))
    BY DEF TrimCapacity
  <1>2. n \in Nat
    OBVIOUS
  <1>3. Sound(Hub(h), Others(h))
    BY HubGood
  <1>4. Keeping(Hub(h), Trimmed(Hub(h), n), Others(h))
    BY <1>2, <1>3, TrimmedGood
  <1> QED BY <1>1, <1>4, KeepingStep

LEMMA ShrinkStep ==
  ASSUME IInv, NEW h \in Hubs, ShrinkToFit(h)
  PROVE  IInv'
  <1>1. Becomes(h, Shrunk(Hub(h)))
    BY DEF ShrinkToFit
  <1>2. Sound(Shrunk(Hub(h)), Others(h)) /\ Framed(Hub(h), Shrunk(Hub(h)), Others(h))
    BY HubGood, ShrunkGood
  <1> QED BY <1>1, <1>2, Becoming

LEMMA SortStep ==
  ASSUME IInv, NEW h \in Hubs, Sort(h)
  PROVE  IInv'
  <1> DEFINE s == Hub(h)
             F == Others(h)
             B == Own(hubs[h])
             c == Compacted(s)
             t == Ordered(s)
             u == Ordered(c)
  <1>1. Becomes(h, t) \/ Becomes(h, u)
    BY DEF Sort
  <1>2. Good(s, B, F)
    BY HubGood
  <1> HIDE DEF s, B, F
  <1>3. Moving(s, c, B, F) /\ Moving(s, t, B, F)
    BY <1>2, CompactedGood, OrderedGood
  <1> HIDE DEF c, t
  <1>4. Moving(c, u, B, F)
    <2>1. Good(c, B, F)
      BY <1>3 DEF Moving
    <2> QED BY <2>1, OrderedGood
  <1> HIDE DEF u
  <1>5. Moving(s, u, B, F)
    BY <1>3, <1>4, MovingTrans
  <1>6. Sound(t, F) /\ Framed(s, t, F) /\ Sound(u, F) /\ Framed(s, u, F)
    BY <1>3, <1>5 DEF Moving, Sound
  <1> QED BY <1>1, <1>6, Becoming DEF s, F

\* There are as many positions as elements.
LEMMA PositionCount ==
  ASSUME NEW s, NEW B, NEW F, Good(s, B, F)
  PROVE  Len(Positions(s)) = s.size
  <1> DEFINE C == Cells(s.mask, B)
             E == ElementsOf(s.mask, B)
             f == [c \in C |-> At(c[1], c[2])]
             q == Positions(s)
  <1>1. B \in SUBSET Blocks
    BY GoodFacts
  <1>2. \A c \in C : c[1] \in Blocks /\ c[2] \in Slots /\ c = <<c[1], c[2]>> /\ c[1] \in B /\ c[2] \in s.mask[c[1]]
    BY <1>1 DEF Cells
  <1>3. f \in [C -> E]
    <2>1. ASSUME NEW c \in C PROVE At(c[1], c[2]) \in E
      BY <1>2, PlaceFacts DEF ElementsOf
    <2> QED BY <2>1
  <1>4. \A c, e \in C : f[c] = f[e] => c = e
    <2> TAKE c, e \in C
    <2> HAVE f[c] = f[e]
    <2>1. At(c[1], c[2]) = At(e[1], e[2])
      OBVIOUS
    <2>2. c[1] = e[1] /\ c[2] = e[2]
      BY <2>1, PlaceFacts
    <2> QED BY <1>2, <2>2
  <1>5. ASSUME NEW p \in E PROVE \E c \in C : f[c] = p
    <2>1. p \in Places /\ p.block \in B /\ p.slot \in s.mask[p.block]
      BY DEF ElementsOf
    <2>2. p.slot \in Slots /\ p = At(p.block, p.slot)
      BY <2>1, PlaceFacts
    <2>3. <<p.block, p.slot>> \in C
      BY <2>1, <2>2 DEF Cells
    <2> QED BY <2>2, <2>3
  <1>6. IsFiniteSet(C) /\ s.size = Cardinality(C)
    BY <1>1, CellsFinite DEF Good
  <1> HIDE DEF C, E, f
  <1>7. f \in Bijection(C, E)
    BY <1>3, <1>4, <1>5 DEF Bijection, Injection, Surjection, IsInjective
  <1>8. Cardinality(E) = Cardinality(C)
    <2>1. ExistsBijection(C, E)
      BY <1>7 DEF ExistsBijection
    <2> QED BY <1>6, <2>1, FS_Bijection
  <1>9. q \in Seq(Places) /\ Distinct(q) /\ ToSet(q) = E
    BY PositionsOf DEF E
  <1> HIDE DEF q
  <1>10. Cardinality(ToSet(q)) = Len(q)
    BY <1>9, DistinctCount
  <1> QED BY <1>6, <1>8, <1>9, <1>10 DEF q

LEMMA EraseIfStep ==
  ASSUME IInv, NEW h \in Hubs, EraseIf(h)
  PROVE  IInv'
  <1> DEFINE s == Hub(h)
  <1>1. PICK v \in Values : \E k \in 0 .. hubs[h].size : Becomes(h, ErasedIf(s, {v}, k))
    BY DEF EraseIf
  <1>0. PICK k \in 0 .. hubs[h].size : Becomes(h, ErasedIf(s, {v}, k))
    BY <1>1
  <1>2. Good(s, Own(hubs[h]), Others(h))
    BY HubGood
  <1>3. s.size = hubs[h].size
    BY DEF Hub
  <1> HIDE DEF s
  <1>4. k \in Nat /\ k <= Len(Positions(s))
    <2>1. s.size = Len(Positions(s)) /\ s.size \in Nat
      BY <1>2, PositionCount, GoodFacts
    <2>2. k \in 0 .. s.size
      BY <1>3
    <2> QED BY <2>1, <2>2
  <1>5. Erasing(s, ErasedIf(s, {v}, k), Own(hubs[h]), Others(h))
    BY <1>2, <1>4, ErasedIfGood
  <1> QED BY <1>0, <1>5, ErasingStep DEF s

\* What is assigned consists of values.
LEMMA AssignFromType ==
  ASSUME IInv, NEW h \in Hubs, NEW q \in AssignFrom(h)
  PROVE  q \in Seq(Values)
  <1>1. CASE q \in Ranges
    BY <1>1, HubAssumption
  <1>2. CASE q \notin Ranges
    <2>1. PICK g \in Hubs : q = Contents(Hub(g))
      BY <1>2 DEF AssignFrom
    <2>2. Good(Hub(g), Own(hubs[g]), Others(g))
      BY HubGood
    <2> QED BY <2>1, <2>2, ContentsOf
  <1> QED BY <1>1, <1>2

\* How far an assignment gets.
AssignedTo(s, q, k) == IF k = Len(q) THEN Assigned(s, q) ELSE AssignedUpTo(s, q, k)

LEMMA AssignedToGood ==
  ASSUME IInv, NEW h \in Hubs, NEW q \in Seq(Values), NEW k \in 0 .. Len(q), FitsAssigned(Hub(h), q)
  PROVE  /\ Sound(Assigned(Hub(h), q), Others(h)) /\ Framed(Hub(h), Assigned(Hub(h), q), Others(h))
         /\ Sound(AssignedUpTo(Hub(h), q, k), Others(h)) /\ Framed(Hub(h), AssignedUpTo(Hub(h), q, k), Others(h))
  <1> DEFINE s == Hub(h)
             F == Others(h)
             B == Own(hubs[h])
  <1>1. Good(s, B, F)
    BY HubGood
  <1>2. Len(q) <= s.num * N + N * Unlent(s)
    BY DEF FitsAssigned
  <1> HIDE DEF s, F, B
  <1> DEFINE n == s.num * N + N * Unlent(s)
  <1>3. n \in Int
    <2>1. s.num \in Nat /\ N \in Nat /\ Unlent(s) \in Nat
      BY <1>1, RoomFacts
    <2> QED BY <2>1
  <1>4. Len(q) <= n
    BY <1>2
  <1> HIDE DEF n
  <1>5. k <= n /\ k \in 0 .. Len(q)
    <2>1. Len(q) \in Nat
      OBVIOUS
    <2> QED BY <1>3, <1>4, <2>1
  <1>6. Sound(Assigned(s, q), F) /\ Framed(s, Assigned(s, q), F)
    BY <1>1, <1>4, AssignedGood DEF n
  <1>7. Sound(AssignedUpTo(s, q, k), F) /\ Framed(s, AssignedUpTo(s, q, k), F)
    BY <1>1, <1>5, AssignedUpToGood DEF n
  <1> QED BY <1>6, <1>7 DEF s, F

LEMMA AssignStep ==
  ASSUME IInv, NEW h \in Hubs, Assign(h)
  PROVE  IInv'
  <1>1. PICK q \in AssignFrom(h) : FitsAssigned(Hub(h), q) /\ Becomes(h, Assigned(Hub(h), q))
    BY DEF Assign
  <1>2. q \in Seq(Values)
    BY AssignFromType
  <1>3. 0 \in 0 .. Len(q)
    BY <1>2
  <1>4. Sound(Assigned(Hub(h), q), Others(h)) /\ Framed(Hub(h), Assigned(Hub(h), q), Others(h))
    BY <1>1, <1>2, <1>3, AssignedToGood
  <1> QED BY <1>1, <1>4, Becoming

LEMMA AssignThrowsStep ==
  ASSUME IInv, NEW h \in Hubs, AssignThrows(h)
  PROVE  IInv'
  <1>1. PICK q \in AssignFrom(h) : \E k \in 0 .. Len(q) - 1 :
          FitsAssigned(Hub(h), q) /\ Becomes(h, AssignedUpTo(Hub(h), q, k))
    BY DEF AssignThrows
  <1>2. PICK k \in 0 .. Len(q) - 1 : FitsAssigned(Hub(h), q) /\ Becomes(h, AssignedUpTo(Hub(h), q, k))
    BY <1>1
  <1>3. q \in Seq(Values)
    BY AssignFromType
  <1>4. k \in 0 .. Len(q)
    BY <1>3
  <1>5. Sound(AssignedUpTo(Hub(h), q, k), Others(h)) /\ Framed(Hub(h), AssignedUpTo(Hub(h), q, k), Others(h))
    BY <1>2, <1>3, <1>4, AssignedToGood
  <1> QED BY <1>2, <1>5, Becoming

\* What a reset leaves to hub x.
Reset(p, x, m, d, l) == ResetMemory(HubOf(p[x], m, d, l))

\* It depends on the lists and the memory.
LEMMA ResetSame ==
  ASSUME NEW s, NEW u, s.active = u.active, s.available = u.available,
         s.mask = u.mask, s.data = u.data, s.lent = u.lent
  PROVE  ResetMemory(s) = ResetMemory(u)
  <1>1. BackEmpty(s) = BackEmpty(u)
    BY DEF BackEmpty, SelectLastInSeq
  <1>2. Dropped(s) = Dropped(u)
    BY <1>1 DEF Dropped
  <1> QED BY <1>2 DEF ResetMemory

LEMMA ResetAllGood ==
  ASSUME NEW p, NEW m, NEW d, NEW l, AllGood(p, m, d, l), NEW x \in Hubs
  PROVE  LET r == Reset(p, x, m, d, l) IN AllGood([p EXCEPT ![x] = Empty], r.mask, r.data, r.lent)
  <1> DEFINE s == HubOf(p[x], m, d, l)
             r == Reset(p, x, m, d, l)
             t == HubOf(Empty, r.mask, r.data, r.lent)
             F == l \ Own(p[x])
  <1>1. Good(s, Own(p[x]), F)
    BY DEF AllGood, GoodHub
  <1>2. r = ResetMemory(s)
    BY DEF Reset
  <1> HIDE DEF s, r, F
  <1>3. Sound(t, F) /\ Framed(s, t, F)
    BY <1>1, <1>2, ResetGood
  <1>4. t.mask = r.mask /\ t.data = r.data /\ t.lent = r.lent /\ Blist(t) = Empty
    BY DEF HubOf, Blist, Empty
  <1> HIDE DEF t
  <1>5. AllGood([p EXCEPT ![x] = Blist(t)], t.mask, t.data, t.lent)
    BY <1>3, OneBecomes DEF s, F
  <1> QED BY <1>4, <1>5 DEF r

LEMMA SwapStep ==
  ASSUME IInv, NEW h \in Hubs, Swap(h)
  PROVE  IInv'
  <1>1. PICK x \in Hubs \ {h} : hubs' = [hubs EXCEPT ![h] = hubs[x], ![x] = hubs[h]]
    BY DEF Swap
  <1>2. AllGood([hubs EXCEPT ![h] = hubs[x], ![x] = hubs[h]], mask, data, lent)
    BY SwappedGood DEF IInv
  <1> QED BY <1>1, <1>2 DEF Swap, IInv

LEMMA DestroyStep ==
  ASSUME IInv, NEW h \in Hubs, Destroy(h)
  PROVE  IInv'
  <1> DEFINE r == Reset(hubs, h, mask, data, lent)
  <1>1. hubs' = [hubs EXCEPT ![h] = Empty] /\ mask' = r.mask /\ data' = r.data /\ lent' = r.lent
    BY HubGood DEF Destroy, ResetAs, Reset
  <1>2. AllGood([hubs EXCEPT ![h] = Empty], r.mask, r.data, r.lent)
    BY ResetAllGood DEF IInv
  <1> HIDE DEF r
  <1> QED BY <1>1, <1>2 DEF IInv

LEMMA MoveAssignStep ==
  ASSUME IInv, NEW h \in Hubs, MoveAssign(h)
  PROVE  IInv'
  <1> DEFINE r == Reset(hubs, h, mask, data, lent)
             p == [hubs EXCEPT ![h] = Empty]
  <1>1. PICK x \in Hubs \ {h} : ResetAs(Hub(h), [hubs EXCEPT ![h] = hubs[x], ![x] = Empty])
    BY DEF MoveAssign
  <1>2. hubs' = [hubs EXCEPT ![h] = hubs[x], ![x] = Empty] /\ mask' = r.mask /\ data' = r.data /\ lent' = r.lent
    BY <1>1, HubGood DEF ResetAs, Reset
  <1>3. AllGood(p, r.mask, r.data, r.lent)
    BY ResetAllGood DEF IInv
  <1> HIDE DEF r
  <1>4. hubs \in [Hubs -> Heads]
    BY DEF IInv, AllGood
  <1>5. [hubs EXCEPT ![h] = hubs[x], ![x] = Empty] = [p EXCEPT ![h] = p[x], ![x] = p[h]]
    BY <1>4
  <1> HIDE DEF p
  <1>6. AllGood([p EXCEPT ![h] = p[x], ![x] = p[h]], r.mask, r.data, r.lent)
    BY <1>3, SwappedGood
  <1> QED BY <1>2, <1>5, <1>6 DEF IInv

LEMMA MoveElementsStep ==
  ASSUME IInv, NEW h \in Hubs, MoveElements(h)
  PROVE  IInv'
  <1>1. PICK x \in Hubs \ {h} :
          LET q == Contents(Hub(x)) IN
          \E k \in 0 .. Len(q) :
            /\ Fits(Hub(h), k) /\ FitsAssigned(Hub(h), q)
            /\ LET t == IF k = Len(q) THEN Assigned(Hub(h), q) ELSE AssignedUpTo(Hub(h), q, k)
                   r == Hub(x)
               IN  ResetAs([r EXCEPT !.mask = t.mask, !.data = t.data, !.lent = t.lent],
                           [hubs EXCEPT ![h] = Blist(t), ![x] = Empty])
    BY DEF MoveElements
  <1> DEFINE q == Contents(Hub(x))
  <1>2. PICK k \in 0 .. Len(q) :
          /\ FitsAssigned(Hub(h), q)
          /\ LET t == IF k = Len(q) THEN Assigned(Hub(h), q) ELSE AssignedUpTo(Hub(h), q, k)
                 r == Hub(x)
             IN  ResetAs([r EXCEPT !.mask = t.mask, !.data = t.data, !.lent = t.lent],
                         [hubs EXCEPT ![h] = Blist(t), ![x] = Empty])
    BY <1>1
  <1> DEFINE t == IF k = Len(q) THEN Assigned(Hub(h), q) ELSE AssignedUpTo(Hub(h), q, k)
             u == [Hub(x) EXCEPT !.mask = t.mask, !.data = t.data, !.lent = t.lent]
  <1>3. ResetAs(u, [hubs EXCEPT ![h] = Blist(t), ![x] = Empty])
    BY <1>2
  <1>4. q \in Seq(Values)
    <2>1. Good(Hub(x), Own(hubs[x]), Others(x))
      BY HubGood
    <2> QED BY <2>1, ContentsOf
  <1>5. FitsAssigned(Hub(h), q)
    BY <1>2
  <1> HIDE DEF q
  <1>6. Sound(t, Others(h)) /\ Framed(Hub(h), t, Others(h))
    <2>1. k \in 0 .. Len(q)
      OBVIOUS
    <2> DEFINE a == Assigned(Hub(h), q)
               e == AssignedUpTo(Hub(h), q, k)
    <2>2. /\ Sound(a, Others(h)) /\ Framed(Hub(h), a, Others(h))
          /\ Sound(e, Others(h)) /\ Framed(Hub(h), e, Others(h))
      BY <1>4, <1>5, <2>1, AssignedToGood
    <2>3. t = a \/ t = e
      OBVIOUS
    <2> HIDE DEF t, a, e
    <2> QED BY <2>2, <2>3
  <1> HIDE DEF t
  <1>7. /\ u.active = hubs[x].active /\ u.available = hubs[x].available
        /\ u.mask = t.mask /\ u.data = t.data /\ u.lent = t.lent
    BY DEF Hub
  <1> HIDE DEF u
  <1> DEFINE p == [hubs EXCEPT ![h] = Blist(t)]
             r == Reset(p, x, t.mask, t.data, t.lent)
  <1>8. AllGood(p, t.mask, t.data, t.lent)
    <2>1. Framed(HubOf(hubs[h], mask, data, lent), t, lent \ Own(hubs[h])) /\ Sound(t, lent \ Own(hubs[h]))
      BY <1>6, HubGood DEF Others
    <2> QED BY <2>1, OneBecomes DEF IInv
  <1>9. hubs \in [Hubs -> Heads] /\ p[x] = hubs[x]
    BY DEF IInv, AllGood
  <1>10. [hubs EXCEPT ![h] = Blist(t), ![x] = Empty] = [p EXCEPT ![x] = Empty]
    OBVIOUS
  <1>11. r = ResetMemory(u)
    <2> DEFINE v == HubOf(p[x], t.mask, t.data, t.lent)
    <2>1. /\ v.active = hubs[x].active /\ v.available = hubs[x].available
          /\ v.mask = t.mask /\ v.data = t.data /\ v.lent = t.lent
      BY <1>9, HubOfIs
    <2>2. r = ResetMemory(v)
      BY DEF Reset
    <2> HIDE DEF v, r
    <2> QED BY <1>7, <2>1, <2>2, ResetSame
  <1> HIDE DEF p
  <1>12. AllGood([p EXCEPT ![x] = Empty], r.mask, r.data, r.lent)
    BY <1>8, ResetAllGood
  <1> HIDE DEF r
  <1>13. hubs' = [p EXCEPT ![x] = Empty] /\ mask' = r.mask /\ data' = r.data /\ lent' = r.lent
    BY <1>3, <1>10, <1>11 DEF ResetAs
  <1> QED BY <1>12, <1>13 DEF IInv

LEMMA SpliceStep ==
  ASSUME IInv, NEW h \in Hubs, Splice(h)
  PROVE  IInv'
  <1>1. PICK x \in Hubs \ {h} :
          hubs' = [hubs EXCEPT ![h] = Blist(Spliced(Hub(h), hubs[x])), ![x] = SplicedFrom(hubs[x])]
    BY DEF Splice
  <1> DEFINE s == Hub(h)
             B == Own(hubs[h])
             y == hubs[x]
             X == Hub(x)
             C == Own(hubs[x])
             A == ToSet(X.active)
             t == Spliced(s, y)
             v == SplicedFrom(y)
             u == HubOf(v, mask, data, lent)
  <1>2. Good(s, B, lent \ B) /\ Good(X, C, lent \ C)
    BY HubGood DEF Others
  <1>3. s.mask = mask /\ s.data = data /\ s.lent = lent /\ X.mask = mask /\ X.data = data /\ X.lent = lent
    BY DEF Hub
  <1>4. X.active = y.active /\ X.available = y.available /\ X.num = y.num /\ X.size = y.size
    BY DEF Hub
  <1>5. B \cap C = {}
    BY DEF IInv, AllGood
  <1>6. /\ v.active = <<>> /\ v.available = Kept(y.available, {b \in Blocks : mask[b] = {}})
        /\ v.num = y.num - Len(y.active) /\ v.size = y.size - CountIn(mask, y.active)
        /\ v \in [active : {v.active}, available : {v.available}, num : {v.num}, size : {v.size}]
    BY DEF SplicedFrom
  <1> HIDE DEF s, B, y, X, C, t, v
  <1>7. Apart(s, B, X, C)
    BY <1>2, <1>3, <1>5 DEF Apart
  <1>8. Good(t, B \cup A, lent \ (B \cup A)) /\ t.mask = mask /\ t.data = data /\ t.lent = lent
    BY <1>3, <1>4, <1>7, SplicedGood DEF t
  <1> HIDE DEF A
  <1>9. GoodHub(Blist(t), mask, data, lent) /\ Own(Blist(t)) = B \cup A
    BY <1>8, GoodHead
  <1>10. Good(u, C \ A, lent \ (C \ A))
    <2>1. u \in Fields(v.active, v.available, v.num, v.size, mask, data, lent)
      BY HubOfIs
    <2> HIDE DEF u
    <2>2. u \in Fields(<<>>, Kept(X.available, {b \in Blocks : X.mask[b] = {}}), X.num - Len(X.active),
                       X.size - CountIn(X.mask, X.active), X.mask, X.data, X.lent)
      BY <1>3, <1>4, <1>6, <2>1
    <2>3. Good(X, C, lent \ C)
      BY <1>2
    <2>4. Good(u, C \ A, X.lent \ (C \ A))
      BY <2>2, <2>3, SplicedFromGood DEF A
    <2> QED BY <1>3, <2>4
  <1>11. GoodHub(v, mask, data, lent) /\ Own(v) = C \ A
    <2>1. Own(u) = Own(v) /\ u.active = v.active /\ u.available = v.available /\ u.num = v.num /\ u.size = v.size
      BY HubOfIs
    <2>2. Own(u) = C \ A
      BY <1>10, OwnIs
    <2>3. v.active \in Seq(Blocks) /\ v.available \in Seq(Blocks) /\ v.num \in Nat /\ v.size \in Nat
      <3>1. u.active \in Seq(Blocks) /\ u.available \in Seq(Blocks) /\ u.num \in Nat /\ u.size \in Nat
        BY <1>10, GoodFacts
      <3> QED BY <2>1, <3>1
    <2>4. v \in Heads
      BY <1>6, <2>3 DEF Heads
    <2> QED BY <1>10, <2>1, <2>2, <2>4 DEF GoodHub
  <1>12. A \subseteq C
    <2>1. C = Own(X)
      BY <1>2, OwnIs
    <2> QED BY <2>1 DEF Own, A
  <1> HIDE DEF u
  <1>13. AllGood([hubs EXCEPT ![h] = Blist(t), ![x] = v], mask, data, lent)
    <2>1. (B \cup A) \cap (C \ A) = {} /\ (B \cup A) \cup (C \ A) = B \cup C
      BY <1>5, <1>12
    <2>2. Own(Blist(t)) \cap Own(v) = {} /\ Own(Blist(t)) \cup Own(v) = Own(hubs[h]) \cup Own(hubs[x])
      BY <1>9, <1>11, <2>1 DEF B, C
    <2>3. AllGood(hubs, mask, data, lent) /\ h # x
      BY DEF IInv
    <2> QED BY <1>9, <1>11, <2>2, <2>3, TwoShare
  <1> QED BY <1>1, <1>13 DEF Splice, IInv, t, v, s, y

LEMMA InitGood ==
  ASSUME Init
  PROVE  IInv
  <1> DEFINE p == [h \in Hubs |-> Empty]
             m == [b \in Blocks |-> {}]
             row == [n \in Slots |-> Raw]
             d == [b \in Blocks |-> row]
             u == HubOf(Empty, m, d, {})
  <1>1. hubs = p /\ mask = m /\ data = d /\ lent = {}
    BY DEF Init
  <1>2. Empty \in Heads /\ Own(Empty) = {} /\ Empty.active = <<>> /\ Empty.available = <<>> /\ Empty.num = 0 /\ Empty.size = 0
    BY DEF Empty, Heads, Own, ToSet
  <1>3. Memory(m, d, {})
    BY DEF Memory
  <1>4. u \in Fields(<<>>, <<>>, 0, 0, m, d, {})
    BY <1>2, HubOfIs
  <1> HIDE DEF u
  <1>5. ActiveSound(<<>>, m, {}) /\ AvailableSound(<<>>, m, {})
    <2>1. <<>> \in Seq(Blocks) /\ Distinct(<<>>) /\ ToSet(<<>>) = {}
      BY DEF Distinct, ToSet
    <2> QED BY <2>1 DEF ActiveSound, AvailableSound, ReservedLast
  <1>6. 0 = Cardinality({}) /\ 0 = Cardinality(Cells(m, {}))
    <2>1. Cells(m, {}) = {}
      BY DEF Cells
    <2> QED BY <2>1, FS_EmptySet
  <1> HIDE DEF m, d
  <1>7. Good(u, {}, {})
    BY <1>3, <1>4, <1>5, <1>6, MakeGood
  <1>8. GoodHub(Empty, m, d, {})
    BY <1>2, <1>7 DEF GoodHub, u
  <1>9. p \in [Hubs -> Heads] /\ \A h \in Hubs : p[h] = Empty
    BY <1>2
  <1> HIDE DEF p
  <1>10. AllGood(p, m, d, {})
    BY <1>2, <1>3, <1>8, <1>9 DEF AllGood
  <1> QED BY <1>1, <1>10 DEF IInv

LEMMA StepGood ==
  ASSUME IInv, [Next]_vars
  PROVE  IInv'
  <1>1. CASE Next
    <2>1. PICK h \in Hubs :
            \/ Emplace(h) \/ EmplaceThrows(h) \/ Insert(h) \/ InsertThrows(h)
            \/ Erase(h) \/ EraseIf(h) \/ Unique(h)
            \/ Assign(h) \/ AssignThrows(h)
            \/ Reserve(h) \/ TrimCapacity(h) \/ ShrinkToFit(h) \/ Sort(h)
            \/ Splice(h) \/ Swap(h) \/ Destroy(h) \/ MoveAssign(h) \/ MoveElements(h)
      BY <1>1 DEF Next
    <2>2. CASE Emplace(h)
      BY <2>2, EmplaceStep
    <2>3. CASE EmplaceThrows(h)
      BY <2>3, EmplaceThrowsStep
    <2>4. CASE Insert(h)
      BY <2>4, InsertRangeStep
    <2>5. CASE InsertThrows(h)
      BY <2>5, InsertThrowsStep
    <2>6. CASE Erase(h)
      BY <2>6, EraseStep
    <2>7. CASE EraseIf(h)
      BY <2>7, EraseIfStep
    <2>8. CASE Unique(h)
      BY <2>8, UniqueStep
    <2>9. CASE Assign(h)
      BY <2>9, AssignStep
    <2>10. CASE AssignThrows(h)
      BY <2>10, AssignThrowsStep
    <2>11. CASE Reserve(h)
      BY <2>11, ReserveStep
    <2>12. CASE TrimCapacity(h)
      BY <2>12, TrimStep
    <2>13. CASE ShrinkToFit(h)
      BY <2>13, ShrinkStep
    <2>14. CASE Sort(h)
      BY <2>14, SortStep
    <2>15. CASE Splice(h)
      BY <2>15, SpliceStep
    <2>16. CASE Swap(h)
      BY <2>16, SwapStep
    <2>17. CASE Destroy(h)
      BY <2>17, DestroyStep
    <2>18. CASE MoveAssign(h)
      BY <2>18, MoveAssignStep
    <2>19. CASE MoveElements(h)
      BY <2>19, MoveElementsStep
    <2> QED BY <2>1, <2>2, <2>3, <2>4, <2>5, <2>6, <2>7, <2>8, <2>9, <2>10, <2>11, <2>12, <2>13,
               <2>14, <2>15, <2>16, <2>17, <2>18, <2>19
  <1>2. CASE UNCHANGED vars
    BY <1>2 DEF vars, IInv
  <1> QED BY <1>1, <1>2

\* The inductive invariant: the hubs are sound, their blocks are their own,
\* and together they are those on loan.
THEOREM HubsInvariant == Spec => []IInv
  <1>1. Init => IInv
    BY InitGood
  <1>2. IInv /\ [Next]_vars => IInv'
    BY StepGood
  <1> QED BY <1>1, <1>2, PTL DEF Spec

\* The two lists have the blocks that belong there, reserved ones are the
\* last available ones, and num_blocks and size_ count blocks and elements:
\* true after every sequence of member functions of any number of hubs,
\* whatever throws.
THEOREM StructureHolds == Spec => []StructureSound
  <1>1. IInv => StructureSound
    <2> SUFFICES ASSUME IInv, NEW h \in Hubs
                 PROVE  LET s      == Hub(h)
                            blocks == ToSet(s.active) \cup ToSet(s.available)
                        IN  /\ HasNoDuplicates(s.active) /\ HasNoDuplicates(s.available)
                            /\ ToSet(s.active) = {b \in blocks : mask[b] # {}}
                            /\ ToSet(s.available) = {b \in blocks : mask[b] # Slots}
                            /\ \A i, j \in DOMAIN s.available :
                                 i < j /\ mask[s.available[i]] = {} => mask[s.available[j]] = {}
                            /\ s.num = Cardinality(blocks) /\ s.size = CountIn(mask, s.active)
      BY DEF StructureSound
    <2> DEFINE s == Hub(h)
               B == Own(hubs[h])
               blocks == ToSet(s.active) \cup ToSet(s.available)
    <2>1. Good(s, B, Others(h)) /\ s.mask = mask
      BY HubGood DEF Hub
    <2>2. B = blocks
      <3>1. B = Own(s)
        BY <2>1, OwnIs
      <3> QED BY <3>1 DEF Own
    <2> HIDE DEF s, B, blocks
    <2>3. ActiveSound(s.active, mask, B) /\ AvailableSound(s.available, mask, B) /\ s.num = Cardinality(B)
      BY <2>1 DEF Good
    <2>4. s.active \in Seq(Blocks) /\ Distinct(s.active) /\ ToSet(s.active) = {b \in B : mask[b] # {}}
      BY <2>3 DEF ActiveSound
    <2>5. /\ s.available \in Seq(Blocks) /\ Distinct(s.available) /\ ToSet(s.available) = {b \in B : mask[b] # Slots}
          /\ ReservedLast(s.available, mask)
      BY <2>3 DEF AvailableSound
    <2>6. HasNoDuplicates(s.active)
      <3> DEFINE q == s.active
      <3>1. q \in Seq(Blocks) /\ Distinct(q)
        BY <2>4
      <3> HIDE DEF q
      <3>2. Cardinality(ToSet(q)) = Len(q)
        BY <3>1, DistinctCount
      <3> QED BY <3>2 DEF HasNoDuplicates, q
    <2>7. HasNoDuplicates(s.available)
      <3> DEFINE q == s.available
      <3>1. q \in Seq(Blocks) /\ Distinct(q)
        BY <2>5
      <3> HIDE DEF q
      <3>2. Cardinality(ToSet(q)) = Len(q)
        BY <3>1, DistinctCount
      <3> QED BY <3>2 DEF HasNoDuplicates, q
    <2>8. ASSUME NEW i \in DOMAIN s.available, NEW j \in DOMAIN s.available, i < j, mask[s.available[i]] = {}
          PROVE  mask[s.available[j]] = {}
      <3> DEFINE q == s.available
      <3>1. Prec(q, q[i], q[j]) /\ q[i] \in ToSet(q) /\ q[j] \in ToSet(q)
        BY <2>8 DEF Prec, ToSet
      <3> QED BY <2>5, <2>8, <3>1 DEF ReservedLast
    <2>9. s.size = CountIn(mask, s.active)
      BY <2>1, ActiveCount
    <2> QED BY <2>2, <2>3, <2>4, <2>5, <2>6, <2>7, <2>8, <2>9 DEF s, blocks
  <1> QED BY <1>1, HubsInvariant, PTL

\* No block is in two hubs, every block on loan is in one, and a slot has an
\* element exactly if its bit is set.
THEOREM NothingLeakedHolds == Spec => []NothingLeaked
  <1>1. IInv => NothingLeaked
    <2> HAVE IInv
    <2>1. /\ Memory(mask, data, lent)
          /\ \A h, g \in Hubs : h # g => Own(hubs[h]) \cap Own(hubs[g]) = {}
          /\ \A h \in Hubs : Own(hubs[h]) \subseteq lent
          /\ \A b \in lent : \E h \in Hubs : b \in Own(hubs[h])
      BY DEF IInv, AllGood
    <2>2. lent = UNION {Own(hubs[h]) : h \in Hubs}
      BY <2>1
    <2>3. \A b \in Blocks : mask[b] = {n \in Slots : data[b][n] # Raw}
      BY <2>1 DEF Memory
    <2> QED BY <2>1, <2>2, <2>3 DEF NothingLeaked, Own
  <1> QED BY <1>1, HubsInvariant, PTL

\* An element stays in its block and slot through every insertion of a range,
\* every erasure and every trim_capacity.
THEOREM ElementsStayHolds == Spec => []ElementsStay
  <1>1. IInv => ElementsStay
    <2> SUFFICES ASSUME IInv, NEW h \in Hubs
                 PROVE  LET s == Hub(h) IN
                        /\ \A q \in Ranges :
                             Fits(s, Len(q)) => Keeps(s, Inserted(s, q)) /\ Stable(s, Inserted(s, q))
                        /\ \A i \in DOMAIN Positions(s) : Stable(s, ErasedRange(s, i, i + 1))
                        /\ \A n \in 0 .. Capacity(s) : Keeps(s, Trimmed(s, n)) /\ Stable(s, Trimmed(s, n))
      BY DEF ElementsStay
    <2> DEFINE s == Hub(h)
               F == Others(h)
               B == Own(hubs[h])
    <2>1. Good(s, B, F) /\ Sound(s, F)
      BY HubGood
    <2> HIDE DEF s, F, B
    <2>2. ASSUME NEW q \in Ranges, Fits(s, Len(q)) PROVE Keeps(s, Inserted(s, q)) /\ Stable(s, Inserted(s, q))
      <3> DEFINE t == Inserted(s, q)
      <3>1. q \in Seq(Values) /\ Len(q) \in Nat
        BY HubAssumption
      <3>2. Room(s) >= Len(q) + 0
        BY <2>2, <3>1, FitsRoom
      <3>3. Inserting(s, t, F, 0)
        BY <2>1, <3>1, <3>2, InsertedGood
      <3> HIDE DEF t
      <3>4. Grows(s, t)
        BY <3>3 DEF Inserting
      <3> QED BY <3>4 DEF Grows, Keeps, Stable, t
    <2>3. ASSUME NEW i \in DOMAIN Positions(s) PROVE Stable(s, ErasedRange(s, i, i + 1))
      <3> DEFINE t == ErasedRange(s, i, i + 1)
      <3>1. Erasing(s, t, B, F)
        BY <2>1, ErasedRangeGood
      <3> HIDE DEF t
      <3>2. Shrinks(s, t)
        BY <3>1 DEF Erasing
      <3> QED BY <3>2 DEF Shrinks, Stable, t
    <2>4. ASSUME NEW n \in 0 .. Capacity(s) PROVE Keeps(s, Trimmed(s, n)) /\ Stable(s, Trimmed(s, n))
      <3> DEFINE t == Trimmed(s, n)
      <3>1. n \in Nat
        OBVIOUS
      <3>2. Keeping(s, t, F)
        BY <2>1, <3>1, TrimmedGood
      <3> HIDE DEF t
      <3>3. t.mask = s.mask /\ t.data = s.data
        BY <3>2 DEF Keeping
      <3> QED BY <3>3 DEF Keeps, Stable, t
    <2> QED BY <2>2, <2>3, <2>4 DEF s
  <1> QED BY <1>1, HubsInvariant, PTL

\* reserve gives the capacity asked for, trim_capacity leaves no less than
\* that and no reserved block it could delete, shrink_to_fit leaves the
\* fewest blocks, and an emplace that throws has no effect.
THEOREM CapacityHolds == Spec => []CapacityAsPromised
  <1>1. IInv => CapacityAsPromised
    <2> SUFFICES ASSUME IInv, NEW h \in Hubs
                 PROVE  LET s == Hub(h) IN
                        /\ \A n \in 1 .. N * Cardinality(Blocks) :
                             BlocksFor(s, n) <= Unlent(s) => Capacity(Reserved(s, n)) >= n
                        /\ \A n \in 0 .. Capacity(s) :
                             LET t == Trimmed(s, n) IN
                             /\ Capacity(t) >= n
                             /\ Capacity(t) - n < N \/ \A b \in ToSet(t.available) : t.mask[b] # {}
                        /\ Capacity(Shrunk(s)) < s.size + N
                        /\ Fits(s, 1) => Restored(Retrieve(s), FirstAvailable(s)) = s
      BY DEF CapacityAsPromised
    <2> DEFINE s == Hub(h)
               F == Others(h)
               B == Own(hubs[h])
    <2>1. Good(s, B, F) /\ Sound(s, F)
      BY HubGood
    <2> HIDE DEF s, F, B
    <2>2. ASSUME NEW n \in 1 .. N * Cardinality(Blocks), BlocksFor(s, n) <= Unlent(s)
          PROVE  Capacity(Reserved(s, n)) >= n
      <3>1. n \in Nat
        <4>1. N * Cardinality(Blocks) \in Int
          BY SlotFacts, HubAssumption, FS_CardinalityType
        <4> QED BY <4>1
      <3> QED BY <2>1, <2>2, <3>1, ReservedEnough
    <2>3. ASSUME NEW n \in 0 .. Capacity(s)
          PROVE  LET t == Trimmed(s, n) IN
                 /\ Capacity(t) >= n
                 /\ Capacity(t) - n < N \/ \A b \in ToSet(t.available) : t.mask[b] # {}
      BY <2>1, TrimmedEnough
    <2>4. Capacity(Shrunk(s)) < s.size + N
      BY <2>1, ShrunkLeast
    <2>5. ASSUME Fits(s, 1) PROVE Restored(Retrieve(s), FirstAvailable(s)) = s
      <3>1. Room(s) >= 1
        BY <2>5, FitsRoom
      <3> QED BY <2>1, <3>1, RestoredSame
    <2> QED BY <2>2, <2>3, <2>4, <2>5 DEF s
  <1> QED BY <1>1, HubsInvariant, PTL
=============================================================================
