------------------------ MODULE AdaptivePool_proofs ------------------------
(***************************************************************************)
(* What holds of AdaptivePool for every set of blocks, number of nodes in  *)
(* a block, limit on wholly free blocks and batch size, and of the layout  *)
(* its constructor finds, for every size, alignment and overhead.          *)
(***************************************************************************)
EXTENDS AdaptivePool, SizeT_proofs

LEMMA MinOf ==
  ASSUME NEW T, T \subseteq Nat, T # {}
  PROVE  Min(T) \in T /\ \A y \in T : Min(T) <= y
  BY LeastElement DEF Min

-----------------------------------------------------------------------------
(* The order of the multiset *)

\* less_func on weights.
Weights(w, B) == B \subseteq Nat /\ w \in [B -> Nat]

Earlier(w, a, b) == w[a] < w[b] \/ (w[a] = w[b] /\ a < b)

InOrder(w, c) == \A i, j \in DOMAIN c : i < j => Earlier(w, c[i], c[j])

\* Sequence t is c with b put in at place i.
PutIn(t, c, i, b) ==
  /\ Len(t) = Len(c) + 1 /\ t[i] = b
  /\ \A k \in 1 .. i - 1 : t[k] = c[k]
  /\ \A k \in i + 1 .. Len(c) + 1 : t[k] = c[k - 1]

LEMMA InsertedAt ==
  ASSUME NEW S, NEW c \in Seq(S), NEW b \in S, NEW i \in 1 .. Len(c)
  PROVE  InsertAt(c, i, b) \in Seq(S) /\ PutIn(InsertAt(c, i, b), c, i, b)
  <1> DEFINE n == Len(c)
             u == SubSeq(c, 1, i - 1)
             v == SubSeq(c, i, n)
             m == Append(u, b)
             t == m \o v
  <1>1. n \in Nat /\ i \in 1 .. n
    OBVIOUS
  <1>2. u \in Seq(S) /\ Len(u) = i - 1 /\ \A k \in 1 .. i - 1 : u[k] = c[k]
    OBVIOUS
  <1>3. v \in Seq(S) /\ Len(v) = n - i + 1 /\ \A k \in 1 .. n - i + 1 : v[k] = c[i + k - 1]
    OBVIOUS
  <1> HIDE DEF u, v
  <1>4. m \in Seq(S) /\ Len(m) = i /\ m[i] = b /\ \A k \in 1 .. i - 1 : m[k] = c[k]
    BY <1>1, <1>2
  <1> HIDE DEF m
  <1>5. t \in Seq(S) /\ Len(t) = n + 1 /\ t[i] = b /\ \A k \in 1 .. i - 1 : t[k] = c[k]
    <2>1. t \in Seq(S) /\ Len(t) = Len(m) + Len(v) /\ \A k \in DOMAIN m : t[k] = m[k]
      <3>1. m \in Seq(S) /\ v \in Seq(S)
        BY <1>3, <1>4
      <3> QED BY <3>1, Joined
    <2>2. \A k \in 1 .. i : k \in DOMAIN m
      BY <1>4
    <2>3. \A k \in 1 .. i - 1 : k \in 1 .. i
      BY <1>1
    <2>4. i + (n - i + 1) = n + 1 /\ i \in 1 .. i
      BY <1>1
    <2> HIDE DEF t
    <2> QED BY <1>3, <1>4, <2>1, <2>2, <2>3, <2>4
  <1>6. ASSUME NEW k \in i + 1 .. n + 1 PROVE t[k] = c[k - 1]
    <2>1. k - i \in 1 .. n - i + 1 /\ i + (k - i) - 1 = k - 1 /\ k = i + (k - i)
      BY <1>1
    <2>2. t[k] = v[k - i]
      BY <1>1, <1>3, <1>4, <2>1
    <2> QED BY <1>3, <2>1, <2>2
  <1>7. t = InsertAt(c, i, b)
    <2>1. m = u \o <<b>>
      BY <1>2 DEF m
    <2> QED BY <2>1 DEF InsertAt, u, v, n
  <1> HIDE DEF t
  <1> QED BY <1>5, <1>6, <1>7 DEF PutIn

LEMMA AppendedAt ==
  ASSUME NEW S, NEW c \in Seq(S), NEW b \in S
  PROVE  Append(c, b) \in Seq(S) /\ PutIn(Append(c, b), c, Len(c) + 1, b)
  BY DEF PutIn

\* The same where b belongs.
PutAt(w, t, c, i, b) ==
  /\ i \in 1 .. Len(c) + 1 /\ PutIn(t, c, i, b)
  /\ \A k \in 1 .. i - 1 : ~Earlier(w, b, c[k])
  /\ i <= Len(c) => Earlier(w, b, c[i])

\* A block put where it is not earlier than those before it and earlier than
\* the one behind it leaves the sequence ordered.
LEMMA PutInOrder ==
  ASSUME NEW B, NEW w, Weights(w, B), NEW c \in Seq(B), InOrder(w, c),
         NEW b \in B, b \notin ToSet(c), NEW t \in Seq(B), NEW i, PutAt(w, t, c, i, b)
  PROVE  InOrder(w, t) /\ ToSet(t) = ToSet(c) \cup {b}
  <1> DEFINE n == Len(c)
  <1>0. /\ i \in 1 .. Len(c) + 1 /\ PutIn(t, c, i, b)
        /\ \A k \in 1 .. i - 1 : ~Earlier(w, b, c[k])
        /\ i <= Len(c) => Earlier(w, b, c[i])
    BY DEF PutAt
  <1>1. /\ n \in Nat /\ DOMAIN c = 1 .. n /\ DOMAIN t = 1 .. n + 1 /\ i \in 1 .. n + 1
        /\ \A k \in 1 .. n : c[k] \in B /\ c[k] # b
    BY <1>0 DEF PutIn, ToSet
  <1>2. /\ t[i] = b /\ (\A k \in 1 .. i - 1 : t[k] = c[k])
        /\ \A k \in i + 1 .. n + 1 : t[k] = c[k - 1]
    BY <1>0 DEF PutIn
  <1>3. \A x, y, z \in B : Earlier(w, x, y) /\ Earlier(w, y, z) => Earlier(w, x, z)
    BY DEF Earlier, Weights
  <1>4. \A x, y \in B : x # y /\ ~Earlier(w, x, y) => Earlier(w, y, x)
    BY DEF Earlier, Weights
  <1> HIDE DEF n
  <1>5. \A k \in 1 .. i - 1 : Earlier(w, c[k], b)
    <2> TAKE k \in 1 .. i - 1
    <2>1. k \in 1 .. n
      BY <1>1
    <2>2. c[k] \in B /\ c[k] # b
      BY <1>1, <2>1
    <2> QED BY <1>0, <1>4, <2>2
  <1>6. \A k \in i .. n : Earlier(w, b, c[k])
    <2> TAKE k \in i .. n
    <2>1. i \in 1 .. n /\ k \in 1 .. n /\ (k = i \/ i < k)
      BY <1>1
    <2>2. Earlier(w, b, c[i])
      BY <1>0, <2>1 DEF n
    <2>3. k # i => Earlier(w, c[i], c[k])
      BY <1>1, <2>1 DEF InOrder
    <2> QED BY <1>1, <1>3, <2>1, <2>2, <2>3
  <1>7. \A j, k \in 1 .. n : j < k => Earlier(w, c[j], c[k])
    BY <1>1 DEF InOrder
  <1>8. InOrder(w, t)
    <2> SUFFICES ASSUME NEW j \in 1 .. n + 1, NEW k \in 1 .. n + 1, j < k PROVE Earlier(w, t[j], t[k])
      BY <1>1 DEF InOrder
    <2>1. CASE k < i
      BY <1>1, <1>2, <1>7, <2>1
    <2>2. CASE k = i
      BY <1>1, <1>2, <1>5, <2>2
    <2>3. CASE j = i
      <3>1. k \in i + 1 .. n + 1 /\ k - 1 \in i .. n
        BY <1>1, <2>3
      <3> QED BY <1>2, <1>6, <2>3, <3>1
    <2>4. CASE j < i /\ i < k
      <3>1. k \in i + 1 .. n + 1 /\ k - 1 \in i .. n /\ k - 1 \in 1 .. n /\ j \in 1 .. i - 1 /\ j \in 1 .. n /\ j < k - 1
        BY <1>1, <2>4
      <3> QED BY <1>2, <1>7, <3>1
    <2>5. CASE i < j
      <3>1. k \in i + 1 .. n + 1 /\ k - 1 \in 1 .. n /\ j \in i + 1 .. n + 1 /\ j - 1 \in 1 .. n /\ j - 1 < k - 1
        BY <1>1, <2>5
      <3> QED BY <1>2, <1>7, <3>1
    <2> QED BY <1>1, <2>1, <2>2, <2>3, <2>4, <2>5
  <1>9. ToSet(t) = ToSet(c) \cup {b}
    <2>1. \A x : x \in ToSet(t) <=> \E k \in 1 .. n + 1 : x = t[k]
      BY <1>1 DEF ToSet
    <2>2. \A x : x \in ToSet(c) <=> \E k \in 1 .. n : x = c[k]
      BY <1>1 DEF ToSet
    <2>3. ASSUME NEW k \in 1 .. n + 1 PROVE t[k] = b \/ \E j \in 1 .. n : t[k] = c[j]
      <3>1. k = i \/ (k \in 1 .. i - 1 /\ k \in 1 .. n) \/ (k \in i + 1 .. n + 1 /\ k - 1 \in 1 .. n)
        BY <1>1
      <3> QED BY <1>2, <3>1
    <2>4. ASSUME NEW k \in 1 .. n PROVE \E j \in 1 .. n + 1 : c[k] = t[j]
      <3>1. (k \in 1 .. i - 1 /\ k \in 1 .. n + 1) \/ (k + 1 \in i + 1 .. n + 1 /\ k + 1 \in 1 .. n + 1 /\ (k + 1) - 1 = k)
        BY <1>1
      <3> QED BY <1>2, <3>1
    <2> QED BY <1>1, <1>2, <2>1, <2>2, <2>3, <2>4
  <1> QED BY <1>8, <1>9

-----------------------------------------------------------------------------
(* Insertion and reinsertion *)

Lens(f) == [b \in DOMAIN f |-> Len(f[b])]

State(c, f, n) == [container |-> c, free |-> f, total |-> n]

\* What free lists are, whatever is in them.
Lists(f) == DOMAIN f \subseteq Nat /\ f \in [DOMAIN f -> Seq(Nodes)]

LEMMA LensTyped ==
  ASSUME NEW f, Lists(f)
  PROVE  Lens(f) \in [DOMAIN f -> Nat] /\ \A b \in DOMAIN f : Lens(f)[b] = Len(f[b])
  <1>1. \A b \in DOMAIN f : Len(f[b]) \in Nat
    BY DEF Lists
  <1> QED BY <1>1 DEF Lens

LEMMA BeforeIsEarlier ==
  ASSUME NEW f, Lists(f), NEW c, NEW n, NEW a \in DOMAIN f, NEW b \in DOMAIN f
  PROVE  Before(State(c, f, n), a, b) <=> Earlier(Lens(f), a, b)
  BY DEF Before, Count, State, Earlier, Lens

\* s inserted with b added to the sequence c, in order.
InsertsIn(f, c, n, b) ==
  \E t \in Seq(DOMAIN f) : /\ Insert(State(c, f, n), b) = State(t, f, n)
                           /\ InOrder(Lens(f), t) /\ ToSet(t) = ToSet(c) \cup {b}

\* multiset::insert keeps the order.
LEMMA InsertSound ==
  ASSUME NEW f, Lists(f), NEW c \in Seq(DOMAIN f), NEW n, InOrder(Lens(f), c),
         NEW b \in DOMAIN f, b \notin ToSet(c)
  PROVE  InsertsIn(f, c, n, b)
  <1> DEFINE B == DOMAIN f
             w == Lens(f)
             s == State(c, f, n)
             I == {k \in 1 .. Len(c) : Before(s, b, c[k])}
             i == SelectInSeq(c, LAMBDA x : Before(s, b, x))
             t == IF i = 0 THEN Append(c, b) ELSE InsertAt(c, i, b)
             p == IF i = 0 THEN Len(c) + 1 ELSE i
  <1>1. B \subseteq Nat /\ w \in [B -> Nat] /\ Len(c) \in Nat /\ \A k \in 1 .. Len(c) : c[k] \in B
    <2>1. B \subseteq Nat /\ w \in [B -> Nat]
      BY LensTyped DEF Lists
    <2>2. Len(c) \in Nat /\ \A k \in 1 .. Len(c) : c[k] \in B
      OBVIOUS
    <2> QED BY <2>1, <2>2
  <1>2. \A k \in 1 .. Len(c) : k \in I <=> Earlier(w, b, c[k])
    BY <1>1, BeforeIsEarlier
  <1>3. i = IF I = {} THEN 0 ELSE Min(I)
    BY DEF SelectInSeq
  <1>4. Insert(s, b) = State(t, f, n)
    <2>1. s = [container |-> c, free |-> f, total |-> n] /\ s.container = c
      BY DEF State
    <2> HIDE DEF s
    <2>2. Insert(s, b) = [s EXCEPT !.container = t]
      BY <2>1 DEF Insert
    <2> HIDE DEF t
    <2> QED BY <2>1, <2>2 DEF State
  <1> HIDE DEF i
  <1>5. /\ p \in 1 .. Len(c) + 1
        /\ \A k \in 1 .. p - 1 : ~Earlier(w, b, c[k])
        /\ p <= Len(c) => Earlier(w, b, c[p])
    <2>1. CASE I = {}
      BY <1>1, <1>2, <1>3, <2>1
    <2>2. CASE I # {}
      <3>1. I \subseteq Nat
        OBVIOUS
      <3>2. Min(I) \in I /\ \A y \in I : Min(I) <= y
        <4> HIDE DEF I
        <4> QED BY <2>2, <3>1, MinOf
      <3>3. i \in I /\ (\A y \in I : i <= y) /\ i \in 1 .. Len(c) /\ p = i
        BY <1>3, <2>2, <3>2
      <3> HIDE DEF I, p, w
      <3>4. \A k \in 1 .. p - 1 : k \in 1 .. Len(c) /\ ~(i <= k)
        BY <1>1, <3>3
      <3> QED BY <1>1, <1>2, <3>3, <3>4
    <2> QED BY <2>1, <2>2
  <1>6. t \in Seq(B) /\ PutIn(t, c, p, b)
    <2>1. CASE i = 0
      BY <2>1, AppendedAt
    <2>2. CASE i # 0
      <3>1. i \in 1 .. Len(c)
        BY <1>2, <1>3, <2>2, <1>5, MinOf
      <3> QED BY <2>2, <3>1, InsertedAt
    <2> QED BY <2>1, <2>2
  <1> HIDE DEF t, p, I
  <1>7. InOrder(w, t) /\ ToSet(t) = ToSet(c) \cup {b}
    <2>1. InOrder(w, c) /\ b \in B /\ c \in Seq(B)
      OBVIOUS
    <2>2. PutAt(w, t, c, p, b)
      BY <1>5, <1>6 DEF PutAt
    <2>3. Weights(w, B) /\ t \in Seq(B) /\ b \notin ToSet(c)
      BY <1>1, <1>6 DEF Weights
    <2> HIDE DEF w, B
    <2> QED BY <2>1, <2>2, <2>3, PutInOrder
  <1> QED BY <1>4, <1>6, <1>7 DEF InsertsIn

\* Taking out what is at place i is the reverse of putting it in.
LEMMA RemovedAt ==
  ASSUME NEW S, NEW c \in Seq(S), NEW i \in 1 .. Len(c)
  PROVE  RemoveAt(c, i) \in Seq(S) /\ PutIn(c, RemoveAt(c, i), i, c[i])
  <1> DEFINE n == Len(c)
             u == SubSeq(c, 1, i - 1)
             v == SubSeq(c, i + 1, n)
             r == u \o v
  <1>1. n \in Nat /\ i \in 1 .. n
    OBVIOUS
  <1>2. u \in Seq(S) /\ Len(u) = i - 1 /\ \A k \in 1 .. i - 1 : u[k] = c[k]
    OBVIOUS
  <1>3. v \in Seq(S) /\ Len(v) = n - i /\ \A k \in 1 .. n - i : v[k] = c[i + k]
    OBVIOUS
  <1> HIDE DEF u, v
  <1>4. /\ r \in Seq(S) /\ Len(r) = Len(u) + Len(v)
        /\ (\A k \in DOMAIN u : r[k] = u[k])
        /\ \A k \in DOMAIN v : r[Len(u) + k] = v[k]
    <2>1. u \in Seq(S) /\ v \in Seq(S)
      BY <1>2, <1>3
    <2> QED BY <2>1, Joined
  <1>5. r = RemoveAt(c, i)
    BY DEF RemoveAt, u, v, n
  <1> HIDE DEF r
  <1>6. Len(c) = Len(r) + 1
    BY <1>1, <1>2, <1>3, <1>4 DEF n
  <1>7. \A k \in 1 .. i - 1 : c[k] = r[k]
    BY <1>1, <1>2, <1>4
  <1>8. ASSUME NEW k \in i + 1 .. n PROVE c[k] = r[k - 1]
    <2>1. k - i \in 1 .. n - i /\ i + (k - i) = k /\ (i - 1) + (k - i) = k - 1
      BY <1>1
    <2>2. k - i \in DOMAIN v
      BY <1>3, <2>1
    <2>3. r[Len(u) + (k - i)] = v[k - i] /\ v[k - i] = c[i + (k - i)]
      BY <1>3, <1>4, <2>1, <2>2
    <2> QED BY <1>2, <2>1, <2>3
  <1>9. Len(r) + 1 = n
    BY <1>6 DEF n
  <1> QED BY <1>4, <1>5, <1>6, <1>7, <1>8, <1>9 DEF PutIn

\* What is left when b is taken out.
LEMMA WithoutOrder ==
  ASSUME NEW B, NEW w, Weights(w, B), NEW c \in Seq(B), InOrder(w, c),
         NEW r \in Seq(B), NEW i \in 1 .. Len(c), PutIn(c, r, i, c[i])
  PROVE  /\ InOrder(w, r) /\ c[i] \notin ToSet(r) /\ ToSet(c) = ToSet(r) \cup {c[i]}
         /\ \A k \in 1 .. i - 1 : Earlier(w, r[k], c[i])
  <1> DEFINE n == Len(r)
             old(k) == IF k < i THEN k ELSE k + 1
  <1>1. /\ n \in Nat /\ DOMAIN r = 1 .. n /\ DOMAIN c = 1 .. n + 1 /\ i \in 1 .. n + 1
        /\ (\A k \in 1 .. n + 1 : c[k] \in B) /\ Len(c) = n + 1
    BY DEF PutIn
  <1>2. (\A k \in 1 .. i - 1 : c[k] = r[k]) /\ \A k \in i + 1 .. n + 1 : c[k] = r[k - 1]
    BY DEF PutIn
  <1>3. \A x \in B : ~Earlier(w, x, x)
    BY DEF Earlier, Weights
  <1>4. \A j, k \in 1 .. n + 1 : j < k => Earlier(w, c[j], c[k])
    BY <1>1 DEF InOrder
  <1> HIDE DEF n
  <1>5. ASSUME NEW k \in 1 .. n
        PROVE  old(k) \in 1 .. n + 1 /\ old(k) # i /\ r[k] = c[old(k)]
    <2>1. CASE k < i
      <3>1. k \in 1 .. i - 1 /\ k \in 1 .. n + 1 /\ k # i
        BY <1>1, <2>1
      <3> QED BY <1>2, <2>1, <3>1
    <2>2. CASE ~(k < i)
      <3>1. k + 1 \in i + 1 .. n + 1 /\ (k + 1) - 1 = k /\ k + 1 # i /\ k + 1 \in 1 .. n + 1
        BY <1>1, <2>2
      <3> QED BY <1>2, <2>2, <3>1
    <2> QED BY <2>1, <2>2
  <1>6. \A j, k \in 1 .. n : j < k => old(j) < old(k)
    BY <1>1
  <1>7. \A k \in 1 .. n + 1 : k # i => c[k] # c[i]
    <2>1. \A k \in 1 .. n + 1 : k # i => k < i \/ i < k
      BY <1>1
    <2> QED BY <1>1, <1>3, <1>4, <2>1
  <1>8. ASSUME NEW k \in 1 .. n + 1, k # i PROVE \E j \in 1 .. n : c[k] = r[j]
    <2>1. CASE k < i
      <3>1. k \in 1 .. i - 1 /\ k \in 1 .. n
        BY <1>1, <2>1
      <3> QED BY <1>2, <3>1
    <2>2. CASE ~(k < i)
      <3>1. k \in i + 1 .. n + 1 /\ k - 1 \in 1 .. n
        BY <1>1, <1>8, <2>2
      <3> QED BY <1>2, <3>1
    <2> QED BY <2>1, <2>2
  <1>9. \A k \in 1 .. i - 1 : Earlier(w, r[k], c[i])
    <2>1. \A k \in 1 .. i - 1 : k \in 1 .. n + 1 /\ k < i
      BY <1>1
    <2> QED BY <1>1, <1>2, <1>4, <2>1
  <1> HIDE DEF old
  <1>10. InOrder(w, r)
    BY <1>1, <1>4, <1>5, <1>6 DEF InOrder
  <1>11. \A x : x \in ToSet(r) <=> \E k \in 1 .. n : x = r[k]
    BY <1>1 DEF ToSet
  <1>12. \A x : x \in ToSet(c) <=> \E k \in 1 .. n + 1 : x = c[k]
    BY <1>1 DEF ToSet
  <1>13. c[i] \notin ToSet(r)
    BY <1>5, <1>7, <1>11
  <1>14. ToSet(c) = ToSet(r) \cup {c[i]}
    BY <1>1, <1>5, <1>8, <1>11, <1>12
  <1> QED BY <1>9, <1>10, <1>13, <1>14

\* A swap moves what is at place i by one.
LEMMA SwappedAt ==
  ASSUME NEW S, NEW c \in Seq(S), NEW r \in Seq(S), NEW i \in 1 .. Len(c) - 1, PutIn(c, r, i, c[i])
  PROVE  Swapped(c, i) \in Seq(S) /\ PutIn(Swapped(c, i), r, i + 1, c[i]) /\ r[i] = c[i + 1]
  <1> DEFINE n == Len(c)
             t == Swapped(c, i)
  <1>1. /\ n \in Nat /\ i \in 1 .. n - 1 /\ i \in 1 .. n /\ i + 1 \in 1 .. n /\ i \in Nat
        /\ DOMAIN c = 1 .. n /\ Len(r) + 1 = n /\ \A k \in 1 .. n : c[k] \in S
    BY DEF PutIn
  <1>2. (\A k \in 1 .. i - 1 : c[k] = r[k]) /\ \A k \in i + 1 .. n : c[k] = r[k - 1]
    BY <1>1 DEF PutIn
  <1>3. /\ t \in [1 .. n -> S] /\ t[i] = c[i + 1] /\ t[i + 1] = c[i]
        /\ \A k \in 1 .. n : k # i /\ k # i + 1 => t[k] = c[k]
    BY <1>1 DEF Swapped
  <1> HIDE DEF t
  <1>4. t \in Seq(S) /\ Len(t) = n
    BY <1>1, <1>3
  <1> HIDE DEF n
  <1>5. i + 1 \in i + 1 .. n /\ (i + 1) - 1 = i
    BY <1>1
  <1>6. r[i] = c[i + 1]
    BY <1>2, <1>5
  <1>7. ASSUME NEW k \in 1 .. (i + 1) - 1 PROVE t[k] = r[k]
    <2>1. k = i \/ (k \in 1 .. i - 1 /\ k \in 1 .. n /\ k # i /\ k # i + 1)
      BY <1>1
    <2> QED BY <1>2, <1>3, <1>6, <2>1
  <1>8. ASSUME NEW k \in (i + 1) + 1 .. n PROVE t[k] = r[k - 1]
    <2>1. k \in i + 1 .. n /\ k \in 1 .. n /\ k # i /\ k # i + 1
      BY <1>1
    <2> QED BY <1>2, <1>3, <2>1
  <1> QED BY <1>1, <1>3, <1>4, <1>6, <1>7, <1>8 DEF PutIn, t

\* Only the weight of b differs, and it has grown.
Grown(w0, w, B, b) == w0[b] <= w[b] /\ \A x \in B : x # b => w0[x] = w[x]

\* reinsert_was_used keeps the order: b stays, passes one block or passes more.
LEMMA ReinsertWasUsedSound ==
  ASSUME NEW f, Lists(f), NEW c \in Seq(DOMAIN f), NEW n, NEW w0, Weights(w0, DOMAIN f), InOrder(w0, c),
         NEW b \in ToSet(c), Grown(w0, Lens(f), DOMAIN f, b)
  PROVE  \E t \in Seq(DOMAIN f) : /\ ReinsertWasUsed(State(c, f, n), b) = State(t, f, n)
                                  /\ InOrder(Lens(f), t) /\ ToSet(t) = ToSet(c)
  <1> DEFINE B == DOMAIN f
             w == Lens(f)
             s == State(c, f, n)
             I == {k \in 1 .. Len(c) : c[k] = b}
             i == SelectInSeq(c, LAMBDA x : x = b)
             r == RemoveAt(c, i)
             passes(k) == k <= Len(c) /\ Before(s, c[k], b)
  <1>1. /\ Weights(w, B) /\ Len(c) \in Nat /\ DOMAIN c = 1 .. Len(c) /\ b \in B
        /\ \A k \in 1 .. Len(c) : c[k] \in B
    <2>1. Weights(w, B)
      BY LensTyped DEF Lists, Weights
    <2> QED BY <2>1 DEF ToSet
  <1>2. i \in 1 .. Len(c) /\ c[i] = b
    <2>1. I # {} /\ I \subseteq Nat
      BY <1>1 DEF ToSet
    <2>2. Min(I) \in I
      <3> HIDE DEF I
      <3> QED BY <2>1, MinOf
    <2>3. i = Min(I)
      BY <2>1 DEF SelectInSeq
    <2> QED BY <2>2, <2>3
  <1>3. ReinsertWasUsed(s, b) =
          IF ~passes(i + 1) THEN s
          ELSE IF ~passes(i + 2) THEN State(Swapped(c, i), f, n)
          ELSE Insert(State(r, f, n), b)
    BY DEF ReinsertWasUsed, State
  <1>4. \A k \in 1 .. Len(c) : passes(k) <=> Earlier(w, c[k], b)
    BY <1>1, BeforeIsEarlier
  <1>5. r \in Seq(B) /\ PutIn(c, r, i, b)
    <2> HIDE DEF i, B
    <2>1. c \in Seq(B)
      BY DEF B
    <2> QED BY <1>2, <2>1, RemovedAt
  <1> HIDE DEF i, r
  <1>6. /\ InOrder(w0, r) /\ b \notin ToSet(r) /\ ToSet(c) = ToSet(r) \cup {b}
        /\ \A k \in 1 .. i - 1 : Earlier(w0, r[k], b)
    <2>1. PutIn(c, r, i, c[i])
      BY <1>2, <1>5
    <2> QED BY <1>2, <1>5, <2>1, WithoutOrder
  <1>7. /\ Len(c) = Len(r) + 1 /\ Len(r) \in Nat /\ DOMAIN r = 1 .. Len(r)
        /\ (\A k \in 1 .. Len(r) : r[k] \in B /\ r[k] # b)
        /\ \A k \in i + 1 .. Len(r) + 1 : c[k] = r[k - 1]
    BY <1>5, <1>6 DEF PutIn, ToSet
  <1>8. /\ \A x, y \in B : x # b /\ y # b => (Earlier(w0, x, y) <=> Earlier(w, x, y))
        /\ \A x \in B : x # b /\ Earlier(w0, x, b) => Earlier(w, x, b)
    BY <1>1 DEF Earlier, Grown, Weights
  <1>9. InOrder(w, r)
    BY <1>6, <1>7, <1>8 DEF InOrder
  <1>10. /\ \A x, y \in B : Earlier(w, x, y) => ~Earlier(w, y, x)
         /\ \A x, y \in B : x # y /\ ~Earlier(w, x, y) => Earlier(w, y, x)
    <2>1. B \subseteq Nat /\ \A x \in B : w[x] \in Nat
      BY <1>1 DEF Weights
    <2> HIDE DEF w, B
    <2> QED BY <2>1 DEF Earlier
  <1> HIDE DEF w, s, passes, B
  <1>11. \A k \in 1 .. i - 1 : ~Earlier(w, b, r[k])
    <2> TAKE k \in 1 .. i - 1
    <2>1. k \in 1 .. Len(r)
      BY <1>2, <1>7
    <2> QED BY <1>1, <1>6, <1>7, <1>8, <1>10, <2>1
  <1>12. ASSUME NEW t \in Seq(B), NEW j, PutAt(w, t, r, j, b)
         PROVE  InOrder(w, t) /\ ToSet(t) = ToSet(c)
    <2>1. InOrder(w, t) /\ ToSet(t) = ToSet(r) \cup {b}
      BY <1>1, <1>5, <1>6, <1>9, <1>12, PutInOrder
    <2> QED BY <1>6, <2>1
  <1>13. CASE ~passes(i + 1)
    <2>1. i <= Len(r) => Earlier(w, b, r[i])
      <3> SUFFICES ASSUME i <= Len(r) PROVE Earlier(w, b, r[i])
        OBVIOUS
      <3>1. /\ i + 1 \in 1 .. Len(c) /\ i \in 1 .. Len(r) /\ i + 1 \in i + 1 .. Len(r) + 1
            /\ (i + 1) - 1 = i
        BY <1>2, <1>7
      <3>2. c[i + 1] = r[i] /\ ~Earlier(w, c[i + 1], b)
        BY <1>4, <1>7, <1>13, <3>1
      <3> QED BY <1>1, <1>7, <1>10, <3>1, <3>2
    <2>2. i \in 1 .. Len(r) + 1
      BY <1>2, <1>7
    <2>3. PutAt(w, c, r, i, b)
      BY <1>5, <1>11, <2>1, <2>2 DEF PutAt
    <2>4. c \in Seq(B)
      BY DEF B
    <2>5. InOrder(w, c)
      BY <1>12, <2>3, <2>4
    <2>6. ReinsertWasUsed(s, b) = State(c, f, n)
      BY <1>3, <1>13 DEF s
    <2> QED BY <2>4, <2>5, <2>6 DEF B, s, w
  <1>14. CASE passes(i + 1) /\ ~passes(i + 2)
    <2>1. i \in 1 .. Len(c) - 1 /\ i + 1 \in 1 .. Len(c) /\ i + 1 \in 1 .. Len(r) + 1
      BY <1>1, <1>2, <1>7, <1>14 DEF passes
    <2>2. Swapped(c, i) \in Seq(B) /\ PutIn(Swapped(c, i), r, i + 1, b) /\ r[i] = c[i + 1]
      <3>1. c \in Seq(B) /\ PutIn(c, r, i, c[i])
        BY <1>2, <1>5 DEF B
      <3> QED BY <1>2, <1>5, <2>1, <3>1, SwappedAt
    <2>3. i + 1 <= Len(r) => Earlier(w, b, r[i + 1])
      <3> SUFFICES ASSUME i + 1 <= Len(r) PROVE Earlier(w, b, r[i + 1])
        OBVIOUS
      <3>1. /\ i + 2 \in 1 .. Len(c) /\ i + 1 \in 1 .. Len(r) /\ i + 2 \in i + 1 .. Len(r) + 1
            /\ (i + 2) - 1 = i + 1
        BY <1>2, <1>7
      <3>2. c[i + 2] = r[i + 1] /\ ~Earlier(w, c[i + 2], b)
        BY <1>4, <1>7, <1>14, <3>1
      <3> QED BY <1>1, <1>7, <1>10, <3>1, <3>2
    <2>4. \A k \in 1 .. (i + 1) - 1 : ~Earlier(w, b, r[k])
      <3> TAKE k \in 1 .. (i + 1) - 1
      <3>1. k = i \/ k \in 1 .. i - 1
        BY <2>1
      <3>2. ~Earlier(w, b, r[i])
        BY <1>1, <1>4, <1>10, <1>14, <2>1, <2>2
      <3> QED BY <1>11, <3>1, <3>2
    <2>5. PutAt(w, Swapped(c, i), r, i + 1, b)
      BY <2>1, <2>2, <2>3, <2>4 DEF PutAt
    <2>6. InOrder(w, Swapped(c, i)) /\ ToSet(Swapped(c, i)) = ToSet(c)
      BY <1>12, <2>2, <2>5
    <2>7. ReinsertWasUsed(s, b) = State(Swapped(c, i), f, n)
      BY <1>3, <1>14
    <2> QED BY <2>2, <2>6, <2>7 DEF B, s, w
  <1>15. CASE passes(i + 1) /\ passes(i + 2)
    <2>1. PICK t \in Seq(DOMAIN f) : /\ Insert(State(r, f, n), b) = State(t, f, n)
                                     /\ InOrder(Lens(f), t) /\ ToSet(t) = ToSet(r) \cup {b}
      <3>1. r \in Seq(DOMAIN f) /\ InOrder(Lens(f), r) /\ b \in DOMAIN f /\ b \notin ToSet(r)
        BY <1>1, <1>5, <1>6, <1>9 DEF B, w
      <3>2. InsertsIn(f, r, n, b)
        BY <3>1, InsertSound
      <3> QED BY <3>2 DEF InsertsIn
    <2>2. ReinsertWasUsed(s, b) = Insert(State(r, f, n), b)
      BY <1>3, <1>15
    <2> QED BY <1>6, <2>1, <2>2 DEF s
  <1> QED BY <1>13, <1>14, <1>15 DEF s

-----------------------------------------------------------------------------
(* Blocks and their nodes *)

NodesOf(b) == {x \in Nodes : x.block = b}

LEMMA NodesOfBlock ==
  ASSUME NEW b \in BlockIds
  PROVE  IsFiniteSet(NodesOf(b)) /\ Cardinality(NodesOf(b)) = RealNumNode
  <1> DEFINE n == RealNumNode
             s == [k \in 1 .. n |-> Node(b, k - 1)]
  <1>1. n \in Nat
    BY AdaptivePoolAssumption
  <1> HIDE DEF n
  <1>2. \A k \in 1 .. n : s[k] = Node(b, k - 1) /\ k - 1 \in 0 .. n - 1
    BY <1>1
  <1>3. \A x : x \in NodesOf(b) <=> \E k \in 0 .. n - 1 : x = Node(b, k)
    BY DEF NodesOf, Nodes, Node, n
  <1>4. s \in [1 .. n -> NodesOf(b)]
    BY <1>2, <1>3
  <1>5. s \in Seq(NodesOf(b)) /\ Len(s) = n /\ DOMAIN s = 1 .. n
    <2> HIDE DEF s
    <2> QED BY <1>1, <1>4
  <1> HIDE DEF s
  <1>6. Distinct(s)
    <2> SUFFICES ASSUME NEW i \in 1 .. n, NEW j \in 1 .. n, s[i] = s[j] PROVE i = j
      BY <1>5 DEF Distinct
    <2>1. \A k : Node(b, k).index = k
      BY DEF Node
    <2>2. s[i].index = i - 1
      BY <1>2, <2>1
    <2>3. s[j].index = j - 1
      BY <1>2, <2>1
    <2>4. i - 1 = j - 1
      BY <2>2, <2>3
    <2> QED BY <1>1, <2>4
  <1>7. ToSet(s) = NodesOf(b)
    <2>1. \A k \in 0 .. n - 1 : k + 1 \in 1 .. n /\ (k + 1) - 1 = k
      BY <1>1
    <2>2. \A k \in 0 .. n - 1 : s[k + 1] = Node(b, k)
      BY <1>2, <2>1
    <2>3. \A x : x \in ToSet(s) <=> \E k \in 1 .. n : x = s[k]
      BY <1>5 DEF ToSet
    <2> QED BY <1>2, <1>3, <2>1, <2>2, <2>3
  <1> QED BY <1>5, <1>6, <1>7, DistinctCount DEF n

\* The free lists and those outside of them, out, have every node of the lent
\* blocks, once.
Memory(f, out) ==
  /\ Lists(f) /\ DOMAIN f \subseteq BlockIds /\ IsFiniteSet(DOMAIN f)
  /\ out \subseteq Nodes /\ \A x \in out : x.block \in DOMAIN f
  /\ \A b \in DOMAIN f : Distinct(f[b]) /\ \A x \in ToSet(f[b]) : x \notin out /\ x.block = b
  /\ \A x \in Nodes : x.block \in DOMAIN f => x \in out \/ x \in ToSet(f[x.block])

LEMMA ListOf ==
  ASSUME NEW f, NEW out, Memory(f, out), NEW b \in DOMAIN f
  PROVE  /\ f[b] \in Seq(Nodes) /\ Distinct(f[b]) /\ ToSet(f[b]) \subseteq NodesOf(b)
         /\ b \in BlockIds /\ b \in Nat
         /\ Len(f[b]) \in 0 .. RealNumNode
         /\ Len(f[b]) = RealNumNode <=> \A x \in out : x.block # b
  <1>1. f[b] \in Seq(Nodes) /\ Distinct(f[b]) /\ b \in BlockIds /\ b \in Nat
    BY DEF Memory, Lists
  <1>2. ToSet(f[b]) \subseteq NodesOf(b) /\ \A x \in NodesOf(b) : x \in out \/ x \in ToSet(f[b])
    <2>1. ToSet(f[b]) \subseteq Nodes
      BY <1>1 DEF ToSet
    <2> QED BY <2>1 DEF Memory, NodesOf
  <1>3. IsFiniteSet(ToSet(f[b])) /\ Cardinality(ToSet(f[b])) = Len(f[b])
    BY <1>1, DistinctCount
  <1>4. IsFiniteSet(NodesOf(b)) /\ Cardinality(NodesOf(b)) = RealNumNode /\ RealNumNode \in Nat
    BY <1>1, NodesOfBlock, AdaptivePoolAssumption
  <1>5. /\ Len(f[b]) \in Nat /\ Len(f[b]) <= RealNumNode
        /\ Len(f[b]) = RealNumNode => ToSet(f[b]) = NodesOf(b)
    <2>1. ToSet(f[b]) \in SUBSET NodesOf(b)
      BY <1>2
    <2> QED BY <1>1, <1>3, <1>4, <2>1, FS_Subset
  <1>6. \A x \in out : x \in NodesOf(b) <=> x.block = b
    BY DEF Memory, NodesOf
  <1>7. \A x \in ToSet(f[b]) : x \notin out
    BY DEF Memory
  <1>8. (\A x \in out : x.block # b) => ToSet(f[b]) = NodesOf(b)
    BY <1>2, <1>6
  <1>9. ToSet(f[b]) = NodesOf(b) => Len(f[b]) = RealNumNode
    BY <1>3, <1>4
  <1> QED BY <1>1, <1>2, <1>4, <1>5, <1>6, <1>7, <1>8, <1>9

\* The multiset has the blocks with a free node, in order.
Ordered(c, f) ==
  /\ c \in Seq(DOMAIN f) /\ InOrder(Lens(f), c)
  /\ \A b \in DOMAIN f : b \in ToSet(c) <=> f[b] # <<>>

\* The wholly free blocks.
Whole(f) == {b \in DOMAIN f : Len(f[b]) = RealNumNode}

Sound(c, f, n, out) == Memory(f, out) /\ Ordered(c, f) /\ n = Cardinality(Whole(f))

SoundState(s, out) == \E c, f, n : s = State(c, f, n) /\ Sound(c, f, n, out)

LEMMA WholeFinite ==
  ASSUME NEW f, NEW out, Memory(f, out)
  PROVE  IsFiniteSet(Whole(f)) /\ Cardinality(Whole(f)) \in Nat
  <1>1. Whole(f) \subseteq DOMAIN f /\ IsFiniteSet(DOMAIN f)
    BY DEF Whole, Memory
  <1> QED BY <1>1, FS_Subset, FS_CardinalityType

LEMMA OrderedHas ==
  ASSUME NEW c, NEW f, Lists(f), Ordered(c, f)
  PROVE  ToSet(c) \subseteq DOMAIN f /\ Distinct(c)
  <1>1. /\ Len(c) \in Nat /\ DOMAIN c = 1 .. Len(c) /\ \A i \in 1 .. Len(c) : c[i] \in DOMAIN f
    BY DEF Ordered
  <1>2. \A b \in DOMAIN f : ~Earlier(Lens(f), b, b)
    <2>1. \A b \in DOMAIN f : Lens(f)[b] \in Nat /\ b \in Nat
      BY LensTyped DEF Lists
    <2> QED BY <2>1 DEF Earlier
  <1>3. Distinct(c)
    <2> SUFFICES ASSUME NEW i \in 1 .. Len(c), NEW j \in 1 .. Len(c), c[i] = c[j], i < j PROVE FALSE
      BY <1>1 DEF Distinct
    <2> QED BY <1>1, <1>2 DEF Ordered, InOrder
  <1> QED BY <1>1, <1>3 DEF ToSet

-----------------------------------------------------------------------------
(* A run of nodes given back *)

\* Nodes of one block, none twice.
Run(run, out) ==
  /\ run \in Seq(Nodes) /\ run # <<>> /\ Distinct(run) /\ ToSet(run) \subseteq out
  /\ \A x \in ToSet(run) : x.block = run[1].block

\* The free lists with the list of b replaced.
ListSet(f, b, list) == [f EXCEPT ![b] = list]

LEMMA ListSetReads ==
  ASSUME NEW f, Lists(f), NEW b \in DOMAIN f, NEW list \in Seq(Nodes)
  PROVE  /\ DOMAIN ListSet(f, b, list) = DOMAIN f /\ Lists(ListSet(f, b, list))
         /\ ListSet(f, b, list)[b] = list
         /\ \A x \in DOMAIN f : x # b => ListSet(f, b, list)[x] = f[x]
  BY DEF Lists, ListSet

LEMMA RunMemory ==
  ASSUME NEW f, NEW out, Memory(f, out), NEW run, Run(run, out)
  PROVE  LET b == run[1].block
             g == ListSet(f, b, f[b] \o run)
         IN  /\ b \in DOMAIN f /\ Memory(g, out \ ToSet(run))
             /\ Len(f[b]) < Len(g[b]) /\ g[b] # <<>>
             /\ Len(f[b]) # RealNumNode
  <1> DEFINE b == run[1].block
             list == f[b] \o run
             g == ListSet(f, b, list)
             rest == out \ ToSet(run)
  <1>1. /\ run \in Seq(Nodes) /\ Len(run) \in Nat /\ Len(run) # 0 /\ run[1] \in ToSet(run)
        /\ run[1] \in out
    BY DEF Run, ToSet
  <1>2. /\ Lists(f) /\ DOMAIN f \subseteq BlockIds /\ IsFiniteSet(DOMAIN f)
        /\ out \subseteq Nodes /\ (\A x \in out : x.block \in DOMAIN f)
        /\ \A a \in DOMAIN f : Distinct(f[a]) /\ \A x \in ToSet(f[a]) : x \notin out /\ x.block = a
    BY DEF Memory
  <1>3. b \in DOMAIN f /\ f[b] \in Seq(Nodes) /\ Distinct(f[b]) /\ Len(f[b]) \in Nat
    <2>1. b \in DOMAIN f
      BY <1>1, <1>2
    <2> QED BY <1>2, <2>1 DEF Lists
  <1>4. Distinct(run) /\ ToSet(run) \subseteq out /\ \A x \in ToSet(run) : x.block = b
    BY DEF Run
  <1>5. ToSet(f[b]) \cap ToSet(run) = {}
    BY <1>2, <1>3, <1>4
  <1> HIDE DEF b
  <1>6. /\ list \in Seq(Nodes) /\ Distinct(list) /\ ToSet(list) = ToSet(f[b]) \cup ToSet(run)
        /\ Len(list) = Len(f[b]) + Len(run)
    BY <1>1, <1>3, <1>4, <1>5, JoinDistinct
  <1> HIDE DEF list
  <1>7. /\ DOMAIN g = DOMAIN f /\ Lists(g) /\ g[b] = list
        /\ \A x \in DOMAIN f : x # b => g[x] = f[x]
    BY <1>2, <1>3, <1>6, ListSetReads
  <1> HIDE DEF g
  <1>8. ASSUME NEW a \in DOMAIN g
        PROVE  Distinct(g[a]) /\ \A x \in ToSet(g[a]) : x \notin rest /\ x.block = a
    BY <1>2, <1>4, <1>6, <1>7
  <1>9. ASSUME NEW x \in Nodes, x.block \in DOMAIN g PROVE x \in rest \/ x \in ToSet(g[x.block])
    <2>1. x \in out \/ x \in ToSet(f[x.block])
      BY <1>7, <1>9 DEF Memory
    <2>2. x \in ToSet(run) => x.block = b
      BY <1>4
    <2> QED BY <1>6, <1>7, <1>9, <2>1, <2>2
  <1>10. Memory(g, rest)
    BY <1>2, <1>7, <1>8, <1>9 DEF Memory
  <1>11. Len(f[b]) < Len(g[b]) /\ g[b] # <<>>
    BY <1>1, <1>3, <1>6, <1>7
  <1>12. Len(f[b]) # RealNumNode
    <2>1. run[1] \in out /\ run[1].block = b
      BY <1>1 DEF b
    <2> QED BY <1>3, <2>1, ListOf
  <1> QED BY <1>3, <1>10, <1>11, <1>12 DEF g, list, b

LEMMA GiveRunSound ==
  ASSUME NEW s, NEW out, SoundState(s, out), NEW run, Run(run, out)
  PROVE  SoundState(GiveRun(s, run), out \ ToSet(run))
  <1>1. PICK c, f, n : s = State(c, f, n) /\ Sound(c, f, n, out)
    BY DEF SoundState
  <1> DEFINE b == run[1].block
             g == ListSet(f, b, f[b] \o run)
             rest == out \ ToSet(run)
             m == n + (IF Len(g[b]) = RealNumNode THEN 1 ELSE 0)
             t == State(c, g, m)
  <1>2. Memory(f, out) /\ Ordered(c, f) /\ n = Cardinality(Whole(f))
    BY <1>1 DEF Sound
  <1>3. /\ b \in DOMAIN f /\ Memory(g, rest) /\ Len(f[b]) < Len(g[b]) /\ g[b] # <<>>
        /\ Len(f[b]) # RealNumNode
    BY <1>2, RunMemory
  <1>4. /\ DOMAIN g = DOMAIN f /\ Lists(g) /\ Lists(f)
        /\ \A x \in DOMAIN f : x # b => g[x] = f[x]
    <2>1. Lists(f) /\ Lists(g)
      BY <1>2, <1>3 DEF Memory
    <2> QED BY <2>1 DEF ListSet
  <1>5. GiveRun(s, run) = IF f[b] = <<>> THEN Insert(t, b) ELSE ReinsertWasUsed(t, b)
    <2>1. [s EXCEPT !.free[b] = @ \o run] = State(c, g, n)
      <3> HIDE DEF b
      <3>1. s = [container |-> c, free |-> f, total |-> n]
        BY <1>1 DEF State
      <3>2. [s EXCEPT !.free[b] = @ \o run] = [s EXCEPT !.free = [s.free EXCEPT ![b] = s.free[b] \o run]]
        OBVIOUS
      <3> DEFINE h == [f EXCEPT ![b] = f[b] \o run]
      <3>3. [s EXCEPT !.free = [s.free EXCEPT ![b] = s.free[b] \o run]] = [s EXCEPT !.free = h]
        BY <3>1
      <3> HIDE DEF h
      <3>4. [s EXCEPT !.free = h] = State(c, h, n)
        BY <3>1 DEF State
      <3> QED BY <3>2, <3>3, <3>4 DEF h, ListSet
    <2>2. s.free[b] = f[b]
      BY <1>1 DEF State
    <2>3. GiveRun(s, run) = Reinsert(State(c, g, n), b, f[b] = <<>>)
      BY <2>1, <2>2 DEF GiveRun
    <2> HIDE DEF g, b
    <2>4. [State(c, g, n) EXCEPT !.total = @ + (IF Count(State(c, g, n), b) = RealNumNode THEN 1 ELSE 0)] = t
      BY DEF State, Count
    <2> QED BY <2>3, <2>4 DEF Reinsert
  <1>6. m = Cardinality(Whole(g))
    <2>1. IsFiniteSet(Whole(f)) /\ b \notin Whole(f)
      BY <1>2, <1>3, WholeFinite DEF Whole
    <2> HIDE DEF g, b
    <2>2. Whole(g) = IF Len(g[b]) = RealNumNode THEN Whole(f) \cup {b} ELSE Whole(f)
      BY <1>3, <1>4 DEF Whole
    <2>3. Cardinality(Whole(f) \cup {b}) = Cardinality(Whole(f)) + 1
      BY <2>1, FS_AddElement
    <2>4. Cardinality(Whole(f)) \in Nat
      BY <1>2, WholeFinite
    <2> QED BY <1>2, <2>2, <2>3, <2>4
  <1>7. c \in Seq(DOMAIN g) /\ InOrder(Lens(f), c) /\ \A x \in DOMAIN f : x \in ToSet(c) <=> f[x] # <<>>
    BY <1>2, <1>4 DEF Ordered
  <1>8. /\ Lens(f) \in [DOMAIN f -> Nat] /\ (\A x \in DOMAIN f : Lens(f)[x] = Len(f[x]))
        /\ Lens(g) \in [DOMAIN f -> Nat] /\ (\A x \in DOMAIN f : Lens(g)[x] = Len(g[x]))
        /\ DOMAIN f \subseteq Nat
    <2> HIDE DEF g
    <2> QED BY <1>4, LensTyped DEF Lists
  <1> HIDE DEF g, b, m
  <1>9. ASSUME NEW d \in Seq(DOMAIN g), InOrder(Lens(g), d), ToSet(d) = ToSet(c) \cup {b},
               GiveRun(s, run) = State(d, g, m)
        PROVE  SoundState(GiveRun(s, run), rest)
    <2>1. \A x \in DOMAIN g : x \in ToSet(d) <=> g[x] # <<>>
      BY <1>3, <1>4, <1>7, <1>9
    <2>2. Ordered(d, g)
      BY <1>9, <2>1 DEF Ordered
    <2>3. Sound(d, g, m, rest)
      BY <1>3, <1>6, <2>2 DEF Sound
    <2> QED BY <1>9, <2>3 DEF SoundState
  <1>10. CASE f[b] = <<>>
    <2>1. b \notin ToSet(c)
      BY <1>3, <1>7, <1>10
    <2>2. InOrder(Lens(g), c)
      <3>1. \A i \in DOMAIN c : c[i] \in DOMAIN f /\ c[i] # b
        BY <1>4, <1>7, <2>1 DEF ToSet
      <3>2. \A i \in DOMAIN c : Lens(g)[c[i]] = Lens(f)[c[i]]
        BY <1>4, <1>8, <3>1
      <3> QED BY <1>7, <3>2 DEF InOrder, Earlier
    <2>3. InsertsIn(g, c, m, b)
      <3>1. b \in DOMAIN g
        BY <1>3, <1>4
      <3> QED BY <1>4, <1>7, <2>1, <2>2, <3>1, InsertSound
    <2>4. PICK d \in Seq(DOMAIN g) : /\ Insert(State(c, g, m), b) = State(d, g, m)
                                     /\ InOrder(Lens(g), d) /\ ToSet(d) = ToSet(c) \cup {b}
      BY <2>3 DEF InsertsIn
    <2> QED BY <1>5, <1>9, <1>10, <2>4
  <1>11. CASE f[b] # <<>>
    <2>1. b \in ToSet(c)
      BY <1>3, <1>7, <1>11
    <2>2. Weights(Lens(f), DOMAIN g) /\ Grown(Lens(f), Lens(g), DOMAIN g, b)
      <3>1. Lens(f)[b] <= Lens(g)[b]
        <4>1. Len(f[b]) \in Nat /\ Len(g[b]) \in Nat
          BY <1>3, <1>8
        <4> QED BY <1>3, <1>8, <4>1
      <3>2. \A x \in DOMAIN g : x # b => Lens(f)[x] = Lens(g)[x]
        BY <1>4, <1>8
      <3> QED BY <1>4, <1>8, <3>1, <3>2 DEF Weights, Grown
    <2>3. \E d \in Seq(DOMAIN g) : /\ ReinsertWasUsed(State(c, g, m), b) = State(d, g, m)
                                   /\ InOrder(Lens(g), d) /\ ToSet(d) = ToSet(c)
      BY <1>4, <1>7, <2>1, <2>2, ReinsertWasUsedSound
    <2>4. ToSet(c) = ToSet(c) \cup {b}
      BY <2>1
    <2> QED BY <1>5, <1>9, <1>11, <2>3, <2>4
  <1> QED BY <1>10, <1>11

-----------------------------------------------------------------------------
(* Free blocks given back *)

Keeping(f, gone) == [b \in DOMAIN f \ gone |-> f[b]]

\* Whole blocks can go: nobody has a node of them.
LEMMA KeepingSound ==
  ASSUME NEW f, NEW out, Memory(f, out), NEW gone, gone \subseteq Whole(f)
  PROVE  LET g == Keeping(f, gone) IN
         /\ Memory(g, out) /\ Whole(g) = Whole(f) \ gone
         /\ DOMAIN g = DOMAIN f \ gone /\ \A b \in DOMAIN g : g[b] = f[b]
  <1> DEFINE g == Keeping(f, gone)
  <1>1. DOMAIN g = DOMAIN f \ gone /\ \A b \in DOMAIN g : g[b] = f[b] /\ b \in DOMAIN f
    BY DEF Keeping
  <1>2. g \in [DOMAIN g -> Seq(Nodes)]
    <2>1. \A b \in DOMAIN f \ gone : f[b] \in Seq(Nodes)
      BY DEF Memory, Lists
    <2>2. g \in [DOMAIN f \ gone -> Seq(Nodes)]
      BY <2>1 DEF Keeping
    <2> QED BY <1>1, <2>2
  <1> HIDE DEF g
  <1>3. \A x \in out : x.block \in DOMAIN g
    <2>1. \A b \in gone : b \in DOMAIN f /\ Len(f[b]) = RealNumNode
      BY DEF Whole
    <2>2. \A b \in gone, x \in out : x.block # b
      BY <2>1, ListOf
    <2> QED BY <1>1, <2>2 DEF Memory
  <1>4. Whole(g) = Whole(f) \ gone
    BY <1>1 DEF Whole
  <1>5. IsFiniteSet(DOMAIN g)
    <2>1. DOMAIN g \in SUBSET DOMAIN f
      BY <1>1
    <2> QED BY <2>1, FS_Subset DEF Memory
  <1>6. Lists(g) /\ DOMAIN g \subseteq BlockIds
    BY <1>1, <1>2 DEF Memory, Lists
  <1>7. Memory(g, out)
    BY <1>1, <1>3, <1>5, <1>6 DEF Memory
  <1> QED BY <1>1, <1>4, <1>7 DEF g

\* The whole blocks are the last of the multiset.
LEMMA WholeAreLast ==
  ASSUME NEW c, NEW f, NEW n, NEW out, Sound(c, f, n, out)
  PROVE  /\ n \in Nat /\ n <= Len(c) /\ Len(c) \in Nat
         /\ \A i \in 1 .. Len(c) : i > Len(c) - n => c[i] \in Whole(f)
  <1> DEFINE m == Len(c)
             B == DOMAIN f
  <1>1. Memory(f, out) /\ Ordered(c, f) /\ n = Cardinality(Whole(f)) /\ Lists(f)
    BY DEF Sound, Memory
  <1>2. c \in Seq(B) /\ Distinct(c) /\ m \in Nat /\ DOMAIN c = 1 .. m /\ \A i \in 1 .. m : c[i] \in B
    BY <1>1, OrderedHas DEF Ordered
  <1>3. n \in Nat /\ IsFiniteSet(Whole(f))
    BY <1>1, WholeFinite
  <1>4. Whole(f) \subseteq ToSet(c)
    <2>1. RealNumNode \in Nat \ {0}
      BY AdaptivePoolAssumption
    <2>2. \A b \in B : Len(f[b]) = RealNumNode => f[b] # <<>>
      BY <2>1
    <2> QED BY <1>1, <2>2 DEF Whole, Ordered
  <1>5. n <= m
    <2>1. IsFiniteSet(ToSet(c)) /\ Cardinality(ToSet(c)) = m
      BY <1>2, DistinctCount
    <2>2. Whole(f) \in SUBSET ToSet(c)
      BY <1>4
    <2> QED BY <1>1, <2>1, <2>2, FS_Subset
  <1>6. ASSUME NEW i \in 1 .. m, c[i] \in Whole(f), NEW j \in 1 .. m, i < j PROVE c[j] \in Whole(f)
    <2>1. Earlier(Lens(f), c[i], c[j])
      BY <1>1, <1>2, <1>6 DEF Ordered, InOrder
    <2>2. Lens(f)[c[i]] = RealNumNode /\ Lens(f)[c[j]] = Len(f[c[j]])
      BY <1>1, <1>2, <1>6, LensTyped DEF Whole
    <2>3. Len(f[c[j]]) \in 0 .. RealNumNode /\ RealNumNode \in Nat
      BY <1>1, <1>2, ListOf, AdaptivePoolAssumption
    <2>4. Len(f[c[j]]) = RealNumNode
      BY <2>1, <2>2, <2>3 DEF Earlier
    <2> QED BY <1>2, <2>4 DEF Whole
  <1>7. ASSUME NEW i \in 1 .. m, i > m - n, c[i] \notin Whole(f) PROVE FALSE
    <2> DEFINE t == SubSeq(c, i + 1, m)
               u == FirstOf(c, i)
    <2>1. i \in Nat /\ i <= m /\ i \in 1 .. i
      BY <1>2
    <2>2. /\ t \in Seq(B) /\ Distinct(t) /\ Len(t) = m - i
          /\ ToSet(c) = ToSet(t) \cup u
      BY <1>2, <2>1, RestDistinct
    <2>3. \A x \in u : x \notin Whole(f)
      <3> SUFFICES ASSUME NEW k \in 1 .. i, c[k] \in Whole(f) PROVE FALSE
        BY DEF FirstOf
      <3>1. k \in 1 .. m /\ (k < i \/ k = i)
        BY <1>2
      <3> QED BY <1>6, <1>7, <3>1
    <2> HIDE DEF t, u
    <2>4. IsFiniteSet(ToSet(t)) /\ Cardinality(ToSet(t)) = m - i
      BY <2>2, DistinctCount
    <2>5. Whole(f) \in SUBSET ToSet(t)
      BY <1>4, <2>2, <2>3
    <2>6. n <= m - i
      BY <1>1, <2>4, <2>5, FS_Subset
    <2> QED BY <1>2, <1>3, <1>7, <2>1, <2>6
  <1> QED BY <1>2, <1>3, <1>5, <1>7

LEMMA LimitedSound ==
  ASSUME NEW s, NEW out, SoundState(s, out), NEW max \in Nat
  PROVE  SoundState(Limited(s, max), out) /\ Limited(s, max).total <= max
  <1>1. PICK c, f, n : s = State(c, f, n) /\ Sound(c, f, n, out)
    BY DEF SoundState
  <1> DEFINE m == Len(c)
             B == DOMAIN f
             k == IF n > max THEN n - max ELSE 0
             p == m - k
             r == SubSeq(c, 1, p)
             t == SubSeq(c, p + 1, m)
             gone == {c[i] : i \in p + 1 .. m}
             g == Keeping(f, gone)
  <1>2. Limited(s, max) = State(r, g, n - k)
    BY <1>1 DEF Limited, State, Keeping
  <1>3. /\ n \in Nat /\ n <= m /\ m \in Nat
        /\ \A i \in 1 .. m : i > m - n => c[i] \in Whole(f)
    BY <1>1, WholeAreLast
  <1>4. Memory(f, out) /\ Ordered(c, f) /\ n = Cardinality(Whole(f)) /\ Lists(f)
    BY <1>1 DEF Sound, Memory
  <1>5. c \in Seq(B) /\ Distinct(c) /\ DOMAIN c = 1 .. m /\ \A i \in 1 .. m : c[i] \in B
    BY <1>4, OrderedHas DEF Ordered
  <1>6. /\ k \in Nat /\ k <= n /\ n - k <= max /\ n - k \in Nat
        /\ p \in Nat /\ p <= m /\ m - p = k
        /\ \A i \in p + 1 .. m : i \in 1 .. m /\ i > m - n
    <2> HIDE DEF m
    <2> QED BY <1>3
  <1>7. /\ r \in Seq(B) /\ Len(r) = p /\ DOMAIN r = 1 .. p /\ \A i \in 1 .. p : r[i] = c[i]
        /\ t \in Seq(B) /\ Len(t) = m - p /\ DOMAIN t = 1 .. m - p
        /\ \A i \in 1 .. m - p : t[i] = c[p + i]
    <2> HIDE DEF k, p, B
    <2>1. c \in Seq(B) /\ p \in Nat /\ p <= Len(c)
      BY <1>5, <1>6
    <2>2. r \in Seq(B) /\ Len(r) = p /\ \A i \in 1 .. p : r[i] = c[i]
      BY <2>1
    <2>3. t \in Seq(B) /\ Len(t) = m - p /\ \A i \in 1 .. m - p : t[i] = c[p + i]
      BY <2>1
    <2> HIDE DEF r, t, m
    <2> QED BY <2>2, <2>3
  <1>8. /\ Distinct(t) /\ ToSet(c) = ToSet(t) \cup FirstOf(c, p) /\ ToSet(t) \cap FirstOf(c, p) = {}
    <2> HIDE DEF p, B
    <2> QED BY <1>5, <1>6, RestDistinct
  <1> HIDE DEF k, p, r, t, m
  <1>9. ToSet(t) = gone
    <2>1. \A i \in p + 1 .. m : i - p \in 1 .. m - p /\ p + (i - p) = i
      BY <1>3, <1>6
    <2>2. \A i \in 1 .. m - p : p + i \in p + 1 .. m
      BY <1>3, <1>6
    <2>3. \A x : x \in ToSet(t) <=> \E i \in 1 .. m - p : x = t[i]
      BY <1>7 DEF ToSet
    <2> QED BY <1>7, <2>1, <2>2, <2>3
  <1>10. ToSet(r) = FirstOf(c, p)
    <2>1. \A x : x \in ToSet(r) <=> \E i \in 1 .. p : x = r[i]
      BY <1>7 DEF ToSet
    <2>2. \A x : x \in FirstOf(c, p) <=> \E i \in 1 .. p : x = c[i]
      BY DEF FirstOf
    <2>3. \A x : x \in ToSet(r) <=> x \in FirstOf(c, p)
      BY <1>7, <2>1, <2>2
    <2> QED BY <2>3
  <1>11. gone \subseteq Whole(f)
    BY <1>3, <1>6
  <1> HIDE DEF gone
  <1>12. /\ Memory(g, out) /\ Whole(g) = Whole(f) \ gone
         /\ DOMAIN g = B \ gone /\ \A b \in DOMAIN g : g[b] = f[b]
    BY <1>4, <1>11, KeepingSound
  <1> HIDE DEF g
  <1>13. n - k = Cardinality(Whole(g))
    <2>1. IsFiniteSet(gone) /\ Cardinality(gone) = k
      BY <1>6, <1>7, <1>8, <1>9, DistinctCount
    <2>2. IsFiniteSet(Whole(f)) /\ Whole(f) \cap gone = gone
      BY <1>4, <1>11, WholeFinite
    <2>3. Cardinality(Whole(f) \ gone) = Cardinality(Whole(f)) - Cardinality(Whole(f) \cap gone)
      BY <2>2, FS_Difference
    <2> QED BY <1>4, <1>12, <2>1, <2>2, <2>3
  <1>14. Ordered(r, g)
    <2>1. \A b : b \in ToSet(r) <=> b \in ToSet(c) /\ b \notin gone
      BY <1>8, <1>9, <1>10
    <2>2. \A i \in 1 .. p : r[i] \in ToSet(r)
      BY <1>7 DEF ToSet
    <2>3. \A i \in 1 .. p : r[i] \in DOMAIN g
      BY <1>7, <1>12, <2>1, <2>2
    <2>4. r \in Seq(DOMAIN g)
      <3>1. r \in [1 .. p -> DOMAIN g]
        BY <1>7, <2>3
      <3> QED BY <1>6, <3>1
    <2>5. \A b \in DOMAIN g : b \in ToSet(r) <=> g[b] # <<>>
      BY <1>4, <1>12, <2>1 DEF Ordered
    <2>6. \A b \in DOMAIN g : Lens(g)[b] = Lens(f)[b]
      <3>1. Lists(g)
        BY <1>12 DEF Memory
      <3> QED BY <1>4, <1>12, <3>1, LensTyped
    <2>7. \A i \in 1 .. p : i \in 1 .. m
      BY <1>3, <1>6
    <2>8. InOrder(Lens(g), r)
      <3> SUFFICES ASSUME NEW i \in 1 .. p, NEW j \in 1 .. p, i < j PROVE Earlier(Lens(g), r[i], r[j])
        BY <1>7 DEF InOrder
      <3>1. Earlier(Lens(f), c[i], c[j])
        BY <1>4, <1>5, <2>7 DEF Ordered, InOrder
      <3> QED BY <1>7, <2>3, <2>6, <3>1 DEF Earlier
    <2> QED BY <2>4, <2>5, <2>8 DEF Ordered
  <1>15. Sound(r, g, n - k, out)
    BY <1>12, <1>13, <1>14 DEF Sound
  <1>16. Limited(s, max).total = n - k
    BY <1>2 DEF State
  <1> QED BY <1>2, <1>6, <1>15, <1>16 DEF SoundState

-----------------------------------------------------------------------------
(* The three loops over a list, turn by turn *)

\* What turn i makes of x, of a loop over k.seq.
Turn(k, x, i) ==
  IF k.op = "give" THEN GiveNode(x, k.seq[i])
  ELSE IF k.op = "take" THEN TakeFrom(x, k.seq[i], k.n)
  ELSE WithBlock(x, k.seq[i], k.n)

\* The function inside FoldLeft.
IsLoop(iter, k, base, n) ==
  iter = [t \in SUBSET (1 .. n) |-> IF t = {} THEN base ELSE Turn(k, iter[t \ {Max(t)}], Max(t))]

LEMMA LoopExists ==
  ASSUME NEW k, NEW base, NEW n \in Nat
  PROVE  \E iter : IsLoop(iter, k, base, n)
  <1> DEFINE T == {i \in 0 .. n : \E iter : IsLoop(iter, k, base, i)}
  <1>1. 0 \in T
    <2> DEFINE iter == [t \in SUBSET (1 .. 0) |-> base]
    <2>1. \A t \in SUBSET (1 .. 0) : t = {}
      OBVIOUS
    <2>2. IsLoop(iter, k, base, 0)
      BY <2>1 DEF IsLoop
    <2> QED BY <2>2
  <1>2. ASSUME NEW i \in 1 .. n, i - 1 \in T PROVE i \in T
    <2>1. PICK h : IsLoop(h, k, base, i - 1)
      BY <1>2
    <2> DEFINE P == SUBSET (1 .. (i - 1))
               Q == SUBSET (1 .. i)
               new(u) == Turn(k, h[u], i)
               g == [t \in Q |-> IF i \in t THEN new(t \ {i}) ELSE h[t]]
               value(f, t) == IF t = {} THEN base ELSE Turn(k, f[t \ {Max(t)}], Max(t))
    <2>2. \A t \in P : h[t] = value(h, t)
      BY <2>1 DEF IsLoop
    <2>3. \A t \in Q : i \notin t => t \in P
      <3>1. \A x \in 1 .. i : x # i => x \in 1 .. (i - 1)
        OBVIOUS
      <3> QED BY <3>1
    <2>4. \A t \in P : t \in Q /\ i \notin t
      <3>1. \A x \in 1 .. (i - 1) : x \in 1 .. i /\ x # i
        OBVIOUS
      <3> QED BY <3>1
    <2>5. ASSUME NEW t \in Q, t # {} PROVE Max(t) \in t /\ \A y \in t : y <= Max(t)
      <3>1. t \subseteq 1 .. i /\ i \in Nat
        OBVIOUS
      <3> HIDE DEF Q
      <3> QED BY <2>5, <3>1, MaxOf
    <2>6. ASSUME NEW t \in Q PROVE g[t] = value(g, t)
      <3>1. CASE i \in t
        <4>1. Max(t) = i
          <5> DEFINE m == Max(t)
          <5>1. m \in t /\ i <= m /\ m \in 1 .. i
            BY <2>5, <3>1
          <5> HIDE DEF m
          <5>2. m = i
            BY <5>1
          <5> QED BY <5>2 DEF m
        <4>2. t \ {i} \in Q /\ i \notin t \ {i}
          OBVIOUS
        <4>3. g[t] = new(t \ {i}) /\ g[t \ {i}] = h[t \ {i}]
          BY <3>1, <4>2
        <4> HIDE DEF g
        <4> QED BY <3>1, <4>1, <4>3
      <3>2. CASE i \notin t
        <4>1. t \in P /\ g[t] = h[t]
          BY <2>3, <3>2
        <4>2. t \ {Max(t)} \in P /\ t \ {Max(t)} \in Q /\ i \notin t \ {Max(t)}
          BY <3>2, <4>1
        <4>3. g[t \ {Max(t)}] = h[t \ {Max(t)}]
          BY <4>2
        <4>4. h[t] = value(h, t)
          BY <2>2, <4>1
        <4> HIDE DEF g
        <4> QED BY <4>1, <4>3, <4>4
      <3> QED BY <3>1, <3>2
    <2>7. g = [t \in Q |-> value(g, t)]
      <3>1. g = [t \in Q |-> g[t]]
        OBVIOUS
      <3> HIDE DEF g, value
      <3> QED BY <2>6, <3>1
    <2>8. IsLoop(g, k, base, i)
      <3> HIDE DEF g
      <3> QED BY <2>7 DEF IsLoop
    <2> QED BY <2>8
  <1> HIDE DEF T
  <1>3. n \in T
    <2>1. n \in 0 .. n /\ \A i \in 0 .. n : i \in T
      BY <1>1, <1>2, Induction
    <2> QED BY <2>1
  <1> QED BY <1>3 DEF T

\* What the loop has after each turn.
After(f, k, base, n) ==
  f[0] = base /\ \A i \in 1 .. n : f[i] = Turn(k, f[i - 1], i)

LEMMA LoopTurns ==
  ASSUME NEW k, NEW base, NEW n \in Nat, NEW iter, IsLoop(iter, k, base, n)
  PROVE  \E f : After(f, k, base, n) /\ f[n] = iter[1 .. n]
  <1> DEFINE f == [i \in 0 .. n |-> iter[1 .. i]]
             value(t) == IF t = {} THEN base ELSE Turn(k, iter[t \ {Max(t)}], Max(t))
  <1>1. \A t \in SUBSET (1 .. n) : iter[t] = value(t)
    BY DEF IsLoop
  <1>2. f[0] = base
    <2>1. 1 .. 0 = {} /\ {} \in SUBSET (1 .. n) /\ 0 \in 0 .. n
      OBVIOUS
    <2>2. iter[{}] = base
      BY <1>1, <2>1
    <2> QED BY <2>1, <2>2
  <1>3. ASSUME NEW i \in 1 .. n PROVE f[i] = Turn(k, f[i - 1], i)
    <2>1. /\ 1 .. i # {} /\ (1 .. i) \in SUBSET (1 .. n) /\ Max(1 .. i) = i
          /\ (1 .. i) \ {i} = 1 .. (i - 1) /\ i \in 0 .. n /\ i - 1 \in 0 .. n
      BY UpTo
    <2>2. iter[1 .. i] = Turn(k, iter[1 .. (i - 1)], i)
      BY <1>1, <2>1
    <2>3. f[i] = iter[1 .. i] /\ f[i - 1] = iter[1 .. (i - 1)]
      BY <2>1
    <2> QED BY <2>2, <2>3
  <1>4. f[n] = iter[1 .. n]
    OBVIOUS
  <1> HIDE DEF f
  <1> QED BY <1>2, <1>3, <1>4 DEF After

LEMMA GiveTurns ==
  ASSUME NEW base, NEW chain \in Seq(Nodes), NEW k, k = [op |-> "give", seq |-> chain]
  PROVE  \E f : After(f, k, base, Len(chain)) /\ f[Len(chain)] = FoldLeft(GiveNode, base, chain)
  <1> DEFINE n == Len(chain)
             body(g) == [t \in SUBSET (DOMAIN chain) |->
                           IF t = {} THEN base ELSE GiveNode(g[t \ {Max(t)}], chain[Max(t)])]
             iter == CHOOSE g : g = body(g)
  <1>1. n \in Nat /\ DOMAIN chain = 1 .. n
    OBVIOUS
  <1>2. \A x, i : Turn(k, x, i) = GiveNode(x, chain[i])
    BY DEF Turn
  <1>3. \A g : g = body(g) <=> IsLoop(g, k, base, n)
    <2> HIDE DEF n
    <2> TAKE g
    <2> DEFINE turns == [t \in SUBSET (1 .. n) |->
                           IF t = {} THEN base ELSE Turn(k, g[t \ {Max(t)}], Max(t))]
    <2>1. body(g) = turns
      BY <1>1, <1>2
    <2>2. IsLoop(g, k, base, n) <=> g = turns
      BY DEF IsLoop
    <2> HIDE DEF turns, body
    <2> QED BY <2>1, <2>2
  <1>4. IsLoop(iter, k, base, n)
    <2>1. \E g : g = body(g)
      BY <1>1, <1>3, LoopExists
    <2> HIDE DEF body
    <2>2. iter = body(iter)
      BY <2>1
    <2> QED BY <1>3, <2>2
  <1>5. FoldLeft(GiveNode, base, chain) = iter[DOMAIN chain]
    BY DEF FoldLeft, MapThenFoldSet
  <1> HIDE DEF iter, n
  <1>6. PICK f : After(f, k, base, n) /\ f[n] = iter[1 .. n]
    BY <1>1, <1>4, LoopTurns
  <1> QED BY <1>1, <1>5, <1>6 DEF n

\* While nodes are given back: those before place i have come back, but for
\* the run that is gathered.
Giving(x, out, chain, i) ==
  \E p, u : /\ x = [pool |-> p, run |-> u]
            /\ SoundState(p, out \ (FirstOf(chain, i) \ ToSet(u)))
            /\ u = <<>> \/ Run(u, out \ (FirstOf(chain, i) \ ToSet(u)))
            /\ ToSet(u) \subseteq FirstOf(chain, i)

\* The part of the invariant about the run.
LEMMA FlushSound ==
  ASSUME NEW p, NEW u, NEW out, SoundState(p, out), u = <<>> \/ Run(u, out), NEW x, x = [pool |-> p, run |-> u]
  PROVE  SoundState(Flush(x), out \ ToSet(u))
  <1>1. x.pool = p /\ x.run = u
    OBVIOUS
  <1>2. CASE u = <<>>
    <2>1. ToSet(u) = {}
      BY <1>2 DEF ToSet
    <2>2. out \ ToSet(u) = out
      BY <2>1
    <2>3. Flush(x) = p
      BY <1>1, <1>2 DEF Flush
    <2> QED BY <2>2, <2>3
  <1>3. CASE u # <<>>
    <2>1. Flush(x) = GiveRun(p, u)
      BY <1>1, <1>3 DEF Flush
    <2> QED BY <1>3, <2>1, GiveRunSound
  <1> QED BY <1>2, <1>3

LEMMA SoundOut ==
  ASSUME NEW s, NEW out, SoundState(s, out)
  PROVE  out \subseteq Nodes
  BY DEF SoundState, Sound, Memory

LEMMA GiveTurn ==
  ASSUME NEW out, NEW chain \in Seq(Nodes), Distinct(chain), ToSet(chain) \subseteq out,
         NEW i \in 1 .. Len(chain), NEW x, Giving(x, out, chain, i - 1)
  PROVE  Giving(GiveNode(x, chain[i]), out, chain, i)
  <1> DEFINE node == chain[i]
             F == FirstOf(chain, i - 1)
             G == FirstOf(chain, i)
  <1>1. PICK p, u : /\ x = [pool |-> p, run |-> u]
                    /\ SoundState(p, out \ (F \ ToSet(u)))
                    /\ u = <<>> \/ Run(u, out \ (F \ ToSet(u)))
                    /\ ToSet(u) \subseteq F
    BY DEF Giving
  <1>2. node \in Nodes /\ node \in out /\ node \notin F /\ G = F \cup {node}
    <2>1. DOMAIN chain = 1 .. Len(chain) /\ node \in Nodes /\ node \in ToSet(chain)
      BY DEF ToSet
    <2>2. \A j \in 1 .. i - 1 : j \in 1 .. Len(chain) /\ j # i
      OBVIOUS
    <2>3. node \notin F
      BY <2>1, <2>2 DEF Distinct, FirstOf
    <2>4. \A j : j \in 1 .. i <=> j \in 1 .. i - 1 \/ j = i
      OBVIOUS
    <2>5. \A y : y \in G <=> y \in F \/ y = node
      BY <2>4 DEF FirstOf
    <2> QED BY <2>1, <2>3, <2>5
  <1> HIDE DEF node, F, G
  <1> DEFINE rest == out \ (F \ ToSet(u))
  <1>3. CASE u # <<>> /\ u[1].block # node.block
    <2> DEFINE one == <<node>>
    <2>1. GiveNode(x, node) = [pool |-> Flush(x), run |-> one]
      BY <1>1, <1>3 DEF GiveNode
    <2>2. one \in Seq(Nodes) /\ one # <<>> /\ one[1] = node /\ ToSet(one) = {node} /\ Distinct(one)
      BY <1>2 DEF ToSet, Distinct
    <2> HIDE DEF one
    <2>3. SoundState(Flush(x), rest \ ToSet(u))
      BY <1>1, FlushSound
    <2>4. rest \ ToSet(u) = out \ (G \ ToSet(one))
      BY <1>1, <1>2, <2>2
    <2>5. Run(one, out \ (G \ ToSet(one))) /\ ToSet(one) \subseteq G
      BY <1>2, <2>2 DEF Run
    <2>6. Giving(GiveNode(x, node), out, chain, i)
      BY <2>1, <2>3, <2>4, <2>5 DEF Giving, G
    <2> QED BY <2>6 DEF node
  <1>4. CASE ~ (u # <<>> /\ u[1].block # node.block)
    <2> DEFINE v == Append(u, node)
    <2>1. GiveNode(x, node) = [pool |-> p, run |-> v]
      BY <1>1, <1>4 DEF GiveNode
    <2>2. u \in Seq(Nodes) /\ Distinct(u)
      <3>1. CASE u = <<>>
        BY <3>1 DEF Distinct
      <3>2. CASE u # <<>>
        BY <1>1, <3>2 DEF Run
      <3> QED BY <3>1, <3>2
    <2>3. node \notin ToSet(u)
      BY <1>1, <1>2
    <2>4. v \in Seq(Nodes) /\ Distinct(v) /\ ToSet(v) = ToSet(u) \cup {node}
      BY <1>2, <2>2, <2>3, AppendDistinct
    <2>5. v # <<>> /\ v[1].block = node.block
      <3>1. CASE u = <<>>
        BY <3>1
      <3>2. CASE u # <<>>
        <4>1. v # <<>> /\ v[1] = u[1]
          BY <2>2, <3>2
        <4> HIDE DEF v
        <4> QED BY <1>4, <3>2, <4>1
      <3> QED BY <3>1, <3>2
    <2> HIDE DEF v
    <2>6. out \ (G \ ToSet(v)) = rest
      BY <1>1, <1>2, <2>4
    <2>7. \A y \in ToSet(u) : y.block = node.block /\ y \in rest
      <3>1. CASE u = <<>>
        BY <3>1 DEF ToSet
      <3>2. CASE u # <<>>
        BY <1>1, <1>4, <3>2 DEF Run
      <3> QED BY <3>1, <3>2
    <2>8. node \in rest
      BY <1>2
    <2>9. Run(v, out \ (G \ ToSet(v))) /\ ToSet(v) \subseteq G
      BY <1>1, <1>2, <2>4, <2>5, <2>6, <2>7, <2>8 DEF Run
    <2>10. SoundState(p, out \ (G \ ToSet(v)))
      BY <1>1, <2>6
    <2>11. Giving(GiveNode(x, node), out, chain, i)
      BY <2>1, <2>9, <2>10 DEF Giving, G
    <2> QED BY <2>11 DEF node
  <1> QED BY <1>3, <1>4

LEMMA DeallocatedSound ==
  ASSUME NEW s, NEW out, SoundState(s, out),
         NEW chain \in Seq(Nodes), Distinct(chain), ToSet(chain) \subseteq out
  PROVE  /\ SoundState(Deallocated(s, chain), out \ ToSet(chain))
         /\ Deallocated(s, chain).total <= MaxFreeBlocks
  <1> DEFINE n == Len(chain)
             base == [pool |-> s, run |-> <<>>]
             k == [op |-> "give", seq |-> chain]
             x == FoldLeft(GiveNode, base, chain)
  <1>1. n \in Nat /\ DOMAIN chain = 1 .. n
    OBVIOUS
  <1>2. PICK f : After(f, k, base, n) /\ f[n] = x
    BY GiveTurns
  <1>3. f[0] = base /\ \A i \in 1 .. n : f[i] = GiveNode(f[i - 1], chain[i])
    BY <1>2 DEF After, Turn
  <1> HIDE DEF n, x
  <1>4. Giving(x, out, chain, n)
    <2> DEFINE T == {i \in 0 .. n : Giving(f[i], out, chain, i)}
    <2>1. 0 \in T
      <3>1. ToSet(<<>>) = {} /\ FirstOf(chain, 0) = {}
        BY DEF ToSet, FirstOf
      <3>2. out \ (FirstOf(chain, 0) \ ToSet(<<>>)) = out
        BY <3>1
      <3>3. Giving(base, out, chain, 0)
        BY <3>1, <3>2 DEF Giving
      <3> HIDE DEF base
      <3> QED BY <1>1, <1>3, <3>3
    <2>2. ASSUME NEW i \in 1 .. n, i - 1 \in T PROVE i \in T
      <3>1. Giving(f[i - 1], out, chain, i - 1) /\ i \in 1 .. Len(chain) /\ i \in 0 .. n
        BY <1>1, <2>2 DEF n
      <3>2. Giving(GiveNode(f[i - 1], chain[i]), out, chain, i)
        BY <3>1, GiveTurn
      <3> QED BY <1>3, <3>1, <3>2
    <2> HIDE DEF T
    <2>3. \A i \in 0 .. n : i \in T
      BY <1>1, <2>1, <2>2, Induction
    <2>4. n \in 0 .. n
      BY <1>1
    <2> QED BY <1>2, <2>3, <2>4 DEF T
  <1>5. FirstOf(chain, n) = ToSet(chain)
    <2>1. \A y : y \in ToSet(chain) <=> \E i \in 1 .. n : y = chain[i]
      BY <1>1 DEF ToSet
    <2>2. \A y : y \in FirstOf(chain, n) <=> \E i \in 1 .. n : y = chain[i]
      BY DEF FirstOf
    <2>3. \A y : y \in FirstOf(chain, n) <=> y \in ToSet(chain)
      BY <2>1, <2>2
    <2> QED BY <2>3
  <1>6. SoundState(Flush(x), out \ ToSet(chain))
    <2>1. PICK p, u : /\ x = [pool |-> p, run |-> u]
                      /\ SoundState(p, out \ (ToSet(chain) \ ToSet(u)))
                      /\ u = <<>> \/ Run(u, out \ (ToSet(chain) \ ToSet(u)))
                      /\ ToSet(u) \subseteq ToSet(chain)
      BY <1>4, <1>5 DEF Giving
    <2>2. SoundState(Flush(x), (out \ (ToSet(chain) \ ToSet(u))) \ ToSet(u))
      BY <2>1, FlushSound
    <2>3. (out \ (ToSet(chain) \ ToSet(u))) \ ToSet(u) = out \ ToSet(chain)
      BY <2>1
    <2> QED BY <2>2, <2>3
  <1>7. Deallocated(s, chain) = Limited(Flush(x), MaxFreeBlocks)
    BY DEF Deallocated, x
  <1> QED BY <1>6, <1>7, LimitedSound, AdaptivePoolAssumption

-----------------------------------------------------------------------------
(* Nodes taken from the blocks *)

LEMMA FirstDistinct ==
  ASSUME NEW S, NEW s \in Seq(S), Distinct(s), NEW n \in Nat, n <= Len(s)
  PROVE  LET u == SubSeq(s, 1, n) IN
         u \in Seq(S) /\ Distinct(u) /\ Len(u) = n /\ ToSet(u) = FirstOf(s, n)
  <1> DEFINE m == Len(s)
             u == SubSeq(s, 1, n)
  <1>1. m \in Nat /\ DOMAIN s = 1 .. m /\ \A k \in 1 .. n : k \in 1 .. m
    OBVIOUS
  <1>2. u \in Seq(S) /\ Len(u) = n /\ DOMAIN u = 1 .. n /\ \A k \in 1 .. n : u[k] = s[k]
    OBVIOUS
  <1> HIDE DEF u, m
  <1>3. Distinct(u)
    BY <1>1, <1>2 DEF Distinct
  <1>4. \A x : x \in ToSet(u) <=> \E k \in 1 .. n : x = u[k]
    BY <1>2 DEF ToSet
  <1>5. \A x : x \in FirstOf(s, n) <=> \E k \in 1 .. n : x = s[k]
    BY DEF FirstOf
  <1>6. \A x : x \in ToSet(u) <=> x \in FirstOf(s, n)
    BY <1>2, <1>4, <1>5
  <1>7. ToSet(u) = FirstOf(s, n)
    BY <1>6
  <1> QED BY <1>2, <1>3, <1>7 DEF u

FirstNodes(list, k) == SubSeq(list, 1, k)
OtherNodes(list, k) == SubSeq(list, k + 1, Len(list))

\* The first k nodes of block b are u, and g has the free lists without them.
FirstTaken(f, out, b, k, u, g) ==
  /\ Memory(g, out \cup ToSet(u)) /\ u \in Seq(Nodes) /\ Distinct(u) /\ Len(u) = k
  /\ ToSet(u) \cap out = {} /\ Len(g[b]) = Len(f[b]) - k /\ DOMAIN g = DOMAIN f
  /\ \A x \in DOMAIN f : x # b => g[x] = f[x]

\* The first k nodes of block b move from its free list to a chain.
LEMMA TakeMemory ==
  ASSUME NEW f, NEW out, Memory(f, out), NEW b \in DOMAIN f, NEW k \in Nat, k <= Len(f[b])
  PROVE  FirstTaken(f, out, b, k, FirstNodes(f[b], k), ListSet(f, b, OtherNodes(f[b], k)))
  <1> DEFINE list == f[b]
             u == FirstNodes(list, k)
             v == OtherNodes(list, k)
             g == ListSet(f, b, v)
             more == out \cup ToSet(u)
  <1>1. list \in Seq(Nodes) /\ Distinct(list) /\ ToSet(list) \subseteq NodesOf(b)
    BY ListOf
  <1>2. /\ Lists(f) /\ DOMAIN f \subseteq BlockIds /\ IsFiniteSet(DOMAIN f)
        /\ out \subseteq Nodes /\ (\A x \in out : x.block \in DOMAIN f)
        /\ \A a \in DOMAIN f : Distinct(f[a]) /\ \A x \in ToSet(f[a]) : x \notin out /\ x.block = a
    BY DEF Memory
  <1>3. k <= Len(list)
    OBVIOUS
  <1>4. ToSet(list) \cap out = {} /\ \A x \in ToSet(list) : x.block = b /\ x \in Nodes
    BY <1>1, <1>2 DEF NodesOf
  <1> HIDE DEF list
  <1>5. /\ u \in Seq(Nodes) /\ Distinct(u) /\ Len(u) = k /\ ToSet(u) = FirstOf(list, k)
    BY <1>1, <1>3, FirstDistinct DEF FirstNodes
  <1>6. /\ v \in Seq(Nodes) /\ Distinct(v) /\ Len(v) = Len(list) - k
        /\ ToSet(list) = ToSet(v) \cup FirstOf(list, k) /\ ToSet(v) \cap FirstOf(list, k) = {}
    BY <1>1, <1>3, RestDistinct DEF OtherNodes
  <1> HIDE DEF u, v
  <1>7. /\ DOMAIN g = DOMAIN f /\ Lists(g) /\ g[b] = v
        /\ \A x \in DOMAIN f : x # b => g[x] = f[x]
    BY <1>2, <1>6, ListSetReads
  <1> HIDE DEF g
  <1>8. ASSUME NEW a \in DOMAIN g
        PROVE  Distinct(g[a]) /\ \A x \in ToSet(g[a]) : x \notin more /\ x.block = a
    <2>1. CASE a = b
      BY <1>4, <1>5, <1>6, <1>7, <2>1
    <2>2. CASE a # b
      <3>1. \A x \in ToSet(u) : x.block = b
        BY <1>4, <1>5, <1>6
      <3> QED BY <1>2, <1>7, <2>2, <3>1
    <2> QED BY <2>1, <2>2
  <1>9. ASSUME NEW x \in Nodes, x.block \in DOMAIN g PROVE x \in more \/ x \in ToSet(g[x.block])
    <2>1. x \in out \/ x \in ToSet(f[x.block])
      BY <1>7, <1>9 DEF Memory
    <2>2. x.block = b /\ x \in ToSet(list) => x \in ToSet(u) \/ x \in ToSet(v)
      BY <1>5, <1>6
    <2> QED BY <1>7, <1>9, <2>1, <2>2 DEF list
  <1>10. more \subseteq Nodes /\ \A x \in more : x.block \in DOMAIN g
    BY <1>2, <1>4, <1>5, <1>6, <1>7
  <1>11. Memory(g, more)
    BY <1>2, <1>7, <1>8, <1>9, <1>10 DEF Memory
  <1>12. ToSet(u) \cap out = {}
    BY <1>4, <1>5, <1>6
  <1>13. FirstTaken(f, out, b, k, u, g)
    BY <1>5, <1>6, <1>7, <1>11, <1>12 DEF FirstTaken, list
  <1> QED BY <1>13 DEF u, v, g, list

Batched(c, f, m, h) == [chain |-> h, free |-> f, container |-> c, total |-> m]

\* A batch half gathered: its nodes, too, are outside of the free lists.
BatchSound(c, f, m, h, out, n) ==
  /\ Sound(c, f, m, out \cup ToSet(h))
  /\ h \in Seq(Nodes) /\ Distinct(h) /\ Len(h) <= n /\ ToSet(h) \cap out = {}

\* The first block in the multiset is left by its first nodes.
LEMMA FirstLess ==
  ASSUME NEW B, NEW w, Weights(w, B), NEW v, Weights(v, B), NEW c \in Seq(B), InOrder(w, c), c # <<>>,
         Grown(v, w, B, c[1])
  PROVE  InOrder(v, c)
  <1> SUFFICES ASSUME NEW i \in DOMAIN c, NEW j \in DOMAIN c, i < j PROVE Earlier(v, c[i], c[j])
    BY DEF InOrder
  <1>1. /\ Earlier(w, c[i], c[j]) /\ c[i] \in B /\ c[j] \in B /\ 1 \in DOMAIN c /\ c[1] \in B
        /\ j # 1 /\ 1 < j
    BY DEF InOrder
  <1>2. Earlier(w, c[1], c[j])
    BY <1>1 DEF InOrder
  <1>3. c[j] # c[1]
    BY <1>1, <1>2 DEF Earlier, Weights
  <1>4. \A x \in B : /\ w[x] \in Nat /\ v[x] \in Nat /\ x \in Nat
                     /\ x # c[1] => v[x] = w[x]
    BY DEF Weights, Grown
  <1>5. v[c[1]] <= w[c[1]]
    BY DEF Grown
  <1> HIDE DEF Grown
  <1>6. CASE c[i] = c[1]
    BY <1>1, <1>2, <1>3, <1>4, <1>5, <1>6 DEF Earlier
  <1>7. CASE c[i] # c[1]
    BY <1>1, <1>3, <1>4, <1>7 DEF Earlier
  <1> QED BY <1>6, <1>7

\* What a turn of the loop over the blocks makes of a batch.
TakenTo(x, c, f, m, out, n) ==
  \E c2, f2, m2, h2 :
    /\ x = Batched(c2, f2, m2, h2) /\ BatchSound(c2, f2, m2, h2, out, n)
    /\ DOMAIN f2 = DOMAIN f /\ m2 <= m /\ (Len(h2) < n => c2 = Tail(c))

LEMMA TakeTurn ==
  ASSUME NEW c, NEW f, NEW m, NEW h, NEW out, NEW n \in Nat, BatchSound(c, f, m, h, out, n),
         Len(h) < n, c # <<>>
  PROVE  TakenTo(TakeFrom(Batched(c, f, m, h), c[1], n), c, f, m, out, n)
  <1> DEFINE b == c[1]
             left == n - Len(h)
             count == Len(f[b])
             k == IF left < count THEN left ELSE count
             u == FirstNodes(f[b], k)
             g == ListSet(f, b, OtherNodes(f[b], k))
             h2 == h \o u
             c2 == IF k = count THEN Tail(c) ELSE c
             m2 == m - (IF count = RealNumNode THEN 1 ELSE 0)
             all == out \cup ToSet(h)
  <1>1. /\ Memory(f, all) /\ Ordered(c, f) /\ m = Cardinality(Whole(f))
        /\ h \in Seq(Nodes) /\ Distinct(h) /\ Len(h) <= n /\ ToSet(h) \cap out = {}
        /\ Len(h) \in Nat
    BY DEF BatchSound, Sound
  <1>2. /\ c \in Seq(DOMAIN f) /\ InOrder(Lens(f), c) /\ Len(c) \in Nat \ {0} /\ 1 \in DOMAIN c
        /\ DOMAIN c = 1 .. Len(c)
        /\ b \in DOMAIN f /\ b \in ToSet(c) /\ \A a \in DOMAIN f : a \in ToSet(c) <=> f[a] # <<>>
    BY <1>1 DEF Ordered, ToSet
  <1>3. f[b] \in Seq(Nodes) /\ count \in Nat \ {0} /\ count <= RealNumNode /\ RealNumNode \in Nat
    <2> HIDE DEF b
    <2>1. f[b] \in Seq(Nodes) /\ Len(f[b]) \in 0 .. RealNumNode /\ f[b] # <<>>
      BY <1>1, <1>2, ListOf
    <2> QED BY <2>1, AdaptivePoolAssumption
  <1> HIDE DEF b
  <1>4. /\ left \in Nat \ {0} /\ k \in Nat \ {0} /\ k <= count /\ k <= left
        /\ k # count => k = left
    BY <1>1, <1>3
  <1>5. TakeFrom(Batched(c, f, m, h), b, n) = Batched(c2, g, m2, h2)
    <2>1. left # 0
      BY <1>4
    <2> HIDE DEF k
    <2>2. n - Len(Batched(c, f, m, h).chain) = left /\ Count(Batched(c, f, m, h), b) = count
      BY DEF Batched, Count
    <2> HIDE DEF left, count
    <2>3. TakeFrom(Batched(c, f, m, h), b, n) =
            [chain     |-> h \o SubSeq(f[b], 1, k),
             free      |-> [f EXCEPT ![b] = SubSeq(f[b], k + 1, Len(f[b]))],
             container |-> IF k = count THEN Tail(c) ELSE c,
             total     |-> m - (IF count = RealNumNode THEN 1 ELSE 0)]
      BY <2>1, <2>2 DEF TakeFrom, Batched, k
    <2> QED BY <2>3 DEF Batched, ListSet, FirstNodes, OtherNodes
  <1> HIDE DEF left
  <1>6. /\ Memory(g, all \cup ToSet(u)) /\ u \in Seq(Nodes) /\ Distinct(u) /\ Len(u) = k
        /\ ToSet(u) \cap all = {} /\ Len(g[b]) = count - k /\ DOMAIN g = DOMAIN f
        /\ \A x \in DOMAIN f : x # b => g[x] = f[x]
    <2>1. k \in Nat /\ k <= Len(f[b])
      BY <1>4
    <2>2. Memory(f, all) /\ b \in DOMAIN f
      BY <1>1, <1>2
    <2> HIDE DEF k, all
    <2>3. FirstTaken(f, all, b, k, FirstNodes(f[b], k), ListSet(f, b, OtherNodes(f[b], k)))
      BY <2>1, <2>2, TakeMemory
    <2>4. FirstTaken(f, all, b, k, u, g)
      BY <2>3
    <2> HIDE DEF u, g
    <2> QED BY <2>4 DEF FirstTaken
  <1> HIDE DEF u, g, k, all
  <1>7. /\ h2 \in Seq(Nodes) /\ Distinct(h2) /\ ToSet(h2) = ToSet(h) \cup ToSet(u)
        /\ Len(h2) = Len(h) + k
    <2>1. ToSet(h) \cap ToSet(u) = {}
      BY <1>6 DEF all
    <2> QED BY <1>1, <1>6, <2>1, JoinDistinct
  <1>8. Len(h2) <= n /\ (k # count => Len(h2) = n)
    BY <1>1, <1>4, <1>7 DEF left
  <1>9. Memory(g, out \cup ToSet(h2)) /\ ToSet(h2) \cap out = {}
    <2>1. all \cup ToSet(u) = out \cup ToSet(h2)
      BY <1>7 DEF all
    <2> QED BY <1>1, <1>6, <1>7, <2>1 DEF all
  <1>10. m2 = Cardinality(Whole(g)) /\ m2 <= m
    <2>1. Len(g[b]) # RealNumNode
      BY <1>3, <1>4, <1>6
    <2>2. Whole(g) = Whole(f) \ {b}
      BY <1>6, <2>1 DEF Whole
    <2>3. IsFiniteSet(Whole(f)) /\ m \in Nat
      BY <1>1, WholeFinite
    <2>4. b \in Whole(f) <=> count = RealNumNode
      BY <1>2 DEF Whole
    <2>5. Cardinality(Whole(g)) = IF b \in Whole(f) THEN m - 1 ELSE m
      BY <1>1, <2>2, <2>3, FS_RemoveElement
    <2> HIDE DEF count
    <2> QED BY <2>3, <2>4, <2>5
  <1>11. Lists(f) /\ Lists(g)
    BY <1>1, <1>6 DEF Memory
  <1>12. /\ \A x \in DOMAIN f : Lens(f)[x] = Len(f[x]) /\ Lens(g)[x] = Len(g[x])
         /\ Weights(Lens(f), DOMAIN f) /\ Weights(Lens(g), DOMAIN f)
    BY <1>6, <1>11, LensTyped DEF Weights, Lists
  <1>13. Ordered(c2, g)
    <2>1. CASE k # count
      <3>1. Grown(Lens(g), Lens(f), DOMAIN f, b)
        <4>1. Lens(g)[b] <= Lens(f)[b]
          BY <1>2, <1>3, <1>4, <1>6, <1>12
        <4> QED BY <1>6, <1>12, <4>1 DEF Grown
      <3>2. InOrder(Lens(g), c)
        BY <1>2, <1>12, <3>1, FirstLess DEF b
      <3>3. g[b] # <<>>
        <4>1. Len(g[b]) # 0
          BY <1>3, <1>4, <1>6, <2>1
        <4> QED BY <4>1
      <3>4. \A a \in DOMAIN g : a \in ToSet(c) <=> g[a] # <<>>
        BY <1>2, <1>6, <3>3
      <3> QED BY <1>2, <1>6, <2>1, <3>2, <3>4 DEF Ordered
    <2>2. CASE k = count
      <3> DEFINE t == Tail(c)
                 q == Len(c)
      <3>1. /\ t \in Seq(DOMAIN g) /\ DOMAIN t = 1 .. q - 1
            /\ \A i \in 1 .. q - 1 : t[i] = c[i + 1]
        BY <1>2, <1>6
      <3>2. \A i \in 1 .. q - 1 : i + 1 \in 1 .. q
        BY <1>2
      <3> HIDE DEF t, q
      <3>3. \A i \in 1 .. q - 1 : t[i] \in DOMAIN f /\ t[i] # b
        <4> SUFFICES ASSUME NEW i \in 1 .. q - 1 PROVE c[i + 1] \in DOMAIN f /\ c[i + 1] # b
          BY <3>1
        <4>1. i + 1 \in DOMAIN c /\ i + 1 # 1
          BY <1>2, <3>2 DEF q
        <4>2. Distinct(c)
          BY <1>1, <1>11, OrderedHas
        <4> QED BY <1>2, <4>1, <4>2 DEF Distinct, b
      <3>4. InOrder(Lens(g), t)
        <4> SUFFICES ASSUME NEW i \in 1 .. q - 1, NEW j \in 1 .. q - 1, i < j
                     PROVE  Earlier(Lens(g), t[i], t[j])
          BY <3>1 DEF InOrder
        <4>1. i + 1 \in DOMAIN c /\ j + 1 \in DOMAIN c /\ i + 1 < j + 1
          BY <1>2, <3>2 DEF q
        <4>2. Earlier(Lens(f), t[i], t[j])
          BY <1>2, <3>1, <4>1 DEF InOrder
        <4>3. Lens(g)[t[i]] = Lens(f)[t[i]] /\ Lens(g)[t[j]] = Lens(f)[t[j]]
          BY <1>6, <1>12, <3>3
        <4> QED BY <4>2, <4>3 DEF Earlier
      <3>5. g[b] = <<>>
        <4>1. Len(g[b]) = 0
          BY <1>3, <1>6, <2>2
        <4>2. g[b] \in Seq(Nodes)
          BY <1>2, <1>6, <1>11 DEF Lists
        <4> QED BY <4>1, <4>2
      <3>6. \A a : a \in ToSet(t) <=> a \in ToSet(c) /\ a # b
        <4>1. \A a : a \in ToSet(t) <=> \E i \in 1 .. q - 1 : a = t[i]
          BY <3>1 DEF ToSet
        <4>2. \A a : a \in ToSet(c) <=> \E i \in 1 .. q : a = c[i]
          BY <1>2 DEF ToSet, q
        <4>3. \A i \in 1 .. q : i = 1 \/ (i - 1 \in 1 .. q - 1 /\ (i - 1) + 1 = i)
          BY <1>2 DEF q
        <4>4. \A i \in 1 .. q : c[i] = b \/ \E j \in 1 .. q - 1 : c[i] = t[j]
          BY <3>1, <4>3 DEF b
        <4>5. \A j \in 1 .. q - 1 : \E i \in 1 .. q : t[j] = c[i]
          BY <3>1, <3>2
        <4> QED BY <3>3, <4>1, <4>2, <4>4, <4>5
      <3>7. \A a \in DOMAIN g : a \in ToSet(t) <=> g[a] # <<>>
        BY <1>2, <1>6, <3>5, <3>6
      <3>8. Ordered(t, g)
        BY <3>1, <3>4, <3>7 DEF Ordered
      <3> QED BY <2>2, <3>8 DEF t
    <2> QED BY <2>1, <2>2
  <1>14. Len(h2) < n => c2 = Tail(c)
    BY <1>1, <1>8
  <1> HIDE DEF c2, m2, h2
  <1>15. BatchSound(c2, g, m2, h2, out, n)
    BY <1>7, <1>8, <1>9, <1>10, <1>13 DEF BatchSound, Sound
  <1> QED BY <1>5, <1>6, <1>10, <1>14, <1>15 DEF TakenTo, b

LEMMA TakeTurns ==
  ASSUME container \in Seq(BlockIds), NEW n \in Nat,
         NEW k, k = [op |-> "take", seq |-> container, n |-> n],
         NEW base, base = Batched(container, freeNodes, totallyFree, <<>>)
  PROVE  \E f : After(f, k, base, Len(container)) /\ f[Len(container)] = TakenFromBlocks(n)
  <1> DEFINE m == Len(container)
             start == [container |-> container, free |-> freeNodes, total |-> totallyFree, chain |-> <<>>]
             body(g) == [t \in SUBSET (DOMAIN container) |->
                           IF t = {} THEN start ELSE TakeFrom(g[t \ {Max(t)}], container[Max(t)], n)]
             iter == CHOOSE g : g = body(g)
  <1>1. m \in Nat /\ DOMAIN container = 1 .. m /\ start = base
    BY DEF Batched
  <1>2. \A x, i : Turn(k, x, i) = TakeFrom(x, container[i], n)
    BY DEF Turn
  <1> HIDE DEF m, start
  <1>3. \A g : g = body(g) <=> IsLoop(g, k, base, m)
    <2> TAKE g
    <2> DEFINE turns == [t \in SUBSET (1 .. m) |->
                           IF t = {} THEN base ELSE Turn(k, g[t \ {Max(t)}], Max(t))]
    <2>1. body(g) = turns
      BY <1>1, <1>2
    <2>2. IsLoop(g, k, base, m) <=> g = turns
      BY DEF IsLoop
    <2> HIDE DEF turns, body
    <2> QED BY <2>1, <2>2
  <1>4. IsLoop(iter, k, base, m)
    <2>1. \E g : g = body(g)
      BY <1>1, <1>3, LoopExists
    <2> HIDE DEF body
    <2>2. iter = body(iter)
      BY <2>1
    <2> QED BY <1>3, <2>2
  <1>5. TakenFromBlocks(n) = iter[DOMAIN container]
    BY DEF TakenFromBlocks, FoldLeft, MapThenFoldSet, start
  <1> HIDE DEF iter
  <1>6. PICK f : After(f, k, base, m) /\ f[m] = iter[1 .. m]
    BY <1>1, <1>4, LoopTurns
  <1> QED BY <1>1, <1>5, <1>6 DEF m

\* After i turns over the blocks c0: while the batch is short, the blocks that
\* had their turn have left the multiset.
Taking(x, c0, f0, m0, out, n, i) ==
  \E c, f, m, h :
    /\ x = Batched(c, f, m, h) /\ BatchSound(c, f, m, h, out, n)
    /\ DOMAIN f = DOMAIN f0 /\ m <= m0
    /\ Len(h) < n => c = SubSeq(c0, i + 1, Len(c0))

LEMMA TailOfRest ==
  ASSUME NEW S, NEW s \in Seq(S), NEW i \in 1 .. Len(s), NEW t, t = SubSeq(s, i, Len(s))
  PROVE  t # <<>> /\ t[1] = s[i] /\ Tail(t) = SubSeq(s, i + 1, Len(s))
  <1> DEFINE m == Len(s)
             u == Tail(t)
             v == SubSeq(s, i + 1, m)
  <1>1. m \in Nat /\ DOMAIN s = 1 .. m /\ i \in 1 .. m
    OBVIOUS
  <1>2. /\ t \in Seq(S) /\ Len(t) = m - i + 1 /\ DOMAIN t = 1 .. m - i + 1
        /\ \A j \in 1 .. m - i + 1 : t[j] = s[i + j - 1]
    OBVIOUS
  <1>3. /\ v \in Seq(S) /\ Len(v) = m - i /\ DOMAIN v = 1 .. m - i
        /\ \A j \in 1 .. m - i : v[j] = s[i + j]
    OBVIOUS
  <1> HIDE DEF m, v
  <1>4. t # <<>> /\ Len(t) # 0 /\ t[1] = s[i]
    <2>1. Len(t) # 0 /\ 1 \in 1 .. m - i + 1 /\ i + 1 - 1 = i
      BY <1>1, <1>2
    <2>2. t # <<>>
      BY <2>1
    <2> QED BY <1>2, <2>1, <2>2
  <1>5. u \in Seq(S) /\ Len(u) = m - i /\ DOMAIN u = 1 .. m - i /\ \A j \in 1 .. m - i : u[j] = t[j + 1]
    BY <1>1, <1>2, <1>4
  <1> HIDE DEF u
  <1>6. \A j \in 1 .. m - i : u[j] = v[j]
    <2> TAKE j \in 1 .. m - i
    <2>1. j + 1 \in 1 .. m - i + 1 /\ i + (j + 1) - 1 = i + j
      BY <1>1
    <2>2. t[j + 1] = s[i + (j + 1) - 1]
      BY <1>2, <2>1
    <2>3. u[j] = t[j + 1] /\ v[j] = s[i + j]
      BY <1>3, <1>5
    <2> HIDE DEF m
    <2> QED BY <2>1, <2>2, <2>3
  <1>7. u = v
    BY <1>3, <1>5, <1>6
  <1> QED BY <1>4, <1>7 DEF u, v, m

LEMMA TakingTurn ==
  ASSUME NEW S, NEW c0 \in Seq(S), NEW f0, NEW m0 \in Nat, NEW out, NEW n \in Nat,
         NEW i \in 1 .. Len(c0), NEW x, Taking(x, c0, f0, m0, out, n, i - 1)
  PROVE  Taking(TakeFrom(x, c0[i], n), c0, f0, m0, out, n, i)
  <1>1. PICK c, f, m, h :
          /\ x = Batched(c, f, m, h) /\ BatchSound(c, f, m, h, out, n)
          /\ DOMAIN f = DOMAIN f0 /\ m <= m0
          /\ Len(h) < n => c = SubSeq(c0, (i - 1) + 1, Len(c0))
    BY DEF Taking
  <1>2. Len(h) \in Nat /\ Len(h) <= n /\ m \in Nat
    <2>1. Memory(f, out \cup ToSet(h)) /\ m = Cardinality(Whole(f))
      BY <1>1 DEF BatchSound, Sound
    <2> QED BY <1>1, <2>1, WholeFinite DEF BatchSound
  <1>3. CASE Len(h) < n
    <2>1. (i - 1) + 1 = i
      OBVIOUS
    <2>2. c = SubSeq(c0, i, Len(c0))
      BY <1>1, <1>3, <2>1
    <2>3. c # <<>> /\ c[1] = c0[i] /\ Tail(c) = SubSeq(c0, i + 1, Len(c0))
      BY <2>2, TailOfRest
    <2>4. TakenTo(TakeFrom(Batched(c, f, m, h), c[1], n), c, f, m, out, n)
      BY <1>1, <1>3, <2>3, TakeTurn
    <2>5. PICK c2, f2, m2, h2 :
            /\ TakeFrom(x, c0[i], n) = Batched(c2, f2, m2, h2) /\ BatchSound(c2, f2, m2, h2, out, n)
            /\ DOMAIN f2 = DOMAIN f /\ m2 <= m /\ (Len(h2) < n => c2 = Tail(c))
      BY <1>1, <2>3, <2>4 DEF TakenTo
    <2>6. m2 \in Nat
      <3>1. Memory(f2, out \cup ToSet(h2)) /\ m2 = Cardinality(Whole(f2))
        BY <2>5 DEF BatchSound, Sound
      <3> QED BY <3>1, WholeFinite
    <2>7. m2 <= m0
      BY <1>1, <1>2, <2>5, <2>6
    <2> QED BY <1>1, <2>3, <2>5, <2>7 DEF Taking
  <1>4. CASE ~(Len(h) < n)
    <2>1. n - Len(x.chain) = 0
      BY <1>1, <1>2, <1>4 DEF Batched
    <2>2. TakeFrom(x, c0[i], n) = x
      BY <2>1 DEF TakeFrom
    <2> QED BY <1>1, <1>4, <2>2 DEF Taking
  <1> QED BY <1>3, <1>4

\* What the blocks of the pool can give.
Taken(x, f0, m0, out, n) ==
  \E c, f, m, h :
    /\ x = Batched(c, f, m, h) /\ BatchSound(c, f, m, h, out, n)
    /\ DOMAIN f = DOMAIN f0 /\ m <= m0
    /\ Len(h) < n => c = <<>>

LEMMA TakenSound ==
  ASSUME Sound(container, freeNodes, totallyFree, held), NEW n \in Nat
  PROVE  Taken(TakenFromBlocks(n), freeNodes, totallyFree, held, n)
  <1> DEFINE q == Len(container)
             k == [op |-> "take", seq |-> container, n |-> n]
             base == Batched(container, freeNodes, totallyFree, <<>>)
  <1>1. /\ container \in Seq(DOMAIN freeNodes) /\ DOMAIN freeNodes \subseteq BlockIds
        /\ totallyFree = Cardinality(Whole(freeNodes)) /\ Memory(freeNodes, held)
    BY DEF Sound, Ordered, Memory
  <1>2. container \in Seq(BlockIds) /\ q \in Nat /\ totallyFree \in Nat
    BY <1>1, WholeFinite
  <1>3. PICK f : After(f, k, base, q) /\ f[q] = TakenFromBlocks(n)
    BY <1>2, TakeTurns
  <1>4. f[0] = base /\ \A i \in 1 .. q : f[i] = TakeFrom(f[i - 1], container[i], n)
    BY <1>3 DEF After, Turn
  <1> HIDE DEF q, base
  <1> DEFINE T == {i \in 0 .. q : Taking(f[i], container, freeNodes, totallyFree, held, n, i)}
  <1>5. 0 \in T
    <2>1. <<>> \in Seq(Nodes) /\ Distinct(<<>>) /\ ToSet(<<>>) = {} /\ Len(<<>>) = 0
      BY DEF Distinct, ToSet
    <2>2. held \cup ToSet(<<>>) = held /\ ToSet(<<>>) \cap held = {}
      BY <2>1
    <2>3. BatchSound(container, freeNodes, totallyFree, <<>>, held, n)
      BY <2>1, <2>2 DEF BatchSound
    <2>4. SubSeq(container, 0 + 1, Len(container)) = container
      BY <1>2
    <2>5. totallyFree <= totallyFree
      BY <1>2
    <2>6. Taking(base, container, freeNodes, totallyFree, held, n, 0)
      BY <2>3, <2>4, <2>5 DEF Taking, base
    <2> QED BY <1>2, <1>4, <2>6
  <1>6. ASSUME NEW i \in 1 .. q, i - 1 \in T PROVE i \in T
    <2>1. Taking(f[i - 1], container, freeNodes, totallyFree, held, n, i - 1) /\ i \in 0 .. q
          /\ i \in 1 .. Len(container)
      BY <1>2, <1>6 DEF q
    <2>2. Taking(TakeFrom(f[i - 1], container[i], n), container, freeNodes, totallyFree, held, n, i)
      BY <1>2, <2>1, TakingTurn
    <2> QED BY <1>4, <2>1, <2>2
  <1> HIDE DEF T
  <1>7. \A i \in 0 .. q : i \in T
    BY <1>2, <1>5, <1>6, Induction
  <1>8. Taking(f[q], container, freeNodes, totallyFree, held, n, q)
    <2>1. q \in 0 .. q
      BY <1>2
    <2> QED BY <1>7, <2>1 DEF T
  <1>9. SubSeq(container, q + 1, Len(container)) = <<>>
    BY <1>2 DEF q
  <1> QED BY <1>3, <1>8, <1>9 DEF Taking, Taken

-----------------------------------------------------------------------------
(* Nodes taken from new blocks *)

FirstFresh(b, k) == [j \in 1 .. k |-> Node(b, j - 1)]
OtherFresh(b, k) == [j \in 1 .. RealNumNode - k |-> Node(b, k + j - 1)]

\* The nodes of block b, k of them in u and the others in v.
Split(b, k, u, v) ==
  /\ u \in Seq(Nodes) /\ Len(u) = k /\ Distinct(u)
  /\ v \in Seq(Nodes) /\ Len(v) = RealNumNode - k /\ Distinct(v)
  /\ ToSet(u) \cap ToSet(v) = {} /\ \A x \in ToSet(u) \cup ToSet(v) : x.block = b
  /\ \A x \in Nodes : x.block = b => x \in ToSet(u) \/ x \in ToSet(v)

LEMMA FreshSplit ==
  ASSUME NEW b \in BlockIds, NEW k \in 0 .. RealNumNode
  PROVE  Split(b, k, FirstFresh(b, k), OtherFresh(b, k))
  <1> DEFINE u == FirstFresh(b, k)
             v == OtherFresh(b, k)
             R == RealNumNode
  <1>1. R \in Nat \ {0} /\ k \in Nat /\ k <= R
    BY AdaptivePoolAssumption
  <1>2. \A i \in 0 .. R - 1 : Node(b, i) \in Nodes /\ Node(b, i).block = b /\ Node(b, i).index = i
    BY DEF Node, Nodes
  <1> HIDE DEF R
  <1>3. (\A j \in 1 .. k : j - 1 \in 0 .. R - 1) /\ (\A j \in 1 .. R - k : k + j - 1 \in 0 .. R - 1)
    BY <1>1
  <1>4. /\ u \in Seq(Nodes) /\ Len(u) = k /\ DOMAIN u = 1 .. k
        /\ \A j \in 1 .. k : u[j] = Node(b, j - 1)
    <2>1. u \in [1 .. k -> Nodes]
      BY <1>2, <1>3 DEF FirstFresh
    <2> QED BY <1>1, <2>1 DEF FirstFresh
  <1>5. /\ v \in Seq(Nodes) /\ Len(v) = R - k /\ DOMAIN v = 1 .. R - k
        /\ \A j \in 1 .. R - k : v[j] = Node(b, k + j - 1)
    <2>1. v \in [1 .. R - k -> Nodes]
      BY <1>2, <1>3 DEF OtherFresh, R
    <2>2. R - k \in Nat
      BY <1>1
    <2> QED BY <1>1, <2>1, <2>2 DEF OtherFresh, R
  <1> HIDE DEF u, v
  <1>6. Distinct(u)
    <2> SUFFICES ASSUME NEW i \in 1 .. k, NEW j \in 1 .. k, u[i] = u[j] PROVE i = j
      BY <1>4 DEF Distinct
    <2>1. i - 1 = j - 1
      BY <1>2, <1>3, <1>4
    <2> QED BY <2>1
  <1>7. Distinct(v)
    <2> SUFFICES ASSUME NEW i \in 1 .. R - k, NEW j \in 1 .. R - k, v[i] = v[j] PROVE i = j
      BY <1>5 DEF Distinct
    <2>1. k + i - 1 = k + j - 1
      BY <1>2, <1>3, <1>5
    <2> QED BY <1>1, <2>1
  <1>8. ASSUME NEW x PROVE /\ x \in ToSet(u) <=> \E j \in 1 .. k : x = u[j]
                           /\ x \in ToSet(v) <=> \E j \in 1 .. R - k : x = v[j]
    BY <1>4, <1>5 DEF ToSet
  <1>9. ToSet(u) \cap ToSet(v) = {}
    <2> SUFFICES ASSUME NEW i \in 1 .. k, NEW j \in 1 .. R - k, u[i] = v[j] PROVE FALSE
      BY <1>8
    <2>1. u[i].index = i - 1
      BY <1>2, <1>3, <1>4
    <2>2. v[j].index = k + j - 1
      BY <1>2, <1>3, <1>5
    <2>3. i - 1 = k + j - 1
      BY <2>1, <2>2
    <2> QED BY <1>1, <2>3
  <1>10. \A x \in ToSet(u) \cup ToSet(v) : x.block = b
    BY <1>2, <1>3, <1>4, <1>5, <1>8
  <1>11. ASSUME NEW x \in Nodes, x.block = b PROVE x \in ToSet(u) \/ x \in ToSet(v)
    <2>1. x.index \in 0 .. R - 1 /\ x = Node(b, x.index)
      BY <1>11 DEF Nodes, Node, R
    <2>2. CASE x.index < k
      <3>1. x.index + 1 \in 1 .. k /\ (x.index + 1) - 1 = x.index
        BY <1>1, <2>1, <2>2
      <3>2. x = u[x.index + 1]
        BY <1>4, <2>1, <3>1
      <3> QED BY <1>8, <3>1, <3>2
    <2>3. CASE ~(x.index < k)
      <3> DEFINE j == x.index - k + 1
      <3>1. j \in 1 .. R - k /\ k + j - 1 = x.index
        BY <1>1, <2>1, <2>3
      <3> HIDE DEF j
      <3>2. x = v[j]
        BY <1>5, <2>1, <3>1
      <3> QED BY <1>8, <3>1, <3>2
    <2> QED BY <2>2, <2>3
  <1> QED BY <1>4, <1>5, <1>6, <1>7, <1>9, <1>10, <1>11 DEF Split, u, v, R

\* The free lists with one more, of block b.
ListAdded(f, b, list) == [x \in DOMAIN f \cup {b} |-> IF x = b THEN list ELSE f[x]]

\* What g is, then.
ReadsAdded(g, f, b, list) ==
  /\ DOMAIN g = DOMAIN f \cup {b} /\ Lists(g) /\ g[b] = list
  /\ \A x \in DOMAIN f : g[x] = f[x]

LEMMA ListAddedReads ==
  ASSUME NEW f, Lists(f), NEW b \in Nat, b \notin DOMAIN f, NEW list \in Seq(Nodes)
  PROVE  ReadsAdded(ListAdded(f, b, list), f, b, list)
  BY DEF Lists, ListAdded, ReadsAdded

LEMMA FreshMemory ==
  ASSUME NEW f, NEW out, Memory(f, out), NEW b \in BlockIds, b \notin DOMAIN f,
         NEW k, NEW u, NEW v, Split(b, k, u, v)
  PROVE  Memory(ListAdded(f, b, v), out \cup ToSet(u)) /\ ToSet(u) \cap out = {}
  <1> DEFINE g == ListAdded(f, b, v)
             more == out \cup ToSet(u)
  <1>1. /\ u \in Seq(Nodes) /\ v \in Seq(Nodes) /\ Distinct(v)
        /\ ToSet(u) \cap ToSet(v) = {} /\ \A x \in ToSet(u) \cup ToSet(v) : x.block = b
        /\ \A x \in Nodes : x.block = b => x \in ToSet(u) \/ x \in ToSet(v)
    BY DEF Split
  <1>2. /\ Lists(f) /\ DOMAIN f \subseteq BlockIds /\ IsFiniteSet(DOMAIN f)
        /\ out \subseteq Nodes /\ (\A x \in out : x.block \in DOMAIN f)
        /\ \A a \in DOMAIN f : Distinct(f[a]) /\ \A x \in ToSet(f[a]) : x \notin out /\ x.block = a
    BY DEF Memory
  <1>3. b \in Nat /\ ToSet(u) \subseteq Nodes
    BY <1>1, AdaptivePoolAssumption DEF ToSet
  <1>4. /\ DOMAIN g = DOMAIN f \cup {b} /\ Lists(g) /\ g[b] = v
        /\ \A x \in DOMAIN f : g[x] = f[x]
    <2>1. ReadsAdded(g, f, b, v)
      BY <1>1, <1>2, <1>3, ListAddedReads
    <2> QED BY <2>1 DEF ReadsAdded
  <1> HIDE DEF g
  <1>5. IsFiniteSet(DOMAIN g) /\ DOMAIN g \subseteq BlockIds
    BY <1>2, <1>4, FS_AddElement
  <1>6. more \subseteq Nodes /\ \A x \in more : x.block \in DOMAIN g
    BY <1>1, <1>2, <1>3, <1>4
  <1>7. ASSUME NEW a \in DOMAIN g
        PROVE  Distinct(g[a]) /\ \A x \in ToSet(g[a]) : x \notin more /\ x.block = a
    <2>1. CASE a = b
      <3>1. \A x \in ToSet(v) : x \notin out /\ x \notin ToSet(u) /\ x.block = b
        BY <1>1, <1>2
      <3> QED BY <1>1, <1>4, <2>1, <3>1
    <2>2. CASE a # b
      <3>1. a \in DOMAIN f /\ g[a] = f[a]
        BY <1>4, <2>2
      <3>2. \A x \in ToSet(u) : x.block = b
        BY <1>1
      <3> QED BY <1>2, <2>2, <3>1, <3>2
    <2> QED BY <2>1, <2>2
  <1>8. ASSUME NEW x \in Nodes, x.block \in DOMAIN g PROVE x \in more \/ x \in ToSet(g[x.block])
    <2>1. CASE x.block = b
      BY <1>1, <1>4, <2>1
    <2>2. CASE x.block # b
      <3>1. x.block \in DOMAIN f /\ g[x.block] = f[x.block]
        BY <1>4, <1>8, <2>2
      <3>2. x \in out \/ x \in ToSet(f[x.block])
        BY <3>1 DEF Memory
      <3> QED BY <3>1, <3>2
    <2> QED BY <2>1, <2>2
  <1>9. Memory(g, more)
    BY <1>4, <1>5, <1>6, <1>7, <1>8 DEF Memory
  <1>10. ToSet(u) \cap out = {}
    <2>1. \A x \in ToSet(u) : x.block = b
      BY <1>1
    <2> QED BY <1>2, <2>1
  <1> QED BY <1>9, <1>10 DEF g

\* What a turn over a new block makes of a batch.
TakenFresh(x, f, m, h, b, out, n) ==
  \E c2, f2, h2 :
    /\ x = Batched(c2, f2, m, h2) /\ BatchSound(c2, f2, m, h2, out, n)
    /\ DOMAIN f2 = DOMAIN f \cup {b}
    /\ Len(h2) < n => c2 = <<>> /\ Len(h2) = Len(h) + RealNumNode
    /\ Len(h2) = n => n <= Len(h) + RealNumNode

LEMMA WithTurn ==
  ASSUME NEW f, NEW m, NEW h, NEW out, NEW n \in Nat, BatchSound(<<>>, f, m, h, out, n),
         Len(h) < n, NEW b \in BlockIds, b \notin DOMAIN f
  PROVE  TakenFresh(WithBlock(Batched(<<>>, f, m, h), b, n), f, m, h, b, out, n)
  <1> DEFINE left == n - Len(h)
             R == RealNumNode
             k == IF R < left THEN R ELSE left
             u == FirstFresh(b, k)
             v == OtherFresh(b, k)
             g == ListAdded(f, b, v)
             h2 == h \o u
             c2 == IF v = <<>> THEN <<>> ELSE <<b>>
             all == out \cup ToSet(h)
  <1>1. /\ Memory(f, all) /\ Ordered(<<>>, f) /\ m = Cardinality(Whole(f))
        /\ h \in Seq(Nodes) /\ Distinct(h) /\ Len(h) <= n /\ ToSet(h) \cap out = {}
        /\ Len(h) \in Nat
    BY DEF BatchSound, Sound
  <1>2. R \in Nat \ {0} /\ left \in Nat \ {0}
    BY <1>1, AdaptivePoolAssumption
  <1>3. /\ k \in 0 .. R /\ k \in Nat \ {0} /\ k <= left
        /\ k < left => k = R
        /\ R - k \in Nat /\ R - k # R
    <2> HIDE DEF R, left
    <2> QED BY <1>2
  <1> HIDE DEF k
  <1>4. Split(b, k, u, v)
    BY <1>3, FreshSplit DEF R
  <1>5. WithBlock(Batched(<<>>, f, m, h), b, n) = Batched(c2, g, m, h2)
    <2> DEFINE rest == [j \in 1 .. RealNumNode - k |-> Node(b, k + j - 1)]
    <2>1. /\ n - Len(Batched(<<>>, f, m, h).chain) = left
          /\ Batched(<<>>, f, m, h).chain = h /\ Batched(<<>>, f, m, h).free = f
          /\ Batched(<<>>, f, m, h).container = <<>> /\ Batched(<<>>, f, m, h).total = m
      BY DEF Batched
    <2>2. Len(v) # RealNumNode /\ m + 0 = m /\ <<b>> \o <<>> = <<b>>
      <3>1. Len(v) = R - k
        BY <1>4 DEF Split
      <3>2. m \in Nat
        BY <1>1, WholeFinite
      <3>3. <<b>> \o <<>> = <<b>>
        OBVIOUS
      <3> QED BY <1>3, <3>1, <3>2, <3>3 DEF R
    <2> HIDE DEF left
    <2>3. k = IF RealNumNode < left THEN RealNumNode ELSE left
      BY DEF k
    <2> DEFINE start == Batched(<<>>, f, m, h)
    <2> HIDE DEF start
    <2>4. WithBlock(start, b, n) =
            [chain     |-> h \o FirstFresh(b, k),
             free      |-> ListAdded(f, b, v),
             container |-> IF v = <<>> THEN <<>> ELSE <<b>> \o <<>>,
             total     |-> m + (IF Len(v) = RealNumNode THEN 1 ELSE 0)]
      BY <2>1, <2>3 DEF WithBlock, ListAdded, FirstFresh, OtherFresh, start
    <2> HIDE DEF u, v
    <2> QED BY <2>2, <2>4 DEF Batched, u, v, start
  <1> HIDE DEF left, u, v
  <1>6. /\ u \in Seq(Nodes) /\ Len(u) = k /\ Distinct(u)
        /\ v \in Seq(Nodes) /\ Len(v) = R - k
    BY <1>4 DEF Split, R
  <1>7. Memory(g, all \cup ToSet(u)) /\ ToSet(u) \cap all = {}
    BY <1>1, <1>4, FreshMemory
  <1>8. Lists(f) /\ b \in Nat
    BY <1>1, AdaptivePoolAssumption DEF Memory
  <1>9. /\ DOMAIN g = DOMAIN f \cup {b} /\ Lists(g) /\ g[b] = v
        /\ \A x \in DOMAIN f : g[x] = f[x]
    <2>1. ReadsAdded(g, f, b, v)
      BY <1>6, <1>8, ListAddedReads
    <2> QED BY <2>1 DEF ReadsAdded
  <1> HIDE DEF g
  <1>10. /\ h2 \in Seq(Nodes) /\ Distinct(h2) /\ ToSet(h2) = ToSet(h) \cup ToSet(u)
         /\ Len(h2) = Len(h) + k
    <2>1. ToSet(h) \cap ToSet(u) = {}
      BY <1>7
    <2>2. u \in Seq(Nodes) /\ Distinct(u) /\ Len(u) = k
      BY <1>6
    <2>3. h \in Seq(Nodes) /\ Distinct(h)
      BY <1>1
    <2>4. /\ h \o u \in Seq(Nodes) /\ Distinct(h \o u) /\ ToSet(h \o u) = ToSet(h) \cup ToSet(u)
          /\ Len(h \o u) = Len(h) + Len(u)
      BY <2>1, <2>2, <2>3, JoinDistinct
    <2> QED BY <2>2, <2>4
  <1>11. Memory(g, out \cup ToSet(h2)) /\ ToSet(h2) \cap out = {}
    <2>1. all \cup ToSet(u) = out \cup ToSet(h2)
      BY <1>10
    <2> QED BY <1>1, <1>7, <1>10, <2>1
  <1>12. /\ Len(h2) <= n
         /\ Len(h2) < n => k = R /\ Len(h2) = Len(h) + R
         /\ Len(h2) = n => n <= Len(h) + R
    <2> HIDE DEF h2, R
    <2> QED BY <1>1, <1>2, <1>3, <1>10 DEF left
  <1>13. m = Cardinality(Whole(g))
    <2>1. Len(g[b]) # RealNumNode
      BY <1>3, <1>6, <1>9 DEF R
    <2>2. Whole(g) = Whole(f)
      BY <1>9, <2>1 DEF Whole
    <2> QED BY <1>1, <2>2
  <1>14. v = <<>> <=> k = R
    <2>1. v = <<>> <=> Len(v) = 0
      BY <1>6
    <2> QED BY <1>2, <1>3, <1>6, <2>1
  <1>15. \A a \in DOMAIN f : f[a] = <<>>
    <2>1. ToSet(<<>>) = {}
      BY DEF ToSet
    <2> QED BY <1>1, <2>1 DEF Ordered
  <1>16. Ordered(c2, g)
    <2>1. CASE v = <<>>
      <3>1. <<>> \in Seq(DOMAIN g) /\ InOrder(Lens(g), <<>>) /\ ToSet(<<>>) = {}
        BY DEF InOrder, ToSet
      <3>2. \A a \in DOMAIN g : g[a] = <<>>
        BY <1>9, <1>15, <2>1
      <3> QED BY <2>1, <3>1, <3>2 DEF Ordered
    <2>2. CASE v # <<>>
      <3> DEFINE one == <<b>>
      <3>1. one \in Seq(DOMAIN g) /\ DOMAIN one = 1 .. 1
        BY <1>9
      <3>2. ToSet(one) = {b}
        BY DEF ToSet
      <3> HIDE DEF one
      <3>3. InOrder(Lens(g), one)
        BY <3>1 DEF InOrder
      <3>4. \A a \in DOMAIN g : a \in ToSet(one) <=> g[a] # <<>>
        BY <1>9, <1>15, <2>2, <3>2
      <3>5. Ordered(one, g)
        BY <3>1, <3>3, <3>4 DEF Ordered
      <3> QED BY <2>2, <3>5 DEF one
    <2> QED BY <2>1, <2>2
  <1>17. Len(h2) < n => c2 = <<>>
    BY <1>12, <1>14
  <1> HIDE DEF c2, h2
  <1>18. BatchSound(c2, g, m, h2, out, n)
    BY <1>10, <1>11, <1>12, <1>13, <1>16 DEF BatchSound, Sound
  <1> QED BY <1>5, <1>9, <1>12, <1>17, <1>18 DEF TakenFresh, R

LEMMA WithTurns ==
  ASSUME NEW s, NEW seq \in Seq(BlockIds), NEW n \in Nat,
         NEW k, k = [op |-> "with", seq |-> seq, n |-> n]
  PROVE  \E f : After(f, k, s, Len(seq)) /\ f[Len(seq)] = WithBlocks(s, seq, n)
  <1> DEFINE m == Len(seq)
             body(g) == [t \in SUBSET (DOMAIN seq) |->
                           IF t = {} THEN s ELSE WithBlock(g[t \ {Max(t)}], seq[Max(t)], n)]
             iter == CHOOSE g : g = body(g)
  <1>1. m \in Nat /\ DOMAIN seq = 1 .. m
    OBVIOUS
  <1>2. \A x, i : Turn(k, x, i) = WithBlock(x, seq[i], n)
    BY DEF Turn
  <1> HIDE DEF m
  <1>3. \A g : g = body(g) <=> IsLoop(g, k, s, m)
    <2> TAKE g
    <2> DEFINE turns == [t \in SUBSET (1 .. m) |->
                           IF t = {} THEN s ELSE Turn(k, g[t \ {Max(t)}], Max(t))]
    <2>1. body(g) = turns
      BY <1>1, <1>2
    <2>2. IsLoop(g, k, s, m) <=> g = turns
      BY DEF IsLoop
    <2> HIDE DEF turns, body
    <2> QED BY <2>1, <2>2
  <1>4. IsLoop(iter, k, s, m)
    <2>1. \E g : g = body(g)
      BY <1>1, <1>3, LoopExists
    <2> HIDE DEF body
    <2>2. iter = body(iter)
      BY <2>1
    <2> QED BY <1>3, <2>2
  <1>5. WithBlocks(s, seq, n) = iter[DOMAIN seq]
    BY DEF WithBlocks, FoldLeft, MapThenFoldSet
  <1> HIDE DEF iter
  <1>6. PICK f : After(f, k, s, m) /\ f[m] = iter[1 .. m]
    BY <1>1, <1>4, LoopTurns
  <1> QED BY <1>1, <1>5, <1>6 DEF m

\* The number of blocks asked for is the one that is enough and no more.
LEMMA EnoughBlocks ==
  ASSUME NEW s, NEW n \in Nat, NEW L \in Nat, Len(s.chain) = L, L <= n
  PROVE  /\ BlocksNeeded(s, n) \in Nat /\ n <= L + BlocksNeeded(s, n) * RealNumNode
         /\ \A i \in 1 .. BlocksNeeded(s, n) : L + (i - 1) * RealNumNode < n
  <1> DEFINE R == RealNumNode
             a == n - L - 1
             d == a \div R
             q == BlocksNeeded(s, n)
  <1>1. R \in Nat \ {0}
    BY AdaptivePoolAssumption
  <1>2. CASE L < n
    <2>1. a \in Nat
      BY <1>2
    <2>2. q = d + 1
      BY <1>2 DEF BlocksNeeded
    <2> HIDE DEF a, q, R
    <2> DEFINE r == a % R
    <2>3. d \in Nat /\ r \in 0 .. R - 1 /\ a = R * d + r
      BY <1>1, <2>1
    <2> HIDE DEF d, r
    <2>4. q \in Nat /\ R * d + R = q * R
      BY <1>1, <2>2, <2>3
    <2>5. n = L + a + 1
      BY <1>2 DEF a
    <2>6. n <= L + q * R
      <3> DEFINE x == R * d
                 y == q * R
      <3>1. x \in Nat /\ y \in Nat /\ x + R = y /\ a = x + r
        BY <1>1, <2>3, <2>4
      <3> HIDE DEF x, y
      <3>2. n <= L + y
        BY <1>1, <2>3, <2>5, <3>1
      <3> QED BY <3>2 DEF y
    <2>7. ASSUME NEW i \in 1 .. q PROVE L + (i - 1) * R < n
      <3> DEFINE e == i - 1
                 x == R * d
                 y == e * R
                 w == d - e
      <3>1. e \in Nat /\ w \in Nat /\ d = e + w
        BY <2>2, <2>3, <2>4
      <3> HIDE DEF e, w
      <3>2. R * (e + w) = e * R + R * w /\ R * w \in Nat
        BY <1>1, <3>1
      <3>3. x \in Nat /\ y \in Nat /\ y <= x /\ a = x + r
        BY <1>1, <2>3, <3>1, <3>2
      <3> HIDE DEF x, y
      <3>4. L + y < n
        BY <1>1, <2>3, <2>5, <3>3
      <3> QED BY <3>4 DEF y, e
    <2> QED BY <2>4, <2>6, <2>7 DEF q, R
  <1>3. CASE ~(L < n)
    <2>1. q = 0
      BY <1>3 DEF BlocksNeeded
    <2> HIDE DEF q, R
    <2>2. 0 * R = 0 /\ n <= L + 0
      BY <1>1, <1>3
    <2>3. \A i \in 1 .. 0 : FALSE
      OBVIOUS
    <2> QED BY <2>1, <2>2, <2>3 DEF q, R
  <1> QED BY <1>2, <1>3

\* After i turns over the new blocks seq, from a batch of L nodes.
Adding(x, f0, m, L, seq, out, n, i) ==
  \E c, f, h :
    /\ x = Batched(c, f, m, h) /\ BatchSound(c, f, m, h, out, n)
    /\ DOMAIN f = DOMAIN f0 \cup FirstOf(seq, i)
    /\ Len(h) < n => c = <<>> /\ Len(h) = L + i * RealNumNode
    /\ Len(h) = n => n <= L + i * RealNumNode

LEMMA AddingTurn ==
  ASSUME NEW f0, NEW m, NEW L \in Nat, NEW seq \in Seq(BlockIds), Distinct(seq),
         \A j \in DOMAIN seq : seq[j] \notin DOMAIN f0, NEW out, NEW n \in Nat,
         NEW i \in 1 .. Len(seq), L + (i - 1) * RealNumNode < n,
         NEW x, Adding(x, f0, m, L, seq, out, n, i - 1)
  PROVE  Adding(WithBlock(x, seq[i], n), f0, m, L, seq, out, n, i)
  <1> DEFINE b == seq[i]
             R == RealNumNode
             y == L + (i - 1) * R
  <1>1. PICK c, f, h :
          /\ x = Batched(c, f, m, h) /\ BatchSound(c, f, m, h, out, n)
          /\ DOMAIN f = DOMAIN f0 \cup FirstOf(seq, i - 1)
          /\ Len(h) < n => c = <<>> /\ Len(h) = y
          /\ Len(h) = n => n <= y
    BY DEF Adding
  <1>2. Len(h) \in Nat /\ Len(h) <= n
    BY <1>1 DEF BatchSound
  <1>3. y \in Nat /\ y < n /\ L + i * R = y + R /\ R \in Nat
    <2>1. R \in Nat
      BY AdaptivePoolAssumption
    <2>2. i * R = (i - 1) * R + R /\ (i - 1) * R \in Nat
      <3> HIDE DEF R
      <3>1. i - 1 \in Nat
        OBVIOUS
      <3> DEFINE e == i - 1
      <3>2. i = e + 1 /\ e \in Nat
        BY <3>1
      <3> HIDE DEF e
      <3>3. (e + 1) * R = e * R + R /\ e * R \in Nat
        BY <2>1, <3>2
      <3> QED BY <3>2, <3>3 DEF e
    <2> DEFINE p == (i - 1) * R
               q == i * R
    <2> HIDE DEF p, q, R
    <2>3. L + p \in Nat /\ L + q = (L + p) + R
      BY <2>1, <2>2 DEF p, q
    <2> QED BY <2>1, <2>3 DEF p, q, R
  <1> HIDE DEF y
  <1>4. Len(h) < n /\ c = <<>> /\ Len(h) = y
    BY <1>1, <1>2, <1>3
  <1>5. b \in BlockIds /\ b \notin FirstOf(seq, i - 1) /\ b \notin DOMAIN f0
        /\ FirstOf(seq, i) = FirstOf(seq, i - 1) \cup {b}
    <2>1. DOMAIN seq = 1 .. Len(seq) /\ i \in DOMAIN seq
      OBVIOUS
    <2>2. \A j \in 1 .. i - 1 : j \in 1 .. Len(seq) /\ j # i
      OBVIOUS
    <2>3. b \notin FirstOf(seq, i - 1)
      BY <2>1, <2>2 DEF Distinct, FirstOf
    <2>4. \A j : j \in 1 .. i <=> j \in 1 .. i - 1 \/ j = i
      OBVIOUS
    <2>5. \A z : z \in FirstOf(seq, i) <=> z \in FirstOf(seq, i - 1) \/ z = b
      BY <2>4 DEF FirstOf
    <2> QED BY <2>1, <2>3, <2>5
  <1> HIDE DEF b
  <1>6. TakenFresh(WithBlock(Batched(<<>>, f, m, h), b, n), f, m, h, b, out, n)
    BY <1>1, <1>4, <1>5, WithTurn
  <1>7. PICK c2, f2, h2 :
          /\ WithBlock(x, b, n) = Batched(c2, f2, m, h2) /\ BatchSound(c2, f2, m, h2, out, n)
          /\ DOMAIN f2 = DOMAIN f \cup {b}
          /\ Len(h2) < n => c2 = <<>> /\ Len(h2) = Len(h) + RealNumNode
          /\ Len(h2) = n => n <= Len(h) + RealNumNode
    BY <1>1, <1>4, <1>6 DEF TakenFresh
  <1>8. DOMAIN f2 = DOMAIN f0 \cup FirstOf(seq, i)
    <2>1. \A z : z \in DOMAIN f2 <=> z \in DOMAIN f0 \cup FirstOf(seq, i)
      BY <1>1, <1>5, <1>7
    <2> QED BY <1>1, <1>5, <1>7, <2>1
  <1>9. /\ Len(h2) < n => c2 = <<>> /\ Len(h2) = L + i * RealNumNode
        /\ Len(h2) = n => n <= L + i * RealNumNode
    BY <1>3, <1>4, <1>7 DEF R
  <1>10. Adding(WithBlock(x, b, n), f0, m, L, seq, out, n, i)
    BY <1>7, <1>8, <1>9 DEF Adding
  <1> QED BY <1>10 DEF b

\* A batch with what k new blocks give it: all it needs, if they are enough.
Added(x, m, out, n, k, needed) ==
  \E c, f, h : /\ x = Batched(c, f, m, h) /\ BatchSound(c, f, m, h, out, n)
               /\ k = needed => Len(h) = n

LEMMA AddedSound ==
  ASSUME NEW c, NEW f, NEW m, NEW h, NEW out, NEW n \in Nat, BatchSound(c, f, m, h, out, n),
         Len(h) < n => c = <<>>,
         NEW s, s = Batched(c, f, m, h), NEW q \in Nat, q <= BlocksNeeded(s, n),
         NEW seq \in Seq(BlockIds), Len(seq) = q, Distinct(seq),
         \A j \in DOMAIN seq : seq[j] \notin DOMAIN f
  PROVE  Added(WithBlocks(s, seq, n), m, out, n, q, BlocksNeeded(s, n))
  <1> DEFINE L == Len(h)
             R == RealNumNode
             k == [op |-> "with", seq |-> seq, n |-> n]
  <1>1. L \in Nat /\ L <= n /\ Len(s.chain) = L /\ R \in Nat
    BY AdaptivePoolAssumption DEF BatchSound, Batched
  <1> HIDE DEF L
  <1>2. /\ BlocksNeeded(s, n) \in Nat /\ n <= L + BlocksNeeded(s, n) * R
        /\ \A i \in 1 .. BlocksNeeded(s, n) : L + (i - 1) * R < n
    BY <1>1, EnoughBlocks
  <1>3. PICK g : After(g, k, s, q) /\ g[q] = WithBlocks(s, seq, n)
    BY WithTurns
  <1>4. g[0] = s /\ \A i \in 1 .. q : g[i] = WithBlock(g[i - 1], seq[i], n)
    BY <1>3 DEF After, Turn
  <1> DEFINE T == {i \in 0 .. q : Adding(g[i], f, m, L, seq, out, n, i)}
  <1>5. 0 \in T
    <2>1. FirstOf(seq, 0) = {}
      BY DEF FirstOf
    <2>2. DOMAIN f = DOMAIN f \cup FirstOf(seq, 0)
      BY <2>1
    <2>3. L + 0 * RealNumNode = L
      BY <1>1
    <2>4. /\ Len(h) < n => c = <<>> /\ Len(h) = L + 0 * RealNumNode
          /\ Len(h) = n => n <= L + 0 * RealNumNode
      BY <1>1, <2>3 DEF L
    <2>5. Adding(s, f, m, L, seq, out, n, 0)
      BY <2>2, <2>4 DEF Adding
    <2> QED BY <1>4, <2>5
  <1>6. ASSUME NEW i \in 1 .. q, i - 1 \in T PROVE i \in T
    <2>1. Adding(g[i - 1], f, m, L, seq, out, n, i - 1) /\ i \in 0 .. q /\ i \in 1 .. Len(seq)
      BY <1>6
    <2>2. L + (i - 1) * RealNumNode < n
      <3>1. i \in 1 .. BlocksNeeded(s, n)
        BY <1>2
      <3> QED BY <1>2, <3>1
    <2>3. Adding(WithBlock(g[i - 1], seq[i], n), f, m, L, seq, out, n, i)
      BY <1>1, <2>1, <2>2, AddingTurn
    <2> QED BY <1>4, <2>1, <2>3
  <1> HIDE DEF T
  <1>7. \A i \in 0 .. q : i \in T
    BY <1>5, <1>6, Induction
  <1>8. Adding(g[q], f, m, L, seq, out, n, q)
    <2>1. q \in 0 .. q
      OBVIOUS
    <2> QED BY <1>7, <2>1 DEF T
  <1>9. PICK c2, f2, h2 :
          /\ g[q] = Batched(c2, f2, m, h2) /\ BatchSound(c2, f2, m, h2, out, n)
          /\ Len(h2) < n => Len(h2) = L + q * RealNumNode
    BY <1>8 DEF Adding
  <1>10. q = BlocksNeeded(s, n) => Len(h2) = n
    <2>1. Len(h2) \in Nat /\ Len(h2) <= n
      BY <1>9 DEF BatchSound
    <2> DEFINE y == L + q * RealNumNode
    <2>2. q = BlocksNeeded(s, n) => n <= y
      BY <1>2
    <2>3. Len(h2) < n => Len(h2) = y
      BY <1>9
    <2> HIDE DEF y
    <2> QED BY <2>1, <2>2, <2>3
  <1> QED BY <1>3, <1>9, <1>10 DEF Added

-----------------------------------------------------------------------------
(* The inductive invariant, action by action *)

PoolSound == Sound(container, freeNodes, totallyFree, held) /\ totallyFree <= MaxFreeBlocks

\* A dead pool has given every block back.
IInv == PoolSound /\ (~alive => DOMAIN freeNodes = {})

\* Of a list of lent blocks, what the loops over it need.
LEMMA LentNextTyped ==
  ASSUME NEW k \in Nat, NEW seq \in LentNext(k)
  PROVE  /\ seq \in Seq(BlockIds) /\ Len(seq) = k /\ Distinct(seq)
         /\ \A j \in DOMAIN seq : seq[j] \notin DOMAIN freeNodes
  <1>1. seq \in [1 .. k -> BlockIds \ DOMAIN freeNodes] /\ \A i, j \in 1 .. k : seq[i] = seq[j] => i = j
    BY DEF LentNext
  <1>2. DOMAIN seq = 1 .. k /\ \A j \in 1 .. k : seq[j] \in BlockIds /\ seq[j] \notin DOMAIN freeNodes
    BY <1>1
  <1>3. seq \in [1 .. k -> BlockIds]
    BY <1>1, <1>2
  <1>4. seq \in Seq(BlockIds) /\ Len(seq) = k
    BY <1>3
  <1> QED BY <1>1, <1>2, <1>4 DEF Distinct

\* What a batch is after k of the blocks it needs.
Gathered(t, n, k, needed) ==
  \E c, f, m, h :
    /\ t = Batched(c, f, m, h) /\ BatchSound(c, f, m, h, held, n) /\ m <= MaxFreeBlocks
    /\ k = needed => Len(h) = n

LEMMA BatchGathered ==
  ASSUME PoolSound, NEW n \in Batches, NEW k \in 0 .. BlocksNeeded(TakenFromBlocks(n), n),
         NEW seq \in LentNext(k)
  PROVE  Gathered(WithBlocks(TakenFromBlocks(n), seq, n), n, k, BlocksNeeded(TakenFromBlocks(n), n))
  <1> DEFINE s == TakenFromBlocks(n)
             needed == BlocksNeeded(s, n)
  <1>1. n \in Nat /\ MaxFreeBlocks \in Nat
    BY AdaptivePoolAssumption
  <1>2. Taken(s, freeNodes, totallyFree, held, n)
    BY <1>1, TakenSound DEF PoolSound
  <1> HIDE DEF s
  <1>3. PICK c, f, m, h :
          /\ s = Batched(c, f, m, h) /\ BatchSound(c, f, m, h, held, n)
          /\ DOMAIN f = DOMAIN freeNodes /\ m <= totallyFree
          /\ Len(h) < n => c = <<>>
    BY <1>2 DEF Taken
  <1>4. m \in Nat /\ totallyFree \in Nat /\ Len(h) \in Nat /\ Len(h) <= n
    <2>1. Memory(f, held \cup ToSet(h)) /\ m = Cardinality(Whole(f))
      BY <1>3 DEF BatchSound, Sound
    <2>2. Memory(freeNodes, held) /\ totallyFree = Cardinality(Whole(freeNodes))
      BY DEF PoolSound, Sound
    <2>3. m \in Nat
      BY <2>1, WholeFinite
    <2>4. totallyFree \in Nat
      BY <2>2, WholeFinite
    <2> QED BY <1>3, <2>3, <2>4 DEF BatchSound
  <1>5. m <= MaxFreeBlocks
    BY <1>1, <1>3, <1>4 DEF PoolSound
  <1>6. needed \in Nat
    <2>1. Len(s.chain) = Len(h)
      BY <1>3 DEF Batched
    <2> QED BY <1>1, <1>4, <2>1, EnoughBlocks
  <1>7. k \in Nat /\ k <= needed
    BY <1>6 DEF s
  <1>8. /\ seq \in Seq(BlockIds) /\ Len(seq) = k /\ Distinct(seq)
        /\ \A j \in DOMAIN seq : seq[j] \notin DOMAIN f
    BY <1>3, <1>7, LentNextTyped
  <1> HIDE DEF needed
  <1>9. Added(WithBlocks(s, seq, n), m, held, n, k, needed)
    BY <1>1, <1>3, <1>7, <1>8, AddedSound DEF needed
  <1>10. Gathered(WithBlocks(s, seq, n), n, k, needed)
    BY <1>5, <1>9 DEF Added, Gathered
  <1> QED BY <1>10 DEF s, needed

LEMMA StepAllocate ==
  ASSUME IInv, NEW n \in Batches, AllocateNodes(n)
  PROVE  IInv' /\ held \subseteq held' /\ Cardinality(held' \ held) = n
  <1> DEFINE s == TakenFromBlocks(n)
             needed == BlocksNeeded(s, n)
  <1>1. alive /\ alive' = alive /\ PoolSound
    BY DEF AllocateNodes, IInv
  <1>2. PICK seq \in LentNext(needed) : /\ Becomes(WithBlocks(s, seq, n))
                                        /\ held' = held \cup ToSet(WithBlocks(s, seq, n).chain)
    BY DEF AllocateNodes
  <1>3. needed \in 0 .. needed
    <2>1. n \in Nat
      BY AdaptivePoolAssumption
    <2>2. Taken(s, freeNodes, totallyFree, held, n)
      BY <1>1, <2>1, TakenSound DEF PoolSound
    <2> HIDE DEF s
    <2>3. PICK c, f, m, h : s = Batched(c, f, m, h) /\ BatchSound(c, f, m, h, held, n)
      BY <2>2 DEF Taken
    <2>4. Len(s.chain) \in Nat /\ Len(s.chain) <= n
      BY <2>3 DEF Batched, BatchSound
    <2>5. needed \in Nat
      BY <2>1, <2>4, EnoughBlocks
    <2> HIDE DEF needed
    <2> QED BY <2>5
  <1>4. Gathered(WithBlocks(s, seq, n), n, needed, needed)
    BY <1>1, <1>2, <1>3, BatchGathered
  <1> DEFINE t == WithBlocks(s, seq, n)
  <1> HIDE DEF t
  <1>5. PICK c, f, m, h :
          /\ t = Batched(c, f, m, h) /\ BatchSound(c, f, m, h, held, n) /\ m <= MaxFreeBlocks
          /\ Len(h) = n
    BY <1>4 DEF Gathered, t
  <1>6. container' = c /\ freeNodes' = f /\ totallyFree' = m /\ held' = held \cup ToSet(h)
    BY <1>2, <1>5 DEF Becomes, Batched, t
  <1>7. IInv'
    BY <1>1, <1>5, <1>6 DEF IInv, PoolSound, BatchSound
  <1>8. h \in Seq(Nodes) /\ Distinct(h) /\ ToSet(h) \cap held = {}
    BY <1>5 DEF BatchSound
  <1>9. held' \ held = ToSet(h)
    BY <1>6, <1>8
  <1>10. Cardinality(ToSet(h)) = Len(h)
    BY <1>8, DistinctCount
  <1> QED BY <1>5, <1>6, <1>7, <1>9, <1>10

LEMMA SoundIs ==
  ASSUME NEW s, NEW out, SoundState(s, out)
  PROVE  Sound(s.container, s.free, s.total, out)
  BY DEF SoundState, State

LEMMA StepAllocateThrows ==
  ASSUME IInv, NEW n \in Batches, AllocateThrows(n)
  PROVE  IInv' /\ held' = held
  <1> DEFINE s == TakenFromBlocks(n)
             needed == BlocksNeeded(s, n)
  <1>1. alive /\ alive' = alive /\ held' = held /\ PoolSound
    BY DEF AllocateThrows, IInv
  <1>2. PICK k \in 0 .. needed - 1 : \E seq \in LentNext(k) : Becomes(RolledBack(WithBlocks(s, seq, n)))
    BY DEF AllocateThrows
  <1>3. PICK seq \in LentNext(k) : Becomes(RolledBack(WithBlocks(s, seq, n)))
    BY <1>2
  <1>4. k \in 0 .. needed
    <2>1. n \in Nat
      BY AdaptivePoolAssumption
    <2>2. Taken(s, freeNodes, totallyFree, held, n)
      BY <1>1, <2>1, TakenSound DEF PoolSound
    <2> HIDE DEF s
    <2>3. PICK c, f, m, h : s = Batched(c, f, m, h) /\ BatchSound(c, f, m, h, held, n)
      BY <2>2 DEF Taken
    <2>4. Len(s.chain) \in Nat /\ Len(s.chain) <= n
      BY <2>3 DEF Batched, BatchSound
    <2>5. needed \in Nat
      BY <2>1, <2>4, EnoughBlocks
    <2> HIDE DEF needed
    <2> QED BY <2>5
  <1> DEFINE t == WithBlocks(s, seq, n)
  <1>5. Gathered(t, n, k, needed)
    BY <1>1, <1>4, BatchGathered
  <1>6. Becomes(RolledBack(t))
    BY <1>3
  <1> HIDE DEF t, needed, s
  <1>7. PICK c, f, m, h :
          /\ t = Batched(c, f, m, h) /\ BatchSound(c, f, m, h, held, n) /\ m <= MaxFreeBlocks
    BY <1>5 DEF Gathered
  <1>8. Sound(c, f, m, held \cup ToSet(h)) /\ h \in Seq(Nodes) /\ Distinct(h) /\ ToSet(h) \cap held = {}
    BY <1>7 DEF BatchSound
  <1> DEFINE r == RolledBack(t)
  <1>9. Sound(r.container, r.free, r.total, held) /\ r.total <= MaxFreeBlocks
    <2>1. t.chain = h /\ t.container = c /\ t.free = f /\ t.total = m
      BY <1>7 DEF Batched
    <2>2. CASE h = <<>>
      <3>1. r = State(c, f, m)
        BY <2>1, <2>2 DEF RolledBack, State
      <3>2. ToSet(h) = {}
        BY <2>2 DEF ToSet
      <3>3. held \cup ToSet(h) = held
        BY <3>2
      <3> HIDE DEF r
      <3> QED BY <1>7, <1>8, <3>1, <3>3 DEF State
    <2>3. CASE h # <<>>
      <3>1. r = Deallocated(State(c, f, m), h)
        BY <2>1, <2>3 DEF RolledBack, State
      <3>2. SoundState(State(c, f, m), held \cup ToSet(h)) /\ ToSet(h) \subseteq held \cup ToSet(h)
        BY <1>8 DEF SoundState
      <3>3. /\ SoundState(Deallocated(State(c, f, m), h), (held \cup ToSet(h)) \ ToSet(h))
            /\ Deallocated(State(c, f, m), h).total <= MaxFreeBlocks
        BY <1>8, <3>2, DeallocatedSound
      <3>4. (held \cup ToSet(h)) \ ToSet(h) = held
        BY <1>8
      <3> HIDE DEF r
      <3>5. SoundState(r, held) /\ r.total <= MaxFreeBlocks
        BY <3>1, <3>3, <3>4
      <3> QED BY <3>5, SoundIs
    <2> QED BY <2>2, <2>3
  <1>10. container' = r.container /\ freeNodes' = r.free /\ totallyFree' = r.total
    BY <1>6 DEF Becomes
  <1> HIDE DEF r
  <1>11. IInv'
    BY <1>1, <1>9, <1>10 DEF IInv, PoolSound
  <1> QED BY <1>1, <1>11

LEMMA ChainTyped ==
  ASSUME held \subseteq Nodes, NEW c \in Chains
  PROVE  c \in Seq(Nodes) /\ Distinct(c) /\ ToSet(c) \subseteq held
  <1>1. PICK n \in Batches : c \in [1 .. n -> held]
    BY DEF Chains
  <1>2. \A i, j \in DOMAIN c : c[i] = c[j] => i = j
    BY DEF Chains
  <1>3. n \in Nat
    BY AdaptivePoolAssumption
  <1>4. DOMAIN c = 1 .. n /\ \A i \in 1 .. n : c[i] \in held /\ c[i] \in Nodes
    BY <1>1
  <1>5. c \in [1 .. n -> Nodes]
    BY <1>1, <1>4
  <1>6. c \in Seq(Nodes)
    BY <1>3, <1>5
  <1>7. ToSet(c) \subseteq held
    BY <1>4 DEF ToSet
  <1> QED BY <1>2, <1>6, <1>7 DEF Distinct

LEMMA PoolIsSound ==
  ASSUME PoolSound
  PROVE  SoundState(Pool, held) /\ held \subseteq Nodes
  <1>1. Pool = State(container, freeNodes, totallyFree)
    BY DEF Pool, State
  <1> QED BY <1>1 DEF PoolSound, SoundState, Sound, Memory

LEMMA StepDeallocate ==
  ASSUME IInv, NEW c \in Chains, DeallocateNodes(c)
  PROVE  IInv' /\ held' \subseteq held
  <1> DEFINE r == Deallocated(Pool, c)
  <1>1. alive /\ alive' = alive /\ held' = held \ ToSet(c) /\ PoolSound /\ Becomes(r)
    BY DEF DeallocateNodes, IInv
  <1>2. SoundState(Pool, held) /\ held \subseteq Nodes
    BY <1>1, PoolIsSound
  <1>3. SoundState(r, held \ ToSet(c)) /\ r.total <= MaxFreeBlocks
    BY <1>2, ChainTyped, DeallocatedSound
  <1> HIDE DEF r
  <1>4. Sound(r.container, r.free, r.total, held \ ToSet(c))
    BY <1>3, SoundIs
  <1>5. container' = r.container /\ freeNodes' = r.free /\ totallyFree' = r.total
    BY <1>1 DEF Becomes
  <1>6. IInv'
    BY <1>1, <1>3, <1>4, <1>5 DEF IInv, PoolSound
  <1> QED BY <1>1, <1>6

LEMMA StepDeallocateFreeBlocks ==
  ASSUME IInv, DeallocateFreeBlocks
  PROVE  IInv' /\ held' = held
  <1> DEFINE r == Limited(Pool, 0)
  <1>1. alive /\ alive' = alive /\ held' = held /\ PoolSound /\ Becomes(r)
    BY DEF DeallocateFreeBlocks, IInv
  <1>2. SoundState(Pool, held)
    BY <1>1, PoolIsSound
  <1>3. SoundState(r, held) /\ r.total <= 0
    BY <1>2, LimitedSound
  <1> HIDE DEF r
  <1>4. Sound(r.container, r.free, r.total, held)
    BY <1>3, SoundIs
  <1>5. r.total <= MaxFreeBlocks
    <2>1. Memory(r.free, held) /\ r.total = Cardinality(Whole(r.free))
      BY <1>4 DEF Sound
    <2>2. r.total \in Nat
      BY <2>1, WholeFinite
    <2> QED BY <1>3, <2>2, AdaptivePoolAssumption
  <1>6. container' = r.container /\ freeNodes' = r.free /\ totallyFree' = r.total
    BY <1>1 DEF Becomes
  <1>7. IInv'
    BY <1>1, <1>4, <1>5, <1>6 DEF IInv, PoolSound
  <1> QED BY <1>1, <1>7

\* A pool without a block.
LEMMA EmptySound ==
  ASSUME NEW f, f = NoBlocks
  PROVE  Sound(<<>>, f, 0, {}) /\ DOMAIN f = {} /\ 0 <= MaxFreeBlocks
  <1>1. DOMAIN f = {}
    BY DEF NoBlocks
  <1>2. f \in [{} -> Seq(Nodes)]
    BY DEF NoBlocks
  <1>3. Lists(f)
    BY <1>1, <1>2 DEF Lists
  <1>4. IsFiniteSet({}) /\ Cardinality({}) = 0
    BY FS_EmptySet
  <1>5. Memory(f, {})
    BY <1>1, <1>3, <1>4 DEF Memory
  <1>6. <<>> \in Seq(DOMAIN f) /\ InOrder(Lens(f), <<>>)
    BY DEF InOrder
  <1>7. Ordered(<<>>, f)
    BY <1>1, <1>6 DEF Ordered
  <1>8. Whole(f) = {}
    BY <1>1 DEF Whole
  <1> QED BY <1>1, <1>4, <1>5, <1>7, <1>8, AdaptivePoolAssumption DEF Sound

LEMMA StepDestroy ==
  ASSUME IInv, Destroy
  PROVE  IInv' /\ held' = held
  <1> DEFINE g == [b \in DOMAIN freeNodes \ ToSet(container) |-> freeNodes[b]]
  <1>1. /\ held = {} /\ held' = held /\ PoolSound
        /\ container' = <<>> /\ totallyFree' = 0 /\ freeNodes' = g
    BY DEF Destroy, IInv, Becomes
  <1>2. Memory(freeNodes, {}) /\ Ordered(container, freeNodes)
    BY <1>1 DEF PoolSound, Sound
  <1>3. ASSUME NEW b \in DOMAIN freeNodes PROVE b \in ToSet(container)
    <2>1. Len(freeNodes[b]) = RealNumNode
      BY <1>2, ListOf
    <2>2. freeNodes[b] # <<>>
      BY <2>1, AdaptivePoolAssumption
    <2> QED BY <1>2, <2>2 DEF Ordered
  <1>4. DOMAIN freeNodes \ ToSet(container) = {}
    BY <1>3
  <1>5. g = NoBlocks
    BY <1>4 DEF NoBlocks
  <1> HIDE DEF g
  <1>6. Sound(<<>>, g, 0, {}) /\ DOMAIN g = {} /\ 0 <= MaxFreeBlocks
    BY <1>5, EmptySound
  <1>7. IInv'
    BY <1>1, <1>6 DEF IInv, PoolSound
  <1> QED BY <1>1, <1>7

LEMMA StepNext ==
  ASSUME IInv, [Next]_vars
  PROVE  IInv'
  <1>1. ASSUME Construct PROVE IInv'
    BY <1>1 DEF Construct, IInv, PoolSound
  <1>2. ASSUME UNCHANGED vars PROVE IInv'
    BY <1>2 DEF vars, IInv, PoolSound
  <1> QED BY <1>1, <1>2, StepAllocate, StepAllocateThrows, StepDeallocate, StepDeallocateFreeBlocks,
             StepDestroy DEF Next

\* The loop of the constructor leaves the pool alone; the pool that is used
\* takes steps of Next.
LEMMA PoolSteps ==
  ASSUME [PoolNext]_allVars
  PROVE  [Next]_vars
  <1>1. UNCHANGED allVars => UNCHANGED vars
    BY DEF allVars
  <1> QED BY <1>1 DEF PoolNext, Constructing, Operating, LeftAlone

\* The free lists hold every node nobody holds, the multiset the blocks that
\* have one, in order, and m_totally_free_blocks counts the wholly free ones.
THEOREM AdaptivePoolInvariant == PoolSpec => []IInv
  <1>1. PoolInit => IInv
    <2> SUFFICES ASSUME PoolInit PROVE IInv
      OBVIOUS
    <2>1. container = <<>> /\ freeNodes = NoBlocks /\ totallyFree = 0 /\ held = {}
      BY DEF PoolInit, Init
    <2> QED BY <2>1, EmptySound DEF IInv, PoolSound
  <1>2. IInv /\ [PoolNext]_allVars => IInv'
    BY PoolSteps, StepNext
  <1> QED BY <1>1, <1>2, PTL DEF PoolSpec

-----------------------------------------------------------------------------
(* What the runs check *)

LEMMA OrderedBlocks ==
  ASSUME PoolSound
  PROVE  BlocksOrdered
  <1>1. /\ Memory(freeNodes, held) /\ Ordered(container, freeNodes)
        /\ totallyFree = Cardinality(Whole(freeNodes)) /\ Lists(freeNodes)
    BY DEF PoolSound, Sound, Memory
  <1>2. /\ Len(container) \in Nat /\ DOMAIN container = 1 .. Len(container)
        /\ \A i \in 1 .. Len(container) : container[i] \in DOMAIN freeNodes
        /\ InOrder(Lens(freeNodes), container)
    BY <1>1 DEF Ordered
  <1>3. Pool = State(container, freeNodes, totallyFree)
    BY DEF Pool, State
  <1>4. ASSUME NEW i \in 1 .. Len(container) - 1
        PROVE  Before(Pool, container[i], container[i + 1])
    <2>1. i \in 1 .. Len(container) /\ i + 1 \in 1 .. Len(container) /\ i < i + 1
      BY <1>2
    <2>2. Earlier(Lens(freeNodes), container[i], container[i + 1])
      BY <1>2, <2>1 DEF InOrder
    <2> QED BY <1>1, <1>2, <1>3, <2>1, <2>2, BeforeIsEarlier
  <1>5. \A b \in DOMAIN freeNodes : Count(Pool, b) = Len(freeNodes[b])
    BY DEF Count, Pool
  <1>6. ASSUME NEW i \in DOMAIN container PROVE Count(Pool, container[i]) \in 1 .. RealNumNode
    <2> DEFINE b == container[i]
    <2>1. b \in DOMAIN freeNodes /\ b \in ToSet(container)
      BY <1>2 DEF ToSet
    <2> HIDE DEF b
    <2>2. freeNodes[b] # <<>> /\ freeNodes[b] \in Seq(Nodes)
      BY <1>1, <2>1 DEF Ordered, Lists
    <2>3. Len(freeNodes[b]) # 0
      BY <2>2
    <2>4. Len(freeNodes[b]) \in 0 .. RealNumNode
      BY <1>1, <2>1, ListOf
    <2>5. Len(freeNodes[b]) \in 1 .. RealNumNode
      BY <2>3, <2>4, AdaptivePoolAssumption
    <2> QED BY <1>5, <2>1, <2>5 DEF b
  <1>7. {b \in Lent : Count(Pool, b) = RealNumNode} = Whole(freeNodes)
    BY <1>5 DEF Lent, Whole
  <1> QED BY <1>1, <1>4, <1>6, <1>7 DEF BlocksOrdered

LEMMA ConservedNodes ==
  ASSUME PoolSound
  PROVE  NodesConserved
  <1>1. Memory(freeNodes, held)
    BY DEF PoolSound, Sound
  <1>2. ASSUME NEW b \in Lent
        PROVE  /\ ToSet(freeNodes[b]) \cup {x \in held : x.block = b}
                    = {Node(b, k) : k \in 0 .. RealNumNode - 1}
               /\ ToSet(freeNodes[b]) \cap held = {}
               /\ Cardinality(ToSet(freeNodes[b])) = Len(freeNodes[b])
    <2>1. /\ freeNodes[b] \in Seq(Nodes) /\ Distinct(freeNodes[b])
          /\ ToSet(freeNodes[b]) \subseteq NodesOf(b) /\ b \in BlockIds /\ b \in DOMAIN freeNodes
      BY <1>1, <1>2, ListOf DEF Lent
    <2>2. \A x : x \in NodesOf(b) <=> \E k \in 0 .. RealNumNode - 1 : x = Node(b, k)
      BY <2>1 DEF NodesOf, Nodes, Node
    <2>3. \A x \in held : x.block = b <=> x \in NodesOf(b)
      BY <1>1 DEF Memory, NodesOf
    <2>4. \A x \in NodesOf(b) : x \in ToSet(freeNodes[b]) \/ x \in held
      BY <1>1, <2>1 DEF Memory, NodesOf
    <2>5. \A x : x \in ToSet(freeNodes[b]) \cup {y \in held : y.block = b}
                   <=> x \in {Node(b, k) : k \in 0 .. RealNumNode - 1}
      BY <2>1, <2>2, <2>3, <2>4
    <2>6. ToSet(freeNodes[b]) \cap held = {}
      BY <1>1, <2>1 DEF Memory
    <2>7. Cardinality(ToSet(freeNodes[b])) = Len(freeNodes[b])
      BY <2>1, DistinctCount
    <2>8. ToSet(freeNodes[b]) \cup {y \in held : y.block = b} = {Node(b, k) : k \in 0 .. RealNumNode - 1}
      BY <2>5
    <2> QED BY <2>6, <2>7, <2>8
  <1>3. \A x \in held : x.block \in Lent
    BY <1>1 DEF Memory, Lent
  <1> QED BY <1>2, <1>3 DEF NodesConserved

LEMMA ReachableBlocks ==
  ASSUME IInv
  PROVE  BlocksReachable
  <1>1. /\ Memory(freeNodes, held) /\ Ordered(container, freeNodes) /\ Lists(freeNodes)
    BY DEF IInv, PoolSound, Sound, Memory
  <1>2. ToSet(container) \subseteq DOMAIN freeNodes /\ Distinct(container)
    BY <1>1, OrderedHas
  <1>3. \A b : b \in ToSet(container) <=> b \in DOMAIN freeNodes /\ freeNodes[b] # <<>>
    BY <1>1, <1>2 DEF Ordered
  <1>4. ToSet(container) = {b \in Lent : freeNodes[b] # <<>>}
    BY <1>3 DEF Lent
  <1>5. container \in Seq(DOMAIN freeNodes)
    BY <1>1 DEF Ordered
  <1>6. Cardinality(ToSet(container)) = Len(container)
    BY <1>2, <1>5, DistinctCount
  <1> QED BY <1>4, <1>6 DEF BlocksReachable, IInv, Lent

\* priv_invariants, and what it leaves out: after every operation, also one
\* whose segment manager threw half-way, the blocks are in order and counted,
\* none is forgotten, and each node is in one place.
THEOREM AdaptivePoolInvariants == PoolSpec => []PoolInvariants
  <1>1. IInv => PoolInvariants
    BY OrderedBlocks, ConservedNodes, ReachableBlocks DEF PoolInvariants, IInv
  <1> QED BY <1>1, AdaptivePoolInvariant, PTL

\* The pool never keeps more wholly free blocks than the template argument
\* allows.
THEOREM AdaptivePoolFreeBlocksLimited == PoolSpec => []FreeBlocksLimited
  <1>1. IInv => FreeBlocksLimited
    BY DEF IInv, PoolSound, FreeBlocksLimited
  <1> QED BY <1>1, AdaptivePoolInvariant, PTL

-----------------------------------------------------------------------------
(* Nodes counted *)

\* The nodes callers hold of the blocks in s.
HeldIn(s) == {x \in held : x.block \in s}

LEMMA HeldOfBlock ==
  ASSUME PoolSound, NEW b \in Lent
  PROVE  /\ IsFiniteSet(HeldIn({b})) /\ Len(freeNodes[b]) \in 0 .. RealNumNode
         /\ Cardinality(HeldIn({b})) = RealNumNode - Len(freeNodes[b])
  <1> DEFINE S == NodesOf(b)
             T == ToSet(freeNodes[b])
  <1>1. Memory(freeNodes, held) /\ b \in DOMAIN freeNodes
    BY DEF PoolSound, Sound, Lent
  <1>2. /\ freeNodes[b] \in Seq(Nodes) /\ Distinct(freeNodes[b]) /\ T \subseteq S /\ b \in BlockIds
        /\ Len(freeNodes[b]) \in 0 .. RealNumNode
    BY <1>1, ListOf
  <1>3. IsFiniteSet(S) /\ Cardinality(S) = RealNumNode
    BY <1>2, NodesOfBlock
  <1>4. Cardinality(T) = Len(freeNodes[b])
    BY <1>2, DistinctCount
  <1>5. HeldIn({b}) = S \ T
    <2>1. \A x \in held : x \in Nodes /\ (x.block = b => x \notin T)
      BY <1>1 DEF Memory
    <2>2. \A x \in S : x.block = b /\ x \in Nodes /\ (x \in T \/ x \in held)
      BY <1>1 DEF NodesOf, Memory
    <2>3. \A x : x \in S <=> x \in Nodes /\ x.block = b
      BY DEF NodesOf
    <2>4. \A x : x \in HeldIn({b}) <=> x \in held /\ x.block = b
      BY DEF HeldIn
    <2> HIDE DEF S, T
    <2>5. \A x : x \in HeldIn({b}) <=> x \in S \ T
      BY <2>1, <2>2, <2>3, <2>4
    <2> QED BY <2>5
  <1> HIDE DEF S, T
  <1>6. S \cap T = T
    BY <1>2
  <1>7. IsFiniteSet(S \ T) /\ Cardinality(S \ T) = Cardinality(S) - Cardinality(S \cap T)
    BY <1>3, FS_Difference
  <1> QED BY <1>2, <1>3, <1>4, <1>5, <1>6, <1>7

LEMMA HeldInMore ==
  ASSUME NEW s, NEW b \in s, IsFiniteSet(HeldIn(s \ {b})), IsFiniteSet(HeldIn({b}))
  PROVE  /\ IsFiniteSet(HeldIn(s))
         /\ Cardinality(HeldIn(s)) = Cardinality(HeldIn(s \ {b})) + Cardinality(HeldIn({b}))
  <1> DEFINE S == HeldIn(s \ {b})
             T == HeldIn({b})
  <1>1. HeldIn(s) = S \cup T /\ S \cap T = {}
    BY DEF HeldIn
  <1> HIDE DEF S, T
  <1>2. IsFiniteSet(S \cup T) /\ Cardinality(S \cup T) = Cardinality(S) + Cardinality(T) - Cardinality(S \cap T)
    BY FS_Union DEF S, T
  <1>3. Cardinality({}) = 0 /\ Cardinality(S) \in Nat /\ Cardinality(T) \in Nat
    BY FS_EmptySet, FS_CardinalityType DEF S, T
  <1>4. Cardinality(S \cup T) = Cardinality(S) + Cardinality(T)
    <2>1. Cardinality(S \cap T) = 0
      BY <1>1, <1>3
    <2> DEFINE u == S \cup T
               i == S \cap T
    <2>2. Cardinality(u) = Cardinality(S) + Cardinality(T) - Cardinality(i) /\ Cardinality(i) = 0
      BY <1>2, <2>1
    <2> HIDE DEF u, i
    <2>3. Cardinality(u) = Cardinality(S) + Cardinality(T)
      BY <1>3, <2>2
    <2> QED BY <2>3 DEF u
  <1> QED BY <1>1, <1>2, <1>4 DEF S, T

\* The function inside FreeCount: the nodes in the free lists of s, added up.
IsCount(g) ==
  g = [s \in SUBSET Lent |->
         IF s = {} THEN 0
         ELSE Len(freeNodes[CHOOSE x \in s : TRUE]) + g[s \ {CHOOSE x \in s : TRUE}]]

\* What it says of s.
Counted(s) == RealNumNode * Cardinality(s) - Cardinality(HeldIn(s))

LEMMA HeldFinite ==
  ASSUME PoolSound, NEW s \in SUBSET Lent
  PROVE  IsFiniteSet(s) /\ Cardinality(s) \in Nat /\ IsFiniteSet(HeldIn(s)) /\ Cardinality(HeldIn(s)) \in Nat
  <1>1. IsFiniteSet(Lent)
    BY DEF PoolSound, Sound, Memory, Lent
  <1>2. \A t \in SUBSET Lent : IsFiniteSet(t) /\ Cardinality(t) \in Nat
    BY <1>1, FS_Subset, FS_CardinalityType
  <1> DEFINE n == Cardinality(Lent)
             T == {i \in 0 .. n : \A t \in SUBSET Lent : Cardinality(t) = i => IsFiniteSet(HeldIn(t))}
  <1>3. n \in Nat /\ \A t \in SUBSET Lent : Cardinality(t) \in 0 .. n
    <2>1. n \in Nat
      BY <1>2
    <2>2. \A t \in SUBSET Lent : Cardinality(t) <= n
      BY <1>1, FS_Subset
    <2> HIDE DEF n
    <2> QED BY <1>2, <2>1, <2>2
  <1> HIDE DEF n
  <1>4. 0 \in T
    <2>1. HeldIn({}) = {} /\ IsFiniteSet({})
      BY FS_EmptySet DEF HeldIn
    <2>2. \A t \in SUBSET Lent : Cardinality(t) = 0 => t = {}
      BY <1>2, FS_EmptySet
    <2> QED BY <1>3, <2>1, <2>2
  <1>5. ASSUME NEW i \in 1 .. n, i - 1 \in T PROVE i \in T
    <2> SUFFICES ASSUME NEW t \in SUBSET Lent, Cardinality(t) = i PROVE IsFiniteSet(HeldIn(t))
      OBVIOUS
    <2>1. t # {}
      BY FS_EmptySet
    <2>2. PICK b \in t : TRUE
      BY <2>1
    <2>3. Cardinality(t \ {b}) = i - 1 /\ t \ {b} \in SUBSET Lent
      BY <1>2, <2>2, FS_RemoveElement
    <2>4. IsFiniteSet(HeldIn(t \ {b}))
      BY <1>5, <2>3
    <2>5. IsFiniteSet(HeldIn({b}))
      BY <2>2, HeldOfBlock
    <2> QED BY <2>2, <2>4, <2>5, HeldInMore
  <1> HIDE DEF T
  <1>6. \A i \in 0 .. n : i \in T
    BY <1>3, <1>4, <1>5, Induction
  <1>7. IsFiniteSet(HeldIn(s))
    <2>1. Cardinality(s) \in 0 .. n
      BY <1>3
    <2> QED BY <1>6, <2>1 DEF T
  <1> QED BY <1>2, <1>7, FS_CardinalityType

\* One block more.
LEMMA CountedMore ==
  ASSUME PoolSound, NEW s \in SUBSET Lent, NEW b \in s
  PROVE  /\ Counted(s) = Len(freeNodes[b]) + Counted(s \ {b})
         /\ Cardinality(s \ {b}) = Cardinality(s) - 1 /\ s \ {b} \in SUBSET Lent
  <1> DEFINE R == RealNumNode
             t == s \ {b}
             c == Cardinality(t)
             d == Cardinality(HeldIn(t))
             e == Cardinality(HeldIn({b}))
  <1>1. R \in Nat /\ t \in SUBSET Lent /\ b \in Lent
    BY AdaptivePoolAssumption
  <1>2. /\ IsFiniteSet(s) /\ Cardinality(s) \in Nat /\ IsFiniteSet(HeldIn(t)) /\ d \in Nat /\ c \in Nat
    BY <1>1, HeldFinite
  <1>3. /\ IsFiniteSet(HeldIn({b})) /\ Len(freeNodes[b]) \in 0 .. R
        /\ e = R - Len(freeNodes[b])
    BY <1>1, HeldOfBlock
  <1>4. c = Cardinality(s) - 1
    BY <1>2, FS_RemoveElement
  <1>5. Cardinality(HeldIn(s)) = d + e
    BY <1>2, <1>3, HeldInMore
  <1>6. Counted(s) = R * (c + 1) - (d + e) /\ Counted(t) = R * c - d
    <2>1. Cardinality(s) = c + 1
      <3> HIDE DEF c
      <3> QED BY <1>2, <1>4
    <2> QED BY <1>5, <2>1 DEF Counted
  <1> HIDE DEF R, t, c, d, e
  <1>7. R * (c + 1) = R * c + R /\ R * c \in Nat
    BY <1>1, <1>2
  <1> DEFINE x == R * c
  <1> HIDE DEF x
  <1>8. (x + R) - (d + e) = Len(freeNodes[b]) + (x - d)
    <2> DEFINE y == Len(freeNodes[b])
    <2>1. x \in Nat
      BY <1>7 DEF x
    <2>2. y \in Nat /\ e = R - y
      BY <1>3
    <2> HIDE DEF y
    <2>3. (x + R) - (d + e) = y + (x - d)
      BY <1>1, <1>2, <2>1, <2>2
    <2> QED BY <2>3 DEF y
  <1>9. Counted(s) = Len(freeNodes[b]) + Counted(t)
    BY <1>6, <1>7, <1>8 DEF x
  <1> QED BY <1>1, <1>4, <1>9 DEF t, c

LEMMA CountExists ==
  ASSUME PoolSound
  PROVE  \E g : IsCount(g)
  <1> DEFINE g == [s \in SUBSET Lent |-> Counted(s)]
             pick(s) == CHOOSE x \in s : TRUE
  <1>1. Counted({}) = 0
    <2>1. HeldIn({}) = {}
      BY DEF HeldIn
    <2>2. Cardinality({}) = 0 /\ RealNumNode \in Nat
      BY FS_EmptySet, AdaptivePoolAssumption
    <2> QED BY <2>1, <2>2 DEF Counted
  <1>2. ASSUME NEW s \in SUBSET Lent, s # {}
        PROVE  Counted(s) = Len(freeNodes[pick(s)]) + g[s \ {pick(s)}]
    <2>1. pick(s) \in s
      BY <1>2
    <2> HIDE DEF pick
    <2>2. s \ {pick(s)} \in SUBSET Lent /\ Counted(s) = Len(freeNodes[pick(s)]) + Counted(s \ {pick(s)})
      BY <2>1, CountedMore
    <2> QED BY <2>2
  <1>3. g = [s \in SUBSET Lent |-> IF s = {} THEN 0 ELSE Len(freeNodes[pick(s)]) + g[s \ {pick(s)}]]
    <2>1. \A s \in SUBSET Lent :
            Counted(s) = IF s = {} THEN 0 ELSE Len(freeNodes[pick(s)]) + g[s \ {pick(s)}]
      <3> HIDE DEF g, pick
      <3> QED BY <1>1, <1>2
    <2> QED BY <2>1
  <1>4. IsCount(g)
    <2> HIDE DEF g
    <2> QED BY <1>3 DEF IsCount
  <1> QED BY <1>4

LEMMA CountIs ==
  ASSUME PoolSound, NEW g, IsCount(g)
  PROVE  g[Lent] = Counted(Lent)
  <1> DEFINE n == Cardinality(Lent)
             T == {i \in 0 .. n : \A s \in SUBSET Lent : Cardinality(s) = i => g[s] = Counted(s)}
             pick(s) == CHOOSE x \in s : TRUE
  <1>1. n \in Nat /\ \A s \in SUBSET Lent : IsFiniteSet(s)
    BY HeldFinite
  <1>2. \A s \in SUBSET Lent : g[s] = IF s = {} THEN 0 ELSE Len(freeNodes[pick(s)]) + g[s \ {pick(s)}]
    BY DEF IsCount
  <1> HIDE DEF n
  <1>3. 0 \in T
    <2>1. Counted({}) = 0
      <3>1. HeldIn({}) = {}
        BY DEF HeldIn
      <3>2. Cardinality({}) = 0 /\ RealNumNode \in Nat
        BY FS_EmptySet, AdaptivePoolAssumption
      <3> QED BY <3>1, <3>2 DEF Counted
    <2>2. \A s \in SUBSET Lent : Cardinality(s) = 0 => s = {}
      BY <1>1, FS_EmptySet
    <2>3. g[{}] = 0
      BY <1>2
    <2>4. \A s \in SUBSET Lent : Cardinality(s) = 0 => g[s] = Counted(s)
      BY <2>1, <2>2, <2>3
    <2>5. 0 \in 0 .. n
      BY <1>1
    <2> QED BY <2>4, <2>5
  <1>4. ASSUME NEW i \in 1 .. n, i - 1 \in T PROVE i \in T
    <2> SUFFICES ASSUME NEW s \in SUBSET Lent, Cardinality(s) = i PROVE g[s] = Counted(s)
      OBVIOUS
    <2> DEFINE b == pick(s)
    <2>1. s # {}
      BY FS_EmptySet
    <2>2. b \in s
      BY <2>1
    <2>3. g[s] = Len(freeNodes[b]) + g[s \ {b}]
      BY <1>2, <2>1
    <2> HIDE DEF b
    <2>4. /\ Counted(s) = Len(freeNodes[b]) + Counted(s \ {b})
          /\ Cardinality(s \ {b}) = i - 1 /\ s \ {b} \in SUBSET Lent
      BY <2>2, CountedMore
    <2>5. g[s \ {b}] = Counted(s \ {b})
      BY <1>4, <2>4
    <2> QED BY <2>3, <2>4, <2>5
  <1> HIDE DEF T
  <1>5. \A i \in 0 .. n : i \in T
    BY <1>1, <1>3, <1>4, Induction
  <1>6. n \in 0 .. n
    BY <1>1
  <1> QED BY <1>5, <1>6 DEF T, n

LEMMA FreeNodesCounted ==
  ASSUME PoolSound
  PROVE  FreeCount = Counted(Lent)
  <1> DEFINE g == CHOOSE h : IsCount(h)
             body(h) == [s \in SUBSET Lent |->
                           IF s = {} THEN 0
                           ELSE Len(freeNodes[CHOOSE x \in s : TRUE]) + h[s \ {CHOOSE x \in s : TRUE}]]
             iter == CHOOSE h : h = body(h)
  <1>1. FreeCount = iter[Lent]
    BY DEF FreeCount, FoldFunctionOnSet, MapThenFoldSet
  <1>2. iter = body(iter)
    <2>1. \E h : h = body(h)
      BY CountExists DEF IsCount
    <2> HIDE DEF body
    <2> QED BY <2>1
  <1>3. IsCount(iter)
    <2> HIDE DEF iter
    <2> QED BY <1>2 DEF IsCount
  <1> HIDE DEF iter
  <1> QED BY <1>1, <1>3, CountIs

\* The count of the refinement is the number of nodes callers hold.
LEMMA CountRead ==
  ASSUME PoolSound
  PROVE  /\ RealNumNode * Cardinality(Lent) - FreeCount = Cardinality(held)
         /\ IsFiniteSet(held) /\ Cardinality(held) \in Nat /\ held \subseteq Nodes
  <1>1. HeldIn(Lent) = held /\ held \subseteq Nodes
    <2>1. held \subseteq Nodes /\ \A x \in held : x.block \in Lent
      BY DEF PoolSound, Sound, Memory, Lent
    <2> QED BY <2>1 DEF HeldIn
  <1>2. Cardinality(Lent) \in Nat /\ IsFiniteSet(held) /\ Cardinality(held) \in Nat
    BY <1>1, HeldFinite
  <1> DEFINE x == RealNumNode * Cardinality(Lent)
  <1>3. x \in Nat
    BY <1>2, AdaptivePoolAssumption
  <1>4. FreeCount = x - Cardinality(held)
    BY <1>1, FreeNodesCounted DEF Counted
  <1> HIDE DEF x
  <1>5. x - FreeCount = Cardinality(held)
    BY <1>2, <1>3, <1>4
  <1> QED BY <1>1, <1>2, <1>5 DEF x

\* The abstract specification counts as this module does.
LEMMA SameCount == \A S : Source!Cardinality(S) = Cardinality(S)
  BY DEF Source!Cardinality, Cardinality

GivenOut == RealNumNode * Cardinality(Lent) - FreeCount

LEMMA GivenOutIs ==
  ASSUME IInv
  PROVE  GivenOut = Cardinality(held) /\ held \subseteq Nodes /\ IsFiniteSet(held) /\ Cardinality(held) \in Nat
  BY CountRead DEF IInv, GivenOut

\* The pool implements NodeSource: a batch gives n nodes nobody held, one that
\* throws gives none, a chain takes back those it names, and the blocks that
\* go back to the segment manager are nobody's.
THEOREM AdaptivePoolImplementsNodeSource == PoolSpec => ImplementsNodeSource
  <1>1. PoolInit => IInv
    <2> SUFFICES ASSUME PoolInit PROVE IInv
      OBVIOUS
    <2>1. container = <<>> /\ freeNodes = NoBlocks /\ totallyFree = 0 /\ held = {}
      BY DEF PoolInit, Init
    <2> QED BY <2>1, EmptySound DEF IInv, PoolSound
  <1>2. PoolInit => Source!Init
    <2> SUFFICES ASSUME PoolInit PROVE Source!Init
      OBVIOUS
    <2>1. held = {} /\ Cardinality({}) = 0
      BY FS_EmptySet DEF PoolInit, Init
    <2>2. GivenOut = Cardinality(held)
      BY <1>1, CountRead DEF IInv, GivenOut
    <2>3. GivenOut = 0
      BY <2>1, <2>2
    <2> QED BY <2>1, <2>3, SameCount DEF Source!Init, GivenOut
  <1>3. IInv /\ IInv' /\ [PoolNext]_allVars => [Source!Next]_<<held, GivenOut>>
    <2> SUFFICES ASSUME IInv, IInv', [PoolNext]_allVars PROVE [Source!Next]_<<held, GivenOut>>
      OBVIOUS
    <2>1. /\ GivenOut = Cardinality(held) /\ held \subseteq Nodes /\ IsFiniteSet(held)
          /\ GivenOut' = Cardinality(held') /\ held' \subseteq Nodes /\ IsFiniteSet(held')
          /\ Cardinality(held) \in Nat /\ Cardinality(held') \in Nat
      <3>1. IInv => /\ GivenOut = Cardinality(held) /\ held \subseteq Nodes /\ IsFiniteSet(held)
                    /\ Cardinality(held) \in Nat
        BY GivenOutIs
      <3>2. IInv' => (/\ GivenOut = Cardinality(held) /\ held \subseteq Nodes /\ IsFiniteSet(held)
                      /\ Cardinality(held) \in Nat)'
        BY GivenOutIs, PTL
      <3>3. Nodes' = Nodes
        BY DEF Nodes
      <3> QED BY <3>1, <3>2, <3>3
    <2> HIDE DEF GivenOut
    <2>2. CASE UNCHANGED held
      BY <2>1, <2>2
    <2>3. ASSUME NEW n \in Batches, AllocateNodes(n) PROVE Source!Next
      <3>1. held \subseteq held' /\ Cardinality(held' \ held) = n /\ n \in Nat
        BY <2>3, StepAllocate, AdaptivePoolAssumption
      <3>2. Cardinality(held') = Cardinality(held) + n
        <4>1. IsFiniteSet(held' \ held)
          BY <2>1, FS_Difference
        <4>2. Cardinality(held \cup (held' \ held)) =
                Cardinality(held) + Cardinality(held' \ held) - Cardinality(held \cap (held' \ held))
          BY <2>1, <4>1, FS_Union
        <4>3. held \cup (held' \ held) = held' /\ held \cap (held' \ held) = {} /\ Cardinality({}) = 0
          BY <3>1, FS_EmptySet
        <4>4. Cardinality(held') = Cardinality(held) + n - 0
          BY <3>1, <4>2, <4>3
        <4> QED BY <2>1, <3>1, <4>4
      <3>3. GivenOut' = GivenOut + n /\ held' \in SUBSET Nodes
        BY <2>1, <3>2
      <3>4. Source!Give(n)
        BY <3>1, <3>3, SameCount DEF Source!Give, GivenOut
      <3> QED BY <3>4 DEF Source!Next
    <2>4. ASSUME NEW n \in Batches, AllocateThrows(n) PROVE UNCHANGED held
      BY <2>4, StepAllocateThrows
    <2>5. ASSUME NEW c \in Chains, DeallocateNodes(c) PROVE Source!Next
      <3>1. held' \subseteq held
        BY <2>5, StepDeallocate
      <3>2. Cardinality(held \ held') = Cardinality(held) - Cardinality(held')
        <4>1. Cardinality(held \ held') = Cardinality(held) - Cardinality(held \cap held')
          BY <2>1, FS_Difference
        <4>2. held \cap held' = held'
          BY <3>1
        <4> QED BY <4>1, <4>2
      <3>3. GivenOut' = GivenOut - Cardinality(held \ held') /\ held' \in SUBSET held
        BY <2>1, <3>1, <3>2
      <3>4. Source!TakeBack
        BY <3>3, SameCount DEF Source!TakeBack, GivenOut
      <3> QED BY <3>4 DEF Source!Next
    <2>6. CASE DeallocateFreeBlocks
      BY <2>2, <2>6, StepDeallocateFreeBlocks
    <2>7. CASE Destroy
      BY <2>2, <2>7, StepDestroy
    <2>8. CASE Construct
      BY <2>2, <2>8 DEF Construct
    <2>9. CASE UNCHANGED vars
      BY <2>2, <2>9 DEF vars
    <2>10. [Next]_vars
      BY PoolSteps
    <2> QED BY <2>2, <2>3, <2>4, <2>5, <2>6, <2>7, <2>8, <2>9, <2>10 DEF Next
  <1>4. [Source!Next]_<<held, GivenOut>> =>
          [Source!Next]_<<held, RealNumNode * Cardinality(Lent) - FreeCount>>
    BY DEF GivenOut
  <1> QED BY <1>2, <1>3, <1>4, AdaptivePoolInvariant, PTL DEF PoolSpec, ImplementsNodeSource, Source!Spec

-----------------------------------------------------------------------------
(* The block's layout: multiples *)

\* Sums and products of multiples are multiples.
LEMMA SumModulo ==
  ASSUME NEW n \in Nat \ {0}, NEW a \in Nat, NEW b \in Nat, a % n = 0, b % n = 0
  PROVE  (a + b) % n = 0
  <1> DEFINE j == a \div n
             k == b \div n
  <1>1. j \in Nat /\ k \in Nat /\ a = n * j /\ b = n * k
    OBVIOUS
  <1> HIDE DEF j, k
  <1>2. a + b = n * (j + k) /\ j + k \in Nat
    BY <1>1
  <1> QED BY <1>2, MultipleModulo

LEMMA ProductModulo ==
  ASSUME NEW n \in Nat \ {0}, NEW a \in Nat, NEW k \in Nat, a % n = 0
  PROVE  (k * a) % n = 0
  <1> DEFINE j == a \div n
  <1>1. j \in Nat /\ a = n * j
    OBVIOUS
  <1> HIDE DEF j
  <1>2. k * a = n * (k * j) /\ k * j \in Nat
    BY <1>1
  <1> QED BY <1>2, MultipleModulo

\* As many as fit, and no more would.
LEMMA Fitting ==
  ASSUME NEW n \in Nat \ {0}, NEW a \in Nat
  PROVE  /\ a \div n \in Nat /\ (a \div n) * n <= a /\ a < (a \div n + 1) * n
         /\ n <= a => 1 <= a \div n
  <1> DEFINE j == a \div n
             r == a % n
  <1>1. j \in Nat /\ r \in 0 .. n - 1 /\ a = n * j + r
    OBVIOUS
  <1> HIDE DEF j, r
  <1>2. j * n = n * j /\ (j + 1) * n = n * j + n
    BY <1>1
  <1>3. j = 0 => n * j = 0
    BY <1>1
  <1> QED BY <1>1, <1>2, <1>3 DEF j

LEMMA FittingMore ==
  ASSUME NEW n \in Nat \ {0}, NEW a \in Nat, NEW b \in Nat, a <= b
  PROVE  a \div n <= b \div n
  <1> DEFINE j == a \div n
             k == b \div n
  <1>1. j \in Nat /\ k \in Nat /\ j * n <= a /\ b < (k + 1) * n
    BY Fitting
  <1> HIDE DEF j, k
  <1>2. CASE k + 1 <= j
    <2>1. (k + 1) * n <= j * n
      BY <1>1, <1>2
    <2> QED BY <1>1, <2>1
  <1>3. j <= k \/ k + 1 <= j
    BY <1>1
  <1> QED BY <1>2, <1>3 DEF j, k

\* get_rounded_size: the next multiple, and never a smaller one for more.
LEMMA RoundedUp ==
  ASSUME NEW n \in Nat \ {0}, NEW to \in Nat \ {0}
  PROVE  Rounded(n, to) \in Nat /\ n <= Rounded(n, to) /\ Rounded(n, to) % to = 0
  <1> DEFINE q == (n - 1) \div to
  <1>1. q \in Nat /\ n - 1 < (q + 1) * to
    <2>1. n - 1 \in Nat
      OBVIOUS
    <2> QED BY <2>1, Fitting
  <1> HIDE DEF q
  <1>2. (q + 1) * to \in Nat /\ (q + 1) * to = to * (q + 1) /\ q + 1 \in Nat
    BY <1>1
  <1>3. (to * (q + 1)) % to = 0
    BY <1>2, MultipleModulo
  <1>4. n <= (q + 1) * to
    BY <1>1, <1>2
  <1>5. Rounded(n, to) = (q + 1) * to
    BY DEF Rounded, q
  <1> QED BY <1>2, <1>3, <1>4, <1>5

LEMMA RoundedMore ==
  ASSUME NEW m \in Nat \ {0}, NEW n \in Nat \ {0}, NEW to \in Nat \ {0}, m <= n
  PROVE  Rounded(m, to) <= Rounded(n, to)
  <1> DEFINE p == (m - 1) \div to
             q == (n - 1) \div to
  <1>1. m - 1 \in Nat /\ n - 1 \in Nat /\ m - 1 <= n - 1
    OBVIOUS
  <1>2. p \in Nat /\ q \in Nat /\ p <= q
    BY <1>1, FittingMore, Fitting
  <1> HIDE DEF p, q
  <1>3. (p + 1) * to <= (q + 1) * to
    BY <1>2
  <1> QED BY <1>3 DEF Rounded, p, q

\* Euclid's loop finds a divisor.
LEMMA GcdDivides ==
  ASSUME NEW a \in Nat \ {0}, NEW b \in Nat \ {0}
  PROVE  Gcd(a, b) \in 1 .. a /\ a % Gcd(a, b) = 0
  <1> DEFINE T == {d \in 1 .. a : a % d = 0 /\ b % d = 0}
  <1>1. 1 \in T
    <2>1. a % 1 = 0 /\ b % 1 = 0
      <3>1. 1 \in Nat \ {0} /\ (1 * a) % 1 = 0 /\ (1 * b) % 1 = 0
        BY MultipleModulo
      <3>2. 1 * a = a /\ 1 * b = b
        OBVIOUS
      <3> QED BY <3>1, <3>2
    <2> QED BY <2>1
  <1>2. T \subseteq 1 .. a /\ T # {}
    BY <1>1
  <1> DEFINE D == Max(T)
  <1>3. D \in T /\ \A y \in T : y <= D
    <2> HIDE DEF T
    <2> QED BY <1>2, MaxOf
  <1> HIDE DEF D
  <1>4. \A e \in D + 1 .. a : a % e # 0 \/ b % e # 0
    <2> TAKE e \in D + 1 .. a
    <2>1. e \in 1 .. a /\ ~(e <= D)
      BY <1>3
    <2> QED BY <1>3, <2>1
  <1>5. D \in 1 .. a /\ a % D = 0 /\ b % D = 0
    BY <1>3
  <1>6. \E d \in 1 .. a : a % d = 0 /\ b % d = 0 /\ \A e \in d + 1 .. a : a % e # 0 \/ b % e # 0
    BY <1>4, <1>5
  <1> QED BY <1>6, Zenon DEF Gcd

\* lcm of the size and the alignment: a size that keeps the alignment.
LEMMA LcmMultiple ==
  ASSUME NEW a \in Nat \ {0}, NEW b \in Nat \ {0}
  PROVE  Lcm(a, b) \in Nat \ {0} /\ Lcm(a, b) % b = 0
  <1> DEFINE g == Gcd(a, b)
             k == a \div g
  <1>1. g \in 1 .. a
    BY GcdDivides
  <1> HIDE DEF g
  <1>2. g \in Nat \ {0} /\ g <= a
    BY <1>1
  <1>3. k \in Nat /\ 1 <= k
    BY <1>2, Fitting
  <1> HIDE DEF k
  <1>4. k * b = b * k /\ k * b \in Nat \ {0}
    <2>1. k * b >= b
      BY <1>3
    <2> QED BY <1>3, <2>1
  <1>5. (b * k) % b = 0
    BY <1>3, MultipleModulo
  <1>6. Lcm(a, b) = k * b
    BY DEF Lcm, k, g
  <1> QED BY <1>4, <1>5, <1>6

\* A power of two divides the larger ones.
LEMMA PowerMultiple ==
  ASSUME NEW p \in Pow2s, NEW q \in Pow2s, p <= q
  PROVE  p \in Nat \ {0} /\ q \in Nat \ {0} /\ q % p = 0
  <1>1. PICK j \in 0 .. (Width - 1), k \in 0 .. (Width - 1) : p = 2 ^ j /\ q = 2 ^ k
    BY DEF Pow2s
  <1>2. p \in Nat \ {0} /\ q \in Nat \ {0}
    BY <1>1, PowersAssumption
  <1>3. CASE j <= k
    <2> DEFINE d == k - j
    <2>1. d \in 0 .. (Width - 1) /\ j + d = k
      BY <1>3, WidthAssumption
    <2> HIDE DEF d
    <2>2. 2 ^ k = 2 ^ j * 2 ^ d /\ 2 ^ d \in Nat \ {0}
      BY <2>1, ExponentsAdd, PowersAssumption
    <2>3. q = p * 2 ^ d /\ 2 ^ d \in Nat
      BY <1>1, <2>2
    <2> QED BY <1>2, <2>3, MultipleModulo
  <1>4. CASE k <= j
    <2>1. j \in k .. (Width - 1)
      BY <1>4, WidthAssumption
    <2>2. q <= p
      BY <1>1, <2>1, PowersMonotone
    <2>3. q = p * 1 /\ 1 \in Nat
      BY <1>2, <2>2
    <2> QED BY <1>2, <2>3, MultipleModulo
  <1>5. j <= k \/ k <= j
    OBVIOUS
  <1> QED BY <1>2, <1>3, <1>4, <1>5

\* upper_power_of_2
LEMMA UpperPow2Bounds ==
  ASSUME NEW n \in Nat, n <= HighBit
  PROVE  UpperPow2(n) \in Pow2s /\ n <= UpperPow2(n)
  <1>1. UpperPow2(n) = CeilPow2(n)
    BY DEF UpperPow2, CeilPow2
  <1> QED BY <1>1, CeilPow2Bounds

-----------------------------------------------------------------------------
(* The nodes carved from a block *)

\* The nodes of sub-blocks a to b, c in each.
LEMMA RowsCount ==
  ASSUME NEW a \in Nat, NEW b \in Int, a <= b + 1, NEW c \in Nat
  PROVE  /\ IsFiniteSet((a .. b) \X (0 .. c - 1))
         /\ Cardinality((a .. b) \X (0 .. c - 1)) = (b - a + 1) * c
  <1> DEFINE S == a .. b
             T == 0 .. c - 1
  <1>1. IsFiniteSet(S) /\ Cardinality(S) = b - a + 1
    <2>1. IsFiniteSet(S) /\ Cardinality(S) = IF a > b THEN 0 ELSE b - a + 1
      <3>1. a \in Int /\ b \in Int
        OBVIOUS
      <3> QED BY <3>1, FS_Interval
    <2>2. a > b => b - a + 1 = 0
      OBVIOUS
    <2> QED BY <2>1, <2>2
  <1>2. IsFiniteSet(T) /\ Cardinality(T) = c
    <2>1. IsFiniteSet(T) /\ Cardinality(T) = IF 0 > c - 1 THEN 0 ELSE c - 1 - 0 + 1
      <3>1. 0 \in Int /\ c - 1 \in Int
        OBVIOUS
      <3> QED BY <3>1, FS_Interval
    <2> QED BY <2>1
  <1> HIDE DEF S, T
  <1>3. IsFiniteSet(S \X T) /\ Cardinality(S \X T) = Cardinality(S) * Cardinality(T)
    BY <1>1, <1>2, FS_Product
  <1> QED BY <1>1, <1>2, <1>3 DEF S, T

LEMMA DisjointCount ==
  ASSUME NEW S, NEW T, IsFiniteSet(S), IsFiniteSet(T), S \cap T = {}
  PROVE  IsFiniteSet(S \cup T) /\ Cardinality(S \cup T) = Cardinality(S) + Cardinality(T)
  <1>1. Cardinality(S) \in Nat /\ Cardinality(T) \in Nat
    BY FS_CardinalityType
  <1>2. IsFiniteSet(S \cup T) /\ Cardinality(S \cup T) = Cardinality(S) + Cardinality(T) - Cardinality(S \cap T)
    BY FS_Union
  <1>3. Cardinality(S \cap T) = 0
    BY FS_EmptySet
  <1> QED BY <1>1, <1>2, <1>3

\* The header's sub-block is the last, sub-block o; the one before it ends
\* where the payload would be, and the others are alike.
NodesIn(s, o, h, m, e) == IF s = o THEN h ELSE IF s = o - 1 THEN e ELSE m

NodesOfAll(o, h, m, e) == IF o = 0 THEN h ELSE h + (o - 1) * m + e

NodeNames(o, h, m, e) ==
  {n \in (0 .. o) \X (0 .. NodesOfAll(o, h, m, e)) : n[2] < NodesIn(n[1], o, h, m, e)}

LEMMA NamesCount ==
  ASSUME NEW o \in Nat, NEW h \in Nat, NEW m \in Nat, NEW e \in Nat
  PROVE  Cardinality(NodeNames(o, h, m, e)) = NodesOfAll(o, h, m, e)
  <1> DEFINE N == NodesOfAll(o, h, m, e)
             C == NodeNames(o, h, m, e)
             A == (o .. o) \X (0 .. h - 1)
  <1>1. IsFiniteSet(A) /\ Cardinality(A) = h
    <2>1. o \in Nat /\ o \in Int /\ o <= o + 1 /\ o - o + 1 = 1
      OBVIOUS
    <2>2. IsFiniteSet(A) /\ Cardinality(A) = (o - o + 1) * h
      BY <2>1, RowsCount
    <2>3. 1 * h = h
      OBVIOUS
    <2> HIDE DEF A
    <2> QED BY <2>1, <2>2, <2>3
  <1>2. CASE o = 0
    <2>1. N = h
      BY <1>2 DEF NodesOfAll
    <2>2. C = {n \in (0 .. 0) \X (0 .. h) : n[2] < h}
      BY <1>2, <2>1 DEF NodeNames, NodesIn
    <2>3. {n \in (0 .. 0) \X (0 .. h) : n[2] < h} = (0 .. 0) \X (0 .. h - 1)
      OBVIOUS
    <2>4. C = A
      BY <1>2, <2>2, <2>3
    <2> QED BY <1>1, <2>1, <2>4
  <1>3. CASE o # 0
    <2> DEFINE p == o - 1
               q == o - 2
               B == (p .. p) \X (0 .. e - 1)
               D == (0 .. q) \X (0 .. m - 1)
    <2>1. p \in Nat /\ q \in Int /\ q + 1 = p /\ p + 1 = o
      BY <1>3
    <2>2. N = h + p * m + e
      BY <1>3 DEF NodesOfAll
    <2>3. IsFiniteSet(B) /\ Cardinality(B) = e
      <3> HIDE DEF p, q
      <3>1. p \in Nat /\ p \in Int /\ p <= p + 1 /\ p - p + 1 = 1
        BY <2>1
      <3>2. IsFiniteSet(B) /\ Cardinality(B) = (p - p + 1) * e
        BY <3>1, RowsCount
      <3>3. 1 * e = e
        OBVIOUS
      <3> HIDE DEF B
      <3> QED BY <3>1, <3>2, <3>3
    <2>4. IsFiniteSet(D) /\ Cardinality(D) = p * m
      <3> HIDE DEF p, q
      <3>1. 0 \in Nat /\ q \in Int /\ 0 <= q + 1 /\ q - 0 + 1 = p
        BY <2>1
      <3>2. IsFiniteSet(D) /\ Cardinality(D) = (q - 0 + 1) * m
        BY <3>1, RowsCount
      <3> HIDE DEF D
      <3> QED BY <3>1, <3>2
    <2>5. p * m \in Nat /\ (p # 0 => m <= p * m)
      <3> HIDE DEF p
      <3>1. p # 0 => 1 <= p
        BY <2>1
      <3>2. 1 <= p => m <= p * m
        BY <2>1
      <3> QED BY <2>1, <3>1, <3>2
    <2>6. h <= N /\ e <= N /\ (p # 0 => m <= N) /\ N \in Nat
      <3> DEFINE z == p * m
      <3>1. z \in Nat /\ (p # 0 => m <= z) /\ N = h + z + e
        BY <2>2, <2>5
      <3> HIDE DEF p, z, N
      <3> QED BY <3>1
    <2> HIDE DEF N
    <2>7. C = {n \in (0 .. o) \X (0 .. N) : n[2] < NodesIn(n[1], o, h, m, e)}
      BY DEF NodeNames, N
    <2>8. C = (A \cup B) \cup D
      <3> HIDE DEF C
      <3>0. o \in Nat /\ p = o - 1 /\ q = o - 2 /\ o # 0
        BY <1>3
      <3>1. ASSUME NEW n \in C PROVE n \in (A \cup B) \cup D
        <4>1. PICK s \in 0 .. o, k \in 0 .. N : n = <<s, k>> /\ k < NodesIn(s, o, h, m, e)
          BY <2>7
        <4>2. CASE s = o
          BY <4>1, <4>2 DEF NodesIn
        <4>3. CASE s = p
          BY <4>1, <4>3, <3>0 DEF NodesIn
        <4>4. CASE s # o /\ s # p
          <5>1. s \in 0 .. q
            BY <4>1, <4>4, <3>0
          <5>2. k \in 0 .. m - 1
            BY <4>1, <4>4, <2>6 DEF NodesIn
          <5> QED BY <4>1, <5>1, <5>2
        <4> QED BY <4>2, <4>3, <4>4
      <3>2. ASSUME NEW n \in A PROVE n \in C
        <4>1. PICK k \in 0 .. h - 1 : n = <<o, k>>
          OBVIOUS
        <4>2. k \in 0 .. N /\ k < NodesIn(o, o, h, m, e) /\ o \in 0 .. o
          BY <4>1, <2>6 DEF NodesIn
        <4> QED BY <4>1, <4>2, <2>7
      <3>3. ASSUME NEW n \in B PROVE n \in C
        <4>1. PICK k \in 0 .. e - 1 : n = <<p, k>>
          OBVIOUS
        <4>2. k \in 0 .. N /\ k < NodesIn(p, o, h, m, e) /\ p \in 0 .. o
          BY <4>1, <2>6, <3>0 DEF NodesIn
        <4> QED BY <4>1, <4>2, <2>7
      <3>4. ASSUME NEW n \in D PROVE n \in C
        <4>1. PICK s \in 0 .. q, k \in 0 .. m - 1 : n = <<s, k>>
          OBVIOUS
        <4>2. p # 0 /\ s # o /\ s # o - 1 /\ s \in 0 .. o
          BY <4>1, <3>0
        <4>3. k \in 0 .. N /\ k < m /\ NodesIn(s, o, h, m, e) = m
          BY <4>1, <4>2, <2>6 DEF NodesIn
        <4> QED BY <4>1, <4>2, <4>3, <2>7
      <3> HIDE DEF A, B, D
      <3> QED BY <3>1, <3>2, <3>3, <3>4
    <2>9. A \cap B = {} /\ (A \cup B) \cap D = {}
      <3>1. \A n \in A : n[1] = o
        OBVIOUS
      <3>2. \A n \in B : n[1] = p
        OBVIOUS
      <3>3. \A n \in D : n[1] # o /\ n[1] # p
        BY <2>1
      <3>4. o # p
        BY <2>1
      <3> HIDE DEF A, B, D, p, q
      <3> QED BY <3>1, <3>2, <3>3, <3>4
    <2> HIDE DEF A, B, D, p, q
    <2>10. IsFiniteSet(A \cup B) /\ Cardinality(A \cup B) = h + e
      BY <1>1, <2>3, <2>9, DisjointCount
    <2>11. Cardinality((A \cup B) \cup D) = h + e + p * m
      <3> DEFINE S == A \cup B
      <3>1. IsFiniteSet(S) /\ IsFiniteSet(D) /\ S \cap D = {}
        BY <2>4, <2>9, <2>10
      <3> HIDE DEF S
      <3>2. Cardinality(S \cup D) = Cardinality(S) + Cardinality(D)
        BY <3>1, DisjointCount
      <3> QED BY <2>4, <2>10, <3>2 DEF S
    <2>12. h + e + p * m = h + p * m + e
      BY <2>5
    <2> QED BY <2>2, <2>8, <2>11, <2>12 DEF N
  <1> QED BY <1>2, <1>3

\* num_b_subblock makes room for what was asked.
Others(pb, h, m, e) ==
  IF h >= pb THEN 0
  ELSE IF h + e >= pb THEN 1
  ELSE 2 + (pb - h - e - 1) \div m

LEMMA Enough ==
  ASSUME NEW pb \in Nat, NEW h \in Nat, NEW m \in Nat \ {0}, NEW e \in Nat
  PROVE  /\ Others(pb, h, m, e) \in Nat
         /\ NodesOfAll(Others(pb, h, m, e), h, m, e) \in Nat
         /\ pb <= NodesOfAll(Others(pb, h, m, e), h, m, e)
  <1>1. CASE h >= pb
    BY <1>1 DEF Others, NodesOfAll
  <1>2. CASE ~(h >= pb) /\ h + e >= pb
    <2>1. Others(pb, h, m, e) = 1 /\ NodesOfAll(1, h, m, e) = h + (1 - 1) * m + e
      BY <1>2 DEF Others, NodesOfAll
    <2>2. (1 - 1) * m = 0
      OBVIOUS
    <2> QED BY <1>2, <2>1, <2>2
  <1>3. CASE ~(h >= pb) /\ ~(h + e >= pb)
    <2> DEFINE a == pb - h - e - 1
               q == a \div m
    <2>1. a \in Nat /\ pb = h + e + (a + 1)
      BY <1>3
    <2>2. q \in Nat /\ a < (q + 1) * m
      <3> HIDE DEF a
      <3> QED BY <2>1, Fitting
    <2>3. Others(pb, h, m, e) = 2 + q
      BY <1>3 DEF Others
    <2> HIDE DEF a, q
    <2>4. NodesOfAll(2 + q, h, m, e) = h + (q + 1) * m + e
      <3>1. 2 + q # 0 /\ (2 + q) - 1 = q + 1
        BY <2>2
      <3> QED BY <3>1 DEF NodesOfAll
    <2>5. (q + 1) * m \in Nat
      BY <2>2
    <2> DEFINE z == (q + 1) * m
    <2>6. z \in Nat /\ a + 1 <= z
      BY <2>1, <2>2, <2>5
    <2>7. NodesOfAll(2 + q, h, m, e) = h + z + e
      BY <2>4
    <2>8. h + z + e \in Nat /\ pb <= h + z + e /\ 2 + q \in Nat
      <3> HIDE DEF z
      <3> QED BY <2>1, <2>2, <2>6
    <2> QED BY <2>3, <2>7, <2>8
  <1> QED BY <1>1, <1>2, <1>3

-----------------------------------------------------------------------------
(* The constructor's layout *)

\* What the search keeps: a sub-block that holds its header, the payload and a
\* node, and keeps the alignment.
Roomy == alignment % NodeAlign = 0 /\ HdrSize + Payload + RealNodeSize <= alignment

\* The inductive invariant of the constructor: a pool given an overhead has
\* the nodes and sub-blocks that its alignment makes.
LayoutSound ==
  /\ request \in Requests
  /\ ~AlignOnly =>
       /\ alignment \in Nat
       /\ alignment # 0 => Roomy
       /\ Done => alignment # 0 /\ layout = [subblocks |-> OtherSubblocks + 1, nodes |-> TotalNodes]

LEMMA LargerPower ==
  ASSUME NEW p \in Pow2s, NEW q \in Pow2s
  PROVE  /\ Larger(p, q) \in Pow2s /\ p <= Larger(p, q) /\ q <= Larger(p, q)
         /\ p \in Nat \ {0} /\ q \in Nat \ {0} /\ Larger(p, q) \in Nat \ {0}
  <1>1. p \in Nat \ {0} /\ q \in Nat \ {0}
    <2>1. \A x \in Pow2s : x \in Nat \ {0}
      BY PowersAssumption DEF Pow2s
    <2> QED BY <2>1
  <1> QED BY <1>1 DEF Larger

\* The sizes the constructor works with.
Sizes ==
  /\ NodeAlign \in Pow2s /\ NodeAlign \in Nat \ {0}
  /\ RealNodeSize \in Nat \ {0} /\ RealNodeSize % NodeAlign = 0
  /\ HdrSize \in Nat /\ HdrSize % NodeAlign = 0
  /\ HdrOffSize \in Nat /\ HdrOffSize % NodeAlign = 0 /\ HdrOffSize <= HdrSize
  /\ Payload \in Nat /\ request.perBlock \in Nat

LEMMA SizesTyped ==
  ASSUME request \in Requests
  PROVE  Sizes
  <1>1. request.size \in Nat \ {0} /\ request.align \in Pow2s /\ request.perBlock \in Nat \ {0}
    BY LayoutAssumption
  <1>2. PtrAlign \in Pow2s /\ Payload \in Nat /\ InfoSize \in Nat \ {0} /\ OffsetSize \in 1 .. InfoSize
    BY LayoutAssumption
  <1>3. NodeAlign \in Pow2s /\ NodeAlign \in Nat \ {0}
    BY <1>1, <1>2, LargerPower DEF NodeAlign
  <1>4. RealNodeSize \in Nat \ {0} /\ RealNodeSize % NodeAlign = 0
    BY <1>1, <1>3, LcmMultiple DEF RealNodeSize
  <1>5. HdrSize \in Nat /\ HdrSize % NodeAlign = 0
    BY <1>2, <1>3, RoundedUp DEF HdrSize
  <1>6. OffsetSize \in Nat \ {0} /\ OffsetSize <= InfoSize
    BY <1>2
  <1>7. HdrOffSize \in Nat /\ HdrOffSize % NodeAlign = 0
    BY <1>3, <1>6, RoundedUp DEF HdrOffSize
  <1>8. HdrOffSize <= HdrSize
    BY <1>2, <1>3, <1>6, RoundedMore DEF HdrOffSize, HdrSize
  <1> QED BY <1>1, <1>2, <1>3, <1>4, <1>5, <1>7, <1>8 DEF Sizes

-----------------------------------------------------------------------------
(* The steps of the constructor *)

LEMMA StepFirstAlignment ==
  ASSUME LayoutSound, FirstAlignment
  PROVE  LayoutSound'
  <1>1. /\ ~AlignOnly /\ alignment = 0 /\ request' = request /\ layout' = layout
        /\ alignment' = Larger(UpperPow2(HdrSize + Payload + RealNodeSize), NodeAlign)
    BY DEF FirstAlignment
  <1>2. request \in Requests /\ request.overhead # 0 /\ ~Done
    BY <1>1 DEF LayoutSound, AlignOnly
  <1>3. Sizes
    BY <1>2, SizesTyped
  <1> DEFINE x == HdrSize + Payload + RealNodeSize
  <1>4. x \in Nat /\ x <= HighBit
    <2>1. x <= HighBit
      BY <1>2, RequestsFit DEF HdrSize, RealNodeSize, NodeAlign
    <2> QED BY <1>3, <2>1 DEF Sizes
  <1> HIDE DEF x
  <1>5. UpperPow2(x) \in Pow2s /\ x <= UpperPow2(x)
    BY <1>4, UpperPow2Bounds
  <1> DEFINE u == UpperPow2(x)
             a == Larger(u, NodeAlign)
  <1>6. a \in Pow2s /\ u <= a /\ NodeAlign <= a /\ u \in Nat \ {0} /\ a \in Nat \ {0}
    <2>1. u \in Pow2s /\ NodeAlign \in Pow2s
      BY <1>3, <1>5 DEF Sizes
    <2> HIDE DEF u
    <2> QED BY <2>1, LargerPower
  <1>7. a % NodeAlign = 0
    <2> HIDE DEF a
    <2>1. NodeAlign \in Pow2s
      BY <1>3 DEF Sizes
    <2> QED BY <1>6, <2>1, PowerMultiple
  <1>8. x <= a
    <2> HIDE DEF a
    <2>1. x <= u
      BY <1>5
    <2> HIDE DEF u
    <2> QED BY <1>4, <1>6, <2>1
  <1>9. alignment' = a
    BY <1>1 DEF x
  <1> HIDE DEF a
  <1>10. /\ NodeAlign' = NodeAlign /\ HdrSize' = HdrSize /\ RealNodeSize' = RealNodeSize
         /\ AlignOnly' = AlignOnly /\ Done' = Done
    BY <1>1 DEF NodeAlign, HdrSize, RealNodeSize, AlignOnly, Done
  <1>11. Roomy'
    BY <1>7, <1>8, <1>9, <1>10 DEF Roomy, x
  <1> QED BY <1>1, <1>2, <1>6, <1>9, <1>10, <1>11 DEF LayoutSound

LEMMA StepTryAlignment ==
  ASSUME LayoutSound, TryAlignment
  PROVE  LayoutSound'
  <1>1. ~AlignOnly /\ alignment # 0 /\ layout = NoLayout /\ request' = request
    BY DEF TryAlignment
  <1>2. request \in Requests /\ alignment \in Nat /\ Roomy
    BY <1>1 DEF LayoutSound
  <1>3. /\ NodeAlign' = NodeAlign /\ HdrSize' = HdrSize /\ RealNodeSize' = RealNodeSize
        /\ HdrOffSize' = HdrOffSize /\ AlignOnly' = AlignOnly
    BY <1>1 DEF NodeAlign, HdrSize, HdrOffSize, RealNodeSize, AlignOnly
  <1>4. CASE OverheadSatisfied
    <2>1. layout' = [subblocks |-> OtherSubblocks + 1, nodes |-> TotalNodes] /\ alignment' = alignment
      BY <1>4 DEF TryAlignment
    <2>2. HdrElements' = HdrElements /\ MidElements' = MidElements /\ EndElements' = EndElements
      BY <1>3, <2>1 DEF HdrElements, MidElements, EndElements
    <2>3. OtherSubblocks' = OtherSubblocks
      BY <1>1, <2>2 DEF OtherSubblocks
    <2>4. TotalNodes' = TotalNodes
      BY <2>2, <2>3 DEF TotalNodes
    <2>5. Roomy'
      BY <1>2, <1>3, <2>1 DEF Roomy
    <2> QED BY <1>1, <1>2, <2>1, <2>3, <2>4, <2>5 DEF LayoutSound
  <1>5. CASE ~OverheadSatisfied
    <2>1. layout' = layout /\ alignment' = 2 * alignment
      BY <1>5 DEF TryAlignment, NextAlignment
    <2>2. Sizes
      BY <1>2, SizesTyped
    <2>3. (2 * alignment) % NodeAlign = 0
      <3>1. NodeAlign \in Nat \ {0} /\ alignment % NodeAlign = 0
        BY <1>2, <2>2 DEF Sizes, Roomy
      <3> QED BY <1>2, <3>1, ProductModulo
    <2>4. HdrSize + Payload + RealNodeSize <= 2 * alignment
      BY <1>2, <2>2 DEF Sizes, Roomy
    <2>5. Roomy'
      BY <1>3, <2>1, <2>3, <2>4 DEF Roomy
    <2>6. 2 * alignment \in Nat /\ ~Done'
      BY <1>1, <1>2, <2>1 DEF Done
    <2> QED BY <1>1, <1>2, <2>1, <2>5, <2>6 DEF LayoutSound
  <1> QED BY <1>4, <1>5

LEMMA LayoutSteps ==
  ASSUME LayoutSound, [PoolNext]_allVars
  PROVE  LayoutSound'
  <1>1. ASSUME UNCHANGED layoutVars PROVE LayoutSound'
    <2>1. request' = request /\ alignment' = alignment /\ layout' = layout
      BY <1>1 DEF layoutVars
    <2>2. /\ NodeAlign' = NodeAlign /\ HdrSize' = HdrSize /\ RealNodeSize' = RealNodeSize
          /\ HdrOffSize' = HdrOffSize /\ AlignOnly' = AlignOnly /\ Done' = Done
      BY <2>1 DEF NodeAlign, HdrSize, HdrOffSize, RealNodeSize, AlignOnly, Done
    <2>3. HdrElements' = HdrElements /\ MidElements' = MidElements /\ EndElements' = EndElements
      BY <2>1, <2>2 DEF HdrElements, MidElements, EndElements
    <2>4. OtherSubblocks' = OtherSubblocks
      BY <2>1, <2>3 DEF OtherSubblocks
    <2>5. TotalNodes' = TotalNodes /\ Roomy' = Roomy
      BY <2>1, <2>2, <2>3, <2>4 DEF TotalNodes, Roomy
    <2> QED BY <2>1, <2>2, <2>4, <2>5 DEF LayoutSound
  <1>2. ASSUME AlignOnlyLayout PROVE LayoutSound'
    <2>1. AlignOnly /\ request' = request
      BY <1>2 DEF AlignOnlyLayout
    <2>2. AlignOnly'
      BY <2>1 DEF AlignOnly
    <2> QED BY <2>1, <2>2 DEF LayoutSound
  <1>3. LayoutNext => LayoutSound'
    BY <1>2, StepFirstAlignment, StepTryAlignment DEF LayoutNext
  <1>4. (Operating \/ LeftAlone \/ UNCHANGED allVars) => UNCHANGED layoutVars
    BY DEF Operating, LeftAlone, allVars
  <1> QED BY <1>1, <1>3, <1>4 DEF PoolNext, Constructing

\* A sub-block is roomy from the first candidate on, and the layout is the
\* one its alignment makes.
THEOREM LayoutInvariant == PoolSpec => []LayoutSound
  <1>1. PoolInit => LayoutSound
    BY DEF PoolInit, LayoutInit, LayoutSound, Done
  <1>2. LayoutSound /\ [PoolNext]_allVars => LayoutSound'
    BY LayoutSteps
  <1> QED BY <1>1, <1>2, PTL DEF PoolSpec

-----------------------------------------------------------------------------
(* Where the nodes are *)

\* Node k of a sub-block whose nodes start at byte "first": it ends before the
\* last "spare" bytes of the sub-block.
LEMMA EndsBefore ==
  ASSUME NEW al \in Nat, NEW first \in Nat, NEW spare \in Nat, NEW node \in Nat \ {0},
         first + spare <= al,
         NEW k \in Nat, k < (al - first - spare) \div node
  PROVE  first + k * node + node + spare <= al
  <1> DEFINE a == al - first - spare
             c == a \div node
             z == k * node
  <1>1. a \in Nat /\ al = a + first + spare
    OBVIOUS
  <1>2. c \in Nat /\ c * node <= a
    <2> HIDE DEF a
    <2> QED BY <1>1, Fitting
  <1>3. k + 1 <= c
    <2>1. k < c
      OBVIOUS
    <2> HIDE DEF c
    <2> QED BY <1>2, <2>1
  <1> HIDE DEF a, c
  <1>4. (k + 1) * node <= c * node
    BY <1>2, <1>3
  <1>5. (k + 1) * node = z + node /\ z \in Nat
    OBVIOUS
  <1>6. z + node <= a
    <2> DEFINE y == c * node
    <2>1. y \in Nat /\ y <= a /\ z + node <= y
      BY <1>2, <1>4, <1>5
    <2> HIDE DEF y, z
    <2> QED BY <1>1, <1>5, <2>1
  <1>7. first + z + node + spare <= al
    <2> HIDE DEF z
    <2> QED BY <1>1, <1>5, <1>6
  <1> QED BY <1>7

\* The number of nodes of each kind of sub-block.
LEMMA KindsTyped ==
  ASSUME LayoutSound, HasLayout
  PROVE  /\ Sizes /\ alignment \in Nat \ {0} /\ alignment % NodeAlign = 0
         /\ HdrSize + Payload + RealNodeSize <= alignment
         /\ layout = [subblocks |-> OtherSubblocks + 1, nodes |-> TotalNodes]
         /\ HdrElements \in Nat /\ MidElements \in Nat \ {0} /\ EndElements \in Nat
         /\ OtherSubblocks = Others(request.perBlock, HdrElements, MidElements, EndElements)
         /\ OtherSubblocks \in Nat
         /\ TotalNodes = NodesOfAll(OtherSubblocks, HdrElements, MidElements, EndElements)
         /\ TotalNodes \in Nat /\ request.perBlock <= TotalNodes
  <1>1. /\ request \in Requests /\ ~AlignOnly /\ alignment \in Nat \ {0} /\ Roomy
        /\ layout = [subblocks |-> OtherSubblocks + 1, nodes |-> TotalNodes]
    BY DEF LayoutSound, HasLayout, Done
  <1>2. Sizes
    BY <1>1, SizesTyped
  <1>3. /\ HdrSize \in Nat /\ HdrOffSize \in Nat /\ Payload \in Nat /\ RealNodeSize \in Nat \ {0}
        /\ HdrOffSize <= HdrSize /\ request.perBlock \in Nat
    BY <1>2 DEF Sizes
  <1>4. HdrSize + Payload + RealNodeSize <= alignment /\ alignment % NodeAlign = 0
    BY <1>1 DEF Roomy
  <1>5. /\ alignment - HdrSize - Payload \in Nat
        /\ alignment - HdrOffSize \in Nat /\ RealNodeSize <= alignment - HdrOffSize
        /\ alignment - HdrOffSize - Payload \in Nat
    BY <1>1, <1>3, <1>4
  <1>6. HdrElements \in Nat
    BY <1>3, <1>5, Fitting DEF HdrElements
  <1>7. MidElements \in Nat /\ 1 <= MidElements
    BY <1>3, <1>5, Fitting DEF MidElements
  <1>8. EndElements \in Nat
    BY <1>3, <1>5, Fitting DEF EndElements
  <1>9. MidElements \in Nat \ {0}
    BY <1>7
  <1>10. OtherSubblocks = Others(request.perBlock, HdrElements, MidElements, EndElements)
    BY DEF OtherSubblocks, Others
  <1>11. TotalNodes = NodesOfAll(OtherSubblocks, HdrElements, MidElements, EndElements)
    BY DEF TotalNodes, NodesOfAll
  <1>12. /\ OtherSubblocks \in Nat /\ TotalNodes \in Nat /\ request.perBlock <= TotalNodes
    BY <1>3, <1>6, <1>8, <1>9, <1>10, <1>11, Enough
  <1> QED BY <1>1, <1>2, <1>4, <1>6, <1>8, <1>9, <1>10, <1>11, <1>12

\* A node ends before the next sub-block and before the memory asked for, and
\* starts behind the first word of its sub-block.
LEMMA NodeSits ==
  ASSUME LayoutSound, HasLayout,
         NEW s \in 0 .. OtherSubblocks, NEW k \in Nat,
         k < NodesIn(s, OtherSubblocks, HdrElements, MidElements, EndElements)
  PROVE  LET first == IF s = OtherSubblocks THEN HdrSize ELSE HdrOffSize
         IN  /\ first \in Nat /\ first % NodeAlign = 0
             /\ first + k * RealNodeSize + RealNodeSize
                  + (IF s = OtherSubblocks THEN Payload ELSE 0) <= alignment
  <1> DEFINE al == alignment
             R == RealNodeSize
             P == Payload
             hs == HdrSize
             ho == HdrOffSize
             o == OtherSubblocks
  <1>1. /\ Sizes /\ al \in Nat /\ hs + P + R <= al /\ o \in Nat
    BY KindsTyped
  <1>2. /\ hs \in Nat /\ ho \in Nat /\ P \in Nat /\ R \in Nat \ {0} /\ ho <= hs
        /\ hs % NodeAlign = 0 /\ ho % NodeAlign = 0
    BY <1>1 DEF Sizes
  <1>3. CASE s = o
    <2>1. k < (al - hs - P) \div R
      BY <1>3 DEF NodesIn, HdrElements
    <2>2. hs + P <= al
      <3> HIDE DEF al, R, P, hs
      <3> QED BY <1>1, <1>2
    <2>3. hs + k * R + R + P <= al
      <3> HIDE DEF al, R, P, hs
      <3> QED BY <1>1, <1>2, <2>1, <2>2, EndsBefore
    <2> QED BY <1>2, <1>3, <2>3
  <1>4. CASE s # o
    <2>1. CASE s = o - 1
      <3>1. k < (al - ho - P) \div R
        BY <1>4, <2>1 DEF NodesIn, EndElements
      <3>2. ho + P <= al
        <4> HIDE DEF al, R, P, hs, ho
        <4> QED BY <1>1, <1>2
      <3>3. ho + k * R + R + P <= al
        <4> HIDE DEF al, R, P, ho
        <4> QED BY <1>1, <1>2, <3>1, <3>2, EndsBefore
      <3>4. ho + k * R + R + 0 <= al
        <4> DEFINE z == k * R
        <4>1. z \in Nat
          BY <1>2
        <4> HIDE DEF z, al, R, P, ho
        <4>2. ho + z + R + P <= al
          BY <3>3 DEF z
        <4>3. ho + z + R + 0 <= al
          BY <1>1, <1>2, <4>1, <4>2
        <4> QED BY <4>3 DEF z
      <3> QED BY <1>2, <1>4, <3>4
    <2>2. CASE s # o - 1
      <3>1. k < (al - ho) \div R
        BY <1>4, <2>2 DEF NodesIn, MidElements
      <3>2. ho + 0 <= al /\ al - ho = al - ho - 0 /\ 0 \in Nat
        <4> HIDE DEF al, R, P, hs, ho
        <4> QED BY <1>1, <1>2
      <3>3. ho + k * R + R + 0 <= al
        <4> HIDE DEF al, R, P, ho
        <4>1. k < (al - ho - 0) \div R
          BY <3>1, <3>2
        <4> QED BY <1>1, <1>2, <3>2, <4>1, EndsBefore
      <3> QED BY <1>2, <1>4, <3>3
    <2> QED BY <2>1, <2>2
  <1> QED BY <1>3, <1>4

\* A node is aligned, and its sub-block is found from its address.
LEMMA NodeFound ==
  ASSUME NEW al \in Nat \ {0}, NEW align \in Nat \ {0}, al % align = 0,
         NEW node \in Nat \ {0}, node % align = 0,
         NEW first \in Nat, first % align = 0,
         NEW s \in Nat, NEW k \in Nat, first + k * node + node <= al
  PROVE  /\ (s * al + first + k * node) % align = 0
         /\ (s * al + first + k * node) \div al = s
         /\ s * al + first + k * node + node <= (s + 1) * al
  <1> DEFINE z == k * node
             y == s * al
  <1>1. z \in Nat /\ y \in Nat /\ first + z + node <= al
    OBVIOUS
  <1>2. z % align = 0 /\ y % align = 0
    <2>1. z % align = 0
      BY ProductModulo
    <2>2. y % align = 0
      BY ProductModulo
    <2> QED BY <2>1, <2>2
  <1>3. (y + first) \in Nat /\ (y + first) % align = 0
    <2>1. y \in Nat /\ y % align = 0
      BY <1>1, <1>2
    <2> HIDE DEF y, z
    <2>2. (y + first) % align = 0
      BY <2>1, SumModulo
    <2> QED BY <2>1, <2>2
  <1>4. (y + first + z) % align = 0
    <2> HIDE DEF y, z
    <2> QED BY <1>1, <1>2, <1>3, SumModulo
  <1>5. (s * al + (first + z)) \div al = s
    <2>1. first + z \in 0 .. al - 1
      <3> HIDE DEF y, z
      <3> QED BY <1>1
    <2> HIDE DEF y, z
    <2> QED BY <2>1, QuotientRemainder
  <1>6. y + first + z = y + (first + z)
    <2> HIDE DEF y, z
    <2> QED BY <1>1
  <1>7. (s + 1) * al = y + al
    OBVIOUS
  <1>8. y + first + z + node <= y + al
    <2> HIDE DEF y, z
    <2> QED BY <1>1
  <1> QED BY <1>4, <1>5, <1>6, <1>7, <1>8

\* The memory asked of the segment manager ends "payload" bytes before the
\* last sub-block does, which is no earlier than where another one ends.
LEMMA EndsInBlock ==
  ASSUME NEW al \in Nat, NEW pay \in Nat, pay <= al, NEW o \in Nat, NEW s \in 0 .. o, s # o
  PROVE  (s + 1) * al <= al * (o + 1) - pay
  <1>1. (s + 1) * al <= o * al
    <2>1. s + 1 <= o
      OBVIOUS
    <2> QED BY <2>1
  <1>2. al * (o + 1) = o * al + al
    OBVIOUS
  <1> DEFINE y == o * al
             x == (s + 1) * al
  <1>3. y \in Nat /\ x \in Nat /\ x <= y
    BY <1>1
  <1>4. x <= y + al - pay
    <2> HIDE DEF x, y
    <2> QED BY <1>3
  <1> QED BY <1>2, <1>4

LEMMA CarvedNames ==
  ASSUME LayoutSound, HasLayout
  PROVE  /\ Carved = NodeNames(OtherSubblocks, HdrElements, MidElements, EndElements)
         /\ \A s \in Nat : ElementsOf(s) = NodesIn(s, OtherSubblocks, HdrElements, MidElements, EndElements)
         /\ layout.subblocks - 1 = OtherSubblocks /\ layout.subblocks = OtherSubblocks + 1
         /\ layout.nodes = TotalNodes
  <1>1. /\ layout = [subblocks |-> OtherSubblocks + 1, nodes |-> TotalNodes]
        /\ OtherSubblocks \in Nat /\ ~AlignOnly
        /\ TotalNodes = NodesOfAll(OtherSubblocks, HdrElements, MidElements, EndElements)
    BY KindsTyped DEF HasLayout
  <1>2. layout.subblocks = OtherSubblocks + 1 /\ layout.nodes = TotalNodes
    BY <1>1
  <1>3. layout.subblocks - 1 = OtherSubblocks /\ layout.subblocks - 2 = OtherSubblocks - 1
    BY <1>1, <1>2
  <1>4. \A s \in Nat : ElementsOf(s) = NodesIn(s, OtherSubblocks, HdrElements, MidElements, EndElements)
    BY <1>1, <1>3 DEF ElementsOf, NodesIn
  <1>5. Carved = {n \in (0 .. OtherSubblocks) \X (0 .. TotalNodes) :
                    n[2] < NodesIn(n[1], OtherSubblocks, HdrElements, MidElements, EndElements)}
    <2>1. Carved = {n \in (0 .. OtherSubblocks) \X (0 .. TotalNodes) : n[2] < ElementsOf(n[1])}
      BY <1>2, <1>3 DEF Carved
    <2>2. \A n \in (0 .. OtherSubblocks) \X (0 .. TotalNodes) : n[1] \in Nat
      OBVIOUS
    <2> QED BY <1>4, <2>1, <2>2
  <1> QED BY <1>1, <1>2, <1>3, <1>4, <1>5 DEF NodeNames

LEMMA CarvedInside ==
  ASSUME LayoutSound, HasLayout, NEW n \in Carved
  PROVE  /\ Address(n) % NodeAlign = 0
         /\ Address(n) + RealNodeSize <= Smaller((n[1] + 1) * alignment, BlockSize)
         /\ BlockFromNode(Address(n)) = HeaderAt
  <1> DEFINE al == alignment
             R == RealNodeSize
             P == Payload
             o == OtherSubblocks
  <1>1. /\ Sizes /\ al \in Nat \ {0} /\ al % NodeAlign = 0 /\ HdrSize + P + R <= al /\ o \in Nat
    BY KindsTyped
  <1>2. /\ NodeAlign \in Nat \ {0} /\ P \in Nat /\ R \in Nat \ {0} /\ R % NodeAlign = 0 /\ HdrSize \in Nat
    BY <1>1 DEF Sizes
  <1>3. layout.subblocks - 1 = o /\ layout.subblocks = o + 1
    BY CarvedNames
  <1>4. PICK s \in 0 .. o, k \in Nat :
          n = <<s, k>> /\ k < NodesIn(s, o, HdrElements, MidElements, EndElements)
    <2>1. n \in NodeNames(o, HdrElements, MidElements, EndElements)
      BY CarvedNames
    <2> HIDE DEF o
    <2>2. n \in (0 .. o) \X (0 .. NodesOfAll(o, HdrElements, MidElements, EndElements))
          /\ n[2] < NodesIn(n[1], o, HdrElements, MidElements, EndElements)
      BY <2>1 DEF NodeNames
    <2> QED BY <2>2
  <1> DEFINE first == IF s = o THEN HdrSize ELSE HdrOffSize
             z == k * R
             end == first + k * R + R
  <1>5. first \in Nat /\ first % NodeAlign = 0 /\ end + (IF s = o THEN P ELSE 0) <= al
    BY <1>4, NodeSits
  <1>6. z \in Nat /\ s \in Nat
    BY <1>1, <1>2, <1>4
  <1> HIDE DEF first, o, R, P, al
  <1>7. end \in Nat /\ end <= al
    <2>1. end \in Nat
      BY <1>2, <1>5, <1>6
    <2> HIDE DEF end
    <2> QED BY <1>1, <1>2, <1>5, <2>1
  <1>8. /\ (s * al + first + k * R) % NodeAlign = 0
        /\ (s * al + first + k * R) \div al = s
        /\ s * al + first + k * R + R <= (s + 1) * al
    <2>1. first + k * R + R <= al
      BY <1>7
    <2> QED BY <1>1, <1>2, <1>4, <1>5, <1>6, <2>1, NodeFound
  <1>9. Address(n) = s * al + first + k * R
    BY <1>3, <1>4 DEF Address, FirstNode, first, al, R, o
  <1>10. BlockFromNode(Address(n)) = HeaderAt
    <2> DEFINE y == s * al
    <2>1. BlockFromNode(Address(n)) = y + (HeaderAt - y)
      BY <1>8, <1>9 DEF BlockFromNode, HeaderDistance, al
    <2>2. HeaderAt = al * o
      BY <1>3 DEF HeaderAt, al
    <2>3. HeaderAt \in Nat /\ y \in Nat
      BY <1>1, <1>6, <2>2
    <2> HIDE DEF y
    <2> QED BY <2>1, <2>3
  <1>11. BlockSize = al * (o + 1) - P
    BY <1>3 DEF BlockSize, al, P
  <1>12. s * al + first + k * R + R <= al * (o + 1) - P
    <2>1. CASE s = o
      <3> DEFINE y == s * al
      <3>1. end + P <= al
        BY <1>5, <2>1
      <3>2. al * (o + 1) = y + al /\ y \in Nat
        BY <1>1, <1>6, <2>1
      <3>3. y + first + z + R = y + end
        <4> HIDE DEF y, z
        <4>1. end = first + z + R
          BY DEF z
        <4> QED BY <1>2, <1>5, <1>6, <3>2, <4>1
      <3>4. y + end <= y + al - P
        <4>1. y \in Nat /\ end \in Nat /\ al \in Nat /\ P \in Nat
          BY <1>1, <1>2, <1>7, <3>2
        <4> HIDE DEF y, end
        <4> QED BY <3>1, <4>1
      <3>5. y + end <= al * (o + 1) - P
        <4> DEFINE v == al * (o + 1)
        <4>1. v = y + al
          BY <3>2
        <4>0. y \in Nat /\ end \in Nat /\ al \in Nat /\ P \in Nat
          BY <1>1, <1>2, <1>7, <3>2
        <4> HIDE DEF v, y, end
        <4>2. y + end <= v - P
          BY <3>4, <4>0, <4>1
        <4> QED BY <4>2 DEF v
      <3>6. s * al + first + k * R + R = y + end
        BY <3>3
      <3> HIDE DEF y, end
      <3> QED BY <3>5, <3>6
    <2>2. CASE s # o
      <3>1. P <= al
        BY <1>1, <1>2
      <3>2. (s + 1) * al <= al * (o + 1) - P
        BY <1>1, <1>2, <1>4, <2>2, <3>1, EndsInBlock
      <3> DEFINE x == s * al + first + k * R + R
                 u == (s + 1) * al
                 v == al * (o + 1) - P
      <3>3. x \in Nat /\ u \in Nat /\ v \in Int /\ x <= u /\ u <= v
        BY <1>1, <1>2, <1>5, <1>6, <1>8, <3>2
      <3>4. x <= v
        <4> HIDE DEF x, u, v
        <4> QED BY <3>3
      <3> QED BY <3>4
    <2> QED BY <2>1, <2>2
  <1>13. Address(n) + RealNodeSize <= Smaller((n[1] + 1) * alignment, BlockSize)
    <2>1. Address(n) + RealNodeSize = s * al + first + k * R + R
      BY <1>9 DEF R
    <2>2. (n[1] + 1) * alignment = (s + 1) * al
      BY <1>4 DEF al
    <2> QED BY <1>8, <1>11, <1>12, <2>1, <2>2 DEF Smaller
  <1> QED BY <1>8, <1>9, <1>10, <1>13

\* A block's nodes are aligned, inside their sub-block and the memory asked
\* for, found from their address, as many as the pool counts and no fewer than
\* were asked for, for every size, alignment and overhead.
THEOREM AdaptiveNodesInside == PoolSpec => []NodesInside
  <1>1. LayoutSound => NodesInside
    <2> SUFFICES ASSUME LayoutSound, HasLayout
                 PROVE  /\ Cardinality(Carved) = layout.nodes /\ layout.nodes >= request.perBlock
                        /\ \A n \in Carved :
                             /\ Address(n) % NodeAlign = 0
                             /\ Address(n) + RealNodeSize <= Smaller((n[1] + 1) * alignment, BlockSize)
                             /\ BlockFromNode(Address(n)) = HeaderAt
      BY DEF NodesInside
    <2>1. /\ HdrElements \in Nat /\ MidElements \in Nat /\ EndElements \in Nat /\ OtherSubblocks \in Nat
          /\ TotalNodes = NodesOfAll(OtherSubblocks, HdrElements, MidElements, EndElements)
          /\ TotalNodes \in Nat /\ request.perBlock <= TotalNodes /\ Sizes
      BY KindsTyped
    <2>2. layout.nodes = TotalNodes
          /\ Carved = NodeNames(OtherSubblocks, HdrElements, MidElements, EndElements)
      BY CarvedNames
    <2>3. Cardinality(Carved) = TotalNodes
      BY <2>1, <2>2, NamesCount
    <2>4. TotalNodes >= request.perBlock
      BY <2>1 DEF Sizes
    <2> QED BY <2>2, <2>3, <2>4, CarvedInside
  <1>2. QED BY <1>1, LayoutInvariant, PTL

=============================================================================
