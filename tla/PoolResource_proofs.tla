-------------------------- MODULE PoolResource_proofs --------------------------
(***************************************************************************)
(* Proofs about PoolResource, for every size_t width, options, regions and *)
(* request sizes, and about SyncPoolResource, for any threads as well.     *)
(***************************************************************************)
EXTENDS SyncPoolResource, SizeT_proofs, SequenceTheorems, TLAPS

-----------------------------------------------------------------------------
(* Lists *)

\* What <<c>> \o s is, index by index.
LEMMA Prepended ==
  ASSUME NEW S, NEW s \in Seq(S), NEW c \in S
  PROVE  LET t == <<c>> \o s IN
         /\ t \in Seq(S) /\ t[1] = c /\ 1 \in DOMAIN t
         /\ \A k \in DOMAIN t : k # 1 => k - 1 \in DOMAIN s /\ t[k] = s[k - 1]
         /\ \A k \in DOMAIN s : k + 1 \in DOMAIN t /\ t[k + 1] = s[k]
  OBVIOUS

\* What Tail(s) is, index by index.
LEMMA Tailed ==
  ASSUME NEW S, NEW s \in Seq(S), s # <<>>
  PROVE  LET t == Tail(s) IN
         /\ t \in Seq(S) /\ Head(s) = s[1] /\ 1 \in DOMAIN s /\ Head(s) \in S
         /\ \A k \in DOMAIN t : k + 1 \in DOMAIN s /\ t[k] = s[k + 1] /\ k # 0
         /\ \A k \in DOMAIN s : k # 1 => k - 1 \in DOMAIN t /\ t[k - 1] = s[k]
  OBVIOUS

\* What RemoveAt(s, i) is, index by index.
LEMMA Removed ==
  ASSUME NEW S, NEW s \in Seq(S), NEW i \in DOMAIN s
  PROVE  LET t == RemoveAt(s, i) IN
         /\ t \in Seq(S)
         /\ \A k \in DOMAIN t : \/ k < i /\ k \in DOMAIN s /\ t[k] = s[k]
                                \/ i <= k /\ k + 1 \in DOMAIN s /\ t[k] = s[k + 1]
         /\ \A k \in DOMAIN s : /\ k < i => k \in DOMAIN t /\ t[k] = s[k]
                                /\ i < k => k - 1 \in DOMAIN t /\ t[k - 1] = s[k]
  <1> DEFINE a == SubSeq(s, 1, i - 1)
             b == SubSeq(s, i + 1, Len(s))
  <1>1. Len(s) \in Nat /\ i \in 1 .. Len(s)
    OBVIOUS
  <1>2. /\ a \in Seq(S) /\ Len(a) = i - 1
        /\ \A k \in 1 .. i - 1 : a[k] = s[k]
    <2>1. \A k \in 1 .. i - 1 : s[k] \in S
      BY <1>1
    <2> QED BY <1>1, <2>1, SubSeqProperties
  <1>3. /\ b \in Seq(S) /\ Len(b) = Len(s) - i
        /\ \A k \in 1 .. Len(s) - i : b[k] = s[i + k]
    <2>1. \A k \in i + 1 .. Len(s) : s[k] \in S
      BY <1>1
    <2> QED BY <1>1, <2>1, SubSeqProperties
  <1> HIDE DEF a, b
  <1>4. RemoveAt(s, i) = a \o b
    BY DEF RemoveAt, a, b
  <1> DEFINE t == a \o b
             n == Len(s)
  <1>5. /\ t \in Seq(S) /\ Len(t) = n - 1
        /\ \A k \in 1 .. n - 1 : t[k] = IF k <= i - 1 THEN a[k] ELSE b[k - (i - 1)]
    <2>1. Len(a) + Len(b) = n - 1
      BY <1>1, <1>2, <1>3
    <2>2. /\ t \in Seq(S) /\ Len(t) = Len(a) + Len(b)
          /\ \A k \in 1 .. Len(a) + Len(b) : t[k] = IF k <= Len(a) THEN a[k] ELSE b[k - Len(a)]
      BY <1>2, <1>3, ConcatProperties
    <2> HIDE DEF t
    <2> QED BY <1>2, <2>1, <2>2
  <1> HIDE DEF t
  <1>6. DOMAIN t = 1 .. n - 1
    BY <1>5
  <1>7. DOMAIN s = 1 .. n /\ n \in Nat /\ i \in 1 .. n
    OBVIOUS
  <1> HIDE DEF n
  <1>8. \A k \in 1 .. n - 1 : k < i => t[k] = s[k]
    <2> SUFFICES ASSUME NEW k \in 1 .. n - 1, k < i PROVE t[k] = s[k]
      OBVIOUS
    <2>1. k \in 1 .. i - 1
      BY <1>7
    <2> QED BY <1>2, <1>5, <2>1
  <1>9. \A k \in 1 .. n - 1 : i <= k => t[k] = s[k + 1]
    <2> SUFFICES ASSUME NEW k \in 1 .. n - 1, i <= k PROVE t[k] = s[k + 1]
      OBVIOUS
    <2>1. k - (i - 1) \in 1 .. n - i /\ ~ (k <= i - 1) /\ i + (k - (i - 1)) = k + 1
      BY <1>7
    <2>2. b[k - (i - 1)] = s[i + (k - (i - 1))]
      BY <1>3, <2>1 DEF n
    <2> QED BY <1>5, <2>1, <2>2
  <1>10. /\ t \in Seq(S)
         /\ \A k \in DOMAIN t : \/ k < i /\ k \in DOMAIN s /\ t[k] = s[k]
                                \/ i <= k /\ k + 1 \in DOMAIN s /\ t[k] = s[k + 1]
    BY <1>5, <1>6, <1>7, <1>8, <1>9
  <1>11. \A k \in DOMAIN s : /\ k < i => k \in DOMAIN t /\ t[k] = s[k]
                             /\ i < k => k - 1 \in DOMAIN t /\ t[k - 1] = s[k]
    BY <1>6, <1>7, <1>8, <1>9
  <1> QED BY <1>4, <1>10, <1>11 DEF t

-----------------------------------------------------------------------------
(* Options and sizes *)

\* What the constructor leaves in m_options.
Fixed(o) == o.maxBlocks \in SizeType \ {0} /\ o.largest \in Pow2s

\* priv_fix_options: at least one block per chunk, and the largest pooled
\* block a power of two.
LEMMA FixOptionsFixes ==
  ASSUME NEW o \in Options
  PROVE  Fixed(FixOptions(o))
  <1>1. o.maxBlocks \in Nat /\ o.largest \in Nat
    BY PoolAssumption, SizeMaxNat DEF SizeType
  <1>2. /\ MinimumMaxBlocks \in Nat /\ 0 < MinimumMaxBlocks /\ DefaultMaxBlocks \in Nat
        /\ MinimumMaxBlocks <= DefaultMaxBlocks /\ DefaultMaxBlocks <= SizeMax
        /\ SizeMax \in Nat
    BY PoolAssumption, SizeMaxNat DEF SizeType
  <1>3. LimitOption(o.maxBlocks, MinimumMaxBlocks, DefaultMaxBlocks) \in SizeType \ {0}
    BY <1>1, <1>2 DEF LimitOption, Smaller, SizeType
  <1> DEFINE l == LimitOption(o.largest, MinimumPoolBlock, DefaultPoolBlock)
  <1>4. /\ MinimumPoolBlock \in Nat /\ DefaultPoolBlock \in Nat
        /\ MinimumPoolBlock <= DefaultPoolBlock /\ DefaultPoolBlock <= HighBit
    BY PoolAssumption, CeilLog2OfPower
  <1>5. l \in Nat /\ l <= HighBit
    BY <1>1, <1>4, SizeMaxNat DEF LimitOption, Smaller
  <1>6. CeilPow2(l) \in Pow2s
    <2> HIDE DEF l
    <2> QED BY <1>5, CeilPow2Bounds
  <1> QED BY <1>3, <1>6 DEF Fixed, FixOptions

\* priv_pool_index and priv_pool_block: a request up to the largest pooled
\* size has a pool, whose blocks are large enough for it.
LEMMA PoolIndexBounds ==
  ASSUME NEW largest \in Pow2s, NEW bytes \in Nat, bytes <= largest
  PROVE  /\ PoolIndex(bytes) \in 0 .. PoolIndex(largest)
         /\ bytes <= PoolBlock(PoolIndex(bytes))
         /\ PoolBlock(PoolIndex(bytes)) <= SizeMax
  <1> DEFINE low  == MinimumPoolBlock
             n    == Larger(bytes, low)
             most == Larger(largest, low)
             cl   == CeilLog2(low)
             cn   == CeilLog2(n)
             cm   == CeilLog2(most)
  <1>1. /\ low \in Pow2s /\ low \in Nat \ {0} /\ low <= HighBit /\ 2 ^ cl = low
        /\ largest \in Nat /\ largest <= HighBit /\ HighBit \in Nat
    BY PoolAssumption, CeilLog2OfPower, SizeMaxNat
  <1>2. /\ n \in Nat /\ n <= HighBit /\ low <= n /\ bytes <= n /\ n <= most
        /\ most \in Nat /\ most <= HighBit
    BY <1>1 DEF Larger
  <1> HIDE DEF low, n, most
  <1>3. /\ cl \in 0 .. (Width - 1)
        /\ \A j \in 0 .. (Width - 1) : low <= 2 ^ j => cl <= j
    BY <1>1, CeilLog2Bounds
  <1>4. /\ cn \in 0 .. (Width - 1) /\ n <= 2 ^ cn
        /\ \A j \in 0 .. (Width - 1) : n <= 2 ^ j => cn <= j
    BY <1>2, CeilLog2Bounds
  <1>5. cm \in 0 .. (Width - 1) /\ most <= 2 ^ cm
    BY <1>2, CeilLog2Bounds
  <1> HIDE DEF cl, cn, cm
  <1>6. 2 ^ cl \in Nat /\ 2 ^ cn \in Nat /\ 2 ^ cm \in Nat
    BY <1>3, <1>4, <1>5, PowersAssumption
  <1>7. low <= 2 ^ cn /\ n <= 2 ^ cm
    BY <1>1, <1>2, <1>4, <1>5, <1>6
  <1>8. cl <= cn /\ cn <= cm
    BY <1>3, <1>4, <1>5, <1>7
  <1>9. PoolIndex(bytes) = cn - cl /\ PoolIndex(largest) = cm - cl
    BY DEF PoolIndex, cn, cl, cm, n, most, low
  <1>10. PoolIndex(bytes) \in 0 .. PoolIndex(largest)
    BY <1>3, <1>4, <1>5, <1>8, <1>9
  <1>11. PoolBlock(PoolIndex(bytes)) = 2 ^ cn
    <2> DEFINE i == cn - cl
    <2>1. i \in 0 .. (Width - 1) /\ cl + i = cn
      BY <1>3, <1>4, <1>8, WidthAssumption
    <2> HIDE DEF i
    <2>2. 2 ^ (cl + i) = 2 ^ cl * 2 ^ i
      BY <1>3, <1>4, <2>1, ExponentsAdd
    <2> QED BY <1>1, <1>9, <2>1, <2>2 DEF PoolBlock, i, low, cl
  <1>12. 2 ^ cn <= SizeMax
    <2>1. (Width - 1) \in cn .. (Width - 1)
      BY <1>4, WidthAssumption
    <2>2. 2 ^ cn <= HighBit
      BY <1>4, <2>1, PowersMonotone DEF HighBit
    <2> QED BY <1>6, <2>2, SizeMaxNat DEF SizeMax
  <1> QED BY <1>2, <1>4, <1>6, <1>10, <1>11, <1>12

\* The block size of every pool is a positive number.
LEMMA PoolBlockPositive ==
  ASSUME NEW largest \in Pow2s, NEW i \in 0 .. PoolIndex(largest)
  PROVE  PoolBlock(i) \in Nat \ {0}
  <1> DEFINE cm == CeilLog2(Larger(largest, MinimumPoolBlock))
             cl == CeilLog2(MinimumPoolBlock)
  <1>1. /\ MinimumPoolBlock \in Nat \ {0} /\ MinimumPoolBlock <= HighBit
        /\ largest \in Nat /\ largest <= HighBit
    BY PoolAssumption, CeilLog2OfPower
  <1>2. cm \in 0 .. (Width - 1) /\ cl \in 0 .. (Width - 1)
    <2>1. Larger(largest, MinimumPoolBlock) \in Nat /\ Larger(largest, MinimumPoolBlock) <= HighBit
      BY <1>1 DEF Larger
    <2> QED BY <1>1, <2>1, CeilLog2Bounds
  <1> HIDE DEF cm, cl
  <1>3. i \in 0 .. cm - cl
    BY DEF PoolIndex, cm, cl
  <1>4. i \in 0 .. (Width - 1)
    BY <1>2, <1>3, WidthAssumption
  <1>5. 2 ^ i \in Nat \ {0}
    BY <1>4, PowersAssumption
  <1> DEFINE p == 2 ^ i
  <1>6. MinimumPoolBlock * p \in Nat \ {0}
    <2>1. p \in Nat \ {0}
      BY <1>5
    <2> HIDE DEF p
    <2> QED BY <1>1, <2>1
  <1> QED BY <1>6 DEF PoolBlock
-----------------------------------------------------------------------------
(* The inductive invariant.  Its parts take the members of the resource as *)
(* arguments: do_allocate goes on from the members that priv_init_pools    *)
(* leaves, which are no state of the specification.                        *)

Entry == [block : RegionIds, size : SizeType]
Block == [block : RegionIds, offset : Nat]
Pool  == [chunks : Seq(Entry), free : Seq(Block), next : SizeType \ {0}]

\* The indices of the pools, given m_pool_data.
Indices(data) == IF data = NoRegion THEN {} ELSE 0 .. PoolCount - 1

Typed(data, ps, lt, large, out) ==
  /\ data \in RegionIds \cup {NoRegion}
  /\ ps \in [Indices(data) -> Pool]
  /\ lt \in [DOMAIN lt -> Nat] /\ DOMAIN lt \subseteq RegionIds
  /\ large \in Seq(Entry)
  /\ out \subseteq [at : Block, bytes : Sizes]

\* NothingLeaked, for any family of lists.
Tracked(lists, lt, data) ==
  /\ \A i, j \in DOMAIN lists : \A k \in DOMAIN lists[i], l \in DOMAIN lists[j] :
       lists[i][k].block = lists[j][l].block => i = j /\ k = l
  /\ \A i \in DOMAIN lists : \A k \in DOMAIN lists[i] :
       /\ lists[i][k].block \in DOMAIN lt /\ lt[lists[i][k].block] = lists[i][k].size
       /\ lists[i][k].block # data
  /\ \A r \in DOMAIN lt :
       r = data \/ \E i \in DOMAIN lists : \E k \in DOMAIN lists[i] : lists[i][k].block = r
  /\ data # NoRegion => data \in DOMAIN lt /\ lt[data] = PoolDataSize * PoolCount

FreeIn(pool) == {pool.free[k] : k \in DOMAIN pool.free}

BlocksIn(i, pool) ==
  UNION {ChunkBlocks(pool.chunks[j], PoolBlock(i)) : j \in DOMAIN pool.chunks}

HeldIn(i, out) == {e.at : e \in {x \in out : ~Oversized(x.bytes) /\ PoolIndex(x.bytes) = i}}

\* BlocksConserved, for one pool.
Conserved(i, pool, out) ==
  /\ FreeIn(pool) \cup HeldIn(i, out) = BlocksIn(i, pool)
  /\ FreeIn(pool) \cap HeldIn(i, out) = {}
  /\ \A j, k \in DOMAIN pool.free : pool.free[j] = pool.free[k] => j = k

\* A chunk is its header and a whole number of blocks.
ChunksWhole(i, pool) ==
  \A j \in DOMAIN pool.chunks : \E n \in Nat : pool.chunks[j].size = n * PoolBlock(i) + HeaderSize

HeldOnce(out) == \A e, f \in out : e.at = f.at => e = f

\* What a caller holds of block_list is a node of the list.
OversizedListed(large, out) ==
  \A e \in out : Oversized(e.bytes) =>
    /\ e.at.offset = HeaderSize
    /\ \E k \in DOMAIN large : large[k] = [block |-> e.at.block, size |-> e.bytes + HeaderSize]

Sound(data, ps, lt, large, out) ==
  /\ Typed(data, ps, lt, large, out)
  /\ Tracked(ListsOf(ps, large), lt, data)
  /\ \A i \in DOMAIN ps : Conserved(i, ps[i], out) /\ ChunksWhole(i, ps[i])
  /\ HeldOnce(out) /\ OversizedListed(large, out)
  /\ out # {} => data # NoRegion

\* The members before the constructor and after the destructor.
Vacant ==
  /\ poolData = NoRegion /\ pools = NoPools /\ oversized = <<>>
  /\ lent = NothingLent /\ outstanding = {}

IInv ==
  /\ alive \in BOOLEAN
  /\ alive => Fixed(options)
  /\ ~alive => Vacant
  /\ Sound(poolData, pools, lent, oversized, outstanding)

-----------------------------------------------------------------------------
(* Lending and giving back *)

\* A region lent and listed.
LEMMA TrackedAdd ==
  ASSUME NEW K, NEW lists \in [K -> Seq(Entry)], NEW lt, NEW data,
         lt \in [DOMAIN lt -> Nat], Tracked(lists, lt, data),
         NEW i \in K, NEW c \in Entry, c.block \notin DOMAIN lt,
         NEW new \in [K -> Seq(Entry)], new[i] = <<c>> \o lists[i],
         \A j \in K : j # i => new[j] = lists[j]
  PROVE  Tracked(new, Lend(lt, c.block, c.size), data)
  <1> DEFINE lt2 == Lend(lt, c.block, c.size)
             t == new[i]
             s == lists[i]
  <1>1. s \in Seq(Entry) /\ t = <<c>> \o s
    OBVIOUS
  <1>2. /\ t[1] = c /\ 1 \in DOMAIN t
        /\ \A k \in DOMAIN t : k # 1 => k - 1 \in DOMAIN s /\ t[k] = s[k - 1]
        /\ \A k \in DOMAIN s : k + 1 \in DOMAIN t /\ t[k + 1] = s[k]
    BY <1>1, Prepended
  <1>3. /\ DOMAIN lt2 = DOMAIN lt \cup {c.block} /\ lt2[c.block] = c.size
        /\ \A r \in DOMAIN lt : lt2[r] = lt[r]
    BY DEF Lend
  <1>4. DOMAIN lists = K /\ DOMAIN new = K
    OBVIOUS
  <1>5. c.block # NoRegion /\ (data # NoRegion => c.block # data)
    BY PoolAssumption DEF Entry, Tracked
  <1>6. \A k \in DOMAIN s : s[k].block \in DOMAIN lt /\ s[k].block # c.block
    BY <1>4 DEF Tracked
  <1>7. ASSUME NEW j \in K, j # i, NEW k \in DOMAIN new[j]
        PROVE  new[j] = lists[j] /\ new[j][k].block \in DOMAIN lt /\ new[j][k].block # c.block
    BY <1>4, <1>7 DEF Tracked
  <1> HIDE DEF lt2
  <1>8. \A k, l \in DOMAIN t : t[k].block = t[l].block => k = l
    <2> SUFFICES ASSUME NEW k \in DOMAIN t, NEW l \in DOMAIN t, t[k].block = t[l].block
                 PROVE  k = l
      OBVIOUS
    <2>1. t \in Seq(Entry)
      OBVIOUS
    <2>2. k \in Nat /\ l \in Nat
      BY <2>1
    <2> HIDE DEF s, t
    <2>3. CASE k # 1 /\ l # 1
      <3>1. s[k - 1].block = s[l - 1].block /\ k - 1 \in DOMAIN s /\ l - 1 \in DOMAIN s
        BY <1>2, <2>3
      <3>2. k - 1 = l - 1
        BY <1>4, <3>1 DEF Tracked, s
      <3> QED BY <2>2, <3>2
    <2>4. CASE k = 1 /\ l # 1
      BY <1>2, <1>6, <2>4
    <2>5. CASE k # 1 /\ l = 1
      BY <1>2, <1>6, <2>5
    <2> QED BY <2>3, <2>4, <2>5
  <1>9. ASSUME NEW k \in DOMAIN t
        PROVE  /\ t[k].block \in DOMAIN lt2 /\ lt2[t[k].block] = t[k].size /\ t[k].block # data
    <2> HIDE DEF s, t
    <2>1. CASE k = 1
      BY <1>2, <1>3, <1>5, <2>1, PoolAssumption DEF Entry
    <2>2. CASE k # 1
      BY <1>2, <1>3, <1>4, <2>2 DEF Tracked, s
    <2> QED BY <2>1, <2>2
  <1>10. ASSUME NEW r \in DOMAIN lt2
         PROVE  r = data \/ \E j \in K : \E k \in DOMAIN new[j] : new[j][k].block = r
    <2>1. CASE r = c.block
      BY <1>2, <2>1
    <2>2. CASE r \in DOMAIN lt /\ r # data
      <3>1. PICK j \in K : \E k \in DOMAIN lists[j] : lists[j][k].block = r
        BY <1>4, <2>2 DEF Tracked
      <3>2. CASE j = i
        <4>1. PICK k \in DOMAIN s : s[k].block = r
          BY <3>1, <3>2
        <4>2. k + 1 \in DOMAIN new[i] /\ new[i][k + 1].block = r
          BY <1>2, <4>1
        <4> QED BY <4>2
      <3>3. CASE j # i
        BY <3>1, <3>3
      <3> QED BY <3>2, <3>3
    <2> QED BY <1>3, <2>1, <2>2
  <1>11. \A j \in K : \A k \in DOMAIN new[j] :
           /\ new[j][k].block \in DOMAIN lt2 /\ lt2[new[j][k].block] = new[j][k].size
           /\ new[j][k].block # data
    <2> SUFFICES ASSUME NEW j \in K, NEW k \in DOMAIN new[j]
                 PROVE  /\ new[j][k].block \in DOMAIN lt2
                        /\ lt2[new[j][k].block] = new[j][k].size /\ new[j][k].block # data
      OBVIOUS
    <2>1. CASE j = i
      BY <1>9, <2>1
    <2>2. CASE j # i
      BY <1>3, <1>4, <1>7, <2>2 DEF Tracked
    <2> QED BY <2>1, <2>2
  <1>12. \A j, h \in K : \A k \in DOMAIN new[j], l \in DOMAIN new[h] :
           new[j][k].block = new[h][l].block => j = h /\ k = l
    <2> SUFFICES ASSUME NEW j \in K, NEW h \in K, NEW k \in DOMAIN new[j], NEW l \in DOMAIN new[h],
                        new[j][k].block = new[h][l].block
                 PROVE  j = h /\ k = l
      OBVIOUS
    <2>1. CASE j # i /\ h # i
      BY <1>4, <1>7, <2>1 DEF Tracked
    <2>2. CASE j = i /\ h = i
      BY <1>8, <2>2
    <2>3. ASSUME NEW g \in K, g # i, NEW m \in DOMAIN new[g], NEW n \in DOMAIN t,
                 t[n].block = new[g][m].block
          PROVE  FALSE
      <3>1. n # 1
        BY <1>2, <1>7, <2>3
      <3>2. n - 1 \in DOMAIN lists[i] /\ lists[i][n - 1].block = lists[g][m].block
        BY <1>2, <1>7, <2>3, <3>1
      <3> QED BY <1>4, <1>7, <2>3, <3>2 DEF Tracked
    <2> QED BY <2>1, <2>2, <2>3
  <1>13. data # NoRegion => data \in DOMAIN lt2 /\ lt2[data] = PoolDataSize * PoolCount
    BY <1>3 DEF Tracked
  <1> QED BY <1>4, <1>10, <1>11, <1>12, <1>13 DEF Tracked, lt2

\* Giving back what one entry says takes that region off upstream's record.
LEMMA GiveBackOne ==
  ASSUME NEW lt, NEW c \in Entry, c.block \in DOMAIN lt, lt[c.block] = c.size
  PROVE  GiveBack(lt, <<c>>) = [x \in DOMAIN lt \ {c.block} |-> lt[x]]
  <1>1. c = [block |-> c.block, size |-> lt[c.block]]
    BY DEF Entry
  <1>2. \A r \in DOMAIN lt : (\E i \in DOMAIN <<c>> : <<c>>[i] = [block |-> r, size |-> lt[r]])
                               <=> r = c.block
    <2>1. DOMAIN <<c>> = {1} /\ <<c>>[1] = c
      OBVIOUS
    <2> QED BY <1>1, <2>1
  <1>3. {r \in DOMAIN lt : ~ \E i \in DOMAIN <<c>> : <<c>>[i] = [block |-> r, size |-> lt[r]]}
          = DOMAIN lt \ {c.block}
    BY <1>2
  <1> QED BY <1>3 DEF GiveBack

\* An entry unlinked, and its region given back.
LEMMA TrackedRemove ==
  ASSUME NEW K, NEW lists \in [K -> Seq(Entry)], NEW lt, NEW data,
         lt \in [DOMAIN lt -> Nat], Tracked(lists, lt, data),
         NEW i \in K, NEW k \in DOMAIN lists[i],
         NEW new \in [K -> Seq(Entry)], new[i] = RemoveAt(lists[i], k),
         \A j \in K : j # i => new[j] = lists[j]
  PROVE  Tracked(new, GiveBack(lt, <<lists[i][k]>>), data)
  <1> DEFINE s == lists[i]
             t == new[i]
             c == s[k]
             lt2 == GiveBack(lt, <<c>>)
  <1>1. s \in Seq(Entry) /\ k \in DOMAIN s /\ t = RemoveAt(s, k)
    OBVIOUS
  <1>2. /\ \A m \in DOMAIN t : \/ m < k /\ m \in DOMAIN s /\ t[m] = s[m]
                               \/ k <= m /\ m + 1 \in DOMAIN s /\ t[m] = s[m + 1]
        /\ \A m \in DOMAIN s : /\ m < k => m \in DOMAIN t /\ t[m] = s[m]
                               /\ k < m => m - 1 \in DOMAIN t /\ t[m - 1] = s[m]
    BY <1>1, Removed
  <1>3. DOMAIN lists = K /\ DOMAIN new = K
    OBVIOUS
  <1>4. c \in Entry /\ c.block \in DOMAIN lt /\ lt[c.block] = c.size /\ c.block # data
    <2>1. c \in Entry
      <3> HIDE DEF s
      <3> QED BY <1>1, ElementOfSeq
    <2> QED BY <1>3, <2>1 DEF Tracked
  <1>5. DOMAIN lt2 = DOMAIN lt \ {c.block} /\ \A r \in DOMAIN lt2 : lt2[r] = lt[r]
    <2> HIDE DEF c
    <2>1. lt2 = [x \in DOMAIN lt \ {c.block} |-> lt[x]]
      BY <1>4, GiveBackOne
    <2> QED BY <2>1
  <1> HIDE DEF lt2
  <1>6. DOMAIN s \subseteq Nat /\ DOMAIN t \subseteq Nat
    <2>1. s \in Seq(Entry) /\ t \in Seq(Entry)
      OBVIOUS
    <2> HIDE DEF s, t
    <2> QED BY <2>1
  \* Every entry left was there, at an index that tells them apart.
  <1>7. ASSUME NEW m \in DOMAIN t
        PROVE  \E n \in DOMAIN s : t[m] = s[n] /\ n # k /\ n = IF m < k THEN m ELSE m + 1
    <2> HIDE DEF s, t
    <2>1. m \in Nat /\ k \in Nat
      BY <1>1, <1>6
    <2> QED BY <1>2, <2>1
  <1>8. ASSUME NEW j \in K, NEW m \in DOMAIN new[j]
        PROVE  /\ new[j][m].block \in DOMAIN lt2 /\ lt2[new[j][m].block] = new[j][m].size
               /\ new[j][m].block # data
               /\ \E n \in DOMAIN lists[j] :
                    /\ new[j][m] = lists[j][n]
                    /\ n = IF j = i /\ ~(m < k) THEN m + 1 ELSE m
    <2>1. CASE j = i
      <3>1. PICK n \in DOMAIN s : t[m] = s[n] /\ n # k /\ n = IF m < k THEN m ELSE m + 1
        BY <1>7, <1>8, <2>1
      <3>2. s[n].block # c.block
        BY <1>3, <3>1 DEF Tracked
      <3>3. s[n].block \in DOMAIN lt /\ lt[s[n].block] = s[n].size /\ s[n].block # data
        BY <1>3, <3>1 DEF Tracked
      <3> QED BY <1>5, <2>1, <3>1, <3>2, <3>3
    <2>2. CASE j # i
      <3>1. new[j] = lists[j] /\ m \in DOMAIN lists[j]
        BY <1>8, <2>2
      <3>2. lists[j][m].block # c.block
        BY <1>3, <2>2, <3>1 DEF Tracked
      <3>3. /\ lists[j][m].block \in DOMAIN lt /\ lt[lists[j][m].block] = lists[j][m].size
            /\ lists[j][m].block # data
        BY <1>3, <3>1 DEF Tracked
      <3> QED BY <1>5, <2>2, <3>1, <3>2, <3>3
    <2> QED BY <2>1, <2>2
  <1>9. ASSUME NEW j \in K, NEW h \in K, NEW m \in DOMAIN new[j], NEW l \in DOMAIN new[h],
               new[j][m].block = new[h][l].block
        PROVE  j = h /\ m = l
    <2>1. PICK n \in DOMAIN lists[j] : /\ new[j][m] = lists[j][n]
                                       /\ n = IF j = i /\ ~(m < k) THEN m + 1 ELSE m
      BY <1>8
    <2>2. PICK o \in DOMAIN lists[h] : /\ new[h][l] = lists[h][o]
                                       /\ o = IF h = i /\ ~(l < k) THEN l + 1 ELSE l
      BY <1>8
    <2>3. j = h /\ n = o
      <3>1. lists[j][n].block = lists[h][o].block
        BY <1>9, <2>1, <2>2
      <3> QED BY <1>3, <3>1 DEF Tracked
    <2>4. CASE j # i
      BY <2>1, <2>2, <2>3, <2>4
    <2>5. CASE j = i
      <3>1. m \in DOMAIN t /\ l \in DOMAIN t
        BY <2>3, <2>5
      <3>2. /\ n = IF ~(m < k) THEN m + 1 ELSE m
            /\ o = IF ~(l < k) THEN l + 1 ELSE l
            /\ n = o
        BY <2>1, <2>2, <2>3, <2>5
      <3>3. m \in Nat /\ l \in Nat /\ k \in Nat
        <4> HIDE DEF s, t
        <4> QED BY <1>1, <1>6, <3>1
      <3>4. \A x, y, z \in Nat :
              (IF ~(x < z) THEN x + 1 ELSE x) = (IF ~(y < z) THEN y + 1 ELSE y) => x = y
        OBVIOUS
      <3>5. (IF ~(m < k) THEN m + 1 ELSE m) = (IF ~(l < k) THEN l + 1 ELSE l)
        BY <3>2
      <3> QED BY <2>3, <3>3, <3>4, <3>5
    <2> QED BY <2>4, <2>5
  <1>10. ASSUME NEW r \in DOMAIN lt2
         PROVE  r = data \/ \E j \in K : \E m \in DOMAIN new[j] : new[j][m].block = r
    <2>1. r \in DOMAIN lt /\ r # c.block
      BY <1>5
    <2>2. CASE r # data
      <3>1. PICK j \in K : \E n \in DOMAIN lists[j] : lists[j][n].block = r
        BY <1>3, <2>1, <2>2 DEF Tracked
      <3>2. PICK n \in DOMAIN lists[j] : lists[j][n].block = r
        BY <3>1
      <3>3. CASE j # i
        BY <3>2, <3>3
      <3>4. CASE j = i
        <4>1. n \in DOMAIN s /\ n # k /\ s[n].block = r
          BY <2>1, <3>2, <3>4
        <4>2. \E m \in DOMAIN t : t[m] = s[n]
          <5> HIDE DEF s, t
          <5>1. n \in Nat /\ k \in Nat
            BY <1>1, <1>6, <4>1
          <5>2. n < k \/ k < n
            BY <4>1, <5>1
          <5> QED BY <1>2, <4>1, <5>2
        <4> QED BY <3>4, <4>1, <4>2
      <3> QED BY <3>3, <3>4
    <2> QED BY <2>2
  <1>11. data # NoRegion => data \in DOMAIN lt2 /\ lt2[data] = PoolDataSize * PoolCount
    BY <1>4, <1>5 DEF Tracked
  <1>12. Tracked(new, lt2, data)
    BY <1>3, <1>8, <1>9, <1>10, <1>11 DEF Tracked
  <1> QED BY <1>12 DEF lt2

-----------------------------------------------------------------------------
(* Where the blocks are *)

\* The lists are lists of regions.
LEMMA ListsTyped ==
  ASSUME NEW data, NEW ps, NEW lt, NEW large, NEW out, Typed(data, ps, lt, large, out)
  PROVE  /\ ListsOf(ps, large) \in [Indices(data) \cup {PoolCount} -> Seq(Entry)]
         /\ DOMAIN ps = Indices(data)
         /\ \A i \in Indices(data) : ps[i] \in Pool
  BY DEF Typed, ListsOf, Pool

\* With options fixed, every pooled request has its pool, and the index of
\* the oversized ones is no pool's.
LEMMA IndexOf ==
  ASSUME Fixed(options)
  PROVE  /\ PoolCount \in Nat \ {0}
         /\ \A data : PoolCount \notin Indices(data)
         /\ \A data : \A i \in Indices(data) : PoolBlock(i) \in Nat \ {0}
         /\ \A bytes \in Sizes : ~Oversized(bytes) =>
              /\ PoolIndex(bytes) \in 0 .. PoolCount - 1
              /\ bytes <= PoolBlock(PoolIndex(bytes)) /\ PoolBlock(PoolIndex(bytes)) <= SizeMax
  <1> DEFINE largest == options.largest
  <1>1. largest \in Pow2s /\ largest \in Nat
    BY CeilLog2OfPower DEF Fixed
  <1>2. PoolCount = PoolIndex(largest) + 1
    BY DEF PoolCount
  <1>3. \A bytes \in Sizes : bytes \in Nat
    BY PoolAssumption, SizeMaxNat DEF SizeType
  <1>4. \A bytes \in Sizes : ~Oversized(bytes) => bytes <= largest
    BY <1>1, <1>3 DEF Oversized
  <1> HIDE DEF largest
  <1>5. PoolIndex(largest) \in Nat
    <2>1. PoolIndex(largest) \in 0 .. PoolIndex(largest)
      BY <1>1, PoolIndexBounds
    <2> QED BY <2>1
  <1>6. PoolCount \in Nat \ {0} /\ PoolCount - 1 = PoolIndex(largest)
    BY <1>2, <1>5
  <1>7. ASSUME NEW data, NEW i \in Indices(data)
        PROVE  i \in 0 .. PoolIndex(largest) /\ i # PoolCount
    BY <1>6 DEF Indices
  <1>8. \A data : \A i \in Indices(data) : PoolBlock(i) \in Nat \ {0}
    BY <1>1, <1>7, PoolBlockPositive
  <1>9. \A bytes \in Sizes : ~Oversized(bytes) =>
          /\ PoolIndex(bytes) \in 0 .. PoolCount - 1
          /\ bytes <= PoolBlock(PoolIndex(bytes)) /\ PoolBlock(PoolIndex(bytes)) <= SizeMax
    BY <1>1, <1>3, <1>4, <1>6, PoolIndexBounds
  <1> QED BY <1>6, <1>7, <1>8, <1>9

\* The blocks of a chunk that is a header and n whole blocks.
LEMMA WholeChunk ==
  ASSUME NEW n \in Nat, NEW block \in Nat \ {0}, NEW c, c.size = n * block + HeaderSize
  PROVE  \A b : b \in ChunkBlocks(c, block) <=>
           \E k \in 0 .. n - 1 : b = [block |-> c.block, offset |-> HeaderSize + k * block]
  <1> DEFINE m == n * block
  <1>1. m \in Nat /\ HeaderSize \in Nat
    BY PoolAssumption
  <1>2. c.size - HeaderSize = m
    <2> HIDE DEF m
    <2>1. c.size = m + HeaderSize
      BY DEF m
    <2> QED BY <1>1, <2>1
  <1>3. m \div block = n
    OBVIOUS
  <1> QED BY <1>2, <1>3 DEF ChunkBlocks

\* Blocks of two chunks' worth of offsets are as far apart as they are many.
LEMMA Apart ==
  ASSUME NEW j \in Nat, NEW k \in Nat, NEW block \in Nat \ {0}, j < k
  PROVE  j * block + block <= k * block
  <1> DEFINE d == k - (j + 1)
  <1>1. d \in Nat /\ k = (j + 1) + d
    OBVIOUS
  <1> HIDE DEF d
  <1>2. k * block = (j * block + block) + d * block
    BY <1>1
  <1>3. d * block \in Nat /\ j * block \in Nat
    BY <1>1
  <1> DEFINE x == d * block
             y == j * block
  <1> HIDE DEF x, y
  <1>4. x \in Nat /\ y \in Nat /\ k * block = (y + block) + x
    BY <1>2, <1>3 DEF x, y
  <1>5. y + block <= k * block
    BY <1>4
  <1> QED BY <1>5 DEF y

\* A free or held block of a pool lies in one of its chunks.
LEMMA InChunk ==
  ASSUME NEW i, NEW pool, NEW b, b \in BlocksIn(i, pool)
  PROVE  \E j \in DOMAIN pool.chunks : b \in ChunkBlocks(pool.chunks[j], PoolBlock(i))
                                       /\ b.block = pool.chunks[j].block
  BY DEF BlocksIn, ChunkBlocks

\* The list a held extent's region is on.
ListIndex(bytes) == IF Oversized(bytes) THEN PoolCount ELSE PoolIndex(bytes)

\* What is free or held lies in a region of the list it belongs to.
LEMMA HeldListed ==
  ASSUME NEW data, NEW ps, NEW lt, NEW large, NEW out, Fixed(options),
         Sound(data, ps, lt, large, out)
  PROVE  /\ \A i \in DOMAIN ps : \A b \in FreeIn(ps[i]) \cup HeldIn(i, out) :
              \E k \in DOMAIN ListsOf(ps, large)[i] : ListsOf(ps, large)[i][k].block = b.block
         /\ \A e \in out : /\ ListIndex(e.bytes) \in DOMAIN ListsOf(ps, large)
                           /\ \E k \in DOMAIN ListsOf(ps, large)[ListIndex(e.bytes)] :
                                ListsOf(ps, large)[ListIndex(e.bytes)][k].block = e.at.block
  <1> DEFINE lists == ListsOf(ps, large)
  <1>1. /\ DOMAIN ps = Indices(data)
        /\ DOMAIN lists = Indices(data) \cup {PoolCount}
        /\ \A i \in DOMAIN ps : lists[i] = ps[i].chunks
        /\ lists[PoolCount] = large /\ PoolCount \notin DOMAIN ps
    <2>1. Typed(data, ps, lt, large, out)
      BY DEF Sound
    <2>2. PoolCount \notin Indices(data)
      BY IndexOf
    <2>3. /\ lists \in [Indices(data) \cup {PoolCount} -> Seq(Entry)]
          /\ DOMAIN ps = Indices(data)
          /\ \A i \in Indices(data) : lists[i] = ps[i].chunks
          /\ lists[PoolCount] = large
      <3>1. DOMAIN ps = Indices(data) /\ lists \in [Indices(data) \cup {PoolCount} -> Seq(Entry)]
        BY <2>1, ListsTyped
      <3>2. \A i \in DOMAIN ps : lists[i] = ps[i].chunks
        BY DEF ListsOf
      <3>3. lists[PoolCount] = large
        BY <2>2, <3>1 DEF ListsOf
      <3> QED BY <3>1, <3>2, <3>3
    <2> HIDE DEF lists
    <2> QED BY <2>2, <2>3
  <1> HIDE DEF lists
  <1>2. ASSUME NEW i \in DOMAIN ps, NEW b \in FreeIn(ps[i]) \cup HeldIn(i, out)
        PROVE  \E k \in DOMAIN lists[i] : lists[i][k].block = b.block
    <2>1. b \in BlocksIn(i, ps[i])
      BY DEF Sound, Conserved
    <2> QED BY <1>1, <2>1, InChunk
  <1>3. ASSUME NEW e \in out
        PROVE  /\ ListIndex(e.bytes) \in DOMAIN lists
               /\ \E k \in DOMAIN lists[ListIndex(e.bytes)] :
                    lists[ListIndex(e.bytes)][k].block = e.at.block
    <2>1. CASE Oversized(e.bytes)
      <3>1. \E k \in DOMAIN large : large[k] = [block |-> e.at.block, size |-> e.bytes + HeaderSize]
        BY <2>1 DEF Sound, OversizedListed
      <3>2. \E k \in DOMAIN large : large[k].block = e.at.block
        BY <3>1
      <3> QED BY <1>1, <2>1, <3>2 DEF ListIndex
    <2>2. CASE ~Oversized(e.bytes)
      <3> DEFINE i == PoolIndex(e.bytes)
      <3>1. e.bytes \in Sizes /\ data # NoRegion
        BY DEF Sound, Typed
      <3>2. i \in DOMAIN ps
        BY <1>1, <2>2, <3>1, IndexOf DEF Indices
      <3>3. e.at \in HeldIn(i, out)
        BY <2>2 DEF HeldIn
      <3> HIDE DEF i
      <3>4. \E k \in DOMAIN lists[i] : lists[i][k].block = e.at.block
        BY <1>2, <3>2, <3>3
      <3> QED BY <1>1, <2>2, <3>2, <3>4 DEF ListIndex, i
    <2> QED BY <2>1, <2>2
  <1> QED BY <1>2, <1>3 DEF lists

-----------------------------------------------------------------------------
(* What the operations on a free list conserve *)

\* allocate_block: the block leaves the free list for its caller.
LEMMA TakeConserves ==
  ASSUME NEW i, NEW pool \in Pool, NEW out, Conserved(i, pool, out), pool.free # <<>>,
         NEW bytes, ~Oversized(bytes), PoolIndex(bytes) = i
  PROVE  /\ Conserved(i, Take(pool), out \cup {[at |-> Head(pool.free), bytes |-> bytes]})
         /\ Take(pool) \in Pool /\ Take(pool).chunks = pool.chunks
         /\ Head(pool.free) \in FreeIn(pool) /\ Head(pool.free) \in Block
  <1> DEFINE s == pool.free
             t == Tail(s)
             e == [at |-> Head(s), bytes |-> bytes]
             out2 == out \cup {e}
  <1>1. /\ t \in Seq(Block) /\ Head(s) = s[1] /\ 1 \in DOMAIN s /\ Head(s) \in Block
        /\ \A k \in DOMAIN t : k + 1 \in DOMAIN s /\ t[k] = s[k + 1] /\ k # 0
        /\ \A k \in DOMAIN s : k # 1 => k - 1 \in DOMAIN t /\ t[k - 1] = s[k]
    <2>1. s \in Seq(Block) /\ s # <<>>
      BY DEF Pool
    <2> HIDE DEF s
    <2> QED BY <2>1, Tailed
  <1>2. /\ Take(pool) \in Pool /\ Take(pool).chunks = pool.chunks /\ Take(pool).free = t
    BY <1>1 DEF Take, Pool
  <1>3. DOMAIN s \subseteq Nat /\ DOMAIN t \subseteq Nat
    <2>1. s \in Seq(Block)
      BY DEF Pool
    <2> HIDE DEF s, t
    <2> QED BY <1>1, <2>1
  <1>4. \A j, k \in DOMAIN s : s[j] = s[k] => j = k
    BY DEF Conserved
  <1> HIDE DEF t, s
  <1>5. \A j, k \in DOMAIN t : t[j] = t[k] => j = k
    <2> SUFFICES ASSUME NEW j \in DOMAIN t, NEW k \in DOMAIN t, t[j] = t[k] PROVE j = k
      OBVIOUS
    <2>1. j + 1 = k + 1
      BY <1>1, <1>4
    <2>2. j \in Nat /\ k \in Nat
      BY <1>3
    <2> QED BY <2>1, <2>2
  <1>6. {t[k] : k \in DOMAIN t} = {s[k] : k \in DOMAIN s} \ {s[1]}
    <2>1. ASSUME NEW k \in DOMAIN t PROVE t[k] \in {s[n] : n \in DOMAIN s} \ {s[1]}
      <3>1. k + 1 \in DOMAIN s /\ t[k] = s[k + 1] /\ k + 1 # 1
        BY <1>1, <1>3
      <3> QED BY <1>1, <1>4, <3>1
    <2>2. ASSUME NEW k \in DOMAIN s, s[k] # s[1] PROVE s[k] \in {t[n] : n \in DOMAIN t}
      BY <1>1, <2>2
    <2> QED BY <2>1, <2>2
  <1>7. HeldIn(i, out2) = HeldIn(i, out) \cup {s[1]}
    <2>1. e.at = s[1] /\ e.bytes = bytes
      BY <1>1 DEF s
    <2> HIDE DEF e
    <2> QED BY <2>1 DEF HeldIn
  <1>8. FreeIn(pool) = {s[k] : k \in DOMAIN s} /\ FreeIn(Take(pool)) = {t[k] : k \in DOMAIN t}
    BY <1>2 DEF FreeIn, s
  <1>9. BlocksIn(i, Take(pool)) = BlocksIn(i, pool)
    BY <1>2 DEF BlocksIn
  <1>10. s[1] \in FreeIn(pool)
    BY <1>1, <1>8
  <1>11. /\ FreeIn(Take(pool)) \cup HeldIn(i, out2) = BlocksIn(i, Take(pool))
         /\ FreeIn(Take(pool)) \cap HeldIn(i, out2) = {}
    <2>1. /\ FreeIn(pool) \cup HeldIn(i, out) = BlocksIn(i, pool)
          /\ FreeIn(pool) \cap HeldIn(i, out) = {}
      BY DEF Conserved
    <2>2. FreeIn(Take(pool)) = FreeIn(pool) \ {s[1]}
      BY <1>6, <1>8
    <2> HIDE DEF out2
    <2> QED BY <1>7, <1>9, <1>10, <2>1, <2>2
  <1>12. Conserved(i, Take(pool), out2)
    BY <1>2, <1>5, <1>11 DEF Conserved
  <1> QED BY <1>1, <1>2, <1>10, <1>12 DEF s

\* deallocate_block: the block goes from its caller to the free list.
LEMMA PutConserves ==
  ASSUME NEW i, NEW pool \in Pool, NEW out, Conserved(i, pool, out), HeldOnce(out),
         NEW e \in out, e.at \in Block, ~Oversized(e.bytes), PoolIndex(e.bytes) = i
  PROVE  LET new == [pool EXCEPT !.free = <<e.at>> \o @] IN
         Conserved(i, new, out \ {e}) /\ new \in Pool /\ new.chunks = pool.chunks
  <1> DEFINE s == pool.free
             t == <<e.at>> \o s
             new == [pool EXCEPT !.free = t]
             out2 == out \ {e}
  <1>1. s \in Seq(Block)
    BY DEF Pool
  <1>2. /\ t \in Seq(Block) /\ t[1] = e.at /\ 1 \in DOMAIN t
        /\ \A k \in DOMAIN t : k # 1 => k - 1 \in DOMAIN s /\ t[k] = s[k - 1]
        /\ \A k \in DOMAIN s : k + 1 \in DOMAIN t /\ t[k + 1] = s[k]
    <2> HIDE DEF s
    <2> QED BY <1>1, Prepended
  <1>3. DOMAIN s \subseteq Nat /\ DOMAIN t \subseteq Nat
    <2> HIDE DEF s, t
    <2> QED BY <1>1, <1>2
  <1> HIDE DEF t
  <1>4. new \in Pool /\ new.chunks = pool.chunks /\ new.free = t
    BY <1>2 DEF Pool
  <1>5. new = [pool EXCEPT !.free = <<e.at>> \o @]
    BY DEF t, Pool
  <1> HIDE DEF new
  <1>6. \A j, k \in DOMAIN s : s[j] = s[k] => j = k
    BY DEF Conserved
  <1>7. e.at \in HeldIn(i, out)
    BY DEF HeldIn
  <1>8. \A k \in DOMAIN s : s[k] # e.at
    BY <1>7 DEF Conserved, FreeIn
  <1> HIDE DEF s
  <1>9. \A j, k \in DOMAIN t : t[j] = t[k] => j = k
    <2> SUFFICES ASSUME NEW j \in DOMAIN t, NEW k \in DOMAIN t, t[j] = t[k] PROVE j = k
      OBVIOUS
    <2>1. j \in Nat /\ k \in Nat
      BY <1>3
    <2>2. CASE j # 1 /\ k # 1
      <3>1. j - 1 = k - 1
        BY <1>2, <1>6, <2>2
      <3> QED BY <2>1, <3>1
    <2>3. CASE j = 1 \/ k = 1
      BY <1>2, <1>8, <2>3
    <2> QED BY <2>2, <2>3
  <1>10. {t[k] : k \in DOMAIN t} = {s[k] : k \in DOMAIN s} \cup {e.at}
    <2>1. ASSUME NEW k \in DOMAIN t PROVE t[k] \in {s[n] : n \in DOMAIN s} \cup {e.at}
      BY <1>2
    <2>2. ASSUME NEW k \in DOMAIN s PROVE s[k] \in {t[n] : n \in DOMAIN t}
      BY <1>2
    <2>3. e.at \in {t[n] : n \in DOMAIN t}
      BY <1>2
    <2> QED BY <2>1, <2>2, <2>3
  <1>11. HeldIn(i, out2) = HeldIn(i, out) \ {e.at}
    BY DEF HeldIn, HeldOnce
  <1>12. FreeIn(pool) = {s[k] : k \in DOMAIN s} /\ FreeIn(new) = {t[k] : k \in DOMAIN t}
    BY <1>4 DEF FreeIn, s
  <1>13. BlocksIn(i, new) = BlocksIn(i, pool)
    BY <1>4 DEF BlocksIn
  <1>14. /\ FreeIn(new) \cup HeldIn(i, out2) = BlocksIn(i, new)
         /\ FreeIn(new) \cap HeldIn(i, out2) = {}
    <2>1. FreeIn(new) = FreeIn(pool) \cup {e.at}
      BY <1>10, <1>12
    <2>2. /\ FreeIn(pool) \cup HeldIn(i, out) = BlocksIn(i, pool)
          /\ FreeIn(pool) \cap HeldIn(i, out) = {}
      BY DEF Conserved
    <2> QED BY <1>7, <1>11, <1>13, <2>1, <2>2
  <1>15. Conserved(i, new, out2)
    BY <1>4, <1>9, <1>14 DEF Conserved
  <1> QED BY <1>4, <1>5, <1>15

\* What other pools do not notice.
LEMMA OthersConserve ==
  ASSUME NEW i, NEW pool, NEW out, Conserved(i, pool, out),
         NEW e, Oversized(e.bytes) \/ PoolIndex(e.bytes) # i
  PROVE  Conserved(i, pool, out \cup {e}) /\ Conserved(i, pool, out \ {e})
  <1>1. HeldIn(i, out \cup {e}) = HeldIn(i, out) /\ HeldIn(i, out \ {e}) = HeldIn(i, out)
    BY DEF HeldIn
  <1> QED BY <1>1 DEF Conserved

\* replenish: the new blocks are those of the new chunk, each once.
LEMMA CutCuts ==
  ASSUME NEW r \in RegionIds, NEW n \in Nat, NEW block \in Nat \ {0},
         NEW c, c.block = r, c.size = n * block + HeaderSize
  PROVE  LET cut == Cut(r, n, block) IN
         /\ cut \in Seq(Block) /\ DOMAIN cut = 1 .. n
         /\ {cut[k] : k \in DOMAIN cut} = ChunkBlocks(c, block)
         /\ \A j, k \in DOMAIN cut : cut[j] = cut[k] => j = k
  <1> DEFINE cut == Cut(r, n, block)
             at(k) == HeaderSize + k * block
  <1>1. HeaderSize \in Nat
    BY PoolAssumption
  <1>2. \A k \in 0 .. n - 1 : at(k) \in Nat
    <2> SUFFICES ASSUME NEW k \in 0 .. n - 1 PROVE at(k) \in Nat
      OBVIOUS
    <2>1. k * block \in Nat
      OBVIOUS
    <2> DEFINE x == k * block
    <2> HIDE DEF x
    <2>2. HeaderSize + x \in Nat
      BY <1>1, <2>1 DEF x
    <2> QED BY <2>2 DEF x
  <1>3. \A j, k \in 0 .. n - 1 : at(j) = at(k) => j = k
    <2>1. ASSUME NEW j \in 0 .. n - 1, NEW k \in 0 .. n - 1, j < k PROVE at(j) # at(k)
      <3> DEFINE x == j * block
                 y == k * block
      <3>1. x \in Nat /\ y \in Nat /\ x + block <= y
        BY <2>1, Apart
      <3> HIDE DEF x, y
      <3>2. HeaderSize + x # HeaderSize + y
        BY <1>1, <3>1
      <3> QED BY <3>2 DEF x, y
    <2> HIDE DEF at
    <2> SUFFICES ASSUME NEW j \in 0 .. n - 1, NEW k \in 0 .. n - 1, at(j) = at(k) PROVE j = k
      OBVIOUS
    <2>2. ~(j < k) /\ ~(k < j)
      BY <2>1
    <2> QED BY <2>2
  <1>4. ChunkBlocks(c, block) = {[block |-> r, offset |-> at(k)] : k \in 0 .. n - 1}
    <2>1. \A b : b \in ChunkBlocks(c, block) <=>
            \E k \in 0 .. n - 1 : b = [block |-> c.block, offset |-> HeaderSize + k * block]
      BY WholeChunk
    <2> QED BY <2>1
  <1>5. cut = [k \in 1 .. n |-> [block |-> r, offset |-> at(n - k)]]
    BY DEF Cut
  <1> HIDE DEF at, cut
  <1>6. DOMAIN cut = 1 .. n /\ \A k \in 1 .. n : n - k \in 0 .. n - 1
    BY <1>5
  <1>7. cut \in Seq(Block)
    <2>1. \A k \in 1 .. n : [block |-> r, offset |-> at(n - k)] \in Block
      BY <1>2, <1>6 DEF Block
    <2>2. cut \in [1 .. n -> Block]
      BY <1>5, <2>1
    <2> QED BY <2>2, SeqDef
  <1>8. \A j, k \in DOMAIN cut : cut[j] = cut[k] => j = k
    <2> SUFFICES ASSUME NEW j \in 1 .. n, NEW k \in 1 .. n, cut[j] = cut[k] PROVE j = k
      BY <1>6
    <2>1. at(n - j) = at(n - k)
      BY <1>5
    <2>2. n - j = n - k
      BY <1>3, <1>6, <2>1
    <2> QED BY <2>2
  <1>9. {cut[k] : k \in DOMAIN cut} = {[block |-> r, offset |-> at(k)] : k \in 0 .. n - 1}
    <2>1. ASSUME NEW k \in 1 .. n
          PROVE  cut[k] \in {[block |-> r, offset |-> at(m)] : m \in 0 .. n - 1}
      BY <1>5, <1>6
    <2>2. ASSUME NEW m \in 0 .. n - 1
          PROVE  [block |-> r, offset |-> at(m)] \in {cut[k] : k \in 1 .. n}
      <3>1. n - m \in 1 .. n /\ n - (n - m) = m
        OBVIOUS
      <3> QED BY <1>5, <3>1
    <2> QED BY <1>6, <2>1, <2>2
  <1> QED BY <1>4, <1>6, <1>7, <1>8, <1>9 DEF cut

\* replenish: a pool without free blocks gets those of a fresh chunk.
LEMMA ReplenishConserves ==
  ASSUME Fixed(options), NEW i, PoolBlock(i) \in Nat \ {0},
         NEW pool \in Pool, NEW out, Conserved(i, pool, out), ChunksWhole(i, pool),
         pool.free = <<>>, NEW r \in RegionIds,
         \A j \in DOMAIN pool.chunks : pool.chunks[j].block # r,
         NEW n \in Nat \ {0}, n * PoolBlock(i) <= SizeMax - HeaderSize
  PROVE  LET full == Replenished(pool, r, n, PoolBlock(i)) IN
         /\ Conserved(i, full, out) /\ ChunksWhole(i, full) /\ full \in Pool
         /\ full.chunks = <<[block |-> r, size |-> n * PoolBlock(i) + HeaderSize]>> \o pool.chunks
         /\ [block |-> r, size |-> n * PoolBlock(i) + HeaderSize] \in Entry
         /\ full.free # <<>>
  <1> DEFINE block == PoolBlock(i)
             m == n * block
             c == [block |-> r, size |-> m + HeaderSize]
             s == pool.chunks
             t == <<c>> \o s
             cut == Cut(r, n, block)
             next == NextBlocks(n)
             full == Replenished(pool, r, n, block)
  <1>1. /\ m \in Nat /\ HeaderSize \in Nat /\ SizeMax \in Nat /\ m <= SizeMax - HeaderSize
        /\ HeaderSize <= SizeMax
    BY PoolAssumption, SizeMaxNat
  <1>2. c \in Entry /\ c.block = r /\ c.size = m + HeaderSize
    <2>1. m + HeaderSize \in SizeType
      <3> HIDE DEF m
      <3> QED BY <1>1 DEF SizeType
    <2> HIDE DEF m
    <2> QED BY <2>1 DEF Entry
  <1>3. /\ cut \in Seq(Block) /\ DOMAIN cut = 1 .. n
        /\ {cut[k] : k \in DOMAIN cut} = ChunkBlocks(c, block)
        /\ \A j, k \in DOMAIN cut : cut[j] = cut[k] => j = k
    <2>1. c.size = n * block + HeaderSize /\ n \in Nat
      BY <1>2
    <2> HIDE DEF c
    <2> QED BY <1>2, <2>1, CutCuts
  <1>4. s \in Seq(Entry)
    BY DEF Pool
  <1> HIDE DEF s, c, m
  <1>5. /\ t \in Seq(Entry) /\ t[1] = c /\ 1 \in DOMAIN t
        /\ \A k \in DOMAIN t : k # 1 => k - 1 \in DOMAIN s /\ t[k] = s[k - 1]
        /\ \A k \in DOMAIN s : k + 1 \in DOMAIN t /\ t[k + 1] = s[k]
    BY <1>2, <1>4, Prepended
  <1>6. next \in SizeType \ {0}
    <2>1. options.maxBlocks \in Nat \ {0} /\ options.maxBlocks <= SizeMax
      BY SizeMaxNat DEF Fixed, SizeType
    <2> QED BY <1>1, <2>1 DEF NextBlocks, SizeType
  <1> HIDE DEF next, t, cut
  <1>7. cut \o pool.free = cut
    BY <1>3, ConcatEmptySeq
  <1>8. full = [chunks |-> t, free |-> cut, next |-> next]
    BY <1>7 DEF Replenished, t, c, m, s, cut, next
  <1> HIDE DEF full
  <1>9. full \in Pool /\ full.chunks = t /\ full.free = cut
    BY <1>3, <1>5, <1>6, <1>8 DEF Pool
  <1>10. cut # <<>>
    <2>1. 1 \in DOMAIN cut
      BY <1>3
    <2> QED BY <2>1
  <1>11. BlocksIn(i, full) = BlocksIn(i, pool) \cup ChunkBlocks(c, block)
    <2>1. BlocksIn(i, full) = UNION {ChunkBlocks(t[j], block) : j \in DOMAIN t}
      BY <1>9 DEF BlocksIn
    <2>2. BlocksIn(i, pool) = UNION {ChunkBlocks(s[j], block) : j \in DOMAIN s}
      BY DEF BlocksIn, s
    <2>3. ASSUME NEW b
          PROVE  b \in UNION {ChunkBlocks(t[j], block) : j \in DOMAIN t}
                   <=> \/ b \in UNION {ChunkBlocks(s[j], block) : j \in DOMAIN s}
                       \/ b \in ChunkBlocks(c, block)
      <3> DEFINE Of(e) == ChunkBlocks(e, block)
      <3> HIDE DEF Of
      <3>1. (\E j \in DOMAIN t : b \in Of(t[j])) <=> ((\E j \in DOMAIN s : b \in Of(s[j])) \/ b \in Of(c))
        BY <1>5
      <3> QED BY <3>1 DEF Of
    <2> QED BY <2>1, <2>2, <2>3
  <1>12. \A b \in BlocksIn(i, pool) : b \notin ChunkBlocks(c, block)
    <2> SUFFICES ASSUME NEW b \in BlocksIn(i, pool), b \in ChunkBlocks(c, block) PROVE FALSE
      OBVIOUS
    <2>1. b.block # r
      BY InChunk
    <2>2. b.block = r
      BY <1>2 DEF ChunkBlocks
    <2> QED BY <2>1, <2>2
  <1>13. HeldIn(i, out) = BlocksIn(i, pool)
    <2>1. FreeIn(pool) = {}
      BY DEF FreeIn
    <2>2. FreeIn(pool) \cup HeldIn(i, out) = BlocksIn(i, pool)
      BY DEF Conserved
    <2> QED BY <2>1, <2>2
  <1>14. FreeIn(full) = ChunkBlocks(c, block)
    BY <1>3, <1>9 DEF FreeIn
  <1>15. /\ FreeIn(full) \cup HeldIn(i, out) = BlocksIn(i, full)
         /\ FreeIn(full) \cap HeldIn(i, out) = {}
    BY <1>11, <1>12, <1>13, <1>14
  <1>16. Conserved(i, full, out)
    BY <1>3, <1>9, <1>15 DEF Conserved
  <1>17. ChunksWhole(i, full)
    <2> SUFFICES ASSUME NEW j \in DOMAIN t
                 PROVE  \E x \in Nat : t[j].size = x * block + HeaderSize
      BY <1>9 DEF ChunksWhole
    <2>1. CASE j = 1
      BY <1>2, <1>5, <2>1 DEF m
    <2>2. CASE j # 1
      <3>1. j - 1 \in DOMAIN s /\ t[j] = s[j - 1]
        BY <1>5, <2>2
      <3>2. \E x \in Nat : s[j - 1].size = x * block + HeaderSize
        BY <3>1 DEF ChunksWhole, s
      <3> QED BY <3>1, <3>2
    <2> QED BY <2>1, <2>2
  <1> QED BY <1>2, <1>9, <1>10, <1>16, <1>17 DEF full, t, c, m, s

-----------------------------------------------------------------------------
(* The steps of do_allocate *)

\* Two arrays of pools with the same chunks have the same lists.
LEMMA SameLists ==
  ASSUME NEW ps, NEW ps2, NEW large, DOMAIN ps2 = DOMAIN ps,
         \A i \in DOMAIN ps : ps2[i].chunks = ps[i].chunks
  PROVE  ListsOf(ps2, large) = ListsOf(ps, large)
  BY DEF ListsOf

\* A held extent lies in a region on loan.
LEMMA HeldLent ==
  ASSUME NEW data, NEW ps, NEW lt, NEW large, NEW out, Fixed(options),
         Sound(data, ps, lt, large, out), NEW e \in out
  PROVE  e.at.block \in DOMAIN lt
  <1> DEFINE lists == ListsOf(ps, large)
             i == ListIndex(e.bytes)
  <1>1. i \in DOMAIN lists /\ \E k \in DOMAIN lists[i] : lists[i][k].block = e.at.block
    BY HeldListed
  <1>2. Tracked(lists, lt, data)
    BY DEF Sound
  <1> HIDE DEF lists, i
  <1> QED BY <1>1, <1>2 DEF Tracked

\* A free block is no caller's.
LEMMA FreeNotHeld ==
  ASSUME NEW data, NEW ps, NEW lt, NEW large, NEW out, Fixed(options),
         Sound(data, ps, lt, large, out), NEW i \in DOMAIN ps, NEW b \in FreeIn(ps[i]),
         NEW f \in out
  PROVE  f.at # b
  <1> SUFFICES ASSUME f.at = b PROVE FALSE
    OBVIOUS
  <1> DEFINE lists == ListsOf(ps, large)
             h == ListIndex(f.bytes)
  <1>1. \E k \in DOMAIN lists[i] : lists[i][k].block = b.block
    BY HeldListed
  <1>2. h \in DOMAIN lists /\ \E k \in DOMAIN lists[h] : lists[h][k].block = b.block
    BY HeldListed
  <1>3. i \in DOMAIN lists /\ PoolCount \notin DOMAIN ps
    <2>1. DOMAIN ps = Indices(data)
      BY ListsTyped DEF Sound
    <2> QED BY <2>1, IndexOf DEF ListsOf
  <1>4. Tracked(lists, lt, data)
    BY DEF Sound
  <1>5. h = i
    <2> HIDE DEF lists, h
    <2> QED BY <1>1, <1>2, <1>3, <1>4 DEF Tracked
  <1>6. ~Oversized(f.bytes) /\ PoolIndex(f.bytes) = i
    BY <1>3, <1>5 DEF ListIndex
  <1>7. b \in HeldIn(i, out)
    BY <1>6 DEF HeldIn
  <1> QED BY <1>7 DEF Sound, Conserved

\* allocate_block of a pool with free blocks.
LEMMA TakeSound ==
  ASSUME NEW data, NEW ps, NEW lt, NEW large, NEW out, Fixed(options),
         Sound(data, ps, lt, large, out), data # NoRegion,
         NEW bytes \in Sizes, ~Oversized(bytes), ps[PoolIndex(bytes)].free # <<>>
  PROVE  LET i == PoolIndex(bytes)
             e == [at |-> Head(ps[i].free), bytes |-> bytes]
         IN  Sound(data, [ps EXCEPT ![i] = Take(@)], lt, large, out \cup {e})
  <1> DEFINE i == PoolIndex(bytes)
             pool == ps[i]
             e == [at |-> Head(pool.free), bytes |-> bytes]
             ps2 == [ps EXCEPT ![i] = Take(@)]
             out2 == out \cup {e}
  <1>1. /\ Typed(data, ps, lt, large, out) /\ Tracked(ListsOf(ps, large), lt, data)
        /\ \A j \in DOMAIN ps : Conserved(j, ps[j], out) /\ ChunksWhole(j, ps[j])
        /\ HeldOnce(out) /\ OversizedListed(large, out)
    BY DEF Sound
  <1>2. i \in Indices(data)
    BY IndexOf DEF Indices
  <1>3. DOMAIN ps = Indices(data) /\ \A j \in Indices(data) : ps[j] \in Pool
    BY <1>1, ListsTyped
  <1> HIDE DEF i
  <1>4. pool.free # <<>> /\ PoolIndex(bytes) = i
    BY DEF i
  <1>5. /\ Conserved(i, Take(pool), out2)
        /\ Take(pool) \in Pool /\ Take(pool).chunks = pool.chunks
        /\ Head(pool.free) \in FreeIn(pool) /\ Head(pool.free) \in Block
    BY <1>1, <1>2, <1>3, <1>4, TakeConserves
  <1>6. /\ DOMAIN ps2 = DOMAIN ps /\ ps2[i] = Take(pool)
        /\ \A j \in DOMAIN ps : j # i => ps2[j] = ps[j]
    BY <1>2, <1>3
  <1>7. e.at = Head(pool.free) /\ e.bytes = bytes /\ e \in [at : Block, bytes : Sizes]
    BY <1>5
  <1>8. \A f \in out : f.at # e.at
    BY <1>2, <1>3, <1>5, <1>7, FreeNotHeld
  <1> HIDE DEF e, ps2
  <1>9. Typed(data, ps2, lt, large, out2)
    <2>1. ps2 \in [Indices(data) -> Pool]
      BY <1>1, <1>2, <1>3, <1>5 DEF ps2, Typed
    <2> QED BY <1>1, <1>7, <2>1 DEF Typed
  <1>10. Tracked(ListsOf(ps2, large), lt, data)
    <2>1. \A j \in DOMAIN ps : ps2[j].chunks = ps[j].chunks
      BY <1>5, <1>6
    <2>2. ListsOf(ps2, large) = ListsOf(ps, large)
      BY <1>6, <2>1, SameLists
    <2> QED BY <1>1, <2>2
  <1>11. ASSUME NEW j \in DOMAIN ps2 PROVE Conserved(j, ps2[j], out2) /\ ChunksWhole(j, ps2[j])
    <2>1. CASE j = i
      BY <1>1, <1>2, <1>3, <1>5, <1>6, <2>1 DEF ChunksWhole
    <2>2. CASE j # i
      BY <1>1, <1>4, <1>6, <1>7, <2>2, OthersConserve
    <2> QED BY <2>1, <2>2
  <1>12. HeldOnce(out2)
    BY <1>1, <1>8 DEF HeldOnce
  <1>13. OversizedListed(large, out2)
    BY <1>1, <1>7 DEF OversizedListed
  <1> QED BY <1>9, <1>10, <1>11, <1>12, <1>13 DEF Sound, ps2, e, i

\* Lend records one more region.
LEMMA LendTyped ==
  ASSUME NEW lt, lt \in [DOMAIN lt -> Nat], DOMAIN lt \subseteq RegionIds,
         NEW r \in RegionIds, NEW size \in Nat
  PROVE  LET l == Lend(lt, r, size) IN
         l \in [DOMAIN l -> Nat] /\ DOMAIN l \subseteq RegionIds
  BY DEF Lend

\* replenish of a pool without free blocks.
LEMMA ReplenishSound ==
  ASSUME NEW data, NEW ps, NEW lt, NEW large, NEW out, Fixed(options),
         Sound(data, ps, lt, large, out), NEW i \in DOMAIN ps, ps[i].free = <<>>,
         NEW r \in RegionIds \ DOMAIN lt,
         NEW n \in Nat \ {0}, n * PoolBlock(i) <= SizeMax - HeaderSize
  PROVE  LET full == Replenished(ps[i], r, n, PoolBlock(i)) IN
         /\ Sound(data, [ps EXCEPT ![i] = full], Lend(lt, r, n * PoolBlock(i) + HeaderSize), large, out)
         /\ full.free # <<>>
  <1> DEFINE pool == ps[i]
             size == n * PoolBlock(i) + HeaderSize
             full == Replenished(pool, r, n, PoolBlock(i))
             c == [block |-> r, size |-> size]
             ps2 == [ps EXCEPT ![i] = full]
             lt2 == Lend(lt, r, size)
             lists == ListsOf(ps, large)
             new == ListsOf(ps2, large)
             K == Indices(data) \cup {PoolCount}
  <1>1. /\ Typed(data, ps, lt, large, out) /\ Tracked(lists, lt, data)
        /\ \A j \in DOMAIN ps : Conserved(j, ps[j], out) /\ ChunksWhole(j, ps[j])
        /\ HeldOnce(out) /\ OversizedListed(large, out)
        /\ out # {} => data # NoRegion
    BY DEF Sound
  <1>2. /\ DOMAIN ps = Indices(data) /\ lists \in [K -> Seq(Entry)]
        /\ \A j \in Indices(data) : ps[j] \in Pool
        /\ PoolCount \notin Indices(data) /\ PoolBlock(i) \in Nat \ {0}
    BY <1>1, ListsTyped, IndexOf
  <1>3. \A j \in DOMAIN ps : lists[j] = ps[j].chunks
    BY DEF ListsOf
  <1>4. \A k \in DOMAIN pool.chunks : pool.chunks[k].block # r
    <2>1. i \in DOMAIN lists
      BY DEF ListsOf
    <2> HIDE DEF lists
    <2> QED BY <1>1, <1>3, <2>1 DEF Tracked
  <1>5. /\ Conserved(i, full, out) /\ ChunksWhole(i, full) /\ full \in Pool
        /\ full.chunks = <<c>> \o pool.chunks /\ c \in Entry /\ full.free # <<>>
    <2>1. pool \in Pool /\ Conserved(i, pool, out) /\ ChunksWhole(i, pool) /\ pool.free = <<>>
      BY <1>1, <1>2
    <2>2. r \in RegionIds
      OBVIOUS
    <2> HIDE DEF pool
    <2> QED BY <1>2, <1>4, <2>1, <2>2, ReplenishConserves
  <1>6. c.block = r /\ c.size = size
    OBVIOUS
  <1>7. size \in Nat
    BY <1>5, SizeMaxNat DEF Entry, SizeType
  <1> HIDE DEF full, c, size
  <1>8. /\ DOMAIN ps2 = DOMAIN ps /\ ps2[i] = full
        /\ \A j \in DOMAIN ps : j # i => ps2[j] = ps[j]
    BY <1>2
  <1>9. ps2 \in [Indices(data) -> Pool]
    BY <1>1, <1>2, <1>5 DEF Typed
  <1> HIDE DEF ps2
  <1>10. Typed(data, ps2, lt2, large, out)
    <2>1. lt \in [DOMAIN lt -> Nat] /\ DOMAIN lt \subseteq RegionIds
      BY <1>1 DEF Typed
    <2>2. lt2 \in [DOMAIN lt2 -> Nat] /\ DOMAIN lt2 \subseteq RegionIds
      BY <1>7, <2>1, LendTyped
    <2> HIDE DEF lt2
    <2> QED BY <1>1, <1>9, <2>2 DEF Typed
  <1>11. Tracked(new, lt2, data)
    <2>1. new \in [K -> Seq(Entry)]
      <3>1. Typed(data, ps2, lt2, large, out)
        BY <1>10
      <3> QED BY <3>1, ListsTyped
    <2>2. new[i] = <<c>> \o lists[i]
      <3>1. new[i] = full.chunks
        BY <1>8 DEF ListsOf
      <3> HIDE DEF new, lists
      <3> QED BY <1>3, <1>5, <3>1
    <2>3. \A j \in K : j # i => new[j] = lists[j]
      BY <1>2, <1>8 DEF ListsOf, lists, new
    <2>4. i \in K /\ c.block \notin DOMAIN lt
      BY <1>2, <1>6
    <2>5. lt \in [DOMAIN lt -> Nat]
      BY <1>1 DEF Typed
    <2> HIDE DEF new, lists, K, lt2
    <2>6. Tracked(new, Lend(lt, c.block, c.size), data)
      BY <1>1, <1>2, <1>5, <2>1, <2>2, <2>3, <2>4, <2>5, TrackedAdd
    <2> QED BY <1>6, <2>6 DEF lt2
  <1>12. \A j \in DOMAIN ps2 : Conserved(j, ps2[j], out) /\ ChunksWhole(j, ps2[j])
    BY <1>1, <1>5, <1>8
  <1>13. Sound(data, ps2, lt2, large, out)
    BY <1>1, <1>10, <1>11, <1>12 DEF Sound
  <1> QED BY <1>5, <1>13 DEF full, ps2, lt2, size

\* A chunk has at least one block.
LEMMA SomeBlocks ==
  ASSUME Fixed(options), NEW next \in SizeType \ {0},
         NEW block \in Nat \ {0}, block <= SizeMax
  PROVE  BlocksPerChunk(next, block) \in Nat \ {0}
  <1> DEFINE most == SizeMax \div block
  <1>1. SizeMax \in Nat /\ options.maxBlocks \in Nat \ {0} /\ next \in Nat \ {0}
    BY SizeMaxNat DEF Fixed, SizeType
  <1>2. most \in Nat \ {0}
    <2>1. \A s \in Nat : block <= s => s \div block \in Nat \ {0}
      OBVIOUS
    <2> QED BY <1>1, <2>1
  <1> HIDE DEF most
  <1> QED BY <1>1, <1>2 DEF BlocksPerChunk, Smaller, most

\* replenish and then allocate_block.
LEMMA ReplenishTakeSound ==
  ASSUME NEW data, NEW ps, NEW lt, NEW large, NEW out, Fixed(options),
         Sound(data, ps, lt, large, out), data # NoRegion,
         NEW bytes \in Sizes, ~Oversized(bytes), ps[PoolIndex(bytes)].free = <<>>,
         NEW r \in RegionIds \ DOMAIN lt,
         LET i == PoolIndex(bytes)
             n == BlocksPerChunk(ps[i].next, PoolBlock(i))
         IN  n * PoolBlock(i) <= SizeMax - HeaderSize
  PROVE  LET i == PoolIndex(bytes)
             n == BlocksPerChunk(ps[i].next, PoolBlock(i))
             full == Replenished(ps[i], r, n, PoolBlock(i))
             e == [at |-> Head(full.free), bytes |-> bytes]
         IN  Sound(data, [ps EXCEPT ![i] = Take(full)], Lend(lt, r, n * PoolBlock(i) + HeaderSize),
                   large, out \cup {e})
  <1> DEFINE i == PoolIndex(bytes)
             n == BlocksPerChunk(ps[i].next, PoolBlock(i))
             full == Replenished(ps[i], r, n, PoolBlock(i))
             e == [at |-> Head(full.free), bytes |-> bytes]
             ps1 == [ps EXCEPT ![i] = full]
             ps2 == [ps EXCEPT ![i] = Take(full)]
             lt2 == Lend(lt, r, n * PoolBlock(i) + HeaderSize)
  <1>1. Typed(data, ps, lt, large, out)
    BY DEF Sound
  <1>2. /\ i \in Indices(data) /\ PoolBlock(i) \in Nat \ {0} /\ PoolBlock(i) <= SizeMax
    BY IndexOf DEF Indices
  <1>3. DOMAIN ps = Indices(data) /\ ps[i] \in Pool
    BY <1>1, <1>2, ListsTyped
  <1>4. n \in Nat \ {0}
    <2>1. ps[i].next \in SizeType \ {0}
      BY <1>3 DEF Pool
    <2> HIDE DEF i
    <2> QED BY <1>2, <2>1, SomeBlocks
  <1>5. n * PoolBlock(i) <= SizeMax - HeaderSize /\ ps[i].free = <<>> /\ PoolIndex(bytes) = i
    OBVIOUS
  <1> HIDE DEF i, n
  <1>6. Sound(data, ps1, lt2, large, out) /\ full.free # <<>>
    BY <1>2, <1>3, <1>4, <1>5, ReplenishSound
  <1> HIDE DEF full
  <1>7. ps1[i] = full /\ [ps1 EXCEPT ![i] = Take(@)] = ps2
    <2>1. ps1[i] = full
      BY <1>2, <1>3
    <2>2. [ps1 EXCEPT ![i] = Take(@)] = ps2
      BY <1>2, <1>3, <2>1
    <2> QED BY <2>1, <2>2
  <1> HIDE DEF ps1, ps2, lt2
  <1>8. Sound(data, [ps1 EXCEPT ![i] = Take(@)], lt2, large, out \cup {e})
    <2>1. ps1[PoolIndex(bytes)].free # <<>> /\ Head(ps1[PoolIndex(bytes)].free) = Head(full.free)
      BY <1>5, <1>6, <1>7
    <2>2. Sound(data, [ps1 EXCEPT ![PoolIndex(bytes)] = Take(@)], lt2, large,
                out \cup {[at |-> Head(ps1[PoolIndex(bytes)].free), bytes |-> bytes]})
      BY <1>6, <2>1, TakeSound
    <2> QED BY <1>5, <2>1, <2>2
  <1> QED BY <1>7, <1>8 DEF ps2, lt2, full, n, i

\* A request of no pool: a region listed with its header.
LEMMA OversizedSound ==
  ASSUME NEW data, NEW ps, NEW lt, NEW large, NEW out, Fixed(options),
         Sound(data, ps, lt, large, out), data # NoRegion,
         NEW bytes \in Sizes, Oversized(bytes), bytes <= SizeMax - HeaderSize,
         NEW r \in RegionIds \ DOMAIN lt
  PROVE  Sound(data, ps, Lend(lt, r, bytes + HeaderSize),
               <<[block |-> r, size |-> bytes + HeaderSize]>> \o large,
               out \cup {[at |-> [block |-> r, offset |-> HeaderSize], bytes |-> bytes]})
  <1> DEFINE size == bytes + HeaderSize
             c == [block |-> r, size |-> size]
             e == [at |-> [block |-> r, offset |-> HeaderSize], bytes |-> bytes]
             large2 == <<c>> \o large
             lt2 == Lend(lt, r, size)
             out2 == out \cup {e}
             lists == ListsOf(ps, large)
             new == ListsOf(ps, large2)
             K == Indices(data) \cup {PoolCount}
  <1>1. /\ Typed(data, ps, lt, large, out) /\ Tracked(lists, lt, data)
        /\ \A j \in DOMAIN ps : Conserved(j, ps[j], out) /\ ChunksWhole(j, ps[j])
        /\ HeldOnce(out) /\ OversizedListed(large, out)
    BY DEF Sound
  <1>2. /\ DOMAIN ps = Indices(data) /\ lists \in [K -> Seq(Entry)]
        /\ PoolCount \notin Indices(data)
    BY <1>1, ListsTyped, IndexOf
  <1>3. size \in SizeType /\ size \in Nat /\ HeaderSize \in Nat
    BY PoolAssumption, SizeMaxNat DEF SizeType
  <1>4. c \in Entry /\ c.block = r /\ c.size = size
    BY <1>3 DEF Entry
  <1>5. /\ e \in [at : Block, bytes : Sizes] /\ e.at.block = r /\ e.at.offset = HeaderSize
        /\ e.bytes = bytes
    BY <1>3 DEF Block
  <1> HIDE DEF c, e
  <1>6. large \in Seq(Entry)
    BY <1>1 DEF Typed
  <1>7. /\ large2 \in Seq(Entry) /\ large2[1] = c /\ 1 \in DOMAIN large2
        /\ \A k \in DOMAIN large : k + 1 \in DOMAIN large2 /\ large2[k + 1] = large[k]
    BY <1>4, <1>6, Prepended
  <1>8. Typed(data, ps, lt2, large2, out2)
    <2>1. lt \in [DOMAIN lt -> Nat] /\ DOMAIN lt \subseteq RegionIds
      BY <1>1 DEF Typed
    <2>2. lt2 \in [DOMAIN lt2 -> Nat] /\ DOMAIN lt2 \subseteq RegionIds
      BY <1>3, <2>1, LendTyped
    <2> HIDE DEF lt2, large2
    <2> QED BY <1>1, <1>5, <1>7, <2>2 DEF Typed
  <1>9. Tracked(new, lt2, data)
    <2>1. new \in [K -> Seq(Entry)]
      BY <1>8, ListsTyped
    <2>2. new[PoolCount] = <<c>> \o lists[PoolCount]
      <3>1. new[PoolCount] = large2 /\ lists[PoolCount] = large
        BY <1>2 DEF ListsOf
      <3> HIDE DEF new, lists
      <3> QED BY <3>1
    <2>3. \A j \in K : j # PoolCount => new[j] = lists[j]
      BY <1>2 DEF ListsOf
    <2>4. PoolCount \in K /\ c.block \notin DOMAIN lt /\ lt \in [DOMAIN lt -> Nat]
      BY <1>1, <1>4 DEF Typed
    <2> HIDE DEF new, lists, K, lt2
    <2>5. Tracked(new, Lend(lt, c.block, c.size), data)
      <3>1. Tracked(lists, lt, data) /\ lists \in [K -> Seq(Entry)] /\ c \in Entry
        BY <1>1, <1>2, <1>4
      <3> QED BY <2>1, <2>2, <2>3, <2>4, <3>1, TrackedAdd
    <2> QED BY <1>4, <2>5 DEF lt2
  <1>10. \A j \in DOMAIN ps : Conserved(j, ps[j], out2) /\ ChunksWhole(j, ps[j])
    BY <1>1, <1>5, OthersConserve
  <1>11. HeldOnce(out2)
    <2>1. \A f \in out : f.at # e.at
      BY <1>5, HeldLent
    <2> QED BY <1>1, <2>1 DEF HeldOnce
  <1>12. OversizedListed(large2, out2)
    <2> SUFFICES ASSUME NEW f \in out2, Oversized(f.bytes)
                 PROVE  /\ f.at.offset = HeaderSize
                        /\ \E k \in DOMAIN large2 :
                             large2[k] = [block |-> f.at.block, size |-> f.bytes + HeaderSize]
      BY DEF OversizedListed
    <2> HIDE DEF large2
    <2>1. CASE f = e
      BY <1>5, <1>7, <2>1 DEF c
    <2>2. CASE f \in out
      BY <1>1, <1>7, <2>2 DEF OversizedListed
    <2> QED BY <2>1, <2>2
  <1>13. Sound(data, ps, lt2, large2, out2)
    BY <1>8, <1>9, <1>10, <1>11, <1>12 DEF Sound
  <1> QED BY <1>13 DEF c, e

\* The members priv_init_pools leaves, or those there are.
LEMMA ReadySound ==
  ASSUME Fixed(options), Sound(poolData, pools, lent, oversized, outstanding), NEW s \in Ready
  PROVE  Sound(s.data, s.pools, s.lent, oversized, outstanding) /\ s.data # NoRegion
  <1>1. CASE poolData # NoRegion
    BY <1>1 DEF Ready
  <1>2. CASE poolData = NoRegion
    <2>1. PICK r \in RegionIds \ DOMAIN lent :
            s = [data |-> r, pools |-> InitialPools, lent |-> Lend(lent, r, PoolDataSize * PoolCount)]
      BY <1>2 DEF Ready
    <2> DEFINE ps == InitialPools
               size == PoolDataSize * PoolCount
               lt == Lend(lent, r, size)
               lists == ListsOf(pools, oversized)
               new == ListsOf(ps, oversized)
    <2>2. PoolCount \in Nat \ {0} /\ size \in Nat
      <3>1. PoolCount \in Nat \ {0} /\ PoolDataSize \in Nat
        BY IndexOf, PoolAssumption
      <3> QED BY <3>1
    <2> HIDE DEF size
    <2>3. r # NoRegion /\ Indices(r) = 0 .. PoolCount - 1 /\ Indices(poolData) = {}
      BY <1>2, PoolAssumption DEF Indices
    <2>4. /\ Typed(poolData, pools, lent, oversized, outstanding)
          /\ Tracked(lists, lent, NoRegion)
          /\ outstanding = {}
      BY <1>2 DEF Sound
    <2>5. DOMAIN pools = {} /\ PoolCount \notin 0 .. PoolCount - 1
      <3>1. DOMAIN pools = Indices(poolData)
        BY <2>4, ListsTyped
      <3> QED BY <2>2, <2>3, <3>1
    <2>6. /\ DOMAIN lists = {PoolCount} /\ lists[PoolCount] = oversized
          /\ DOMAIN new = 0 .. PoolCount /\ new[PoolCount] = oversized
          /\ \A i \in 0 .. PoolCount - 1 : new[i] = <<>>
      <3>1. DOMAIN ps = 0 .. PoolCount - 1 /\ \A i \in 0 .. PoolCount - 1 : ps[i].chunks = <<>>
        BY DEF InitialPools
      <3> HIDE DEF ps
      <3> QED BY <2>2, <2>5, <3>1 DEF ListsOf
    <2>7. lt \in [DOMAIN lt -> Nat] /\ DOMAIN lt \subseteq RegionIds
      <3>1. lent \in [DOMAIN lent -> Nat] /\ DOMAIN lent \subseteq RegionIds
        BY <2>4 DEF Typed
      <3> QED BY <2>2, <3>1, LendTyped
    <2>8. /\ DOMAIN lt = DOMAIN lent \cup {r} /\ lt[r] = size
          /\ \A x \in DOMAIN lent : lt[x] = lent[x] /\ x # r
      BY DEF Lend
    <2> HIDE DEF lt, lists, new
    <2>9. Typed(r, ps, lt, oversized, outstanding)
      <3>1. ps \in [0 .. PoolCount - 1 -> Pool]
        <4>1. [chunks |-> <<>>, free |-> <<>>, next |-> MinimumMaxBlocks] \in Pool
          BY PoolAssumption DEF Pool
        <4> QED BY <4>1 DEF InitialPools
      <3> HIDE DEF ps
      <3> QED BY <2>3, <2>4, <2>7, <3>1 DEF Typed
    <2>10. Tracked(new, lt, r)
      <3>1. \A i \in DOMAIN new : \A k \in DOMAIN new[i] :
              i = PoolCount /\ new[i] = lists[PoolCount] /\ PoolCount \in DOMAIN lists
        BY <2>2, <2>6
      <3>2. \A i, j \in DOMAIN new : \A k \in DOMAIN new[i], l \in DOMAIN new[j] :
              new[i][k].block = new[j][l].block => i = j /\ k = l
        BY <2>4, <3>1 DEF Tracked
      <3>3. \A i \in DOMAIN new : \A k \in DOMAIN new[i] :
              /\ new[i][k].block \in DOMAIN lt /\ lt[new[i][k].block] = new[i][k].size
              /\ new[i][k].block # r
        BY <2>4, <2>8, <3>1 DEF Tracked
      <3>4. ASSUME NEW x \in DOMAIN lt, x # r
            PROVE  \E i \in DOMAIN new : \E k \in DOMAIN new[i] : new[i][k].block = x
        <4>1. x \in DOMAIN lent /\ x # NoRegion
          BY <2>7, <2>8, <3>4, PoolAssumption
        <4>2. \E k \in DOMAIN oversized : oversized[k].block = x
          BY <2>4, <2>6, <4>1 DEF Tracked
        <4>3. PoolCount \in DOMAIN new
          BY <2>2, <2>6
        <4> QED BY <2>6, <4>2, <4>3
      <3> QED BY <2>8, <3>2, <3>3, <3>4 DEF Tracked, size
    <2>11. \A i \in DOMAIN ps : Conserved(i, ps[i], outstanding) /\ ChunksWhole(i, ps[i])
      <3>1. ASSUME NEW i \in DOMAIN ps
            PROVE  Conserved(i, ps[i], outstanding) /\ ChunksWhole(i, ps[i])
        <4>1. ps[i].chunks = <<>> /\ ps[i].free = <<>>
          BY DEF InitialPools
        <4> HIDE DEF ps
        <4>2. DOMAIN ps[i].chunks = {} /\ DOMAIN ps[i].free = {}
          BY <4>1
        <4>3. FreeIn(ps[i]) = {} /\ BlocksIn(i, ps[i]) = {} /\ HeldIn(i, outstanding) = {}
          BY <2>4, <4>2 DEF FreeIn, BlocksIn, HeldIn
        <4> QED BY <4>2, <4>3 DEF Conserved, ChunksWhole
      <3> QED BY <3>1
    <2>12. HeldOnce(outstanding) /\ OversizedListed(oversized, outstanding)
      BY <2>4 DEF HeldOnce, OversizedListed
    <2>13. Sound(r, ps, lt, oversized, outstanding)
      BY <2>3, <2>9, <2>10, <2>11, <2>12 DEF Sound, new
    <2> QED BY <2>1, <2>3, <2>13 DEF lt, size
  <1> QED BY <1>1, <1>2

-----------------------------------------------------------------------------
(* The steps *)

\* Soundness of the members a step leaves, while the options stay.
LEMMA SoundAfter ==
  ASSUME options' = options, Sound(poolData', pools', lent', oversized', outstanding')
  PROVE  Sound(poolData, pools, lent, oversized, outstanding)'
  <1>1. PoolCount' = PoolCount /\ \A bytes : Oversized(bytes)' <=> Oversized(bytes)
    BY DEF PoolCount, Oversized
  <1>2. Indices(poolData)' = Indices(poolData') /\ ListsOf(pools, oversized)' = ListsOf(pools', oversized')
    BY <1>1 DEF Indices, ListsOf
  <1>3. Typed(poolData, pools, lent, oversized, outstanding)'
    BY <1>2 DEF Sound, Typed
  <1>4. Tracked(ListsOf(pools, oversized), lent, poolData)'
    BY <1>1, <1>2 DEF Sound, Tracked
  <1>5. \A i : HeldIn(i, outstanding)' = HeldIn(i, outstanding')
    BY <1>1 DEF HeldIn
  <1>6. (\A i \in DOMAIN pools : Conserved(i, pools[i], outstanding) /\ ChunksWhole(i, pools[i]))'
    BY <1>5 DEF Sound, Conserved, ChunksWhole
  <1>7. HeldOnce(outstanding)' /\ OversizedListed(oversized, outstanding)'
    BY <1>1 DEF Sound, HeldOnce, OversizedListed
  <1>8. (outstanding # {} => poolData # NoRegion)'
    BY DEF Sound
  <1> QED BY <1>3, <1>4, <1>6, <1>7, <1>8 DEF Sound

LEMMA AllocateStep ==
  ASSUME IInv, NEW bytes \in Sizes, Allocate(bytes)
  PROVE  IInv'
  <1>1. /\ alive /\ Fixed(options) /\ Sound(poolData, pools, lent, oversized, outstanding)
        /\ options' = options /\ alive' = alive
    BY DEF IInv, Allocate
  <1>2. PICK s \in Ready : \/ AllocateOversized(s, bytes)
                           \/ AllocateCached(s, bytes)
                           \/ AllocateReplenish(s, bytes)
                           \/ AllocateThrows(s, bytes)
    BY DEF Allocate
  <1>3. Sound(s.data, s.pools, s.lent, oversized, outstanding) /\ s.data # NoRegion
    BY <1>1, ReadySound
  <1>4. Sound(poolData', pools', lent', oversized', outstanding')
    <2>1. CASE AllocateOversized(s, bytes)
      <3>1. PICK r \in RegionIds \ DOMAIN s.lent :
              /\ lent' = Lend(s.lent, r, bytes + HeaderSize)
              /\ oversized' = <<[block |-> r, size |-> bytes + HeaderSize]>> \o oversized
              /\ outstanding' = outstanding \cup
                   {[at |-> [block |-> r, offset |-> HeaderSize], bytes |-> bytes]}
        BY <2>1 DEF AllocateOversized, Free
      <3>2. /\ Oversized(bytes) /\ bytes <= SizeMax - HeaderSize
            /\ poolData' = s.data /\ pools' = s.pools
        BY <2>1 DEF AllocateOversized
      <3> QED BY <1>1, <1>3, <3>1, <3>2, OversizedSound
    <2>2. CASE AllocateCached(s, bytes)
      <3>1. /\ ~Oversized(bytes) /\ s.pools[PoolIndex(bytes)].free # <<>>
            /\ outstanding' = outstanding \cup
                 {[at |-> Head(s.pools[PoolIndex(bytes)].free), bytes |-> bytes]}
            /\ pools' = [s.pools EXCEPT ![PoolIndex(bytes)] = Take(@)]
            /\ poolData' = s.data /\ lent' = s.lent /\ oversized' = oversized
        BY <2>2 DEF AllocateCached
      <3> QED BY <1>1, <1>3, <3>1, TakeSound
    <2>3. CASE AllocateReplenish(s, bytes)
      <3> DEFINE i == PoolIndex(bytes)
                 n == BlocksPerChunk(s.pools[i].next, PoolBlock(i))
      <3>1. /\ ~Oversized(bytes) /\ s.pools[i].free = <<>>
            /\ n * PoolBlock(i) <= SizeMax - HeaderSize
            /\ poolData' = s.data /\ oversized' = oversized
        BY <2>3 DEF AllocateReplenish
      <3>2. PICK r \in RegionIds \ DOMAIN s.lent :
              LET full == Replenished(s.pools[i], r, n, PoolBlock(i)) IN
              /\ lent' = Lend(s.lent, r, n * PoolBlock(i) + HeaderSize)
              /\ outstanding' = outstanding \cup {[at |-> Head(full.free), bytes |-> bytes]}
              /\ pools' = [s.pools EXCEPT ![i] = Take(full)]
        BY <2>3 DEF AllocateReplenish, Free
      <3> QED BY <1>1, <1>3, <3>1, <3>2, ReplenishTakeSound
    <2>4. CASE AllocateThrows(s, bytes)
      BY <1>3, <2>4 DEF AllocateThrows
    <2> QED BY <1>2, <2>1, <2>2, <2>3, <2>4
  <1>5. Sound(poolData, pools, lent, oversized, outstanding)'
    BY <1>1, <1>4, SoundAfter
  <1>6. Fixed(options)'
    BY <1>1 DEF Fixed
  <1> QED BY <1>1, <1>5, <1>6 DEF IInv

\* What soundness says of fewer extents, their blocks apart.
LEMMA FewerHeld ==
  ASSUME NEW data, NEW ps, NEW lt, NEW large, NEW out,
         Sound(data, ps, lt, large, out), NEW e
  PROVE  /\ Typed(data, ps, lt, large, out \ {e}) /\ HeldOnce(out \ {e})
         /\ OversizedListed(large, out \ {e}) /\ (out \ {e} # {} => data # NoRegion)
  BY DEF Sound, Typed, HeldOnce, OversizedListed

LEMMA DeallocatePooledStep ==
  ASSUME IInv, alive, NEW e \in outstanding, DeallocatePooled(e),
         outstanding' = outstanding \ {e}, poolData' = poolData
  PROVE  Sound(poolData', pools', lent', oversized', outstanding')
  <1> DEFINE i == PoolIndex(e.bytes)
             pool == pools[i]
             new == [pool EXCEPT !.free = <<e.at>> \o @]
             out == outstanding
             out2 == out \ {e}
  <1>1. Fixed(options) /\ Sound(poolData, pools, lent, oversized, out)
    BY DEF IInv
  <1>2. /\ Typed(poolData, pools, lent, oversized, out)
        /\ Tracked(ListsOf(pools, oversized), lent, poolData)
        /\ \A j \in DOMAIN pools : Conserved(j, pools[j], out) /\ ChunksWhole(j, pools[j])
        /\ HeldOnce(out) /\ poolData # NoRegion
    BY <1>1 DEF Sound
  <1>3. /\ DOMAIN pools = Indices(poolData)
        /\ \A j \in Indices(poolData) : pools[j] \in Pool
    BY <1>2, ListsTyped
  <1>4. ~Oversized(e.bytes) /\ e.bytes \in Sizes /\ e.at \in Block
    BY <1>2 DEF DeallocatePooled, Typed
  <1>5. i \in Indices(poolData)
    BY <1>1, <1>2, <1>4, IndexOf DEF Indices
  <1>6. /\ pools' = [pools EXCEPT ![i].free = <<e.at>> \o @]
        /\ lent' = lent /\ oversized' = oversized
    BY DEF DeallocatePooled
  <1>7. PoolIndex(e.bytes) = i
    OBVIOUS
  <1> HIDE DEF i
  <1>8. Conserved(i, new, out2) /\ new \in Pool /\ new.chunks = pool.chunks
    BY <1>2, <1>3, <1>4, <1>5, <1>7, PutConserves
  <1>9. /\ DOMAIN pools' = DOMAIN pools /\ pools'[i] = new
        /\ \A j \in DOMAIN pools : j # i => pools'[j] = pools[j]
    BY <1>3, <1>5, <1>6
  <1>10. pools' = [pools EXCEPT ![i] = new]
    BY <1>3, <1>5, <1>6
  <1> HIDE DEF new
  <1>11. pools' \in [Indices(poolData) -> Pool]
    BY <1>2, <1>5, <1>8, <1>10 DEF Typed
  <1>12. /\ Typed(poolData, pools, lent, oversized, out2) /\ HeldOnce(out2)
         /\ OversizedListed(oversized, out2)
    BY <1>1, FewerHeld
  <1>13. Typed(poolData, pools', lent, oversized, out2)
    BY <1>11, <1>12 DEF Typed
  <1>14. ListsOf(pools', oversized) = ListsOf(pools, oversized)
    <2>1. \A j \in DOMAIN pools : pools'[j].chunks = pools[j].chunks
      BY <1>8, <1>9
    <2> QED BY <1>9, <2>1, SameLists
  <1>15. ASSUME NEW j \in DOMAIN pools PROVE Conserved(j, pools'[j], out2) /\ ChunksWhole(j, pools'[j])
    <2>1. CASE j = i
      BY <1>2, <1>8, <1>9, <2>1 DEF ChunksWhole
    <2>2. CASE j # i
      BY <1>2, <1>7, <1>9, <2>2, OthersConserve
    <2> QED BY <2>1, <2>2
  <1>16. Sound(poolData, pools', lent, oversized, out2)
    BY <1>2, <1>9, <1>12, <1>13, <1>14, <1>15 DEF Sound
  <1> QED BY <1>6, <1>16

LEMMA DeallocateOversizedStep ==
  ASSUME IInv, alive, NEW e \in outstanding, DeallocateOversized(e),
         outstanding' = outstanding \ {e}, poolData' = poolData
  PROVE  Sound(poolData', pools', lent', oversized', outstanding')
  <1> DEFINE out == outstanding
             out2 == out \ {e}
             lists == ListsOf(pools, oversized)
             K == Indices(poolData) \cup {PoolCount}
  <1>1. Fixed(options) /\ Sound(poolData, pools, lent, oversized, out)
    BY DEF IInv
  <1>2. /\ Typed(poolData, pools, lent, oversized, out)
        /\ Tracked(lists, lent, poolData)
        /\ \A j \in DOMAIN pools : Conserved(j, pools[j], out) /\ ChunksWhole(j, pools[j])
        /\ HeldOnce(out) /\ OversizedListed(oversized, out) /\ poolData # NoRegion
    BY <1>1 DEF Sound
  <1>3. DOMAIN pools = Indices(poolData) /\ lists \in [K -> Seq(Entry)] /\ PoolCount \notin DOMAIN pools
    BY <1>1, <1>2, ListsTyped, IndexOf
  <1>4. PICK k \in DOMAIN oversized :
          /\ oversized[k].block = e.at.block
          /\ lent' = GiveBack(lent, <<oversized[k]>>)
          /\ oversized' = RemoveAt(oversized, k)
    BY DEF DeallocateOversized
  <1>5. Oversized(e.bytes) /\ pools' = pools
    BY DEF DeallocateOversized
  <1> DEFINE c == oversized[k]
             large2 == RemoveAt(oversized, k)
             lt2 == GiveBack(lent, <<c>>)
             new == ListsOf(pools, large2)
  <1>6. oversized \in Seq(Entry) /\ lent \in [DOMAIN lent -> Nat] /\ DOMAIN lent \subseteq RegionIds
    BY <1>2 DEF Typed
  <1>7. /\ large2 \in Seq(Entry)
        /\ \A m \in DOMAIN oversized : /\ m < k => m \in DOMAIN large2 /\ large2[m] = oversized[m]
                                       /\ k < m => m - 1 \in DOMAIN large2 /\ large2[m - 1] = oversized[m]
    BY <1>6, Removed
  <1>8. lists[PoolCount] = oversized /\ PoolCount \in K /\ DOMAIN lists = K
    BY <1>3 DEF ListsOf
  <1>9. c \in Entry /\ c.block \in DOMAIN lent /\ lent[c.block] = c.size
    <2>1. c \in Entry
      BY <1>6, ElementOfSeq
    <2> HIDE DEF lists, K
    <2> QED BY <1>2, <1>8, <2>1 DEF Tracked
  <1> HIDE DEF large2
  <1>10. Typed(poolData, pools, lt2, large2, out2)
    <2>1. Typed(poolData, pools, lent, oversized, out2)
      BY <1>1, FewerHeld
    <2>2. lt2 = [x \in DOMAIN lent \ {c.block} |-> lent[x]]
      <3> HIDE DEF c
      <3> QED BY <1>9, GiveBackOne
    <2> HIDE DEF lt2
    <2>3. lt2 \in [DOMAIN lt2 -> Nat] /\ DOMAIN lt2 \subseteq RegionIds
      BY <1>6, <2>2
    <2> QED BY <1>7, <2>1, <2>3 DEF Typed
  <1>11. Tracked(new, lt2, poolData)
    <2>1. new \in [K -> Seq(Entry)]
      BY <1>10, ListsTyped
    <2>2. new[PoolCount] = RemoveAt(lists[PoolCount], k)
      <3>1. new[PoolCount] = large2
        BY <1>3 DEF ListsOf
      <3> HIDE DEF new, lists
      <3> QED BY <1>8, <3>1 DEF large2
    <2>3. \A j \in K : j # PoolCount => new[j] = lists[j]
      BY <1>3 DEF ListsOf
    <2>4. k \in DOMAIN lists[PoolCount] /\ lists[PoolCount][k] = c
      BY <1>8
    <2> HIDE DEF new, lists, K, lt2, c
    <2>5. Tracked(new, GiveBack(lent, <<lists[PoolCount][k]>>), poolData)
      BY <1>2, <1>3, <1>6, <1>8, <2>1, <2>2, <2>3, <2>4, TrackedRemove
    <2> QED BY <2>4, <2>5 DEF lt2
  <1>12. \A j \in DOMAIN pools : Conserved(j, pools[j], out2) /\ ChunksWhole(j, pools[j])
    BY <1>2, <1>5, OthersConserve
  <1>13. HeldOnce(out2)
    BY <1>2 DEF HeldOnce
  <1>14. OversizedListed(large2, out2)
    <2> SUFFICES ASSUME NEW f \in out2, Oversized(f.bytes)
                 PROVE  /\ f.at.offset = HeaderSize
                        /\ \E m \in DOMAIN large2 :
                             large2[m] = [block |-> f.at.block, size |-> f.bytes + HeaderSize]
      BY DEF OversizedListed
    <2>1. f.at.offset = HeaderSize /\ e.at.offset = HeaderSize
      BY <1>2, <1>5 DEF OversizedListed
    <2>2. PICK m \in DOMAIN oversized :
            oversized[m] = [block |-> f.at.block, size |-> f.bytes + HeaderSize]
      BY <1>2 DEF OversizedListed
    <2>3. m # k
      <3> SUFFICES ASSUME m = k PROVE FALSE
        OBVIOUS
      <3>1. f.at.block = e.at.block
        BY <1>4, <2>2
      <3>2. f.at \in Block /\ e.at \in Block
        BY <1>2 DEF Typed
      <3>3. f.at = e.at
        BY <2>1, <3>1, <3>2 DEF Block
      <3> QED BY <1>2, <3>3 DEF HeldOnce
    <2>4. m < k \/ k < m
      <3>1. m \in Nat /\ k \in Nat
        BY <1>6
      <3> QED BY <2>3, <3>1
    <2> QED BY <1>7, <2>1, <2>2, <2>4
  <1>15. Sound(poolData, pools, lt2, large2, out2)
    BY <1>2, <1>10, <1>11, <1>12, <1>13, <1>14 DEF Sound
  <1> QED BY <1>4, <1>5, <1>15 DEF large2

LEMMA DeallocateStep ==
  ASSUME IInv, NEW e \in outstanding, Deallocate(e)
  PROVE  IInv'
  <1>1. /\ alive /\ alive' = alive /\ options' = options /\ poolData' = poolData
        /\ outstanding' = outstanding \ {e}
        /\ DeallocateOversized(e) \/ DeallocatePooled(e)
    BY DEF Deallocate
  <1>2. Sound(poolData', pools', lent', oversized', outstanding')
    BY <1>1, DeallocateOversizedStep, DeallocatePooledStep
  <1>3. Sound(poolData, pools, lent, oversized, outstanding)'
    BY <1>1, <1>2, SoundAfter
  <1>4. Fixed(options)'
    BY <1>1 DEF Fixed, IInv
  <1> QED BY <1>1, <1>3, <1>4 DEF IInv

\* A resource that keeps nothing but, perhaps, its array.
LEMMA EmptySound ==
  ASSUME NEW data \in RegionIds \cup {NoRegion}, NEW ps \in [Indices(data) -> Pool],
         \A i \in DOMAIN ps : ps[i].chunks = <<>> /\ ps[i].free = <<>>,
         NEW lt, lt \in [DOMAIN lt -> Nat], DOMAIN lt \subseteq RegionIds \cap {data},
         data # NoRegion => data \in DOMAIN lt /\ lt[data] = PoolDataSize * PoolCount
  PROVE  Sound(data, ps, lt, <<>>, {})
  <1>1. Typed(data, ps, lt, <<>>, {})
    BY DEF Typed
  <1> DEFINE lists == ListsOf(ps, <<>>)
  <1>2. \A i \in DOMAIN lists : DOMAIN lists[i] = {}
    <2>1. \A i \in DOMAIN lists : lists[i] = <<>>
      BY DEF ListsOf
    <2> HIDE DEF lists
    <2> QED BY <2>1
  <1> HIDE DEF lists
  <1>3. Tracked(lists, lt, data)
    BY <1>2 DEF Tracked
  <1>4. ASSUME NEW i \in DOMAIN ps PROVE Conserved(i, ps[i], {}) /\ ChunksWhole(i, ps[i])
    <2>1. DOMAIN ps[i].chunks = {} /\ DOMAIN ps[i].free = {}
      OBVIOUS
    <2>2. FreeIn(ps[i]) = {} /\ BlocksIn(i, ps[i]) = {} /\ HeldIn(i, {}) = {}
      BY <2>1 DEF FreeIn, BlocksIn, HeldIn
    <2> QED BY <2>1, <2>2 DEF Conserved, ChunksWhole
  <1>5. HeldOnce({}) /\ OversizedListed(<<>>, {})
    BY DEF HeldOnce, OversizedListed
  <1> QED BY <1>1, <1>3, <1>4, <1>5 DEF Sound, lists

LEMMA VacantSound == Vacant => Sound(poolData, pools, lent, oversized, outstanding)
  <1> SUFFICES ASSUME Vacant PROVE Sound(poolData, pools, lent, oversized, outstanding)
    OBVIOUS
  <1>1. /\ poolData \in RegionIds \cup {NoRegion} /\ poolData = NoRegion /\ oversized = <<>>
        /\ outstanding = {} /\ pools = NoPools /\ lent = NothingLent
    BY DEF Vacant
  <1>2. pools \in [Indices(poolData) -> Pool] /\ DOMAIN pools = {}
    BY <1>1 DEF Indices, NoPools
  <1>3. lent \in [DOMAIN lent -> Nat] /\ DOMAIN lent \subseteq RegionIds \cap {poolData}
    BY <1>1 DEF NothingLent
  <1>4. Sound(poolData, pools, lent, <<>>, {})
    BY <1>1, <1>2, <1>3, EmptySound
  <1> QED BY <1>1, <1>4

\* release() leaves upstream's record of the array alone.
LEMMA OnlyArrayStays ==
  ASSUME Sound(poolData, pools, lent, oversized, outstanding), Fixed(options)
  PROVE  AllReleased = [x \in DOMAIN lent \cap {poolData} |-> lent[x]]
  <1> DEFINE lists == ListsOf(pools, oversized)
             all == {oversized} \cup {pools[i].chunks : i \in DOMAIN pools}
  <1>1. /\ Typed(poolData, pools, lent, oversized, outstanding) /\ Tracked(lists, lent, poolData)
    BY DEF Sound
  <1>2. /\ lists \in [Indices(poolData) \cup {PoolCount} -> Seq(Entry)]
        /\ DOMAIN pools = Indices(poolData) /\ PoolCount \notin DOMAIN pools
    BY <1>1, ListsTyped, IndexOf
  <1>3. \A i \in DOMAIN lists : lists[i] \in all
    BY DEF ListsOf
  <1>4. \A l \in all : \E i \in DOMAIN lists : l = lists[i]
    BY <1>2 DEF ListsOf
  <1> HIDE DEF lists, all
  <1>5. ASSUME NEW r \in DOMAIN lent
        PROVE  (\A l \in all : r \in DOMAIN GiveBack(lent, l)) <=> r = poolData
    <2>1. \A l : r \in DOMAIN GiveBack(lent, l) <=>
                   ~ \E k \in DOMAIN l : l[k] = [block |-> r, size |-> lent[r]]
      BY DEF GiveBack
    <2>2. CASE r = poolData
      <3>1. ASSUME NEW l \in all, NEW k \in DOMAIN l PROVE l[k].block # r
        BY <1>1, <1>4, <2>2 DEF Tracked
      <3>2. \A l \in all : \A k \in DOMAIN l : l[k] # [block |-> r, size |-> lent[r]]
        <4> SUFFICES ASSUME NEW l \in all, NEW k \in DOMAIN l, l[k] = [block |-> r, size |-> lent[r]]
                     PROVE  FALSE
          OBVIOUS
        <4>1. l[k].block = r
          OBVIOUS
        <4> QED BY <3>1, <4>1
      <3> QED BY <2>1, <2>2, <3>2
    <2>3. CASE r # poolData
      <3>1. PICK i \in DOMAIN lists : \E k \in DOMAIN lists[i] : lists[i][k].block = r
        BY <1>1, <2>3 DEF Tracked
      <3>2. PICK k \in DOMAIN lists[i] : lists[i][k].block = r
        BY <3>1
      <3>3. lent[r] = lists[i][k].size
        BY <1>1, <3>2 DEF Tracked
      <3>4. lists[i][k] \in Entry
        <4>1. lists[i] \in Seq(Entry)
          BY <1>2
        <4> QED BY <4>1, ElementOfSeq
      <3>5. lists[i][k] = [block |-> r, size |-> lent[r]]
        BY <3>2, <3>3, <3>4 DEF Entry
      <3> QED BY <1>3, <2>1, <2>3, <3>5
    <2> QED BY <2>2, <2>3
  <1>6. {r \in DOMAIN lent : \A l \in all : r \in DOMAIN GiveBack(lent, l)} = DOMAIN lent \cap {poolData}
    BY <1>5
  <1> QED BY <1>6 DEF AllReleased, all

LEMMA ReleaseStep ==
  ASSUME IInv, Release
  PROVE  IInv'
  <1>1. /\ alive /\ Fixed(options) /\ Sound(poolData, pools, lent, oversized, outstanding)
        /\ alive' = alive /\ options' = options /\ poolData' = poolData
        /\ oversized' = <<>> /\ outstanding' = {} /\ lent' = AllReleased
        /\ pools' = [i \in DOMAIN pools |-> Released(pools[i])]
    BY DEF IInv, Release
  <1>2. /\ Typed(poolData, pools, lent, oversized, outstanding)
        /\ poolData # NoRegion => poolData \in DOMAIN lent /\ lent[poolData] = PoolDataSize * PoolCount
    BY <1>1 DEF Sound, Tracked
  <1>3. lent' = [x \in DOMAIN lent \cap {poolData} |-> lent[x]]
    BY <1>1, OnlyArrayStays
  <1>4. /\ poolData \in RegionIds \cup {NoRegion} /\ DOMAIN lent \subseteq RegionIds
        /\ lent \in [DOMAIN lent -> Nat] /\ DOMAIN pools = Indices(poolData)
    BY <1>2, ListsTyped DEF Typed
  <1>5. /\ lent' \in [DOMAIN lent' -> Nat] /\ DOMAIN lent' \subseteq RegionIds \cap {poolData}
        /\ poolData # NoRegion => poolData \in DOMAIN lent' /\ lent'[poolData] = PoolDataSize * PoolCount
    BY <1>2, <1>3, <1>4
  <1>6. /\ pools' \in [Indices(poolData) -> Pool]
        /\ \A i \in DOMAIN pools' : pools'[i].chunks = <<>> /\ pools'[i].free = <<>>
    <2>1. \A p : Released(p) \in Pool /\ Released(p).chunks = <<>> /\ Released(p).free = <<>>
      BY PoolAssumption DEF Released, Pool
    <2> QED BY <1>1, <1>4, <2>1
  <1>7. Sound(poolData, pools', lent', <<>>, {})
    BY <1>4, <1>5, <1>6, EmptySound
  <1>8. Sound(poolData', pools', lent', oversized', outstanding')
    BY <1>1, <1>7
  <1>9. Sound(poolData, pools, lent, oversized, outstanding)'
    BY <1>1, <1>8, SoundAfter
  <1>10. Fixed(options)'
    BY <1>1 DEF Fixed
  <1> QED BY <1>1, <1>9, <1>10 DEF IInv

LEMMA DestroyStep ==
  ASSUME IInv, Destroy
  PROVE  IInv'
  <1>1. /\ alive /\ Fixed(options) /\ Sound(poolData, pools, lent, oversized, outstanding)
        /\ alive' = FALSE /\ poolData' = NoRegion /\ pools' = NoPools
        /\ oversized' = <<>> /\ outstanding' = {} /\ lent' = ArrayGivenBack(AllReleased)
    BY DEF IInv, Destroy
  <1>2. /\ poolData # NoRegion => poolData \in DOMAIN lent /\ lent[poolData] = PoolDataSize * PoolCount
        /\ DOMAIN lent \subseteq RegionIds
    BY <1>1 DEF Sound, Tracked, Typed
  <1> DEFINE left == [x \in DOMAIN lent \cap {poolData} |-> lent[x]]
  <1>3. lent' = ArrayGivenBack(left)
    BY <1>1, OnlyArrayStays
  <1>4. lent' = NothingLent
    <2>1. CASE poolData = NoRegion
      BY <1>2, <1>3, <2>1, PoolAssumption DEF ArrayGivenBack, NothingLent
    <2>2. CASE poolData # NoRegion
      <3> DEFINE c == [block |-> poolData, size |-> PoolDataSize * PoolCount]
      <3>1. DOMAIN left = {poolData} /\ left[poolData] = PoolDataSize * PoolCount
        BY <1>2, <2>2
      <3>2. lent' = GiveBack(left, <<c>>)
        BY <1>3, <2>2 DEF ArrayGivenBack
      <3> HIDE DEF left
      <3>3. {r \in DOMAIN left : ~ \E i \in DOMAIN <<c>> : <<c>>[i] = [block |-> r, size |-> left[r]]} = {}
        <4>1. DOMAIN <<c>> = {1} /\ <<c>>[1] = c
          OBVIOUS
        <4> QED BY <3>1, <4>1
      <3> HIDE DEF c
      <3> QED BY <3>2, <3>3 DEF GiveBack, NothingLent
    <2> QED BY <2>1, <2>2
  <1>5. Vacant'
    BY <1>1, <1>4 DEF Vacant
  <1>6. Sound(poolData, pools, lent, oversized, outstanding)'
    <2>1. Vacant' => Sound(poolData, pools, lent, oversized, outstanding)'
      BY VacantSound, PTL
    <2> QED BY <1>5, <2>1
  <1> QED BY <1>1, <1>5, <1>6 DEF IInv

LEMMA ConstructStep ==
  ASSUME IInv, Construct
  PROVE  IInv'
  <1>1. PICK o \in Options : options' = FixOptions(o)
    BY DEF Construct
  <1>2. Fixed(options)'
    BY <1>1, FixOptionsFixes DEF Fixed
  <1>3. Vacant' /\ alive' = TRUE
    BY DEF Construct, IInv, Vacant
  <1>4. Sound(poolData, pools, lent, oversized, outstanding)'
    <2>1. Vacant' => Sound(poolData, pools, lent, oversized, outstanding)'
      BY VacantSound, PTL
    <2> QED BY <1>3, <2>1
  <1> QED BY <1>2, <1>3, <1>4 DEF IInv

LEMMA StutterStep ==
  ASSUME IInv, UNCHANGED vars
  PROVE  IInv'
  <1>1. /\ alive' = alive /\ options' = options /\ poolData' = poolData /\ pools' = pools
        /\ oversized' = oversized /\ lent' = lent /\ outstanding' = outstanding
    BY DEF vars
  <1>2. Sound(poolData', pools', lent', oversized', outstanding')
    BY <1>1 DEF IInv
  <1>3. Sound(poolData, pools, lent, oversized, outstanding)'
    BY <1>1, <1>2, SoundAfter
  <1>4. (alive => Fixed(options))'
    BY <1>1 DEF Fixed, IInv
  <1> QED BY <1>1, <1>3, <1>4 DEF IInv, Vacant

LEMMA InitIInv == Init => IInv
  <1> SUFFICES ASSUME Init PROVE IInv
    OBVIOUS
  <1>1. Vacant /\ alive = FALSE
    BY DEF Init, Vacant
  <1> QED BY <1>1, VacantSound DEF IInv

LEMMA NextIInv == IInv /\ [Next]_vars => IInv'
  <1> SUFFICES ASSUME IInv, [Next]_vars PROVE IInv'
    OBVIOUS
  <1>1. CASE Construct
    BY <1>1, ConstructStep
  <1>2. CASE InitPoolsThrows
    BY <1>2, StutterStep DEF InitPoolsThrows
  <1>3. CASE \E bytes \in Sizes : Allocate(bytes)
    BY <1>3, AllocateStep
  <1>4. CASE \E e \in outstanding : Deallocate(e)
    BY <1>4, DeallocateStep
  <1>5. CASE Release
    BY <1>5, ReleaseStep
  <1>6. CASE Destroy
    BY <1>6, DestroyStep
  <1>7. CASE UNCHANGED vars
    BY <1>7, StutterStep
  <1> QED BY <1>1, <1>2, <1>3, <1>4, <1>5, <1>6, <1>7 DEF Next

\* The members of the resource agree with each other and with upstream's
\* record in every reachable state, for every option and request size.
THEOREM PoolInvariant == Spec => []IInv
  BY InitIInv, NextIInv, PTL DEF Spec

-----------------------------------------------------------------------------
(* What the invariant says of the extents in use *)

\* Where a pooled extent lies.
LEMMA PooledPlace ==
  ASSUME NEW data, NEW ps, NEW lt, NEW large, NEW out, Fixed(options),
         Sound(data, ps, lt, large, out), NEW e \in out, ~Oversized(e.bytes)
  PROVE  LET i == PoolIndex(e.bytes) IN
         /\ i \in DOMAIN ps /\ i \in Indices(data)
         /\ \E j \in DOMAIN ps[i].chunks, n \in Nat : \E k \in 0 .. n - 1 :
              /\ ps[i].chunks[j].size = n * PoolBlock(i) + HeaderSize
              /\ e.at = [block |-> ps[i].chunks[j].block, offset |-> HeaderSize + k * PoolBlock(i)]
  <1> DEFINE i == PoolIndex(e.bytes)
  <1>1. Typed(data, ps, lt, large, out) /\ data # NoRegion
    BY DEF Sound
  <1>2. e.bytes \in Sizes
    BY <1>1 DEF Typed
  <1>3. i \in Indices(data) /\ i \in DOMAIN ps /\ PoolBlock(i) \in Nat \ {0}
    <2>1. i \in Indices(data)
      BY <1>1, <1>2, IndexOf DEF Indices
    <2>2. DOMAIN ps = Indices(data)
      BY <1>1, ListsTyped
    <2> HIDE DEF i
    <2> QED BY <2>1, <2>2, IndexOf
  <1>4. e.at \in HeldIn(i, out)
    BY DEF HeldIn
  <1> HIDE DEF i
  <1>5. e.at \in BlocksIn(i, ps[i]) /\ ChunksWhole(i, ps[i])
    BY <1>3, <1>4 DEF Sound, Conserved
  <1>6. PICK j \in DOMAIN ps[i].chunks : e.at \in ChunkBlocks(ps[i].chunks[j], PoolBlock(i))
    BY <1>5, InChunk
  <1>7. PICK n \in Nat : ps[i].chunks[j].size = n * PoolBlock(i) + HeaderSize
    BY <1>5 DEF ChunksWhole
  <1>8. PICK k \in 0 .. n - 1 :
          e.at = [block |-> ps[i].chunks[j].block, offset |-> HeaderSize + k * PoolBlock(i)]
    <2> DEFINE c == ps[i].chunks[j]
               block == PoolBlock(i)
    <2>1. c.size = n * block + HeaderSize /\ block \in Nat \ {0} /\ e.at \in ChunkBlocks(c, block)
      BY <1>3, <1>6, <1>7
    <2> HIDE DEF c, block
    <2>2. \A b : b \in ChunkBlocks(c, block) <=>
            \E k \in 0 .. n - 1 : b = [block |-> c.block, offset |-> HeaderSize + k * block]
      BY <2>1, WholeChunk
    <2> QED BY <2>1, <2>2 DEF c, block
  <1> QED BY <1>3, <1>7, <1>8 DEF i

\* Every extent in use fits between the header and the end of its region.
LEMMA SoundFits ==
  ASSUME Fixed(options), Sound(poolData, pools, lent, oversized, outstanding)
  PROVE  HeldFits
  <1> DEFINE lists == ListsOf(pools, oversized)
             out == outstanding
  <1>1. /\ Typed(poolData, pools, lent, oversized, out) /\ Tracked(lists, lent, poolData)
        /\ OversizedListed(oversized, out)
    BY DEF Sound
  <1>2. /\ lists \in [Indices(poolData) \cup {PoolCount} -> Seq(Entry)]
        /\ DOMAIN pools = Indices(poolData) /\ PoolCount \notin DOMAIN pools
    BY <1>1, ListsTyped, IndexOf
  <1>3. lists[PoolCount] = oversized /\ \A i \in DOMAIN pools : lists[i] = pools[i].chunks
    BY <1>2 DEF ListsOf
  <1>4. HeaderSize \in Nat
    BY PoolAssumption
  <1> SUFFICES ASSUME NEW e \in out
               PROVE  /\ e.at.block \in DOMAIN lent
                      /\ HeaderSize <= e.at.offset
                      /\ e.at.offset + (IF Oversized(e.bytes) THEN e.bytes ELSE PoolBlock(PoolIndex(e.bytes)))
                           <= lent[e.at.block]
                      /\ ~Oversized(e.bytes) => e.bytes <= PoolBlock(PoolIndex(e.bytes))
    BY DEF HeldFits
  <1>5. e.bytes \in Sizes /\ e.bytes \in Nat
    BY <1>1, PoolAssumption, SizeMaxNat DEF Typed, SizeType
  <1> HIDE DEF lists
  <1>6. CASE Oversized(e.bytes)
    <2>1. PICK k \in DOMAIN oversized :
            oversized[k] = [block |-> e.at.block, size |-> e.bytes + HeaderSize]
      BY <1>1, <1>6 DEF OversizedListed
    <2>2. /\ oversized[k].block = e.at.block /\ oversized[k].size = e.bytes + HeaderSize
          /\ e.at.offset = HeaderSize
      BY <1>1, <1>6, <2>1 DEF OversizedListed
    <2>3. e.at.block \in DOMAIN lent /\ lent[e.at.block] = e.bytes + HeaderSize
      BY <1>1, <1>2, <1>3, <2>2 DEF Tracked
    <2> QED BY <1>4, <1>5, <1>6, <2>2, <2>3
  <1>7. CASE ~Oversized(e.bytes)
    <2> DEFINE i == PoolIndex(e.bytes)
               block == PoolBlock(i)
    <2>1. /\ i \in DOMAIN pools
          /\ \E j \in DOMAIN pools[i].chunks, n \in Nat : \E k \in 0 .. n - 1 :
               /\ pools[i].chunks[j].size = n * block + HeaderSize
               /\ e.at = [block |-> pools[i].chunks[j].block, offset |-> HeaderSize + k * block]
      BY <1>7, PooledPlace
    <2>2. e.bytes <= block /\ block \in Nat \ {0}
      <3>1. e.bytes <= block
        BY <1>5, <1>7, IndexOf
      <3>2. i \in Indices(poolData)
        BY <1>2, <2>1
      <3> HIDE DEF i
      <3> QED BY <3>1, <3>2, IndexOf
    <2> HIDE DEF i, block
    <2>3. PICK j \in DOMAIN pools[i].chunks, n \in Nat : \E k \in 0 .. n - 1 :
            /\ pools[i].chunks[j].size = n * block + HeaderSize
            /\ e.at = [block |-> pools[i].chunks[j].block, offset |-> HeaderSize + k * block]
      BY <2>1
    <2>4. PICK k \in 0 .. n - 1 :
            /\ pools[i].chunks[j].size = n * block + HeaderSize
            /\ e.at = [block |-> pools[i].chunks[j].block, offset |-> HeaderSize + k * block]
      BY <2>3
    <2>5. /\ e.at.block \in DOMAIN lent /\ lent[e.at.block] = n * block + HeaderSize
          /\ e.at.offset = HeaderSize + k * block
      <3>1. e.at.block = pools[i].chunks[j].block /\ e.at.offset = HeaderSize + k * block
        BY <2>4
      <3>2. i \in DOMAIN lists /\ lists[i] = pools[i].chunks
        BY <1>2, <1>3, <2>1
      <3> QED BY <1>1, <2>4, <3>1, <3>2 DEF Tracked
    <2> DEFINE x == k * block
               y == n * block
    <2>6. x \in Nat /\ y \in Nat /\ x + block <= y
      BY <2>2, Apart
    <2>7. e.at.offset = HeaderSize + x /\ lent[e.at.block] = y + HeaderSize
      BY <2>5
    <2> HIDE DEF x, y
    <2>8. HeaderSize <= e.at.offset /\ e.at.offset + block <= lent[e.at.block]
      BY <1>4, <2>2, <2>6, <2>7
    <2> QED BY <1>7, <2>2, <2>5, <2>8 DEF block, i
  <1> QED BY <1>6, <1>7

\* No two extents in use share a byte.
ExtentsDisjoint == \A e, f \in outstanding : e # f => ~Promise!Overlap(e, f)

LEMMA SoundDisjoint ==
  ASSUME Fixed(options), Sound(poolData, pools, lent, oversized, outstanding)
  PROVE  ExtentsDisjoint
  <1> DEFINE lists == ListsOf(pools, oversized)
             out == outstanding
  <1>1. /\ Typed(poolData, pools, lent, oversized, out) /\ Tracked(lists, lent, poolData)
        /\ HeldOnce(out) /\ OversizedListed(oversized, out)
    BY DEF Sound
  <1>2. HeaderSize \in Nat /\ PoolCount \notin DOMAIN pools
    BY <1>1, PoolAssumption, ListsTyped, IndexOf
  <1>3. \A i \in DOMAIN pools : i \in DOMAIN lists /\ lists[i] = pools[i].chunks
    BY DEF ListsOf
  <1> HIDE DEF lists
  <1> SUFFICES ASSUME NEW e \in out, NEW f \in out, Promise!Overlap(e, f)
               PROVE  e = f
    BY DEF ExtentsDisjoint
  <1>4. /\ e.at.block = f.at.block
        /\ e.at.offset < f.at.offset + f.bytes /\ f.at.offset < e.at.offset + e.bytes
    BY DEF Promise!Overlap
  <1>5. e.at \in Block /\ f.at \in Block /\ e.bytes \in Sizes /\ f.bytes \in Sizes
    BY <1>1 DEF Typed
  <1>6. e.bytes \in Nat /\ f.bytes \in Nat
    <2>1. Sizes \subseteq Nat
      BY PoolAssumption, SizeMaxNat DEF SizeType
    <2> QED BY <1>5, <2>1
  <1>7. ListIndex(e.bytes) = ListIndex(f.bytes)
    <2>1. /\ ListIndex(e.bytes) \in DOMAIN lists
          /\ \E k \in DOMAIN lists[ListIndex(e.bytes)] : lists[ListIndex(e.bytes)][k].block = e.at.block
      BY HeldListed DEF lists
    <2>2. /\ ListIndex(f.bytes) \in DOMAIN lists
          /\ \E k \in DOMAIN lists[ListIndex(f.bytes)] : lists[ListIndex(f.bytes)][k].block = e.at.block
      BY <1>4, HeldListed DEF lists
    <2> QED BY <1>1, <2>1, <2>2 DEF Tracked
  <1>8. CASE Oversized(e.bytes) /\ Oversized(f.bytes)
    <2>1. e.at.offset = f.at.offset
      BY <1>1, <1>8 DEF OversizedListed
    <2>2. e.at = f.at
      BY <1>4, <1>5, <2>1 DEF Block
    <2> QED BY <1>1, <2>2 DEF HeldOnce
  <1>9. CASE ~Oversized(e.bytes) /\ ~Oversized(f.bytes)
    <2> DEFINE i == PoolIndex(e.bytes)
               block == PoolBlock(i)
    <2>1. PoolIndex(f.bytes) = i
      BY <1>7, <1>9 DEF ListIndex
    <2>2. /\ i \in DOMAIN pools /\ i \in Indices(poolData)
          /\ \E j \in DOMAIN pools[i].chunks, n \in Nat : \E k \in 0 .. n - 1 :
               /\ pools[i].chunks[j].size = n * block + HeaderSize
               /\ e.at = [block |-> pools[i].chunks[j].block, offset |-> HeaderSize + k * block]
      BY <1>9, PooledPlace
    <2>3. \E j \in DOMAIN pools[i].chunks, n \in Nat : \E k \in 0 .. n - 1 :
            /\ pools[i].chunks[j].size = n * block + HeaderSize
            /\ f.at = [block |-> pools[i].chunks[j].block, offset |-> HeaderSize + k * block]
      <3>1. LET h == PoolIndex(f.bytes) IN
            \E j \in DOMAIN pools[h].chunks, n \in Nat : \E k \in 0 .. n - 1 :
              /\ pools[h].chunks[j].size = n * PoolBlock(h) + HeaderSize
              /\ f.at = [block |-> pools[h].chunks[j].block, offset |-> HeaderSize + k * PoolBlock(h)]
        BY <1>9, PooledPlace
      <3> HIDE DEF i
      <3> QED BY <2>1, <3>1
    <2>4. e.bytes <= block /\ f.bytes <= block
      <3>1. e.bytes <= PoolBlock(PoolIndex(e.bytes)) /\ f.bytes <= PoolBlock(PoolIndex(f.bytes))
        BY <1>5, <1>9, IndexOf
      <3> HIDE DEF i
      <3> QED BY <2>1, <3>1 DEF i
    <2> HIDE DEF i
    <2>5. block \in Nat \ {0}
      BY <2>2, IndexOf
    <2> HIDE DEF block
    <2>6. PICK j \in DOMAIN pools[i].chunks, n \in Nat : \E k \in 0 .. n - 1 :
            e.at = [block |-> pools[i].chunks[j].block, offset |-> HeaderSize + k * block]
      BY <2>2
    <2>7. PICK k \in 0 .. n - 1 :
            e.at = [block |-> pools[i].chunks[j].block, offset |-> HeaderSize + k * block]
      BY <2>6
    <2>8. PICK l \in DOMAIN pools[i].chunks, m \in Nat : \E h \in 0 .. m - 1 :
            f.at = [block |-> pools[i].chunks[l].block, offset |-> HeaderSize + h * block]
      BY <2>3
    <2>9. PICK h \in 0 .. m - 1 :
            f.at = [block |-> pools[i].chunks[l].block, offset |-> HeaderSize + h * block]
      BY <2>8
    <2> DEFINE x == k * block
               y == h * block
    <2>10. e.at.offset = HeaderSize + x /\ f.at.offset = HeaderSize + y /\ x \in Nat /\ y \in Nat
      <3>1. k \in Nat /\ h \in Nat
        OBVIOUS
      <3>2. x \in Nat /\ y \in Nat
        BY <2>5, <3>1
      <3>3. e.at.offset = HeaderSize + x /\ f.at.offset = HeaderSize + y
        BY <2>7, <2>9
      <3> QED BY <3>2, <3>3
    <2>11. ~(k < h) /\ ~(h < k)
      <3>1. k < h => x + block <= y
        BY <2>5, Apart
      <3>2. h < k => y + block <= x
        BY <2>5, Apart
      <3> HIDE DEF x, y
      <3> QED BY <1>2, <1>4, <1>6, <2>4, <2>5, <2>10, <3>1, <3>2
    <2>12. k = h
      BY <2>11
    <2>13. e.at = f.at
      BY <1>4, <2>7, <2>9, <2>12
    <2> QED BY <1>1, <2>13 DEF HeldOnce
  <1>10. Oversized(e.bytes) <=> Oversized(f.bytes)
    <2>1. \A g \in out : ~Oversized(g.bytes) => PoolIndex(g.bytes) # PoolCount
      BY <1>2, PooledPlace
    <2> QED BY <1>7, <2>1 DEF ListIndex
  <1> QED BY <1>8, <1>9, <1>10

-----------------------------------------------------------------------------
(* The theorems *)

\* An extent is in use only of a resource that is alive.
LEMMA InUse == IInv => HeldFits /\ ExtentsDisjoint
  <1> SUFFICES ASSUME IInv PROVE HeldFits /\ ExtentsDisjoint
    OBVIOUS
  <1>1. CASE alive
    BY <1>1, SoundFits, SoundDisjoint DEF IInv
  <1>2. CASE ~alive
    <2>1. outstanding = {}
      BY <1>2 DEF IInv, Vacant
    <2> QED BY <2>1 DEF HeldFits, ExtentsDisjoint
  <1> QED BY <1>1, <1>2 DEF IInv

\* block_list, block_slist, the array of pools and upstream agree, in every
\* reachable state, on what is on loan and with which size, and a destroyed
\* resource has given everything back.
THEOREM PoolNothingLeaked == Spec => []NothingLeaked
  <1>1. IInv => NothingLeaked
    BY DEF IInv, Sound, Tracked, NothingLeaked, Vacant
  <1> QED BY <1>1, PoolInvariant, PTL

\* allocate_block, deallocate_block, replenish and release lose no block of
\* a chunk, duplicate none and mix up no pools.
THEOREM PoolBlocksConserved == Spec => []BlocksConserved
  <1>1. IInv => BlocksConserved
    <2> SUFFICES ASSUME IInv PROVE BlocksConserved
      OBVIOUS
    <2>1. /\ \A i \in DOMAIN pools : Conserved(i, pools[i], outstanding)
          /\ HeldOnce(outstanding)
      BY DEF IInv, Sound
    <2>2. \A i \in DOMAIN pools : /\ FreeOf(i) = FreeIn(pools[i])
                                  /\ HeldOf(i) = HeldIn(i, outstanding)
                                  /\ BlocksOf(i) = BlocksIn(i, pools[i])
      BY DEF FreeOf, FreeIn, HeldOf, HeldIn, BlocksOf, BlocksIn
    <2> QED BY <2>1, <2>2 DEF BlocksConserved, Conserved, HeldOnce
  <1> QED BY <1>1, PoolInvariant, PTL

\* priv_pool_index and priv_pool_block choose a block large enough for the
\* request, and the block lies between the header and the end of a region on
\* loan.
THEOREM PoolHeldFits == Spec => []HeldFits
  BY InUse, PoolInvariant, PTL

\* The resource is a memory_resource: every step is an allocation of storage
\* disjoint from all that is outstanding, a deallocation of one extent, a
\* reclamation of all of them, or changes nothing the caller sees.
THEOREM PoolImplementsMemoryResource == Spec => ImplementsMemoryResource
  <1>1. Init => Promise!Init
    BY DEF Init, Promise!Init
  <1>2. IInv /\ ExtentsDisjoint' /\ [Next]_vars => [Promise!Next]_outstanding
    <2> SUFFICES ASSUME IInv, ExtentsDisjoint', [Next]_vars, outstanding' # outstanding
                 PROVE  Promise!Next
      OBVIOUS
    <2>1. CASE \E bytes \in Sizes : Allocate(bytes)
      <3>1. PICK bytes \in Sizes, s \in Ready :
              \/ AllocateOversized(s, bytes)
              \/ AllocateCached(s, bytes)
              \/ AllocateReplenish(s, bytes)
        BY <2>1 DEF Allocate, AllocateThrows
      <3>2. \E e : outstanding' = outstanding \cup {e}
        BY <3>1 DEF AllocateOversized, AllocateCached, AllocateReplenish
      <3>3. PICK e : outstanding' = outstanding \cup {e}
        BY <3>2
      <3>4. e \in outstanding' /\ e \notin outstanding
        BY <3>3
      <3>5. \A f \in outstanding : ~Promise!Overlap(e, f)
        BY <3>3, <3>4 DEF ExtentsDisjoint
      <3> QED BY <3>3, <3>4, <3>5 DEF Promise!Next, Promise!Allocate
    <2>2. CASE \E e \in outstanding : Deallocate(e)
      BY <2>2 DEF Deallocate, Promise!Next, Promise!Deallocate
    <2>3. CASE Release \/ Destroy
      BY <2>3 DEF Release, Destroy, Promise!Next, Promise!Reclaim
    <2>4. CASE Construct \/ InitPoolsThrows
      BY <2>4 DEF Construct, InitPoolsThrows, vars
    <2> QED BY <2>1, <2>2, <2>3, <2>4 DEF Next, vars
  <1> QED BY <1>1, <1>2, InUse, PoolInvariant, PTL
      DEF Spec, ImplementsMemoryResource, Promise!Spec

-----------------------------------------------------------------------------
(* SyncPoolResource: whatever threads do, what they do to the members      *)
(* under m_mut is what a PoolResource does, so that all that holds of the  *)
(* engine holds of the synchronized resource.                              *)

-----------------------------------------------------------------------------
(* The inductive invariant, beside that of the engine *)

Locked == {"inside", "count", "write", "unlock"}

Shapes == DOMAIN pc = Threads /\ DOMAIN call = Threads /\ DOMAIN seen = Threads

\* The call a thread is in goes with the place it is at.
CallsMatch ==
  \A t \in Threads :
    /\ pc[t] = "idle" => call[t] = NoCall
    /\ pc[t] \in Locked \cup {"lock"} => call[t].op \in {"allocate", "deallocate", "release"}
    /\ pc[t] \in {"ready?", "walk"} => call[t].op = "pool_cached_blocks"
    /\ pc[t] \in Locked \cup {"idle", "lock", "ready?", "walk"}
    /\ call[t].op = "allocate" => call[t].bytes \in Sizes

MutexHeld == \A t \in Threads : pc[t] \in Locked => mutex = t

AliveInUse == \A t \in Threads : pc[t] # "idle" => alive

\* What a thread has read of a free list is still so when it writes.
ReadStands ==
  \A t \in Threads : pc[t] = "write" =>
    /\ call[t].op \in {"allocate", "deallocate"} /\ poolData # NoRegion
    /\ ~Oversized(Request(t)) /\ seen[t] = pools[PoolIndex(Request(t))].free
    /\ call[t].op = "allocate" => seen[t] # <<>>

\* A block is outstanding until the one call that gives it back does.
GivenOnce ==
  /\ \A t \in Threads :
       call[t].op = "deallocate" /\ pc[t] # "unlock" => call[t].extent \in outstanding
  /\ \A t, u \in Threads :
       call[t].op = "deallocate" /\ call[u].op = "deallocate" /\ call[t].extent = call[u].extent
         => t = u
  /\ \A t, u \in Threads : ~(call[t].op = "release" /\ call[u].op = "deallocate")

SyncInv ==
  /\ Shapes /\ CallsMatch /\ MutexHeld /\ AliveInUse /\ ReadStands /\ GivenOnce

-----------------------------------------------------------------------------
(* Every step is one of the engine, or none *)

\* The thread that has the mutex has it alone.
LEMMA HeldAlone ==
  ASSUME SyncInv, NEW t \in Threads, pc[t] \in Locked
  PROVE  mutex = t /\ \A u \in Threads : u # t => pc[u] \notin Locked
  BY DEF SyncInv, MutexHeld

\* priv_init_pools is the part of a do_allocate that then throws.
LEMMA InitPoolsIsAllocate ==
  ASSUME IInv, SyncInv, NEW t \in Threads, InitPools(t)
  PROVE  Next
  <1> DEFINE bytes == call[t].bytes
  <1>1. alive /\ bytes \in Sizes /\ poolData = NoRegion
    BY DEF InitPools, SyncInv, AliveInUse, CallsMatch
  <1>2. PICK s \in Ready : poolData' = s.data /\ pools' = s.pools /\ lent' = s.lent
    BY DEF InitPools
  <1>3. Oversized(bytes) \/ (~Oversized(bytes) /\ s.pools[PoolIndex(bytes)].free = <<>>)
    <2> SUFFICES ASSUME ~Oversized(bytes) PROVE s.pools[PoolIndex(bytes)].free = <<>>
      OBVIOUS
    <2> DEFINE i == PoolIndex(bytes)
    <2>1. Fixed(options)
      BY <1>1 DEF IInv
    <2>2. i \in 0 .. PoolCount - 1
      BY <1>1, <2>1, IndexOf
    <2> HIDE DEF i
    <2>3. s.pools = InitialPools
      BY <1>1 DEF Ready
    <2>4. s.pools[i].free = <<>>
      BY <2>2, <2>3 DEF InitialPools
    <2> QED BY <2>4 DEF i
  <1>4. AllocateThrows(s, bytes)
    BY <1>2, <1>3 DEF AllocateThrows, InitPools
  <1>5. Allocate(bytes)
    BY <1>1, <1>4 DEF Allocate, InitPools
  <1> QED BY <1>1, <1>5 DEF Next

\* Reading the free list and then writing it without its head is one
\* allocate_block.
LEMMA TakeBlockIsAllocate ==
  ASSUME IInv, SyncInv, NEW t \in Threads, TakeBlock(t)
  PROVE  Next
  <1> DEFINE bytes == call[t].bytes
             i == PoolIndex(bytes)
             s == [data |-> poolData, pools |-> pools, lent |-> lent]
  <1>1. /\ call[t].op = "allocate" /\ pc[t] = "write" /\ Request(t) = bytes
        /\ pools' = [pools EXCEPT ![i].free = Tail(seen[t])]
        /\ outstanding' = outstanding \cup {[at |-> Head(seen[t]), bytes |-> bytes]}
        /\ UNCHANGED <<alive, options, poolData, oversized, lent>>
    BY DEF TakeBlock, WriteFreeList, Request
  <1>2. /\ alive /\ bytes \in Sizes /\ poolData # NoRegion /\ ~Oversized(bytes)
        /\ seen[t] = pools[i].free /\ seen[t] # <<>>
    BY <1>1 DEF SyncInv, AliveInUse, CallsMatch, ReadStands
  <1>3. s \in Ready
    BY <1>2 DEF Ready
  <1>4. s.pools = pools /\ s.data = poolData /\ s.lent = lent
    OBVIOUS
  <1> HIDE DEF s, i
  <1>5. pools' = [pools EXCEPT ![i] = Take(@)]
    BY <1>1, <1>2 DEF Take
  <1>6. AllocateCached(s, bytes)
    BY <1>1, <1>2, <1>4, <1>5 DEF AllocateCached, i
  <1>7. Allocate(bytes)
    BY <1>1, <1>2, <1>3, <1>6 DEF Allocate
  <1> QED BY <1>2, <1>7 DEF Next

\* Reading the free list and then writing it with the block in front is one
\* deallocate_block.
LEMMA GiveBlockIsDeallocate ==
  ASSUME IInv, SyncInv, NEW t \in Threads, GiveBlock(t)
  PROVE  Next
  <1> DEFINE e == call[t].extent
             i == PoolIndex(e.bytes)
  <1>1. /\ call[t].op = "deallocate" /\ pc[t] = "write" /\ Request(t) = e.bytes
        /\ pools' = [pools EXCEPT ![i].free = <<e.at>> \o seen[t]]
        /\ outstanding' = outstanding \ {e}
        /\ UNCHANGED <<alive, options, poolData, oversized, lent>>
    BY DEF GiveBlock, WriteFreeList, Request
  <1>2. /\ alive /\ ~Oversized(e.bytes) /\ seen[t] = pools[i].free /\ e \in outstanding
    BY <1>1 DEF SyncInv, AliveInUse, ReadStands, GivenOnce
  <1> HIDE DEF i
  <1>3. pools' = [pools EXCEPT ![i].free = <<e.at>> \o @]
    BY <1>1, <1>2
  <1>4. Deallocate(e)
    BY <1>1, <1>2, <1>3 DEF Deallocate, DeallocatePooled, i
  <1> QED BY <1>2, <1>4 DEF Next

LEMMA WorkIsNext ==
  ASSUME SyncInv, NEW t \in Threads, Work(t)
  PROVE  Next
  <1>1. pc[t] = "inside"
    BY DEF Work
  <1>2. CASE call[t].op = "allocate" /\ Allocate(call[t].bytes)
    <2>1. call[t].bytes \in Sizes
      BY <1>2 DEF SyncInv, CallsMatch
    <2> QED BY <1>2, <2>1 DEF Next
  <1>3. CASE call[t].op = "deallocate" /\ Deallocate(call[t].extent)
    <2>1. call[t].extent \in outstanding
      BY <1>1, <1>3 DEF SyncInv, GivenOnce
    <2> QED BY <1>3, <2>1 DEF Next
  <1>4. CASE Release
    BY <1>4 DEF Next
  <1> QED BY <1>2, <1>3, <1>4 DEF Work

LEMMA EachStep ==
  ASSUME IInv, SyncInv, [SyncNext]_allVars
  PROVE  [Next]_vars
  <1>1. CASE SyncConstruct
    BY <1>1 DEF SyncConstruct, Next
  <1>2. CASE SyncDestroy
    BY <1>2 DEF SyncDestroy, Next
  <1>3. ASSUME NEW t \in Threads, Step(t)
        PROVE  [Next]_vars
    <2>1. CASE InitPools(t)
      BY <2>1, InitPoolsIsAllocate
    <2>2. CASE InitThrows(t)
      BY <2>2 DEF InitThrows, InitPoolsThrows
    <2>3. CASE TakeBlock(t)
      BY <2>3, TakeBlockIsAllocate
    <2>4. CASE GiveBlock(t)
      BY <2>4, GiveBlockIsDeallocate
    <2>5. CASE Work(t)
      BY <2>5, WorkIsNext
    <2>6. CASE SetPoolCount(t) \/ ReadFreeList(t) \/ Unlock(t) \/ Lock(t)
      BY <2>6 DEF SetPoolCount, ReadFreeList, Unlock, Lock
    <2>7. CASE CallAllocate(t) \/ CallDeallocate(t) \/ CallRelease(t) \/ CallCachedBlocks(t)
      BY <2>7 DEF CallAllocate, CallDeallocate, CallRelease, CallCachedBlocks, Begin
    <2>8. CASE StartWalk(t) \/ Walk(t)
      BY <2>8 DEF StartWalk, Walk
    <2> QED BY <1>3, <2>1, <2>2, <2>3, <2>4, <2>5, <2>6, <2>7, <2>8 DEF Step, Inside
  <1>4. CASE UNCHANGED allVars
    BY <1>4 DEF allVars
  <1> QED BY <1>1, <1>2, <1>3, <1>4 DEF SyncNext

-----------------------------------------------------------------------------
(* The invariant is inductive *)

LEMMA BeginStep ==
  ASSUME SyncInv, NEW t \in Threads,
         CallAllocate(t) \/ CallDeallocate(t) \/ CallRelease(t) \/ CallCachedBlocks(t)
  PROVE  SyncInv'
  <1>1. PICK c, label :
          /\ Begin(t, c) /\ Goto(t, label)
          /\ \/ c.op = "allocate" /\ c.bytes \in Sizes /\ label = "lock"
             \/ /\ c.op = "deallocate" /\ label = "lock" /\ c.extent \in outstanding
                /\ \A u \in Threads : call[u].op # "release"
                /\ \A u \in Threads : call[u].op = "deallocate" => call[u].extent # c.extent
             \/ /\ c.op = "release" /\ label = "lock"
                /\ \A u \in Threads : call[u].op \notin {"deallocate", "release"}
             \/ c.op = "pool_cached_blocks" /\ label = "ready?"
    <2>1. CASE CallAllocate(t)
      <3>1. PICK bytes \in Sizes : Begin(t, [op |-> "allocate", bytes |-> bytes]) /\ Goto(t, "lock")
        BY <2>1 DEF CallAllocate
      <3> DEFINE c == [op |-> "allocate", bytes |-> bytes]
      <3>2. c.op = "allocate" /\ c.bytes \in Sizes
        OBVIOUS
      <3> QED BY <3>1, <3>2
    <2>2. CASE CallDeallocate(t)
      <3>1. PICK e \in outstanding :
              /\ \A u \in Threads : call[u].op = "deallocate" => call[u].extent # e
              /\ Begin(t, [op |-> "deallocate", extent |-> e])
        BY <2>2 DEF CallDeallocate
      <3> DEFINE c == [op |-> "deallocate", extent |-> e]
      <3>2. c.op = "deallocate" /\ c.extent = e
        OBVIOUS
      <3> QED BY <2>2, <3>1, <3>2 DEF CallDeallocate
    <2>3. CASE CallRelease(t)
      <3>1. [op |-> "release"].op = "release"
        OBVIOUS
      <3> QED BY <2>3, <3>1 DEF CallRelease
    <2>4. CASE CallCachedBlocks(t)
      <3>1. [op |-> "pool_cached_blocks"].op = "pool_cached_blocks"
        OBVIOUS
      <3> QED BY <2>4, <3>1 DEF CallCachedBlocks
    <2> QED BY <2>1, <2>2, <2>3, <2>4
  <1>2. /\ alive /\ pc[t] = "idle" /\ call' = [call EXCEPT ![t] = c] /\ pc' = [pc EXCEPT ![t] = label]
        /\ UNCHANGED <<vars, mutex, poolCount, seen>>
    BY <1>1 DEF Begin, Goto
  <1>3. /\ pc'[t] = label /\ \A u \in Threads : u # t => pc'[u] = pc[u]
        /\ call'[t] = c /\ \A u \in Threads : u # t => call'[u] = call[u]
        /\ DOMAIN pc' = Threads /\ DOMAIN call' = Threads
    BY <1>2 DEF SyncInv, Shapes
  <1>4. /\ alive' = alive /\ options' = options /\ poolData' = poolData /\ pools' = pools
        /\ outstanding' = outstanding /\ mutex' = mutex /\ seen' = seen
    BY <1>2 DEF vars
  <1>5. Shapes'
    BY <1>3, <1>4 DEF SyncInv, Shapes
  <1>6. CallsMatch'
    BY <1>1, <1>3 DEF SyncInv, CallsMatch, Locked
  <1>7. MutexHeld'
    BY <1>1, <1>3, <1>4 DEF SyncInv, MutexHeld, Locked
  <1>8. AliveInUse'
    BY <1>2, <1>3, <1>4 DEF SyncInv, AliveInUse
  <1>9. ReadStands'
    BY <1>1, <1>3, <1>4 DEF SyncInv, ReadStands, Request, Oversized
  <1>10. GivenOnce'
    BY <1>1, <1>3, <1>4 DEF SyncInv, GivenOnce
  <1> QED BY <1>5, <1>6, <1>7, <1>8, <1>9, <1>10 DEF SyncInv

LEMMA LockStep ==
  ASSUME SyncInv, NEW t \in Threads, Lock(t)
  PROVE  SyncInv'
  <1>1. /\ pc[t] = "lock" /\ mutex = NoThread /\ mutex' = t /\ pc' = [pc EXCEPT ![t] = "inside"]
        /\ UNCHANGED <<vars, poolCount, call, seen>>
    BY DEF Lock, Goto
  <1>2. /\ pc'[t] = "inside" /\ \A u \in Threads : u # t => pc'[u] = pc[u]
        /\ DOMAIN pc' = Threads
    BY <1>1 DEF SyncInv, Shapes
  <1>3. /\ alive' = alive /\ options' = options /\ poolData' = poolData /\ pools' = pools
        /\ outstanding' = outstanding /\ call' = call /\ seen' = seen
    BY <1>1 DEF vars
  <1>4. \A u \in Threads : pc[u] \notin Locked
    BY <1>1, SyncAssumption DEF SyncInv, MutexHeld
  <1>5. Shapes'
    BY <1>2, <1>3 DEF SyncInv, Shapes
  <1>6. CallsMatch'
    BY <1>1, <1>2, <1>3 DEF SyncInv, CallsMatch, Locked
  <1>7. MutexHeld'
    BY <1>1, <1>2, <1>4 DEF MutexHeld
  <1>8. AliveInUse'
    BY <1>1, <1>2, <1>3 DEF SyncInv, AliveInUse
  <1>9. ReadStands'
    BY <1>2, <1>4 DEF ReadStands, Locked
  <1>10. GivenOnce'
    BY <1>1, <1>2, <1>3 DEF SyncInv, GivenOnce
  <1> QED BY <1>5, <1>6, <1>7, <1>8, <1>9, <1>10 DEF SyncInv

\* A step of the thread that has the mutex, other than of a deallocate that
\* gives its extent back or of the unlock.
LEMMA LockedStep ==
  ASSUME SyncInv, NEW t \in Threads, pc[t] \in Locked, NEW label \in Locked,
         pc' = [pc EXCEPT ![t] = label], call' = call, mutex' = mutex, DOMAIN seen' = Threads,
         alive' = alive,
         label = "write" => ReadStands',
         \A u \in Threads : call[u].op = "deallocate" /\ pc'[u] # "unlock" => call[u].extent \in outstanding'
  PROVE  SyncInv'
  <1>1. mutex = t /\ \A u \in Threads : u # t => pc[u] \notin Locked
    BY HeldAlone
  <1>2. /\ pc'[t] = label /\ \A u \in Threads : u # t => pc'[u] = pc[u]
        /\ DOMAIN pc' = Threads
    BY DEF SyncInv, Shapes
  <1>3. Shapes'
    BY <1>2 DEF SyncInv, Shapes
  <1>4. CallsMatch'
    BY <1>2 DEF SyncInv, CallsMatch, Locked
  <1>5. MutexHeld'
    BY <1>1, <1>2 DEF SyncInv, MutexHeld
  <1>6. AliveInUse'
    BY <1>2 DEF SyncInv, AliveInUse, Locked
  <1>7. ReadStands'
    BY <1>1, <1>2 DEF ReadStands, Locked
  <1>8. GivenOnce'
    BY DEF SyncInv, GivenOnce
  <1> QED BY <1>3, <1>4, <1>5, <1>6, <1>7, <1>8 DEF SyncInv

LEMMA InsideStep ==
  ASSUME SyncInv, NEW t \in Threads, Inside(t)
  PROVE  SyncInv'
  <1>1. CASE InitPools(t) \/ SetPoolCount(t) \/ InitThrows(t)
    <2>1. PICK label \in {"inside", "count", "unlock"} :
            /\ pc[t] \in Locked /\ pc' = [pc EXCEPT ![t] = label]
            /\ UNCHANGED <<alive, outstanding, mutex, call, seen>>
      BY <1>1 DEF InitPools, SetPoolCount, InitThrows, InitPoolsThrows, Goto, vars, Locked
    <2>2. label \in Locked /\ label # "write" /\ DOMAIN seen' = Threads
      BY <2>1 DEF Locked, SyncInv, Shapes
    <2>3. \A u \in Threads : call[u].op = "deallocate" /\ pc'[u] # "unlock" => call[u].extent \in outstanding'
      <3>1. \A u \in Threads : pc[u] = "unlock" => pc'[u] = "unlock" \/ u = t
        BY <2>1 DEF SyncInv, Shapes
      <3>2. pc[t] # "unlock"
        BY <1>1 DEF InitPools, SetPoolCount, InitThrows
      <3> QED BY <2>1, <3>1, <3>2 DEF SyncInv, GivenOnce
    <2> QED BY <2>1, <2>2, <2>3, LockedStep
  <1>2. CASE ReadFreeList(t)
    <2> DEFINE free == pools[PoolIndex(Request(t))].free
    <2>1. /\ pc[t] = "inside" /\ call[t].op \in {"allocate", "deallocate"} /\ poolData # NoRegion
          /\ ~Oversized(Request(t))
          /\ call[t].op = "allocate" => free # <<>>
          /\ seen' = [seen EXCEPT ![t] = free]
          /\ pc' = [pc EXCEPT ![t] = "write"]
          /\ UNCHANGED <<vars, mutex, poolCount, call>>
      BY <1>2 DEF ReadFreeList, Goto
    <2>2. /\ pc'[t] = "write" /\ \A u \in Threads : u # t => pc'[u] = pc[u]
          /\ seen'[t] = free /\ DOMAIN seen' = Threads
      BY <2>1 DEF SyncInv, Shapes
    <2>3. /\ alive' = alive /\ options' = options /\ poolData' = poolData /\ pools' = pools
          /\ outstanding' = outstanding /\ mutex' = mutex /\ call' = call
      BY <2>1 DEF vars
    <2>4. pc[t] \in Locked /\ "write" \in Locked
      BY <2>1 DEF Locked
    <2>5. \A u \in Threads : u # t => pc[u] # "write"
      BY <2>4, HeldAlone DEF Locked
    <2>6. ReadStands'
      <3>1. Request(t)' = Request(t) /\ Oversized(Request(t))' = Oversized(Request(t))
        BY <2>3 DEF Request, Oversized
      <3>2. seen'[t] = pools'[PoolIndex(Request(t))].free /\ call'[t].op \in {"allocate", "deallocate"}
        BY <2>1, <2>2, <2>3
      <3>3. call'[t].op = "allocate" => seen'[t] # <<>>
        BY <2>1, <2>2, <2>3
      <3>4. \A u \in Threads : pc'[u] = "write" => u = t
        BY <2>2, <2>5
      <3>5. ~Oversized(Request(t))' /\ seen'[t] = pools'[PoolIndex(Request(t)')].free /\ poolData' # NoRegion
        BY <2>1, <2>3, <3>1, <3>2
      <3> HIDE DEF free
      <3> QED BY <3>2, <3>3, <3>4, <3>5 DEF ReadStands
    <2>7. \A u \in Threads : call[u].op = "deallocate" /\ pc'[u] # "unlock" => call[u].extent \in outstanding'
      BY <2>1, <2>2, <2>3 DEF SyncInv, GivenOnce
    <2> QED BY <2>1, <2>2, <2>3, <2>4, <2>6, <2>7, LockedStep
  <1>3. CASE TakeBlock(t)
    <2>1. /\ pc[t] = "write" /\ call[t].op = "allocate"
          /\ seen' = [seen EXCEPT ![t] = <<>>] /\ pc' = [pc EXCEPT ![t] = "unlock"]
          /\ UNCHANGED <<alive, mutex, call>> /\ outstanding \subseteq outstanding'
      BY <1>3 DEF TakeBlock, WriteFreeList, Goto
    <2>2. /\ pc'[t] = "unlock" /\ \A u \in Threads : u # t => pc'[u] = pc[u]
          /\ DOMAIN seen' = Threads
      BY <2>1 DEF SyncInv, Shapes
    <2>3. pc[t] \in Locked /\ "unlock" \in Locked
      BY <2>1 DEF Locked
    <2>4. \A u \in Threads : call[u].op = "deallocate" /\ pc'[u] # "unlock" => call[u].extent \in outstanding'
      BY <2>1, <2>2 DEF SyncInv, GivenOnce
    <2> QED BY <2>1, <2>2, <2>3, <2>4, LockedStep
  <1>4. CASE GiveBlock(t)
    <2>1. /\ pc[t] = "write" /\ call[t].op = "deallocate"
          /\ seen' = [seen EXCEPT ![t] = <<>>] /\ pc' = [pc EXCEPT ![t] = "unlock"]
          /\ UNCHANGED <<alive, mutex, call>> /\ outstanding' = outstanding \ {call[t].extent}
      BY <1>4 DEF GiveBlock, WriteFreeList, Goto
    <2>2. /\ pc'[t] = "unlock" /\ \A u \in Threads : u # t => pc'[u] = pc[u]
          /\ DOMAIN seen' = Threads
      BY <2>1 DEF SyncInv, Shapes
    <2>3. pc[t] \in Locked /\ "unlock" \in Locked
      BY <2>1 DEF Locked
    <2>4. \A u \in Threads : call[u].op = "deallocate" /\ pc'[u] # "unlock" => call[u].extent \in outstanding'
      BY <2>1, <2>2 DEF SyncInv, GivenOnce
    <2> QED BY <2>1, <2>2, <2>3, <2>4, LockedStep
  <1>5. CASE Work(t)
    <2>1. /\ pc[t] = "inside" /\ pc' = [pc EXCEPT ![t] = "unlock"]
          /\ UNCHANGED <<mutex, poolCount, call, seen>>
          /\ \/ call[t].op = "allocate" /\ Allocate(call[t].bytes)
             \/ call[t].op = "deallocate" /\ Deallocate(call[t].extent)
             \/ call[t].op = "release" /\ Release
      BY <1>5 DEF Work, Goto
    <2>2. /\ pc'[t] = "unlock" /\ \A u \in Threads : u # t => pc'[u] = pc[u]
          /\ DOMAIN seen' = Threads
      BY <2>1 DEF SyncInv, Shapes
    <2>3. pc[t] \in Locked /\ "unlock" \in Locked
      BY <2>1 DEF Locked
    <2>4. alive' = alive
      BY <2>1 DEF Allocate, Deallocate, Release
    <2>5. \A u \in Threads : call[u].op = "deallocate" /\ pc'[u] # "unlock" => call[u].extent \in outstanding'
      <3>1. CASE call[t].op = "allocate" /\ Allocate(call[t].bytes)
        <4>1. outstanding \subseteq outstanding'
          BY <3>1 DEF Allocate, AllocateOversized, AllocateCached, AllocateReplenish, AllocateThrows
        <4> QED BY <2>1, <2>2, <4>1 DEF SyncInv, GivenOnce
      <3>2. CASE call[t].op = "deallocate" /\ Deallocate(call[t].extent)
        <4>1. outstanding' = outstanding \ {call[t].extent}
          BY <3>2 DEF Deallocate
        <4> QED BY <2>1, <2>2, <3>2, <4>1 DEF SyncInv, GivenOnce
      <3>3. CASE call[t].op = "release"
        BY <3>3 DEF SyncInv, GivenOnce
      <3> QED BY <2>1, <3>1, <3>2, <3>3
    <2> QED BY <2>1, <2>2, <2>3, <2>4, <2>5, LockedStep
  <1>6. CASE Unlock(t)
    <2>1. /\ pc[t] = "unlock" /\ mutex' = NoThread /\ pc' = [pc EXCEPT ![t] = "idle"]
          /\ call' = [call EXCEPT ![t] = NoCall] /\ UNCHANGED <<vars, poolCount, seen>>
      BY <1>6 DEF Unlock, Goto
    <2>2. /\ pc'[t] = "idle" /\ \A u \in Threads : u # t => pc'[u] = pc[u]
          /\ call'[t] = NoCall /\ \A u \in Threads : u # t => call'[u] = call[u]
          /\ DOMAIN pc' = Threads /\ DOMAIN call' = Threads
      BY <2>1 DEF SyncInv, Shapes
    <2>3. /\ alive' = alive /\ outstanding' = outstanding /\ seen' = seen
      BY <2>1 DEF vars
    <2>4. pc[t] \in Locked
      BY <2>1 DEF Locked
    <2>5. \A u \in Threads : u # t => pc[u] \notin Locked
      BY <2>4, HeldAlone
    <2>6. NoCall.op = "none"
      BY DEF NoCall
    <2>7. Shapes' /\ MutexHeld' /\ ReadStands'
      BY <2>2, <2>3, <2>5 DEF SyncInv, Shapes, MutexHeld, ReadStands, Locked
    <2>8. CallsMatch' /\ AliveInUse' /\ GivenOnce'
      BY <2>2, <2>3, <2>6 DEF SyncInv, CallsMatch, AliveInUse, GivenOnce, Locked
    <2> QED BY <2>7, <2>8 DEF SyncInv
  <1> QED BY <1>1, <1>2, <1>3, <1>4, <1>5, <1>6 DEF Inside

\* The observer changes nothing but where it stands.
LEMMA ObserverStep ==
  ASSUME SyncInv, NEW t \in Threads, StartWalk(t) \/ Walk(t)
  PROVE  SyncInv'
  <1>1. /\ pc[t] \in {"ready?", "walk"} /\ DOMAIN seen' = Threads
        /\ \A u \in Threads : u # t => seen'[u] = seen[u]
        /\ \/ pc' = [pc EXCEPT ![t] = "walk"] /\ call' = call
           \/ pc' = pc /\ call' = call
           \/ pc' = [pc EXCEPT ![t] = "idle"] /\ call' = [call EXCEPT ![t] = NoCall]
        /\ UNCHANGED <<vars, mutex, poolCount>>
    <2>1. CASE StartWalk(t)
      BY <2>1 DEF StartWalk, Goto, SyncInv, Shapes
    <2>2. CASE Walk(t)
      <3>1. /\ pc[t] = "walk" /\ UNCHANGED <<vars, mutex, poolCount>>
            /\ \/ \E s : seen' = [seen EXCEPT ![t] = s] /\ UNCHANGED <<pc, call>>
               \/ /\ seen' = [seen EXCEPT ![t] = <<>>] /\ Goto(t, "idle")
                  /\ call' = [call EXCEPT ![t] = NoCall]
        BY <2>2 DEF Walk
      <3> QED BY <3>1 DEF Goto, SyncInv, Shapes
    <2> QED BY <2>1, <2>2
  <1>2. /\ DOMAIN pc' = Threads /\ DOMAIN call' = Threads
        /\ \A u \in Threads : u # t => pc'[u] = pc[u] /\ call'[u] = call[u]
        /\ \/ pc'[t] \in {"ready?", "walk"} /\ call'[t] = call[t]
           \/ pc'[t] = "idle" /\ call'[t] = NoCall
    BY <1>1 DEF SyncInv, Shapes
  <1>3. /\ alive' = alive /\ options' = options /\ poolData' = poolData /\ pools' = pools
        /\ outstanding' = outstanding /\ mutex' = mutex
    BY <1>1 DEF vars
  <1>4. NoCall.op = "none" /\ call[t].op = "pool_cached_blocks"
    BY <1>1 DEF NoCall, SyncInv, CallsMatch
  <1>5. Shapes' /\ MutexHeld' /\ AliveInUse'
    BY <1>1, <1>2, <1>3 DEF SyncInv, Shapes, MutexHeld, AliveInUse, Locked
  <1>6. CallsMatch' /\ GivenOnce'
    BY <1>1, <1>2, <1>3, <1>4 DEF SyncInv, CallsMatch, GivenOnce, Locked
  <1>7. ReadStands'
    BY <1>1, <1>2, <1>3 DEF SyncInv, ReadStands, Request, Oversized
  <1> QED BY <1>5, <1>6, <1>7 DEF SyncInv

\* The constructor and the destructor run while no thread is in a call.
LEMMA AloneStep ==
  ASSUME SyncInv, SyncConstruct \/ SyncDestroy
  PROVE  SyncInv'
  <1>1. /\ \A t \in Threads : pc[t] = "idle"
        /\ pc' = pc /\ call' = call /\ seen' = seen /\ mutex' = mutex
    BY DEF SyncConstruct, SyncDestroy, Construct, syncVars, SyncInv, AliveInUse
  <1>2. \A t \in Threads : call[t].op = "none"
    BY <1>1 DEF SyncInv, CallsMatch, NoCall
  <1> QED BY <1>1, <1>2
      DEF SyncInv, Shapes, CallsMatch, MutexHeld, AliveInUse, ReadStands, GivenOnce, Locked

LEMMA SyncStutter ==
  ASSUME SyncInv, UNCHANGED allVars
  PROVE  SyncInv'
  <1>1. /\ alive' = alive /\ options' = options /\ poolData' = poolData /\ pools' = pools
        /\ outstanding' = outstanding /\ pc' = pc /\ call' = call /\ seen' = seen /\ mutex' = mutex
    BY DEF allVars, vars, syncVars
  <1>2. ReadStands'
    BY <1>1 DEF SyncInv, ReadStands, Request, Oversized
  <1> QED BY <1>1, <1>2 DEF SyncInv, Shapes, CallsMatch, MutexHeld, AliveInUse, GivenOnce

LEMMA NextSyncInv == SyncInv /\ [SyncNext]_allVars => SyncInv'
  <1> SUFFICES ASSUME SyncInv, [SyncNext]_allVars PROVE SyncInv'
    OBVIOUS
  <1>1. CASE SyncConstruct \/ SyncDestroy
    BY <1>1, AloneStep
  <1>2. ASSUME NEW t \in Threads, Step(t) PROVE SyncInv'
    <2>1. CASE CallAllocate(t) \/ CallDeallocate(t) \/ CallRelease(t) \/ CallCachedBlocks(t)
      BY <2>1, BeginStep
    <2>2. CASE Lock(t)
      BY <2>2, LockStep
    <2>3. CASE Inside(t)
      BY <2>3, InsideStep
    <2>4. CASE StartWalk(t) \/ Walk(t)
      BY <2>4, ObserverStep
    <2> QED BY <1>2, <2>1, <2>2, <2>3, <2>4 DEF Step
  <1>3. CASE UNCHANGED allVars
    BY <1>3, SyncStutter
  <1> QED BY <1>1, <1>2, <1>3 DEF SyncNext

LEMMA InitSyncInv == SyncInit => SyncInv
  <1> SUFFICES ASSUME SyncInit PROVE SyncInv
    OBVIOUS
  <1>1. \A t \in Threads : pc[t] = "idle" /\ call[t] = NoCall
    BY DEF SyncInit
  <1>2. NoCall.op = "none"
    BY DEF NoCall
  <1>3. Shapes
    BY DEF SyncInit, Shapes
  <1> QED BY <1>1, <1>2, <1>3
      DEF SyncInv, CallsMatch, MutexHeld, AliveInUse, ReadStands, GivenOnce, Locked

\* The engine's invariant, and the threads', hold in every reachable state.
THEOREM SyncInvariant == SyncSpec => [](IInv /\ SyncInv)
  <1>1. SyncInit => IInv /\ SyncInv
    BY InitIInv, InitSyncInv DEF SyncInit
  <1>2. IInv /\ SyncInv /\ [SyncNext]_allVars => IInv' /\ SyncInv'
    <2>1. IInv /\ SyncInv /\ [SyncNext]_allVars => [Next]_vars
      BY EachStep
    <2> QED BY <2>1, NextIInv, NextSyncInv
  <1> QED BY <1>1, <1>2, PTL DEF SyncSpec

\* The scoped lock of every member function makes a call take effect at once:
\* seen through the members and the callers, any interleaving of threads is a
\* sequence of whole calls of pool_resource.
THEOREM SyncImplementsPoolResource == SyncSpec => ImplementsPoolResource
  <1>1. SyncInit => Init
    BY DEF SyncInit
  <1>2. IInv /\ SyncInv /\ [SyncNext]_allVars => [Next]_vars
    BY EachStep
  <1> QED BY <1>1, <1>2, SyncInvariant, PTL DEF SyncSpec, ImplementsPoolResource, Spec

\* Threads that allocate, deallocate and release under m_mut lose no block,
\* hand none out twice, get blocks large enough, and leave nothing on loan
\* once the resource is destroyed.
THEOREM SyncPoolSafe == SyncSpec => [](BlocksConserved /\ HeldFits /\ NothingLeaked)
  BY SyncImplementsPoolResource, PoolBlocksConserved, PoolHeldFits, PoolNothingLeaked, PTL
  DEF ImplementsPoolResource

\* The synchronized resource is a memory_resource for all its threads at once.
THEOREM SyncImplementsMemoryResource == SyncSpec => ImplementsMemoryResource
  BY SyncImplementsPoolResource, PoolImplementsMemoryResource, PTL DEF ImplementsPoolResource
====
