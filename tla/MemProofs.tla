----------------------------- MODULE MemProofs -----------------------------
(***************************************************************************)
(* Proofs about MemBlocks, for every memory map without overlaps, every    *)
(* page size, every length of blocks[] and every set of request sizes.     *)
(***************************************************************************)
EXTENDS MemBlocks, SequenceTheorems, TLAPS

(***************************************************************************)
(* A block that holds bytes of the usable memory is free or used, and the  *)
(* blocks are a partition, which is what makes a split and a free safe.    *)
(***************************************************************************)
MemInv == TypeOK /\ Disjoint /\ Conserved /\ HeldAreUsed

BlockType == [addr : Nat, size : Nat \ {0}, type : Nat]

\* The bytes of the free and used blocks of a chain.
RamBytes(bs) == UNION {Bytes(bs[i]) : i \in {k \in DOMAIN bs : IsRam(bs[k])}}

----------------------------------------------------------------------------
(* Sequences *)

\* Inserting keeps the elements in order and makes room at position k.
LEMMA InsertAtProperties ==
  ASSUME NEW S, NEW s \in Seq(S), NEW k \in 1 .. Len(s) + 1, NEW e \in S
  PROVE  /\ InsertAt(s, k, e) \in Seq(S)
         /\ Len(InsertAt(s, k, e)) = Len(s) + 1
         /\ \A j \in 1 .. Len(s) + 1 :
              InsertAt(s, k, e)[j] =
                IF j < k THEN s[j] ELSE IF j = k THEN e ELSE s[j - 1]
<1> DEFINE front == SubSeq(s, 1, k - 1)
           back  == SubSeq(s, k, Len(s))
           left  == front \o <<e>>
<1>1. /\ front \in Seq(S)
      /\ Len(front) = k - 1
      /\ \A j \in 1 .. k - 1 : front[j] = s[j]
  BY SubSeqProperties
<1>2. /\ back \in Seq(S)
      /\ Len(back) = Len(s) - k + 1
      /\ \A j \in 1 .. Len(s) - k + 1 : back[j] = s[k + j - 1]
  BY SubSeqProperties
<1>3. <<e>> \in Seq(S) /\ Len(<<e>>) = 1 /\ <<e>>[1] = e
  OBVIOUS
<1> HIDE DEF front, back
<1>4. /\ left \in Seq(S)
      /\ Len(left) = k
      /\ \A j \in 1 .. k : left[j] = IF j <= k - 1 THEN front[j] ELSE <<e>>[j - (k - 1)]
  BY <1>1, <1>3, ConcatProperties
<1> HIDE DEF left
<1>5. /\ left \o back \in Seq(S)
      /\ Len(left \o back) = Len(left) + Len(back)
      /\ \A j \in 1 .. Len(left) + Len(back) :
           (left \o back)[j] = IF j <= Len(left) THEN left[j] ELSE back[j - Len(left)]
  BY <1>2, <1>4, ConcatProperties
<1>6. Len(s) \in Nat /\ k \in Int /\ Len(left) + Len(back) = Len(s) + 1
  BY <1>2, <1>4
<1>7. InsertAt(s, k, e) = left \o back
  BY DEF InsertAt, left, front, back
<1>8. ASSUME NEW j \in 1 .. Len(s) + 1
      PROVE  (left \o back)[j] = IF j < k THEN s[j] ELSE IF j = k THEN e ELSE s[j - 1]
  <2>1. (left \o back)[j] = IF j <= k THEN left[j] ELSE back[j - k]
    BY <1>4, <1>5, <1>6
  <2>2. CASE j < k
    BY <1>1, <1>4, <1>6, <2>1, <2>2
  <2>3. CASE j = k
    BY <1>3, <1>4, <1>6, <2>1, <2>3
  <2>4. CASE j > k
    <3>1. j - k \in 1 .. Len(s) - k + 1
      BY <1>6, <2>4
    <3>2. back[j - k] = s[j - 1]
      BY <1>2, <1>6, <3>1
    <3>3. QED
      BY <1>6, <2>1, <2>4, <3>2
  <2>5. QED
    BY <1>6, <2>2, <2>3, <2>4
<1>. QED
  BY <1>5, <1>6, <1>7, <1>8

----------------------------------------------------------------------------
(* Arithmetic of addresses and sizes *)

\* A value below the word size is not changed by its conversion.
LEMMA ModSmall == ASSUME NEW W \in Nat, NEW x \in Nat, x < W PROVE x % W = x
BY SMT

LEMMA QuotientPositive ==
  ASSUME NEW P \in Nat \ {0}, NEW x \in Nat, x >= P
  PROVE  (x \div P) \in Nat \ {0}
BY SMT

LEMMA ProductPositive ==
  ASSUME NEW P \in Nat \ {0}, NEW x \in Nat \ {0}
  PROVE  x * P \in Nat \ {0}
BY SMT

\* kmalloc never asks mem_malloc for an empty block.
LEMMA RoundUpPositive ==
  ASSUME NEW size \in Requests
  PROVE  RoundUp(size) \in Nat \ {0}
<1>1. /\ size \in Nat /\ size + PAGE < WORD /\ size + PAGE \in Nat
      /\ WORD \in Nat /\ PAGE \in Nat \ {0}
  BY RequestAssumption, SizeAssumption
<1>2. (size + PAGE) % WORD = size + PAGE
  BY <1>1, ModSmall
<1>3. ((size + PAGE) \div PAGE) \in Nat \ {0}
  BY <1>1, QuotientPositive
<1>4. QED
  BY <1>1, <1>2, <1>3, ProductPositive DEF RoundUp

\* A block that is cut in two: the parts are not empty, do not overlap and have
\* exactly the bytes of the whole.
LEMMA CutProperties ==
  ASSUME NEW b \in BlockType, NEW size \in Nat \ {0}, b.size > size
  PROVE  LET low  == Interval(b.addr, b.size - size)
             high == Interval(b.addr + b.size - size, size)
         IN  /\ low \cap high = {}
             /\ low \union high = Bytes(b)
             /\ b.size - size \in Nat \ {0}
             /\ b.addr + b.size - size \in Nat \ {0}
BY DEF BlockType, Interval, Bytes

\* A block has its first byte, so disjoint blocks have different addresses.
LEMMA FirstByte ==
  ASSUME NEW b \in BlockType
  PROVE  b.addr \in Bytes(b)
BY DEF BlockType, Bytes, Interval

----------------------------------------------------------------------------
(* Chains of blocks *)

Apart(bs) == \A i, j \in DOMAIN bs : i # j => Bytes(bs[i]) \cap Bytes(bs[j]) = {}

LEMMA UniqueAddr ==
  ASSUME NEW bs \in Seq(BlockType), Apart(bs),
         NEW i \in DOMAIN bs, NEW j \in DOMAIN bs, bs[i].addr = bs[j].addr
  PROVE  i = j
<1>1. bs[i].addr \in Bytes(bs[i]) /\ bs[j].addr \in Bytes(bs[j])
  BY FirstByte
<1>2. QED
  BY <1>1 DEF Apart

\* The chain after Split.
Cut(bs, i, size) ==
  InsertAt([bs EXCEPT ![i].size = @ - size], i + 1,
           Block(bs[i].addr + bs[i].size - size, size, MEM_USED))

\* Position j of the chain after a split at i comes from this old position.
Origin(i, j) == IF j <= i THEN j ELSE j - 1

LEMMA CutChain ==
  ASSUME NEW bs \in Seq(BlockType), NEW i \in DOMAIN bs, NEW size \in Nat \ {0},
         bs[i].size > size
  PROVE  /\ Cut(bs, i, size) \in Seq(BlockType)
         /\ Len(Cut(bs, i, size)) = Len(bs) + 1
         /\ DOMAIN Cut(bs, i, size) = 1 .. Len(bs) + 1
         /\ \A j \in 1 .. Len(bs) + 1 :
              Cut(bs, i, size)[j] =
                IF j = i THEN [bs[i] EXCEPT !.size = @ - size]
                ELSE IF j = i + 1
                     THEN Block(bs[i].addr + bs[i].size - size, size, MEM_USED)
                     ELSE bs[Origin(i, j)]
<1> DEFINE low  == [bs[i] EXCEPT !.size = @ - size]
           high == Block(bs[i].addr + bs[i].size - size, size, MEM_USED)
           less == [bs EXCEPT ![i].size = @ - size]
<1>1. bs[i] \in BlockType /\ i \in 1 .. Len(bs) /\ Len(bs) \in Nat
  BY ElementOfSeq
<1>2. low \in BlockType /\ high \in BlockType
  BY <1>1, CutProperties DEF BlockType, Block, MEM_USED
<1>3. /\ less \in Seq(BlockType)
      /\ Len(less) = Len(bs)
      /\ \A j \in 1 .. Len(bs) : less[j] = IF j = i THEN low ELSE bs[j]
  <2>1. less = [bs EXCEPT ![i] = low]
    OBVIOUS
  <2>2. QED
    BY <1>1, <1>2, <2>1, ExceptSeq
<1>4. Cut(bs, i, size) = InsertAt(less, i + 1, high)
  BY DEF Cut
<1> HIDE DEF less, low, high
<1>5. i + 1 \in 1 .. Len(less) + 1
  BY <1>1, <1>3
<1>6. /\ Cut(bs, i, size) \in Seq(BlockType)
      /\ Len(Cut(bs, i, size)) = Len(bs) + 1
      /\ \A j \in 1 .. Len(bs) + 1 :
           Cut(bs, i, size)[j] = IF j < i + 1 THEN less[j]
                                 ELSE IF j = i + 1 THEN high ELSE less[j - 1]
  <2>1. less \in Seq(BlockType) /\ i + 1 \in 1 .. Len(less) + 1 /\ high \in BlockType
    BY <1>2, <1>3, <1>5
  <2>2. /\ InsertAt(less, i + 1, high) \in Seq(BlockType)
        /\ Len(InsertAt(less, i + 1, high)) = Len(less) + 1
    BY <2>1, InsertAtProperties
  <2>3. ASSUME NEW j \in 1 .. Len(less) + 1
        PROVE  InsertAt(less, i + 1, high)[j] =
                 IF j < i + 1 THEN less[j] ELSE IF j = i + 1 THEN high ELSE less[j - 1]
    <3> DEFINE k == i + 1
    <3>1. k \in 1 .. Len(less) + 1
      BY <2>1
    <3> HIDE DEF k
    <3>2. InsertAt(less, k, high)[j] =
            IF j < k THEN less[j] ELSE IF j = k THEN high ELSE less[j - 1]
      BY <2>1, <3>1, InsertAtProperties
    <3>3. QED
      BY <3>2 DEF k
  <2>4. Len(less) = Len(bs)
    BY <1>3
  <2>5. QED
    BY <1>4, <2>2, <2>3, <2>4
<1>7. ASSUME NEW j \in 1 .. Len(bs) + 1
      PROVE  Cut(bs, i, size)[j] = IF j = i THEN low
                                   ELSE IF j = i + 1 THEN high ELSE bs[Origin(i, j)]
  <2>1. CASE j <= i
    <3>1. j \in 1 .. Len(bs) /\ j < i + 1 /\ j # i + 1
      BY <1>1, <2>1
    <3>2. Cut(bs, i, size)[j] = less[j]
      BY <1>6, <3>1
    <3>3. QED
      BY <1>3, <2>1, <3>1, <3>2 DEF Origin
  <2>2. CASE j = i + 1
    BY <1>1, <1>6, <2>2
  <2>3. CASE j > i + 1
    <3>1. j - 1 \in 1 .. Len(bs) /\ j - 1 # i
      BY <1>1, <2>3
    <3>2. QED
      BY <1>1, <1>3, <1>6, <2>3, <3>1 DEF Origin
  <2>4. QED
    BY <1>1, <2>1, <2>2, <2>3
<1>8. QED
  BY <1>6, <1>7 DEF low, high

\* A split keeps the blocks apart and moves no byte between the blocks.
LEMMA CutKeeps ==
  ASSUME NEW bs \in Seq(BlockType), Apart(bs), NEW i \in DOMAIN bs,
         NEW size \in Nat \ {0}, bs[i].size > size, bs[i].type = MEM_FREE
  PROVE  /\ Apart(Cut(bs, i, size))
         /\ RamBytes(Cut(bs, i, size)) = RamBytes(bs)
<1> DEFINE new  == Cut(bs, i, size)
           low  == Interval(bs[i].addr, bs[i].size - size)
           high == Interval(bs[i].addr + bs[i].size - size, size)
<1>1. bs[i] \in BlockType /\ i \in 1 .. Len(bs) /\ Len(bs) \in Nat
  BY ElementOfSeq
<1>2. DOMAIN new = 1 .. Len(bs) + 1 /\ DOMAIN bs = 1 .. Len(bs)
  <2>1. DOMAIN new = 1 .. Len(bs) + 1
    BY CutChain
  <2>2. DOMAIN bs = 1 .. Len(bs)
    OBVIOUS
  <2>3. QED
    BY <2>1, <2>2
<1>3. /\ Bytes(new[i]) = low /\ new[i].type = MEM_FREE
      /\ Bytes(new[i + 1]) = high /\ new[i + 1].type = MEM_USED
  <2>1. i \in 1 .. Len(bs) + 1 /\ i + 1 \in 1 .. Len(bs) + 1 /\ i + 1 # i
    BY <1>1
  <2>2. /\ new[i] = [bs[i] EXCEPT !.size = @ - size]
        /\ new[i + 1] = Block(bs[i].addr + bs[i].size - size, size, MEM_USED)
    BY <2>1, CutChain
  <2>3. QED
    BY <1>1, <2>2 DEF Bytes, Block, BlockType
<1>4. low \cap high = {} /\ low \union high = Bytes(bs[i])
  BY <1>1, CutProperties
<1> HIDE DEF low, high
<1>5. \A j \in 1 .. Len(bs) + 1 : j # i /\ j # i + 1 => new[j] = bs[Origin(i, j)]
  <2>1. \A j \in 1 .. Len(bs) + 1 :
          new[j] = IF j = i THEN [bs[i] EXCEPT !.size = @ - size]
                   ELSE IF j = i + 1
                        THEN Block(bs[i].addr + bs[i].size - size, size, MEM_USED)
                        ELSE bs[Origin(i, j)]
    BY CutChain
  <2> HIDE DEF new
  <2>2. QED
    BY <2>1
<1> HIDE DEF new
<1>6. ASSUME NEW j \in 1 .. Len(bs) + 1
      PROVE  /\ Origin(i, j) \in 1 .. Len(bs)
             /\ Bytes(new[j]) \subseteq Bytes(bs[Origin(i, j)])
             /\ IsRam(new[j]) <=> IsRam(bs[Origin(i, j)])
  <2>1. Origin(i, j) \in 1 .. Len(bs)
    BY <1>1 DEF Origin
  <2>2. CASE j = i
    BY <1>1, <1>3, <1>4, <2>1, <2>2 DEF Origin, IsRam
  <2>3. CASE j = i + 1
    <3>1. Origin(i, j) = i
      BY <1>1, <2>3 DEF Origin
    <3>2. QED
      BY <1>3, <1>4, <2>1, <2>3, <3>1 DEF IsRam
  <2>4. CASE j # i /\ j # i + 1
    BY <1>5, <2>1, <2>4
  <2>5. QED
    BY <2>2, <2>3, <2>4
<1>7. ASSUME NEW j \in DOMAIN new, NEW k \in DOMAIN new, j # k
      PROVE  Bytes(new[j]) \cap Bytes(new[k]) = {}
  <2>1. CASE Origin(i, j) = Origin(i, k)
    <3>1. {j, k} = {i, i + 1}
      BY <1>1, <1>2, <1>7, <2>1 DEF Origin
    <3>2. QED
      BY <1>3, <1>4, <1>7, <3>1
  <2>2. CASE Origin(i, j) # Origin(i, k)
    BY <1>2, <1>6, <2>2 DEF Apart
  <2>3. QED
    BY <2>1, <2>2
<1>8. ASSUME NEW x
      PROVE  (\E j \in DOMAIN new : IsRam(new[j]) /\ x \in Bytes(new[j])) <=>
             (\E j \in DOMAIN bs : IsRam(bs[j]) /\ x \in Bytes(bs[j]))
  <2>1. ASSUME NEW j \in DOMAIN new, IsRam(new[j]), x \in Bytes(new[j])
        PROVE  \E k \in DOMAIN bs : IsRam(bs[k]) /\ x \in Bytes(bs[k])
    BY <1>2, <1>6, <2>1
  <2>2. ASSUME NEW k \in DOMAIN bs, IsRam(bs[k]), x \in Bytes(bs[k])
        PROVE  \E j \in DOMAIN new : IsRam(new[j]) /\ x \in Bytes(new[j])
    <3>1. CASE k = i
      <4>1. i \in DOMAIN new /\ i + 1 \in DOMAIN new
        BY <1>1, <1>2
      <4>2. IsRam(new[i]) /\ IsRam(new[i + 1])
        BY <1>3 DEF IsRam
      <4>3. QED
        BY <1>3, <1>4, <2>2, <3>1, <4>1, <4>2
    <3>2. CASE k < i
      <4>1. k \in DOMAIN new /\ new[k] = bs[k]
        BY <1>1, <1>2, <1>5, <3>2 DEF Origin
      <4>2. QED
        BY <2>2, <4>1
    <3>3. CASE k > i
      <4>1. k + 1 \in DOMAIN new /\ new[k + 1] = bs[k]
        BY <1>1, <1>2, <1>5, <3>3 DEF Origin
      <4>2. QED
        BY <2>2, <4>1
    <3>4. QED
      BY <1>1, <1>2, <3>1, <3>2, <3>3
  <2>3. QED
    BY <2>1, <2>2
<1>9. RamBytes(new) = RamBytes(bs)
  BY <1>8 DEF RamBytes
<1>10. QED
  BY <1>7, <1>9 DEF Apart, new

\* Marking a block of usable memory free or used moves no byte.
Marked(bs, i, ty) == [bs EXCEPT ![i].type = ty]

LEMMA MarkKeeps ==
  ASSUME NEW bs \in Seq(BlockType), Apart(bs), NEW i \in DOMAIN bs,
         IsRam(bs[i]), NEW ty \in {MEM_FREE, MEM_USED}
  PROVE  /\ Marked(bs, i, ty) \in Seq(BlockType)
         /\ DOMAIN Marked(bs, i, ty) = DOMAIN bs
         /\ Marked(bs, i, ty)[i] = [bs[i] EXCEPT !.type = ty]
         /\ \A j \in DOMAIN bs : j # i => Marked(bs, i, ty)[j] = bs[j]
         /\ Apart(Marked(bs, i, ty))
         /\ RamBytes(Marked(bs, i, ty)) = RamBytes(bs)
<1> DEFINE new == Marked(bs, i, ty)
<1>1. bs[i] \in BlockType /\ [bs[i] EXCEPT !.type = ty] \in BlockType
  <2>1. bs[i] \in BlockType
    BY ElementOfSeq
  <2>2. ty \in Nat
    BY DEF MEM_FREE, MEM_USED
  <2>3. QED
    BY <2>1, <2>2 DEF BlockType
<1>2. new = [bs EXCEPT ![i] = [bs[i] EXCEPT !.type = ty]]
  BY DEF Marked
<1>3. /\ new \in Seq(BlockType) /\ DOMAIN new = DOMAIN bs
      /\ new[i] = [bs[i] EXCEPT !.type = ty]
      /\ \A j \in DOMAIN bs : j # i => new[j] = bs[j]
  BY <1>1, <1>2, ExceptSeq
<1> HIDE DEF new
<1>4. ASSUME NEW j \in DOMAIN bs
      PROVE  Bytes(new[j]) = Bytes(bs[j]) /\ (IsRam(new[j]) <=> IsRam(bs[j]))
  <2>1. CASE j = i
    BY <1>1, <1>3, <2>1 DEF Bytes, IsRam, BlockType
  <2>2. CASE j # i
    BY <1>3, <2>2
  <2>3. QED
    BY <2>1, <2>2
<1>5. Apart(new)
  BY <1>3, <1>4 DEF Apart
<1>6. RamBytes(new) = RamBytes(bs)
  BY <1>3, <1>4 DEF RamBytes
<1>7. QED
  BY <1>3, <1>5, <1>6 DEF new

----------------------------------------------------------------------------
(* The initial chain *)

LEMMA MapEntry ==
  ASSUME NEW i \in DOMAIN MMap
  PROVE  /\ FromMap(MMap[i]) \in BlockType
         /\ FromMap(MMap[i]).addr = MMap[i].addr
         /\ FromMap(MMap[i]).size = MMap[i].len
         /\ FromMap(MMap[i]).type = MMap[i].type
         /\ MMap[i].type # MEM_USED
<1>1. MMap[i] \in [addr : Nat, len : Nat \ {0}, type : Nat \ {MEM_USED}]
  <2> DEFINE T == [addr : Nat, len : Nat \ {0}, type : Nat \ {MEM_USED}]
  <2>1. MMap \in Seq(T)
    BY MMapAssumption
  <2> HIDE DEF T
  <2>2. MMap[i] \in T
    BY <2>1
  <2>3. QED
    BY <2>2 DEF T
<1>2. /\ MMap[i].addr \in Nat /\ MMap[i].len \in Nat \ {0} /\ WORD \in Nat
      /\ MMap[i].len < WORD /\ MMap[i].addr + MMap[i].len <= WORD
  BY <1>1, MMapAssumption, SizeAssumption
<1>3. MMap[i].addr < WORD
  BY <1>2
<1>4. MMap[i].addr % WORD = MMap[i].addr /\ MMap[i].len % WORD = MMap[i].len
  BY <1>2, <1>3, ModSmall
<1>5. QED
  BY <1>1, <1>2, <1>4 DEF FromMap, Block, BlockType

LEMMA InitMem == Init => MemInv
<1> SUFFICES ASSUME Init PROVE MemInv
  OBVIOUS
<1> DEFINE n == Len(MMap)
           mirror(i) == n + 1 - i
<1>1. n \in Nat /\ DOMAIN MMap = 1 .. n
  BY MMapAssumption
<1> HIDE DEF n
<1>2. /\ blocks = [i \in 1 .. n |-> FromMap(MMap[mirror(i)])]
      /\ held = {} /\ fault = FALSE /\ zeroed = [addr |-> NULL, size |-> 0]
  BY <1>1 DEF Init, n
<1>3. \A i \in 1 .. n : mirror(i) \in 1 .. n /\ mirror(mirror(i)) = i
  BY <1>1
<1>4. DOMAIN blocks = 1 .. n /\ \A i \in 1 .. n : blocks[i] = FromMap(MMap[mirror(i)])
  BY <1>2
<1>5. ASSUME NEW i \in 1 .. n
      PROVE  /\ blocks[i] \in BlockType
             /\ Bytes(blocks[i]) = Interval(MMap[mirror(i)].addr, MMap[mirror(i)].len)
             /\ IsRam(blocks[i]) <=> MMap[mirror(i)].type = MEM_FREE
  BY <1>1, <1>3, <1>4, MapEntry DEF Bytes, IsRam
<1>6. TypeOK
  <2>1. blocks \in Seq(BlockType)
    BY <1>1, <1>4, <1>5, <1>2, IsASeq
  <2>2. QED
    BY <1>2, <2>1 DEF TypeOK, BlockType, NULL
<1>7. Disjoint
  <2>1. ASSUME NEW i \in 1 .. n, NEW j \in 1 .. n, i # j
        PROVE  Bytes(blocks[i]) \cap Bytes(blocks[j]) = {}
    <3>1. mirror(i) # mirror(j) /\ mirror(i) \in DOMAIN MMap /\ mirror(j) \in DOMAIN MMap
      BY <1>1, <1>3, <2>1
    <3> HIDE DEF mirror
    <3>2. QED
      BY <1>5, <3>1, MMapAssumption
  <2>2. QED
    BY <1>4, <2>1 DEF Disjoint
<1>8. Conserved
  <2> HIDE DEF mirror
  <2>1. ASSUME NEW x
        PROVE  (\E i \in DOMAIN blocks : IsRam(blocks[i]) /\ x \in Bytes(blocks[i])) <=>
               (\E k \in DOMAIN MMap : MMap[k].type = MEM_FREE /\
                                       x \in Interval(MMap[k].addr, MMap[k].len))
    BY <1>1, <1>3, <1>4, <1>5
  <2>2. QED
    BY <2>1 DEF Conserved, UsableBytes
<1>9. HeldAreUsed
  BY <1>2 DEF HeldAreUsed
<1>10. QED
  BY <1>6, <1>7, <1>8, <1>9 DEF MemInv

----------------------------------------------------------------------------
(* The operations *)

LEMMA InvFacts ==
  ASSUME MemInv
  PROVE  /\ blocks \in Seq(BlockType) /\ Apart(blocks)
         /\ RamBytes(blocks) = UsableBytes
         /\ \A i \in DOMAIN blocks : blocks[i] \in BlockType
  <1>1. blocks \in Seq(BlockType)
    BY DEF MemInv, TypeOK, BlockType
  <1>2. \A i \in DOMAIN blocks : blocks[i] \in BlockType
    BY <1>1, ElementOfSeq
  <1>3. QED
    BY <1>1, <1>2 DEF MemInv, Disjoint, Apart, Conserved, RamBytes

\* Whoever holds an address: its block is not the free block that is being split
\* or taken.
LEMMA HeldSurvives ==
  ASSUME MemInv, NEW new \in Seq(BlockType), Apart(new),
         NEW h, \A a \in h : \E i \in DOMAIN new : new[i].addr = a /\ new[i].type = MEM_USED
  PROVE  \A a \in h : \E i \in DOMAIN new :
           /\ new[i].addr = a
           /\ new[i].type = MEM_USED
           /\ \A j \in DOMAIN new : new[j].addr = a => j = i
<1>1. \A i, j \in DOMAIN new : new[i].addr = new[j].addr => i = j
  BY UniqueAddr
<1>2. QED
  BY <1>1

\* What mem_malloc(size) does to the chain: NULL and nothing, or a used block at
\* the address it returns, which no client held.
LEMMA AllocateKeeps ==
  ASSUME MemInv, NEW size \in Nat \ {0}, NEW addr, Allocate(size, addr)
  PROVE  /\ blocks' \in Seq(BlockType)
         /\ Apart(blocks')
         /\ RamBytes(blocks') = UsableBytes
         /\ addr \in Nat
         /\ \A a \in held \union ({addr} \ {NULL}) :
              \E i \in DOMAIN blocks' : blocks'[i].addr = a /\ blocks'[i].type = MEM_USED
<1> USE InvFacts
<1>1. ASSUME NEW a \in held
      PROVE  \E k \in DOMAIN blocks : blocks[k].addr = a /\ blocks[k].type = MEM_USED
  BY DEF MemInv, HeldAreUsed
<1>2. ASSUME NEW i \in DOMAIN blocks, FirstFit(i, size), blocks[i].size = size,
             TakeWhole(i), addr = blocks[i].addr
      PROVE  /\ blocks' \in Seq(BlockType)
             /\ Apart(blocks')
             /\ RamBytes(blocks') = UsableBytes
             /\ addr \in Nat
             /\ \A a \in held \union ({addr} \ {NULL}) :
                  \E k \in DOMAIN blocks' : blocks'[k].addr = a /\ blocks'[k].type = MEM_USED
  <2>1. blocks[i].type = MEM_FREE /\ IsRam(blocks[i]) /\ MEM_USED \in {MEM_FREE, MEM_USED}
    BY <1>2 DEF FirstFit, Fits, IsRam
  <2>2. blocks' = Marked(blocks, i, MEM_USED)
    BY <1>2 DEF TakeWhole, Marked
  <2>3. /\ blocks' \in Seq(BlockType) /\ Apart(blocks') /\ RamBytes(blocks') = UsableBytes
        /\ DOMAIN blocks' = DOMAIN blocks
        /\ blocks'[i] = [blocks[i] EXCEPT !.type = MEM_USED]
        /\ \A j \in DOMAIN blocks : j # i => blocks'[j] = blocks[j]
    <3> DEFINE new == Marked(blocks, i, MEM_USED)
    <3>1. /\ new \in Seq(BlockType) /\ Apart(new) /\ RamBytes(new) = RamBytes(blocks)
          /\ DOMAIN new = DOMAIN blocks
          /\ new[i] = [blocks[i] EXCEPT !.type = MEM_USED]
          /\ \A j \in DOMAIN blocks : j # i => new[j] = blocks[j]
      BY <2>1, MarkKeeps
    <3> HIDE DEF new
    <3>2. new = blocks'
      BY <2>2 DEF new
    <3>3. QED
      BY <3>1, <3>2
  <2>4. blocks[i] \in BlockType /\ addr \in Nat
    BY <1>2 DEF BlockType
  <2>5. blocks'[i].addr = addr /\ blocks'[i].type = MEM_USED
    BY <1>2, <2>3, <2>4 DEF BlockType
  <2>6. ASSUME NEW a \in held
        PROVE  \E k \in DOMAIN blocks' : blocks'[k].addr = a /\ blocks'[k].type = MEM_USED
    BY <1>1, <2>1, <2>3 DEF MEM_FREE, MEM_USED
  <2>7. QED
    BY <2>3, <2>4, <2>5, <2>6
<1>3. ASSUME NEW i \in DOMAIN blocks, FirstFit(i, size), blocks[i].size > size,
             Split(i, size), addr = CutAt(i, size)
      PROVE  /\ blocks' \in Seq(BlockType)
             /\ Apart(blocks')
             /\ RamBytes(blocks') = UsableBytes
             /\ addr \in Nat
             /\ \A a \in held \union ({addr} \ {NULL}) :
                  \E k \in DOMAIN blocks' : blocks'[k].addr = a /\ blocks'[k].type = MEM_USED
  <2>1. blocks[i].type = MEM_FREE /\ blocks[i] \in BlockType
    BY <1>3 DEF FirstFit, Fits
  <2>2. blocks' = Cut(blocks, i, size)
    BY <1>3 DEF Split, CutAt, Cut
  <2>3. /\ blocks' \in Seq(BlockType)
        /\ DOMAIN blocks' = 1 .. Len(blocks) + 1
        /\ \A j \in 1 .. Len(blocks) + 1 :
             blocks'[j] =
               IF j = i THEN [blocks[i] EXCEPT !.size = @ - size]
               ELSE IF j = i + 1
                    THEN Block(blocks[i].addr + blocks[i].size - size, size, MEM_USED)
                    ELSE blocks[Origin(i, j)]
    BY <1>3, <2>2, CutChain
  <2>4. Apart(blocks') /\ RamBytes(blocks') = UsableBytes
    BY <1>3, <2>1, <2>2, CutKeeps
  <2>5. addr \in Nat
    BY <1>3, <2>1 DEF BlockType, CutAt
  <2>6. i \in 1 .. Len(blocks) /\ Len(blocks) \in Nat /\ DOMAIN blocks = 1 .. Len(blocks)
    OBVIOUS
  <2>7. /\ i + 1 \in DOMAIN blocks'
        /\ blocks'[i + 1].addr = addr
        /\ blocks'[i + 1].type = MEM_USED
    <3>1. i + 1 \in 1 .. Len(blocks) + 1 /\ i + 1 # i
      BY <2>6
    <3>2. blocks'[i + 1] = Block(blocks[i].addr + blocks[i].size - size, size, MEM_USED)
      BY <2>3, <3>1
    <3>3. QED
      BY <1>3, <2>3, <3>1, <3>2 DEF Block, CutAt
  <2>8. ASSUME NEW a \in held
        PROVE  \E k \in DOMAIN blocks' : blocks'[k].addr = a /\ blocks'[k].type = MEM_USED
    <3>1. PICK k \in DOMAIN blocks : blocks[k].addr = a /\ blocks[k].type = MEM_USED
      BY <1>1
    <3>2. k # i
      BY <2>1, <3>1 DEF MEM_FREE, MEM_USED
    <3>3. CASE k < i
      <4>1. k \in 1 .. Len(blocks) + 1 /\ k # i /\ k # i + 1 /\ Origin(i, k) = k
        BY <2>6, <3>3 DEF Origin
      <4>2. blocks'[k] = blocks[k]
        BY <2>3, <4>1
      <4>3. QED
        BY <2>3, <3>1, <4>1, <4>2
    <3>4. CASE k > i
      <4>1. /\ k + 1 \in 1 .. Len(blocks) + 1 /\ k + 1 # i /\ k + 1 # i + 1
            /\ Origin(i, k + 1) = k
        BY <2>6, <3>4 DEF Origin
      <4>2. blocks'[k + 1] = blocks[k]
        BY <2>3, <4>1
      <4>3. QED
        BY <2>3, <3>1, <4>1, <4>2
    <3>5. QED
      BY <2>6, <3>2, <3>3, <3>4
  <2>9. QED
    BY <2>3, <2>4, <2>5, <2>7, <2>8
<1>4. CASE NoFit(size) /\ addr = NULL /\ UNCHANGED blocks
  BY <1>1, <1>4 DEF NULL
<1>5. QED
  BY <1>2, <1>3, <1>4 DEF Allocate

LEMMA KmallocInv ==
  ASSUME MemInv, NEW size \in Requests, Kmalloc(size)
  PROVE  MemInv'
<1>1. RoundUp(size) \in Nat \ {0}
  BY RoundUpPositive
<1>2. PICK addr : /\ Allocate(RoundUp(size), addr)
                  /\ Memset(addr, RoundUp(size))
                  /\ held' = held \union ({addr} \ {NULL})
  BY DEF Kmalloc
<1>3. /\ blocks' \in Seq(BlockType) /\ Apart(blocks') /\ RamBytes(blocks') = UsableBytes
      /\ addr \in Nat
      /\ \A a \in held' :
           \E i \in DOMAIN blocks' : blocks'[i].addr = a /\ blocks'[i].type = MEM_USED
  BY <1>1, <1>2, AllocateKeeps
<1>4. HeldAreUsed'
  BY <1>3, HeldSurvives DEF HeldAreUsed
<1>5. TypeOK'
  BY <1>1, <1>2, <1>3 DEF TypeOK, MemInv, BlockType, Memset, Kmalloc
<1>6. QED
  BY <1>3, <1>4, <1>5 DEF MemInv, Disjoint, Apart, Conserved, RamBytes

LEMMA KfreeInv ==
  ASSUME MemInv, NEW addr \in held, Kfree(addr)
  PROVE  MemInv'
<1> USE InvFacts
<1>1. PICK k \in DOMAIN blocks :
        /\ blocks[k].addr = addr /\ blocks[k].type = MEM_USED
        /\ \A j \in DOMAIN blocks : blocks[j].addr = addr => j = k
  BY DEF MemInv, HeldAreUsed
<1>2. \A i \in DOMAIN blocks : AtAddr(i, addr) => i = k
  BY <1>1 DEF AtAddr
<1>3. AtAddr(k, addr)
  <2>1. \A j \in 1 .. k - 1 : j \in DOMAIN blocks /\ j # k
    OBVIOUS
  <2>2. QED
    BY <1>1, <2>1 DEF AtAddr
<1>4. blocks' = Marked(blocks, k, MEM_FREE)
  BY <1>2, <1>3 DEF Kfree, Marked
<1>5. IsRam(blocks[k]) /\ MEM_FREE \in {MEM_FREE, MEM_USED}
  BY <1>1 DEF IsRam
<1>6. /\ blocks' \in Seq(BlockType) /\ Apart(blocks') /\ RamBytes(blocks') = UsableBytes
      /\ DOMAIN blocks' = DOMAIN blocks
      /\ \A j \in DOMAIN blocks : j # k => blocks'[j] = blocks[j]
  <2> DEFINE new == Marked(blocks, k, MEM_FREE)
  <2>1. /\ new \in Seq(BlockType) /\ Apart(new) /\ RamBytes(new) = RamBytes(blocks)
        /\ DOMAIN new = DOMAIN blocks
        /\ \A j \in DOMAIN blocks : j # k => new[j] = blocks[j]
    BY <1>5, MarkKeeps
  <2> HIDE DEF new
  <2>2. new = blocks'
    BY <1>4 DEF new
  <2>3. QED
    BY <2>1, <2>2
<1>7. ASSUME NEW a \in held'
      PROVE  \E i \in DOMAIN blocks' : blocks'[i].addr = a /\ blocks'[i].type = MEM_USED
  <2>1. a \in held /\ a # addr
    BY DEF Kfree
  <2>2. PICK i \in DOMAIN blocks : blocks[i].addr = a /\ blocks[i].type = MEM_USED
    BY <2>1 DEF MemInv, HeldAreUsed
  <2>3. QED
    BY <1>1, <1>6, <2>1, <2>2
<1>8. HeldAreUsed'
  BY <1>6, <1>7, HeldSurvives DEF HeldAreUsed
<1>9. TypeOK'
  BY <1>6 DEF TypeOK, MemInv, BlockType, Kfree
<1>10. QED
  BY <1>6, <1>8, <1>9 DEF MemInv, Disjoint, Apart, Conserved, RamBytes

LEMMA OutOfEntriesInv ==
  ASSUME MemInv, NEW size, OutOfEntries(size)
  PROVE  MemInv'
<1> USE InvFacts
<1>1. UNCHANGED <<held, zeroed>> /\ fault' = TRUE
  BY DEF OutOfEntries
<1>2. PICK k \in DOMAIN blocks :
        /\ FirstFit(k, ENTRY)
        /\ IF blocks[k].size = ENTRY THEN TakeWhole(k) ELSE UNCHANGED blocks
  BY DEF OutOfEntries
<1>3. CASE TakeWhole(k)
  <2>1. /\ IsRam(blocks[k]) /\ blocks[k].type = MEM_FREE
        /\ MEM_USED \in {MEM_FREE, MEM_USED} /\ blocks' = Marked(blocks, k, MEM_USED)
    BY <1>2, <1>3 DEF FirstFit, Fits, IsRam, TakeWhole, Marked
  <2>2. /\ blocks' \in Seq(BlockType) /\ Apart(blocks') /\ RamBytes(blocks') = UsableBytes
        /\ DOMAIN blocks' = DOMAIN blocks
        /\ \A j \in DOMAIN blocks : j # k => blocks'[j] = blocks[j]
    <3> DEFINE new == Marked(blocks, k, MEM_USED)
    <3>1. /\ new \in Seq(BlockType) /\ Apart(new) /\ RamBytes(new) = RamBytes(blocks)
          /\ DOMAIN new = DOMAIN blocks
          /\ \A j \in DOMAIN blocks : j # k => new[j] = blocks[j]
      BY <2>1, MarkKeeps
    <3> HIDE DEF new
    <3>2. new = blocks'
      BY <2>1 DEF new
    <3>3. QED
      BY <3>1, <3>2
  <2>3. ASSUME NEW a \in held
        PROVE  \E i \in DOMAIN blocks' : blocks'[i].addr = a /\ blocks'[i].type = MEM_USED
    <3>1. PICK i \in DOMAIN blocks : blocks[i].addr = a /\ blocks[i].type = MEM_USED
      BY DEF MemInv, HeldAreUsed
    <3>2. QED
      BY <2>1, <2>2, <3>1 DEF MEM_FREE, MEM_USED
  <2>4. HeldAreUsed'
    BY <1>1, <2>2, <2>3, HeldSurvives DEF HeldAreUsed
  <2>5. TypeOK'
    BY <1>1, <2>2 DEF TypeOK, MemInv, BlockType
  <2>6. QED
    BY <2>2, <2>4, <2>5 DEF MemInv, Disjoint, Apart, Conserved, RamBytes
<1>4. CASE UNCHANGED blocks
  BY <1>1, <1>4 DEF MemInv, TypeOK, Disjoint, Conserved, HeldAreUsed
<1>5. QED
  BY <1>2, <1>3, <1>4

LEMMA MemStep == MemInv /\ [Next]_vars => MemInv'
<1> SUFFICES ASSUME MemInv, [Next]_vars PROVE MemInv'
  OBVIOUS
<1>1. ASSUME NEW size \in Requests, Kmalloc(size) PROVE MemInv'
  BY <1>1, KmallocInv
<1>2. ASSUME NEW size \in Requests, OutOfEntries(RoundUp(size)) PROVE MemInv'
  BY <1>2, OutOfEntriesInv
<1>3. ASSUME NEW addr \in held, Kfree(addr) PROVE MemInv'
  BY <1>3, KfreeInv
<1>4. CASE UNCHANGED vars
  BY <1>4 DEF vars, MemInv, TypeOK, Disjoint, Conserved, HeldAreUsed
<1>5. QED
  BY <1>1, <1>2, <1>3, <1>4 DEF Next

----------------------------------------------------------------------------
(* No leak *)

\* mem_malloc makes one block used, that of the address it returns.
LEMMA UsedAfterAllocate ==
  ASSUME MemInv, NEW size \in Nat \ {0}, NEW addr, Allocate(size, addr),
         NEW k \in DOMAIN blocks', blocks'[k].type = MEM_USED
  PROVE  \/ blocks'[k].addr = addr
         \/ \E j \in DOMAIN blocks : blocks[j].type = MEM_USED /\ blocks[j].addr = blocks'[k].addr
<1> USE InvFacts
<1>1. ASSUME NEW i \in DOMAIN blocks, TakeWhole(i), addr = blocks[i].addr
      PROVE  \/ blocks'[k].addr = addr
             \/ \E j \in DOMAIN blocks : blocks[j].type = MEM_USED /\ blocks[j].addr = blocks'[k].addr
  <2>1. blocks[i] \in BlockType
    OBVIOUS
  <2>2. /\ k \in DOMAIN blocks
        /\ blocks'[k] = IF k = i THEN [blocks[i] EXCEPT !.type = MEM_USED] ELSE blocks[k]
    BY <1>1 DEF TakeWhole
  <2> QED
    BY <1>1, <2>1, <2>2 DEF BlockType
<1>2. ASSUME NEW i \in DOMAIN blocks, FirstFit(i, size), blocks[i].size > size, Split(i, size), addr = CutAt(i, size)
      PROVE  \/ blocks'[k].addr = addr
             \/ \E j \in DOMAIN blocks : blocks[j].type = MEM_USED /\ blocks[j].addr = blocks'[k].addr
  <2>1. blocks' = Cut(blocks, i, size)
    BY <1>2 DEF Split, Cut, CutAt
  <2>2. /\ k \in 1 .. Len(blocks) + 1 /\ i \in 1 .. Len(blocks)
        /\ blocks'[k] = IF k = i THEN [blocks[i] EXCEPT !.size = @ - size]
                        ELSE IF k = i + 1 THEN Block(blocks[i].addr + blocks[i].size - size, size, MEM_USED)
                        ELSE blocks[Origin(i, k)]
    <3>1. /\ DOMAIN blocks' = 1 .. Len(blocks) + 1
          /\ \A j \in 1 .. Len(blocks) + 1 :
               blocks'[j] = IF j = i THEN [blocks[i] EXCEPT !.size = @ - size]
                            ELSE IF j = i + 1
                                 THEN Block(blocks[i].addr + blocks[i].size - size, size, MEM_USED)
                                 ELSE blocks[Origin(i, j)]
      BY <1>2, <2>1, CutChain
    <3>2. DOMAIN blocks = 1 .. Len(blocks)
      OBVIOUS
    <3> QED
      BY <3>1, <3>2
  <2>3. blocks[i] \in BlockType /\ blocks[i].type = MEM_FREE
    BY <1>2 DEF FirstFit, Fits
  <2>4. k # i
    BY <2>2, <2>3 DEF BlockType, MEM_FREE, MEM_USED
  <2>5. CASE k = i + 1
    BY <1>2, <2>2, <2>4, <2>5 DEF Block, CutAt
  <2>6. CASE k # i + 1
    <3>1. Origin(i, k) \in DOMAIN blocks /\ blocks'[k] = blocks[Origin(i, k)]
      BY <2>2, <2>4, <2>6 DEF Origin
    <3> QED
      BY <3>1
  <2> QED
    BY <2>5, <2>6
<1>3. CASE UNCHANGED blocks
  BY <1>3
<1> QED
  BY <1>1, <1>2, <1>3 DEF Allocate

LEMMA LeakInit == Init => NoLeak
<1> SUFFICES ASSUME Init, NEW i \in DOMAIN blocks PROVE blocks[i].type # MEM_USED
  BY DEF NoLeak
<1>1. blocks = [k \in DOMAIN MMap |-> FromMap(MMap[Len(MMap) + 1 - k])]
  BY DEF Init
<1>2. DOMAIN MMap = 1 .. Len(MMap) /\ Len(MMap) \in Nat
  BY MMapAssumption
<1>3. i \in DOMAIN MMap /\ Len(MMap) + 1 - i \in DOMAIN MMap
  BY <1>1, <1>2
<1>4. blocks[i] = FromMap(MMap[Len(MMap) + 1 - i])
  BY <1>1, <1>3
<1> QED
  BY <1>3, <1>4, MapEntry

LEMMA LeakStep == MemInv /\ NoLeak /\ [Next]_vars => NoLeak'
<1> SUFFICES ASSUME MemInv, NoLeak, [Next]_vars, ~fault',
                    NEW k \in DOMAIN blocks', blocks'[k].type = MEM_USED
             PROVE  blocks'[k].addr \in held' \union {NULL}
  BY DEF NoLeak
<1>0. ~fault /\ \A j \in DOMAIN blocks : blocks[j].type = MEM_USED => blocks[j].addr \in held \union {NULL}
  BY DEF NoLeak, Next, vars
<1>1. ASSUME NEW size \in Requests, Kmalloc(size) PROVE blocks'[k].addr \in held' \union {NULL}
  <2>1. RoundUp(size) \in Nat \ {0}
    BY RoundUpPositive
  <2>2. PICK addr : Allocate(RoundUp(size), addr) /\ held' = held \union ({addr} \ {NULL})
    BY <1>1 DEF Kmalloc
  <2>3. \/ blocks'[k].addr = addr
        \/ \E j \in DOMAIN blocks : blocks[j].type = MEM_USED /\ blocks[j].addr = blocks'[k].addr
    BY <2>1, <2>2, UsedAfterAllocate
  <2> QED
    BY <1>0, <2>2, <2>3
<1>2. ASSUME NEW size \in Requests, OutOfEntries(RoundUp(size)) PROVE FALSE
  BY <1>2 DEF OutOfEntries
<1>3. ASSUME NEW addr \in held, Kfree(addr) PROVE blocks'[k].addr \in held' \union {NULL}
  <2>1. PICK u \in DOMAIN blocks :
          /\ blocks[u].addr = addr /\ \A j \in DOMAIN blocks : blocks[j].addr = addr => j = u
    BY DEF MemInv, HeldAreUsed
  <2>2. AtAddr(u, addr) /\ \A i \in DOMAIN blocks : AtAddr(i, addr) => i = u
    <3>1. blocks \in Seq(BlockType)
      BY InvFacts
    <3>2. \A j \in 1 .. u - 1 : j \in DOMAIN blocks /\ j # u
      BY <3>1
    <3> QED
      BY <2>1, <3>2 DEF AtAddr
  <2>3. blocks' = [blocks EXCEPT ![u].type = MEM_FREE] /\ held' = held \ {addr}
    BY <1>3, <2>2 DEF Kfree
  <2>4. k \in DOMAIN blocks /\ k # u
    <3>1. blocks[u] \in BlockType
      BY InvFacts
    <3>2. k \in DOMAIN blocks /\ blocks'[u] = [blocks[u] EXCEPT !.type = MEM_FREE]
      BY <2>3
    <3> QED
      BY <3>1, <3>2 DEF BlockType, MEM_FREE, MEM_USED
  <2>5. blocks'[k] = blocks[k] /\ blocks[k].addr # addr
    BY <2>1, <2>3, <2>4
  <2> QED
    BY <1>0, <2>3, <2>4, <2>5
<1>4. CASE UNCHANGED vars
  BY <1>0, <1>4 DEF vars
<1> QED
  BY <1>1, <1>2, <1>3, <1>4 DEF Next

----------------------------------------------------------------------------
(* The allocator as its clients see it *)

\* What the clients hold, as HP takes it from a chain and a set of addresses.
Live(bs, h) ==
  {[addr |-> bs[i].addr, size |-> bs[i].size] :
     i \in {k \in DOMAIN bs : bs[k].type = MEM_USED /\ bs[k].addr \in h}}

\* q is a block of the new chain, used, and every other used block is one of the
\* old chain.
OneMore(q, addr, size) ==
  /\ q \in DOMAIN blocks'
  /\ blocks'[q].addr = addr /\ blocks'[q].size = size /\ blocks'[q].type = MEM_USED
  /\ \A j \in DOMAIN blocks : blocks[j].type = MEM_USED =>
       \E k \in DOMAIN blocks' : k # q /\ blocks'[k] = blocks[j]
  /\ \A k \in DOMAIN blocks' : blocks'[k].type = MEM_USED /\ k # q =>
       \E j \in DOMAIN blocks : blocks'[k] = blocks[j]

LEMMA AllocateOne ==
  ASSUME MemInv, NEW size \in Nat \ {0}, NEW addr, Allocate(size, addr)
  PROVE  \/ addr = NULL /\ UNCHANGED blocks
         \/ \E q \in DOMAIN blocks' : OneMore(q, addr, size)
<1> USE InvFacts
<1>1. ASSUME NEW i \in DOMAIN blocks, FirstFit(i, size), blocks[i].size = size, TakeWhole(i), addr = blocks[i].addr
      PROVE  OneMore(i, addr, size)
  <2>1. blocks[i] \in BlockType /\ blocks[i].type = MEM_FREE
    BY <1>1 DEF FirstFit, Fits
  <2>2. /\ DOMAIN blocks' = DOMAIN blocks
        /\ blocks'[i] = [blocks[i] EXCEPT !.type = MEM_USED]
        /\ \A k \in DOMAIN blocks : k # i => blocks'[k] = blocks[k]
    BY <1>1 DEF TakeWhole
  <2>3. blocks'[i].addr = addr /\ blocks'[i].size = size /\ blocks'[i].type = MEM_USED
    BY <1>1, <2>1, <2>2 DEF BlockType
  <2>4. \A j \in DOMAIN blocks : blocks[j].type = MEM_USED => j # i
    BY <2>1 DEF MEM_FREE, MEM_USED
  <2>5. \A j \in DOMAIN blocks : blocks[j].type = MEM_USED =>
          \E k \in DOMAIN blocks' : k # i /\ blocks'[k] = blocks[j]
    BY <2>2, <2>4
  <2>6. \A k \in DOMAIN blocks' : k # i => \E j \in DOMAIN blocks : blocks'[k] = blocks[j]
    BY <2>2
  <2> QED
    BY <1>1, <2>2, <2>3, <2>5, <2>6 DEF OneMore
<1>2. ASSUME NEW i \in DOMAIN blocks, FirstFit(i, size), blocks[i].size > size, Split(i, size), addr = CutAt(i, size)
      PROVE  OneMore(i + 1, addr, size)
  <2>1. blocks' = Cut(blocks, i, size)
    BY <1>2 DEF Split, Cut, CutAt
  <2>2. /\ DOMAIN blocks' = 1 .. Len(blocks) + 1
        /\ \A j \in 1 .. Len(blocks) + 1 :
             blocks'[j] = IF j = i THEN [blocks[i] EXCEPT !.size = @ - size]
                          ELSE IF j = i + 1
                               THEN Block(blocks[i].addr + blocks[i].size - size, size, MEM_USED)
                               ELSE blocks[Origin(i, j)]
    BY <1>2, <2>1, CutChain
  <2>3. /\ i \in 1 .. Len(blocks) /\ Len(blocks) \in Nat /\ DOMAIN blocks = 1 .. Len(blocks)
        /\ blocks[i] \in BlockType /\ blocks[i].type = MEM_FREE
    BY <1>2 DEF FirstFit, Fits
  <2>4. /\ i + 1 \in DOMAIN blocks' /\ blocks'[i + 1].addr = addr
        /\ blocks'[i + 1].size = size /\ blocks'[i + 1].type = MEM_USED
    <3>1. i + 1 \in 1 .. Len(blocks) + 1 /\ i + 1 # i
      BY <2>3
    <3>2. blocks'[i + 1] = Block(blocks[i].addr + blocks[i].size - size, size, MEM_USED)
      BY <2>2, <3>1
    <3> QED
      BY <1>2, <2>2, <3>1, <3>2 DEF Block, CutAt
  <2>5. ASSUME NEW j \in DOMAIN blocks, blocks[j].type = MEM_USED
        PROVE  \E k \in DOMAIN blocks' : k # i + 1 /\ blocks'[k] = blocks[j]
    <3> DEFINE k == IF j < i THEN j ELSE j + 1
    <3>1. j # i
      BY <2>3, <2>5 DEF MEM_FREE, MEM_USED
    <3>2. k \in 1 .. Len(blocks) + 1 /\ k # i /\ k # i + 1 /\ Origin(i, k) = j
      BY <2>3, <3>1 DEF Origin
    <3> HIDE DEF k
    <3> QED
      BY <2>2, <3>2
  <2>6. ASSUME NEW k \in DOMAIN blocks', blocks'[k].type = MEM_USED, k # i + 1
        PROVE  \E j \in DOMAIN blocks : blocks'[k] = blocks[j]
    <3>1. k \in 1 .. Len(blocks) + 1
      BY <2>2
    <3>2. k # i
      <4>1. blocks'[i] = [blocks[i] EXCEPT !.size = @ - size]
        BY <2>2, <2>3
      <4>2. blocks'[i].type = MEM_FREE
        BY <2>3, <4>1 DEF BlockType
      <4> QED
        BY <2>6, <4>2 DEF MEM_FREE, MEM_USED
    <3>3. Origin(i, k) \in DOMAIN blocks /\ blocks'[k] = blocks[Origin(i, k)]
      BY <2>2, <2>3, <2>6, <3>1, <3>2 DEF Origin
    <3> QED
      BY <3>3
  <2> QED
    BY <2>4, <2>5, <2>6 DEF OneMore
<1>3. CASE NoFit(size) /\ addr = NULL /\ UNCHANGED blocks
  BY <1>3
<1>4. ASSUME NEW i \in DOMAIN blocks, Split(i, size), FirstFit(i, size), blocks[i].size > size
      PROVE  i + 1 \in DOMAIN blocks'
  <2>1. blocks' = Cut(blocks, i, size)
    BY <1>4 DEF Split, Cut, CutAt
  <2>2. DOMAIN blocks' = 1 .. Len(blocks) + 1
    BY <1>4, <2>1, CutChain
  <2> QED
    BY <2>2
<1>5. ASSUME NEW i \in DOMAIN blocks, TakeWhole(i) PROVE i \in DOMAIN blocks'
  BY <1>5 DEF TakeWhole
<1> QED
  BY <1>1, <1>2, <1>3, <1>4, <1>5 DEF Allocate

\* NULL is an answer, never an allocation.
NullFree == NULL \notin held

LEMMA NullFreeInit == Init => NullFree
BY DEF Init, NullFree

LEMMA NullFreeStep == NullFree /\ [Next]_vars => NullFree'
BY DEF NullFree, Next, vars, Kmalloc, Kfree, OutOfEntries

\* A kmalloc that returns an address allocates a block of its own, one that
\* returns NULL changes nothing a client sees.
LEMMA KmallocHeap ==
  ASSUME MemInv, NullFree, NEW size \in Requests, Kmalloc(size)
  PROVE  [HP!Next]_(Live(blocks, held))
<1> DEFINE n == RoundUp(size)
           old == Live(blocks, held)
           new == Live(blocks', held')
<1>1. n \in Nat \ {0}
  BY RoundUpPositive
<1> HIDE DEF n
<1>2. PICK addr : Allocate(n, addr) /\ held' = held \union ({addr} \ {NULL})
  BY DEF Kmalloc, n
<1>3. /\ blocks' \in Seq(BlockType) /\ Apart(blocks') /\ RamBytes(blocks') = UsableBytes
  BY <1>1, <1>2, AllocateKeeps
<1>4. CASE addr = NULL /\ UNCHANGED blocks
  BY <1>2, <1>4 DEF Live
<1>5. ASSUME NEW q \in DOMAIN blocks', OneMore(q, addr, n)
      PROVE  [HP!Next]_(Live(blocks, held))
  <2> DEFINE b == [addr |-> addr, size |-> n]
  <2>1. \A k \in DOMAIN blocks' : k # q => blocks'[k].addr # addr
    BY <1>3, <1>5, UniqueAddr DEF OneMore
  <2>2. \A x : x \in old <=> \E j \in DOMAIN blocks : /\ blocks[j].type = MEM_USED /\ blocks[j].addr \in held
                                                      /\ x = [addr |-> blocks[j].addr, size |-> blocks[j].size]
    BY DEF Live
  <2>3. \A x : x \in new <=> \E k \in DOMAIN blocks' : /\ blocks'[k].type = MEM_USED /\ blocks'[k].addr \in held'
                                                       /\ x = [addr |-> blocks'[k].addr, size |-> blocks'[k].size]
    BY DEF Live
  <2>4. \A x \in old : \E k \in DOMAIN blocks' :
          /\ k # q /\ blocks'[k].type = MEM_USED /\ blocks'[k].addr \in held
          /\ x = [addr |-> blocks'[k].addr, size |-> blocks'[k].size]
    BY <1>5, <2>2 DEF OneMore
  <2>5. old \subseteq new
    BY <1>2, <2>3, <2>4
  <2>6. CASE addr = NULL
    <3>1. held' = held
      BY <1>2, <2>6
    <3>2. new \subseteq old
      <4> SUFFICES ASSUME NEW k \in DOMAIN blocks', blocks'[k].type = MEM_USED, blocks'[k].addr \in held
                   PROVE  [addr |-> blocks'[k].addr, size |-> blocks'[k].size] \in old
        BY <2>3, <3>1
      <4>1. k # q
        BY <1>5, <2>6 DEF OneMore, NullFree
      <4>2. PICK j \in DOMAIN blocks : blocks'[k] = blocks[j]
        BY <1>5, <4>1 DEF OneMore
      <4> QED
        BY <2>2, <4>2
    <3>3. new = old
      BY <2>5, <3>2
    <3> QED
      BY <3>3 DEF Live
  <2>7. CASE addr # NULL
    <3>1. held' = held \union {addr}
      BY <1>2, <2>7
    <3>2. b \in new
      BY <1>5, <2>3, <3>1 DEF OneMore
    <3>3. new \subseteq old \union {b}
      <4> SUFFICES ASSUME NEW k \in DOMAIN blocks', blocks'[k].type = MEM_USED, blocks'[k].addr \in held'
                   PROVE  [addr |-> blocks'[k].addr, size |-> blocks'[k].size] \in old \union {b}
        BY <2>3
      <4>1. CASE k = q
        BY <1>5, <4>1 DEF OneMore
      <4>2. CASE k # q
        <5>1. PICK j \in DOMAIN blocks : blocks'[k] = blocks[j]
          BY <1>5, <4>2 DEF OneMore
        <5>2. blocks'[k].addr \in held
          BY <2>1, <3>1, <4>2
        <5> QED
          BY <2>2, <5>1, <5>2
      <4> QED
        BY <4>1, <4>2
    <3>4. new = old \union {b}
      BY <2>5, <3>2, <3>3
    <3>5. Bytes(b) = Bytes(blocks'[q])
      BY <1>5 DEF OneMore, Bytes
    <3>6. Bytes(b) \subseteq UsableBytes
      <4>1. IsRam(blocks'[q])
        BY <1>5 DEF OneMore, IsRam
      <4>2. Bytes(blocks'[q]) \subseteq RamBytes(blocks')
        BY <4>1 DEF RamBytes
      <4> QED
        BY <1>3, <3>5, <4>2
    <3>7. ASSUME NEW c \in old PROVE Bytes(b) \cap Bytes(c) = {}
      <4>1. PICK k \in DOMAIN blocks' : k # q /\ c = [addr |-> blocks'[k].addr, size |-> blocks'[k].size]
        BY <2>4
      <4>2. Bytes(c) = Bytes(blocks'[k])
        BY <4>1 DEF Bytes
      <4>3. Bytes(blocks'[q]) \cap Bytes(blocks'[k]) = {}
        BY <1>3, <4>1 DEF Apart
      <4> QED
        BY <3>5, <4>2, <4>3
    <3>8. b \notin old
      <4> SUFFICES ASSUME b \in old PROVE FALSE
        OBVIOUS
      <4>1. PICK k \in DOMAIN blocks' : k # q /\ b = [addr |-> blocks'[k].addr, size |-> blocks'[k].size]
        BY <2>4
      <4> QED
        BY <2>1, <4>1
    <3>9. b.size > 0 /\ b.addr = addr
      BY <1>1
    <3>10. HP!Bytes(b) = Bytes(b) /\ \A c : HP!Bytes(c) = Bytes(c)
      BY DEF HP!Bytes, Bytes, Interval
    <3>11. HP!Malloc(b)
      <4> HIDE DEF b
      <4>1. \A c \in old : HP!Bytes(b) \cap HP!Bytes(c) = {}
        BY <3>7, <3>10
      <4> QED
        BY <3>4, <3>6, <3>9, <3>10, <4>1 DEF HP!Malloc, Live
    <3>12. b \in new \ old
      BY <3>2, <3>8
    <3> HIDE DEF b
    <3> QED
      BY <3>11, <3>12 DEF HP!Next, Live
  <2> QED
    BY <2>6, <2>7
<1> QED
  BY <1>1, <1>2, <1>4, <1>5, AllocateOne

\* A kfree ends one allocation.
LEMMA KfreeHeap ==
  ASSUME MemInv, NEW addr \in held, Kfree(addr)
  PROVE  HP!Next
<1> DEFINE old == Live(blocks, held)
           new == Live(blocks', held')
<1>1. PICK u \in DOMAIN blocks :
        /\ blocks[u].addr = addr /\ blocks[u].type = MEM_USED
        /\ \A j \in DOMAIN blocks : blocks[j].addr = addr => j = u
  BY DEF MemInv, HeldAreUsed
<1>2. AtAddr(u, addr) /\ \A i \in DOMAIN blocks : AtAddr(i, addr) => i = u
  <2>1. blocks \in Seq(BlockType)
    BY InvFacts
  <2>2. \A j \in 1 .. u - 1 : j \in DOMAIN blocks /\ j # u
    BY <2>1
  <2> QED
    BY <1>1, <2>2 DEF AtAddr
<1>3. blocks' = [blocks EXCEPT ![u].type = MEM_FREE] /\ held' = held \ {addr}
  BY <1>2 DEF Kfree
<1>4. /\ DOMAIN blocks' = DOMAIN blocks
      /\ blocks'[u].addr = addr /\ blocks'[u].type = MEM_FREE
      /\ \A k \in DOMAIN blocks : k # u => blocks'[k] = blocks[k]
  <2>1. blocks[u] \in BlockType
    BY InvFacts
  <2> QED
    BY <1>1, <1>3, <2>1 DEF BlockType
<1>b. PICK b : b = [addr |-> blocks[u].addr, size |-> blocks[u].size]
  OBVIOUS
<1>5. b \in old
  BY <1>1, <1>b DEF Live
<1>6. new = old \ {b}
  <2>1. ASSUME NEW k \in DOMAIN blocks', blocks'[k].type = MEM_USED, blocks'[k].addr \in held'
        PROVE  [addr |-> blocks'[k].addr, size |-> blocks'[k].size] \in old \ {b}
    <3>1. k # u /\ k \in DOMAIN blocks /\ blocks'[k] = blocks[k]
      BY <1>4, <2>1 DEF MEM_FREE, MEM_USED
    <3>2. blocks[k].addr # addr /\ blocks[k].addr \in held /\ blocks[k].type = MEM_USED
      BY <1>3, <2>1, <3>1
    <3>3. [addr |-> blocks[k].addr, size |-> blocks[k].size] \in old
      BY <3>1, <3>2 DEF Live
    <3> QED
      BY <1>1, <1>b, <3>1, <3>2, <3>3
  <2>2. ASSUME NEW k \in DOMAIN blocks, blocks[k].type = MEM_USED, blocks[k].addr \in held,
               [addr |-> blocks[k].addr, size |-> blocks[k].size] # b
        PROVE  [addr |-> blocks[k].addr, size |-> blocks[k].size] \in new
    <3>1. k # u /\ blocks[k].addr # addr
      BY <1>1, <1>b, <2>2
    <3>2. blocks'[k] = blocks[k] /\ blocks[k].addr \in held' /\ k \in DOMAIN blocks'
      BY <1>3, <1>4, <2>2, <3>1
    <3> QED
      BY <2>2, <3>2 DEF Live
  <2>3. new \subseteq old \ {b}
    BY <2>1 DEF Live
  <2>4. old \ {b} \subseteq new
    BY <2>2 DEF Live
  <2> QED
    BY <2>3, <2>4
<1>7. HP!Free(b)
  BY <1>5, <1>6 DEF HP!Free, Live
<1>8. \E x \in old : HP!Free(x)
  BY <1>5, <1>7
<1> QED
  BY <1>8 DEF HP!Next, Live

\* The block that dies with the machine is one nobody held.
LEMMA OutOfEntriesHeap ==
  ASSUME MemInv, NEW size, OutOfEntries(size)
  PROVE  UNCHANGED Live(blocks, held)
<1>1. held' = held
  BY DEF OutOfEntries
<1>2. PICK k \in DOMAIN blocks :
        /\ FirstFit(k, ENTRY)
        /\ IF blocks[k].size = ENTRY THEN TakeWhole(k) ELSE UNCHANGED blocks
  BY DEF OutOfEntries
<1>3. CASE UNCHANGED blocks
  BY <1>1, <1>3 DEF Live
<1>4. CASE TakeWhole(k)
  <2>1. blocks[k] \in BlockType /\ blocks[k].type = MEM_FREE
    BY <1>2, InvFacts DEF FirstFit, Fits
  <2>2. blocks[k].addr \notin held
    <3> SUFFICES ASSUME blocks[k].addr \in held PROVE FALSE
      OBVIOUS
    <3>1. PICK i \in DOMAIN blocks : /\ blocks[i].type = MEM_USED
                                     /\ \A j \in DOMAIN blocks : blocks[j].addr = blocks[k].addr => j = i
      BY DEF MemInv, HeldAreUsed
    <3> QED
      BY <2>1, <3>1 DEF MEM_FREE, MEM_USED
  <2>3. /\ DOMAIN blocks' = DOMAIN blocks
        /\ blocks'[k].addr = blocks[k].addr
        /\ \A j \in DOMAIN blocks : j # k => blocks'[j] = blocks[j]
    BY <1>4, <2>1 DEF TakeWhole, BlockType
  <2>4. {j \in DOMAIN blocks' : blocks'[j].type = MEM_USED /\ blocks'[j].addr \in held'}
          = {j \in DOMAIN blocks : blocks[j].type = MEM_USED /\ blocks[j].addr \in held}
    BY <1>1, <2>2, <2>3
  <2>5. \A j \in {i \in DOMAIN blocks : blocks[i].type = MEM_USED /\ blocks[i].addr \in held} :
          blocks'[j] = blocks[j]
    BY <2>2, <2>3
  <2> QED
    BY <2>4, <2>5 DEF Live
<1> QED
  BY <1>2, <1>3, <1>4

LEMMA HeapInit == Init => HP!Init
BY DEF Init, HP!Init

LEMMA HeapStep == MemInv /\ NullFree /\ [Next]_vars => [HP!Next]_(Live(blocks, held))
<1> SUFFICES ASSUME MemInv, NullFree, [Next]_vars PROVE [HP!Next]_(Live(blocks, held))
  OBVIOUS
<1>1. ASSUME NEW size \in Requests, Kmalloc(size) PROVE [HP!Next]_(Live(blocks, held))
  BY <1>1, KmallocHeap
<1>2. ASSUME NEW size \in Requests, OutOfEntries(RoundUp(size)) PROVE [HP!Next]_(Live(blocks, held))
  BY <1>2, OutOfEntriesHeap
<1>3. ASSUME NEW addr \in held, Kfree(addr) PROVE HP!Next
  BY <1>3, KfreeHeap
<1>4. CASE UNCHANGED vars
  BY <1>4 DEF vars, Live
<1> QED
  BY <1>1, <1>2, <1>3, <1>4 DEF Next

----------------------------------------------------------------------------
(* The theorems *)

LEMMA MemInvariance == Spec => []MemInv
<1>1. QED
  BY InitMem, MemStep, PTL DEF Spec

\* Type correctness of the allocator's state: in particular no block is ever
\* empty, so every address is the start of at most one block (mm.h).
THEOREM MemTypeCorrect == Spec => []TypeOK
<1>1. MemInv => TypeOK
  BY DEF MemInv
<1>2. QED
  BY <1>1, MemInvariance, PTL

\* No two blocks ever share a byte (mem_malloc, mem_free).
THEOREM BlocksDisjoint == Spec => []Disjoint
<1>1. MemInv => Disjoint
  BY DEF MemInv
<1>2. QED
  BY <1>1, MemInvariance, PTL

\* The free and used blocks always cover exactly the usable memory of the map:
\* nothing is lost and nothing reserved is handed out (mem_malloc, mem_free).
THEOREM MemoryConserved == Spec => []Conserved
<1>1. MemInv => Conserved
  BY DEF MemInv
<1>2. QED
  BY <1>1, MemInvariance, PTL

\* mem_free, which searches by address, finds the block of its caller.
THEOREM HeldBlocks == Spec => []HeldAreUsed
<1>1. MemInv => HeldAreUsed
  BY DEF MemInv
<1>2. QED
  BY <1>1, MemInvariance, PTL

\* A block that is used is one a client holds, or the one at address 0 that
\* kmalloc hands out as NULL (mem_malloc, mem_free).
THEOREM NothingLeaks == Spec => []NoLeak
<1>1. Spec => [](MemInv /\ NoLeak)
  BY InitMem, MemStep, LeakInit, LeakStep, PTL DEF Spec
<1> QED
  BY <1>1, PTL

\* kmalloc and kfree implement an allocator: what a client gets is usable memory
\* that nobody else has, until he frees it.
THEOREM HeapImplemented == Spec => ImplementsHeap
<1>1. Spec => [](MemInv /\ NullFree)
  BY InitMem, MemStep, NullFreeInit, NullFreeStep, PTL DEF Spec
<1>2. MemInv /\ NullFree /\ [Next]_vars =>
        [HP!Next]_({[addr |-> blocks[i].addr, size |-> blocks[i].size] :
                      i \in {k \in DOMAIN blocks : blocks[k].type = MEM_USED /\ blocks[k].addr \in held}})
  BY HeapStep DEF Live
<1> QED
  BY <1>1, <1>2, HeapInit, PTL DEF Spec, ImplementsHeap, HP!Spec
=============================================================================
