------------------------------- MODULE XmsProofs -------------------------------
(***************************************************************************)
(* Proofs about Xms: the invariants of the list of blocks, that a locked   *)
(* block stays, and that the list implements XmsHandles.                   *)
(***************************************************************************)
EXTENDS Xms, NumberLemmas

--------------------------------------------------------------------------------
(* The inductive invariant.                                                *)

(* A free block is not locked. *)
FreeUnlocked(bs) == \A i \in DOMAIN bs : IsFree(bs[i]) => bs[i].locked = 0

(* No two blocks in use have the same handle. *)
OneBlockEach(bs) ==
    \A i, j \in DOMAIN bs :
        ~ IsFree(bs[i]) /\ bs[i].handle = bs[j].handle => i = j

(* at[n] is where block n ends when the blocks lie one behind the other.   *)
Adds(bs, at) ==
    /\ at \in [0 .. Len(bs) -> Nat]
    /\ at[0] = 0
    /\ \A i \in 1 .. Len(bs) : at[i] = at[i - 1] + bs[i].size

(* No block starts later than it would if they lay one behind the other. *)
StartsWithin(bs, at) == \A i \in 1 .. Len(bs) : bs[i].offset <= at[i - 1]

IInv ==
    /\ TypeOK
    /\ FreeUnlocked(embs)
    /\ OneBlockEach(embs)
    /\ StartsWithin(embs, Upto(embs))
    /\ NothingLost

(* What the proofs carry along a list and its partial sums. *)
Chain(bs, at) ==
    /\ bs \in Seq(emb_data)
    /\ FreeUnlocked(bs)
    /\ OneBlockEach(bs)
    /\ Adds(bs, at)
    /\ StartsWithin(bs, at)

Whole(bs, at) == Chain(bs, at) /\ bs # <<>> /\ at[Len(bs)] = TotalKb

--------------------------------------------------------------------------------
(* The partial sums.                                                       *)

(* The fields of a block of the list. *)
LEMMA Fields ==
  ASSUME NEW bs \in Seq(emb_data), NEW i \in 1 .. Len(bs)
  PROVE  /\ bs[i] \in emb_data
         /\ bs[i].size \in Nat /\ bs[i].offset \in Nat
         /\ bs[i].locked \in 0 .. MaxLock /\ bs[i].handle \in 0 .. MaxHandle
<1>1. bs[i] \in emb_data
  OBVIOUS
<1>. QED BY <1>1 DEF emb_data

(* Upto is the function its recursive definition describes. *)
LEMMA UptoAdds ==
  ASSUME NEW bs \in Seq(emb_data)
  PROVE  Adds(bs, Upto(bs))
<1>. DEFINE Up(f, m) ==
              f = [n \in 0 .. m |-> IF n = 0 THEN 0 ELSE f[n - 1] + bs[n].size]
            Sums(m) == m <= Len(bs) => \E f \in [0 .. m -> Nat] : Up(f, m)
            T == {m \in Nat : Sums(m)}
<1>1. \A i \in 1 .. Len(bs) : bs[i].size \in Nat
  BY Fields
<1>2. 0 \in T
  <2>1. [n \in 0 .. 0 |-> 0] \in [0 .. 0 -> Nat] /\ Up([n \in 0 .. 0 |-> 0], 0)
    OBVIOUS
  <2>. QED BY <2>1
<1>3. ASSUME NEW m \in T PROVE m + 1 \in T
  <2>0. m \in Nat /\ Sums(m)
    <3>. HIDE DEF Sums
    <3>. QED OBVIOUS
  <2>1. SUFFICES ASSUME m + 1 <= Len(bs)
                 PROVE  \E f \in [0 .. m + 1 -> Nat] : Up(f, m + 1)
    <3>1. Sums(m + 1) => m + 1 \in T
      <4>. HIDE DEF Sums
      <4>. QED BY <2>0
    <3>. HIDE DEF T, Up
    <3>. QED BY <3>1
  <2>2. PICK f \in [0 .. m -> Nat] : Up(f, m)
    <3>1. m <= Len(bs)
      BY <2>0, <2>1
    <3>. HIDE DEF T, Up
    <3>. QED BY <2>0, <3>1
  <2>3. PICK g : g = [n \in 0 .. m + 1 |->
                        IF n = m + 1 THEN f[m] + bs[m + 1].size ELSE f[n]]
    OBVIOUS
  <2>4. g \in [0 .. m + 1 -> Nat]
    BY <2>1, <2>3, <1>1
  <2>5. ASSUME NEW n \in 0 .. m + 1
        PROVE  g[n] = IF n = 0 THEN 0 ELSE g[n - 1] + bs[n].size
    <3>1. n <= m => f[n] = IF n = 0 THEN 0 ELSE f[n - 1] + bs[n].size
      BY <2>2
    <3>2. CASE n <= m
      <4>1. g[n] = f[n] /\ (n # 0 => g[n - 1] = f[n - 1])
        BY <3>2, <2>3
      <4>. QED BY <3>1, <3>2, <4>1
    <3>3. CASE n = m + 1
      <4>1. g[n] = f[m] + bs[m + 1].size /\ g[m] = f[m]
        BY <3>3, <2>3
      <4>2. n - 1 = m /\ n # 0
        BY <3>3
      <4>. QED BY <3>3, <4>1, <4>2
    <3>. QED BY <3>2, <3>3
  <2>6. g = [n \in 0 .. m + 1 |-> g[n]]
    BY <2>3
  <2>7. Up(g, m + 1)
    BY <2>5, <2>6
  <2>. QED BY <2>4, <2>7
<1>4. Len(bs) \in T
  <2>1. T = Nat
    BY <1>2, <1>3, NatSetInduction
  <2>. HIDE DEF T
  <2>. QED BY <2>1
<1>5. PICK f \in [0 .. Len(bs) -> Nat] : Up(f, Len(bs))
  BY <1>4
<1>6. Upto(bs) = CHOOSE g : Up(g, Len(bs))
  BY DEF Upto
<1>7. Up(Upto(bs), Len(bs))
  BY <1>5, <1>6
<1>8. PICK g : g = Upto(bs)
  OBVIOUS
<1>9. /\ DOMAIN g = 0 .. Len(bs)
      /\ g[0] = 0
      /\ \A n \in 1 .. Len(bs) : g[n] = g[n - 1] + bs[n].size
  <2>. HIDE DEF T
  <2>. QED BY <1>7, <1>8
<1>. DEFINE S == {m \in Nat : m <= Len(bs) => g[m] \in Nat}
<1>10. S = Nat
  <2>1. 0 \in S
    BY <1>9
  <2>2. ASSUME NEW m \in S PROVE m + 1 \in S
    <3>1. m + 1 <= Len(bs) => g[m + 1] = g[m] + bs[m + 1].size
      BY <1>9
    <3>. QED BY <3>1, <1>1
  <2>. QED BY <2>1, <2>2, NatSetInduction
<1>11. g = [n \in 0 .. Len(bs) |-> g[n]]
  BY <1>7, <1>8
<1>12. g \in [0 .. Len(bs) -> Nat]
  BY <1>10, <1>11
<1>. QED BY <1>8, <1>9, <1>12 DEF Adds

(* A list has only one function of partial sums. *)
LEMMA AddsOnce ==
  ASSUME NEW bs \in Seq(emb_data), NEW at, Adds(bs, at), NEW au, Adds(bs, au)
  PROVE  at = au
<1>. DEFINE T == {m \in Nat : m <= Len(bs) => at[m] = au[m]}
<1>1. 0 \in T
  BY DEF Adds
<1>2. ASSUME NEW m \in T PROVE m + 1 \in T
  BY DEF Adds
<1>3. T = Nat
  BY <1>1, <1>2, NatSetInduction
<1>4. \A m \in 0 .. Len(bs) : at[m] = au[m]
  BY <1>3
<1>5. at = [m \in 0 .. Len(bs) |-> at[m]] /\ au = [m \in 0 .. Len(bs) |-> au[m]]
  BY DEF Adds
<1>. QED BY <1>4, <1>5

(* The partial sums never fall. *)
LEMMA AddsRises ==
  ASSUME NEW bs \in Seq(emb_data), NEW at, Adds(bs, at),
         NEW i \in 0 .. Len(bs), NEW j \in 0 .. Len(bs), i <= j
  PROVE  at[i] <= at[j]
<1>. DEFINE T == {m \in Nat : i + m <= Len(bs) => at[i] <= at[i + m]}
<1>1. at \in [0 .. Len(bs) -> Nat]
  BY DEF Adds
<1>2. 0 \in T
  BY <1>1
<1>3. ASSUME NEW m \in T PROVE m + 1 \in T
  <2>1. SUFFICES ASSUME i + (m + 1) <= Len(bs) PROVE at[i] <= at[i + (m + 1)]
    OBVIOUS
  <2>2. PICK n : n = i + m
    OBVIOUS
  <2>3. n \in 0 .. Len(bs) /\ n + 1 \in 1 .. Len(bs) /\ i + (m + 1) = n + 1
    BY <2>1, <2>2
  <2>4. at[i] <= at[n]
    BY <2>2, <2>3
  <2>5. at[n + 1] = at[n] + bs[n + 1].size /\ bs[n + 1].size \in Nat
    <3>2. bs[n + 1].size \in Nat
      BY <2>3, Fields
    <3>3. at[n + 1] = at[n + 1 - 1] + bs[n + 1].size /\ n + 1 - 1 = n
      BY <2>3 DEF Adds
    <3>. QED BY <3>2, <3>3
  <2>6. at[i] \in Nat /\ at[n] \in Nat
    BY <1>1, <2>3
  <2>7. at[i] <= at[n + 1]
    BY ONLY <2>4, <2>5, <2>6
  <2>. QED BY ONLY <2>3, <2>7
<1>4. T = Nat
  BY <1>2, <1>3, NatSetInduction
<1>5. j - i \in T
  <2>1. j - i \in Nat
    OBVIOUS
  <2>. HIDE DEF T
  <2>. QED BY <2>1, <1>4
<1>6. i + (j - i) = j
  OBVIOUS
<1>. QED BY <1>5, <1>6
--------------------------------------------------------------------------------
(* Merging the free blocks.                                                *)

(* What Joined needs to know of the block it adds. *)
Follows(d, at, b) ==
    /\ b \in emb_data
    /\ IsFree(b) => b.locked = 0
    /\ ~ IsFree(b) => \A j \in DOMAIN d : d[j].handle # b.handle
    /\ b.offset <= at[Len(d)]

(* The blocks in use of e are those of d, and b if it is in use. *)
Gains(d, e, b) ==
    /\ \A j \in DOMAIN d : ~ IsFree(d[j]) => \E k \in DOMAIN e : e[k] = d[j]
    /\ ~ IsFree(b) => \E k \in DOMAIN e : e[k] = b
    /\ \A k \in DOMAIN e :
          ~ IsFree(e[k]) => e[k] = b \/ \E j \in DOMAIN d : d[j] = e[k]

(* A free block that grows at the end of the list. *)
LEMMA JoinLast ==
  ASSUME NEW d, NEW at, NEW b, Chain(d, at), Follows(d, at, b),
         d # <<>>, IsFree(d[Len(d)]), IsFree(b)
  PROVE  \E e, au : /\ e = [d EXCEPT ![Len(d)].size = @ + b.size]
                    /\ Chain(e, au) /\ e # <<>>
                    /\ au[Len(e)] = at[Len(d)] + b.size
                    /\ Gains(d, e, b)
<1>1. /\ d \in Seq(emb_data) /\ FreeUnlocked(d) /\ OneBlockEach(d)
      /\ Adds(d, at) /\ StartsWithin(d, at)
  BY DEF Chain
<1>2. PICK n : n = Len(d)
  OBVIOUS
<1>3. n \in 1 .. Len(d) /\ n \in Nat \ {0}
  BY <1>1, <1>2
<1>4. /\ d[n] \in emb_data /\ d[n].size \in Nat
      /\ \A i \in 1 .. n : d[i] \in emb_data
  BY <1>1, <1>2, <1>3, Fields
<1>5. b.size \in Nat
  BY DEF Follows, emb_data
<1>6. PICK x : x = [d[n] EXCEPT !.size = @ + b.size]
  OBVIOUS
<1>7. /\ x \in emb_data /\ x.size = d[n].size + b.size /\ x.offset = d[n].offset
      /\ x.locked = d[n].locked /\ x.handle = d[n].handle
  <2>1. PICK a, z : a = d[n] /\ z = a.size + b.size
    OBVIOUS
  <2>2. a \in emb_data /\ z \in Nat /\ x = [a EXCEPT !.size = z]
    BY <1>4, <1>5, <1>6, <2>1
  <2>3. /\ x \in emb_data /\ x.size = z /\ x.offset = a.offset
        /\ x.locked = a.locked /\ x.handle = a.handle
    BY ONLY <2>2 DEF emb_data
  <2>. QED BY ONLY <2>1, <2>3
<1>8. PICK e : e = [d EXCEPT ![n] = x]
  OBVIOUS
<1>9. e = [d EXCEPT ![Len(d)].size = @ + b.size]
  BY <1>1, <1>2, <1>3, <1>6, <1>8
<1>10. /\ e \in Seq(emb_data) /\ Len(e) = n /\ DOMAIN e = 1 .. n /\ DOMAIN d = 1 .. n
       /\ e[n] = x /\ \A i \in 1 .. n : i # n => e[i] = d[i]
  BY <1>1, <1>2, <1>3, <1>7, <1>8
<1>11. PICK au : au = [at EXCEPT ![n] = @ + b.size]
  OBVIOUS
<1>12. /\ at \in [0 .. n -> Nat] /\ at[0] = 0
       /\ \A i \in 1 .. n : at[i] = at[i - 1] + d[i].size
  BY <1>1, <1>2 DEF Adds
<1>13. /\ au \in [0 .. n -> Nat] /\ au[n] = at[n] + b.size
       /\ \A i \in 0 .. n : i # n => au[i] = at[i]
  BY <1>3, <1>5, <1>11, <1>12
<1>14. Adds(e, au)
  <2>1. au[0] = 0
    BY <1>3, <1>12, <1>13
  <2>2. ASSUME NEW i \in 1 .. n PROVE au[i] = au[i - 1] + e[i].size
    <3>1. au[i - 1] = at[i - 1] /\ at[i - 1] \in Nat
      BY <1>3, <1>12, <1>13
    <3>2. CASE i = n
      BY <3>1, <3>2, <1>4, <1>5, <1>7, <1>10, <1>12, <1>13
    <3>3. CASE i # n
      <4>1. e[i] = d[i]
        BY <3>3, <1>10
      <4>2. au[i] = at[i]
        BY <1>3, <3>3, <1>13
      <4>3. at[i] = at[i - 1] + d[i].size
        BY <1>12
      <4>. QED BY ONLY <3>1, <4>1, <4>2, <4>3
    <3>. QED BY <3>2, <3>3
  <2>. QED BY ONLY <2>1, <2>2, <1>10, <1>13 DEF Adds
<1>15. StartsWithin(e, au)
  <2>1. ASSUME NEW i \in 1 .. n PROVE e[i].offset <= au[i - 1]
    <3>1. au[i - 1] = at[i - 1]
      BY <1>3, <1>13
    <3>2. e[i].offset = d[i].offset
      BY <1>7, <1>10
    <3>. QED BY <3>1, <3>2, <1>1, <1>2 DEF StartsWithin
  <2>. QED BY <2>1, <1>10 DEF StartsWithin
<1>16. \A i \in 1 .. n : e[i].handle = d[i].handle /\ e[i].locked = d[i].locked
  BY <1>7, <1>10
<1>17. FreeUnlocked(e) /\ OneBlockEach(e)
  BY <1>1, <1>10, <1>16 DEF FreeUnlocked, OneBlockEach, IsFree
<1>18. Gains(d, e, b)
  BY <1>2, <1>10, <1>16 DEF Gains, IsFree
<1>19. e # <<>>
  BY <1>3, <1>10
<1>20. au[Len(e)] = at[Len(d)] + b.size
  BY <1>2, <1>10, <1>13
<1>. QED BY <1>9, <1>10, <1>14, <1>15, <1>17, <1>18, <1>19, <1>20 DEF Chain

(* A block that goes behind the list. *)
LEMMA JoinNew ==
  ASSUME NEW d, NEW at, NEW b, Chain(d, at), Follows(d, at, b)
  PROVE  \E e, au : /\ e = Append(d, b)
                    /\ Chain(e, au) /\ e # <<>>
                    /\ au[Len(e)] = at[Len(d)] + b.size
                    /\ Gains(d, e, b)
<1>1. /\ d \in Seq(emb_data) /\ FreeUnlocked(d) /\ OneBlockEach(d)
      /\ Adds(d, at) /\ StartsWithin(d, at)
  BY DEF Chain
<1>2. PICK n \in Nat : n = Len(d)
  BY <1>1
<1>3. b \in emb_data /\ b.size \in Nat /\ b.offset <= at[n]
  BY <1>2 DEF Follows, emb_data
<1>4. PICK e : e = Append(d, b)
  OBVIOUS
<1>5. /\ e \in Seq(emb_data) /\ Len(e) = n + 1
      /\ DOMAIN e = 1 .. n + 1 /\ DOMAIN d = 1 .. n
      /\ e[n + 1] = b /\ \A i \in 1 .. n : e[i] = d[i]
  BY <1>1, <1>2, <1>3, <1>4
<1>6. /\ at \in [0 .. n -> Nat] /\ at[0] = 0
      /\ \A i \in 1 .. n : at[i] = at[i - 1] + d[i].size
  BY <1>1, <1>2 DEF Adds
<1>7. PICK au : au = [i \in 0 .. n + 1 |-> IF i = n + 1 THEN at[n] + b.size ELSE at[i]]
  OBVIOUS
<1>8. /\ au \in [0 .. n + 1 -> Nat] /\ au[n + 1] = at[n] + b.size
      /\ \A i \in 0 .. n : au[i] = at[i]
  BY <1>3, <1>6, <1>7
<1>9. Adds(e, au)
  <2>1. au[0] = 0
    BY <1>6, <1>8
  <2>2. ASSUME NEW i \in 1 .. n + 1 PROVE au[i] = au[i - 1] + e[i].size
    <3>1. au[i - 1] = at[i - 1]
      BY <1>8
    <3>2. CASE i = n + 1
      BY <3>1, <3>2, <1>5, <1>8
    <3>3. CASE i \in 1 .. n
      BY <3>1, <3>3, <1>5, <1>6, <1>8
    <3>. QED BY <3>2, <3>3
  <2>. QED BY ONLY <2>1, <2>2, <1>5, <1>8 DEF Adds
<1>10. StartsWithin(e, au)
  <2>1. ASSUME NEW i \in 1 .. n + 1 PROVE e[i].offset <= au[i - 1]
    <3>1. au[i - 1] = at[i - 1]
      BY <1>8
    <3>2. CASE i = n + 1
      BY <3>1, <3>2, <1>3, <1>5
    <3>3. CASE i \in 1 .. n
      BY <3>1, <3>3, <1>1, <1>2, <1>5 DEF StartsWithin
    <3>. QED BY <3>2, <3>3
  <2>. QED BY <2>1, <1>5 DEF StartsWithin
<1>11. FreeUnlocked(e)
  BY <1>1, <1>5 DEF FreeUnlocked, Follows
<1>12. OneBlockEach(e)
  <2>1. ASSUME NEW i \in 1 .. n + 1, NEW j \in 1 .. n + 1,
               ~ IsFree(e[i]), e[i].handle = e[j].handle
        PROVE  i = j
    <3>1. ~ IsFree(b) => \A k \in 1 .. n : d[k].handle # b.handle
      BY <1>5 DEF Follows
    <3>2. CASE i \in 1 .. n /\ j \in 1 .. n
      BY <2>1, <3>2, <1>1, <1>5 DEF OneBlockEach
    <3>3. CASE i = n + 1 /\ j \in 1 .. n
      BY <2>1, <3>1, <3>3, <1>5 DEF IsFree
    <3>4. CASE i \in 1 .. n /\ j = n + 1
      BY <2>1, <3>1, <3>4, <1>5 DEF IsFree
    <3>. QED BY <3>2, <3>3, <3>4
  <2>. QED BY <2>1, <1>5 DEF OneBlockEach
<1>13. Gains(d, e, b)
  <2>1. \A k \in 1 .. n + 1 : k \in 1 .. n \/ k = n + 1
    OBVIOUS
  <2>. QED BY <2>1, <1>5 DEF Gains
<1>14. e # <<>> /\ au[Len(e)] = at[Len(d)] + b.size
  BY <1>2, <1>5, <1>8
<1>. QED BY <1>4, <1>5, <1>9, <1>10, <1>11, <1>12, <1>14, <1>13 DEF Chain

(* Joined keeps a list well formed and adds the size of the block. *)
LEMMA JoinedChain ==
  ASSUME NEW d, NEW at, NEW b, Chain(d, at), Follows(d, at, b)
  PROVE  \E e, au : /\ e = Joined(d, b)
                    /\ Chain(e, au) /\ e # <<>>
                    /\ au[Len(e)] = at[Len(d)] + b.size
                    /\ Gains(d, e, b)
<1>1. CASE d # <<>> /\ IsFree(d[Len(d)]) /\ IsFree(b)
  <2>1. Joined(d, b) = [d EXCEPT ![Len(d)].size = @ + b.size]
    BY <1>1 DEF Joined
  <2>. QED BY <1>1, <2>1, JoinLast
<1>2. CASE ~ (d # <<>> /\ IsFree(d[Len(d)]) /\ IsFree(b))
  <2>1. Joined(d, b) = Append(d, b)
    BY <1>2 DEF Joined
  <2>. QED BY <2>1, JoinNew
<1>. QED BY <1>1, <1>2
(* Apart from the block of handle h, if h is not 0, two lists have the     *)
(* same blocks in use.                                                     *)
SameBut(bs, cs, h) ==
    /\ \A i \in DOMAIN bs : ~ IsFree(bs[i]) /\ bs[i].handle # h
                               => \E j \in DOMAIN cs : cs[j] = bs[i]
    /\ \A j \in DOMAIN cs : ~ IsFree(cs[j]) /\ cs[j].handle # h
                               => \E i \in DOMAIN bs : bs[i] = cs[j]

(* f[n] is what merging has made of the first n blocks of bs. *)
Merges(bs, f) ==
    /\ f[0] = <<>>
    /\ \A n \in 1 .. Len(bs) : f[n] = Joined(f[n - 1], bs[n])

(* d is a list that has the first n blocks of bs, merged. *)
MergedTo(bs, up, n, d) ==
    /\ d \in Seq(emb_data)
    /\ \E at : Chain(d, at) /\ at[Len(d)] = up[n]
    /\ n > 0 => d # <<>>
    /\ \A i \in 1 .. n : ~ IsFree(bs[i]) => \E j \in DOMAIN d : d[j] = bs[i]
    /\ \A j \in DOMAIN d : ~ IsFree(d[j]) => \E i \in 1 .. n : bs[i] = d[j]

(* Before the first block. *)
LEMMA MergeNone ==
  ASSUME NEW bs, NEW up, Chain(bs, up)
  PROVE  MergedTo(bs, up, 0, <<>>)
<1>1. PICK d : d = <<>>
  OBVIOUS
<1>2. d \in Seq(emb_data) /\ Len(d) = 0 /\ DOMAIN d = {}
  BY <1>1
<1>3. PICK at : at = [i \in {0} |-> 0]
  OBVIOUS
<1>4. Adds(d, at) /\ at[0] = 0
  BY <1>2, <1>3 DEF Adds
<1>5. Chain(d, at)
  BY <1>2, <1>4 DEF Chain, FreeUnlocked, OneBlockEach, StartsWithin
<1>6. up[0] = 0
  BY DEF Chain, Adds
<1>. QED BY ONLY <1>1, <1>2, <1>4, <1>5, <1>6 DEF MergedTo

(* One block more. *)
LEMMA MergeOne ==
  ASSUME NEW bs, NEW up, Chain(bs, up), NEW m \in 0 .. Len(bs) - 1,
         NEW d, MergedTo(bs, up, m, d)
  PROVE  MergedTo(bs, up, m + 1, Joined(d, bs[m + 1]))
<1>1. /\ bs \in Seq(emb_data) /\ FreeUnlocked(bs) /\ OneBlockEach(bs)
      /\ Adds(bs, up) /\ StartsWithin(bs, up)
  BY DEF Chain
<1>2. PICK at : Chain(d, at) /\ at[Len(d)] = up[m]
  BY DEF MergedTo
<1>3. PICK b : b = bs[m + 1]
  OBVIOUS
<1>4. m \in Nat /\ m + 1 \in 1 .. Len(bs) /\ DOMAIN bs = 1 .. Len(bs) /\ m + 1 - 1 = m
  BY <1>1
<1>5. b \in emb_data
  BY <1>1, <1>3, <1>4, Fields
<1>6. b.offset <= at[Len(d)]
  BY <1>1, <1>2, <1>3, <1>4 DEF StartsWithin
<1>7. ~ IsFree(b) => \A j \in DOMAIN d : d[j].handle # b.handle
  <2>1. SUFFICES ASSUME ~ IsFree(b), NEW j \in DOMAIN d, d[j].handle = b.handle
                 PROVE  FALSE
    OBVIOUS
  <2>2. ~ IsFree(d[j])
    BY <2>1 DEF IsFree
  <2>3. PICK i \in 1 .. m : bs[i] = d[j]
    BY <2>1, <2>2 DEF MergedTo
  <2>4. i \in DOMAIN bs /\ m + 1 \in DOMAIN bs /\ i # m + 1
    BY <1>4
  <2>5. bs[i].handle = bs[m + 1].handle
    BY <2>1, <2>3, <1>3
  <2>6. ~ IsFree(bs[i])
    BY <2>2, <2>3
  <2>. QED BY <2>4, <2>5, <2>6, <1>1 DEF OneBlockEach
<1>8. Follows(d, at, b)
  BY <1>1, <1>3, <1>4, <1>5, <1>6, <1>7 DEF Follows, FreeUnlocked
<1>9. PICK e, au : /\ e = Joined(d, b) /\ Chain(e, au) /\ e # <<>>
                   /\ au[Len(e)] = at[Len(d)] + b.size /\ Gains(d, e, b)
  BY <1>2, <1>8, JoinedChain
<1>10. up[m + 1] = up[m] + b.size
  BY <1>1, <1>3, <1>4 DEF Adds
<1>11. e \in Seq(emb_data) /\ au[Len(e)] = up[m + 1]
  BY <1>2, <1>9, <1>10 DEF Chain
<1>12. ASSUME NEW i \in 1 .. m + 1, ~ IsFree(bs[i])
       PROVE  \E k \in DOMAIN e : e[k] = bs[i]
  <2>1. CASE i = m + 1
    BY <1>3, <1>9, <1>12, <2>1 DEF Gains
  <2>2. CASE i \in 1 .. m
    <3>1. PICK j \in DOMAIN d : d[j] = bs[i]
      BY <1>12, <2>2 DEF MergedTo
    <3>. QED BY <3>1, <1>9, <1>12 DEF Gains
  <2>. QED BY <2>1, <2>2, <1>4
<1>13. ASSUME NEW k \in DOMAIN e, ~ IsFree(e[k])
       PROVE  \E i \in 1 .. m + 1 : bs[i] = e[k]
  <2>1. CASE e[k] = b
    BY <2>1, <1>3, <1>4
  <2>2. CASE \E j \in DOMAIN d : d[j] = e[k]
    <3>1. PICK j \in DOMAIN d : d[j] = e[k]
      BY <2>2
    <3>2. PICK i \in 1 .. m : bs[i] = d[j]
      BY <1>13, <3>1 DEF MergedTo
    <3>. QED BY <3>1, <3>2, <1>4
  <2>. QED BY <2>1, <2>2, <1>9, <1>13 DEF Gains
<1>. QED BY <1>3, <1>9, <1>11, <1>12, <1>13 DEF MergedTo

(* The recursion of merge_free_region. *)
LEMMA MergesExist ==
  ASSUME NEW bs, NEW up, Chain(bs, up)
  PROVE  \E d : d = merge_free_region(bs) /\ MergedTo(bs, up, Len(bs), d)
<1>. DEFINE Up(f, m) == f = [n \in 0 .. m |->
                              IF n = 0 THEN <<>> ELSE Joined(f[n - 1], bs[n])]
            T == {m \in Nat : m <= Len(bs) => \E f : Up(f, m)}
<1>1. bs \in Seq(emb_data) /\ Len(bs) \in Nat
  BY DEF Chain
<1>2. 0 \in T
  <2>1. Up([n \in 0 .. 0 |-> <<>>], 0)
    OBVIOUS
  <2>. QED BY <2>1
<1>3. ASSUME NEW m \in T PROVE m + 1 \in T
  <2>1. SUFFICES ASSUME m + 1 <= Len(bs) PROVE \E f : Up(f, m + 1)
    <3>. HIDE DEF Up
    <3>. QED OBVIOUS
  <2>2. PICK f : Up(f, m)
    BY <1>1, <2>1
  <2>3. PICK g : g = [n \in 0 .. m + 1 |->
                        IF n = m + 1 THEN Joined(f[m], bs[m + 1]) ELSE f[n]]
    OBVIOUS
  <2>4. ASSUME NEW n \in 0 .. m + 1
        PROVE  g[n] = IF n = 0 THEN <<>> ELSE Joined(g[n - 1], bs[n])
    <3>1. n <= m => f[n] = IF n = 0 THEN <<>> ELSE Joined(f[n - 1], bs[n])
      BY <2>2
    <3>2. CASE n <= m
      <4>1. g[n] = f[n] /\ (n # 0 => g[n - 1] = f[n - 1])
        BY <3>2, <2>3
      <4>. QED BY <3>1, <3>2, <4>1
    <3>3. CASE n = m + 1
      <4>1. g[n] = Joined(f[m], bs[n]) /\ g[m] = f[m]
        BY <3>3, <2>3
      <4>2. n - 1 = m /\ n # 0
        BY <3>3
      <4>. QED BY <4>1, <4>2
    <3>. QED BY <3>2, <3>3
  <2>5. g = [n \in 0 .. m + 1 |-> g[n]]
    BY <2>3
  <2>6. Up(g, m + 1)
    BY <2>4, <2>5
  <2>. QED BY <2>6
<1>4. PICK g : Up(g, Len(bs)) /\ merge_free_region(bs) = g[Len(bs)]
  <2>1. T = Nat
    BY <1>2, <1>3, NatSetInduction
  <2>2. Len(bs) \in T
    <3>. HIDE DEF T
    <3>. QED BY <2>1, <1>1
  <2>3. PICK f : Up(f, Len(bs))
    BY <2>2, <1>1
  <2>4. Up(CHOOSE g : Up(g, Len(bs)), Len(bs))
    <3>. HIDE DEF Up
    <3>. QED BY <2>3
  <2>5. merge_free_region(bs) = (CHOOSE g : Up(g, Len(bs)))[Len(bs)]
    BY DEF merge_free_region
  <2>. QED BY <2>4, <2>5
<1>5. g[0] = <<>> /\ \A n \in 1 .. Len(bs) : g[n] = Joined(g[n - 1], bs[n])
  BY <1>1, <1>4
<1>. DEFINE S == {m \in Nat : m <= Len(bs) => MergedTo(bs, up, m, g[m])}
<1>6. 0 \in S
  BY <1>5, MergeNone
<1>7. ASSUME NEW m \in S PROVE m + 1 \in S
  <2>1. SUFFICES ASSUME m + 1 <= Len(bs) PROVE MergedTo(bs, up, m + 1, g[m + 1])
    OBVIOUS
  <2>2. m \in 0 .. Len(bs) - 1 /\ m + 1 \in 1 .. Len(bs) /\ m + 1 - 1 = m
    BY <1>1, <2>1
  <2>3. MergedTo(bs, up, m, g[m])
    BY <1>1, <2>1
  <2>4. MergedTo(bs, up, m + 1, Joined(g[m], bs[m + 1]))
    BY <2>2, <2>3, MergeOne
  <2>. QED BY <2>2, <2>4, <1>5
<1>8. S = Nat
  BY <1>6, <1>7, NatSetInduction
<1>9. Len(bs) \in S
  <2>. HIDE DEF S
  <2>. QED BY <1>1, <1>8
<1>10. MergedTo(bs, up, Len(bs), g[Len(bs)])
  BY <1>1, <1>9
<1>. QED BY <1>4, <1>10

(* Merging keeps the list whole and every block in use as it is. *)
LEMMA MergedWhole ==
  ASSUME NEW bs, NEW up, Whole(bs, up)
  PROVE  \E cs, at : /\ cs = merge_free_region(bs)
                     /\ Whole(cs, at) /\ SameBut(bs, cs, 0)
<1>1. Chain(bs, up) /\ bs \in Seq(emb_data) /\ bs # <<>> /\ up[Len(bs)] = TotalKb
  BY DEF Whole, Chain
<1>2. PICK cs : cs = merge_free_region(bs) /\ MergedTo(bs, up, Len(bs), cs)
  BY <1>1, MergesExist
<1>3. Len(bs) > 0 /\ DOMAIN bs = 1 .. Len(bs)
  BY <1>1
<1>4. PICK at : Chain(cs, at) /\ at[Len(cs)] = up[Len(bs)]
  BY <1>2 DEF MergedTo
<1>5. Whole(cs, at)
  BY <1>1, <1>2, <1>3, <1>4 DEF Whole, MergedTo
<1>6. SameBut(bs, cs, 0)
  BY <1>2, <1>3 DEF SameBut, MergedTo
<1>. QED BY <1>2, <1>5, <1>6
--------------------------------------------------------------------------------
(* Changing the list.                                                      *)

(* Block b can take the place of block i of bs. *)
Replaces(bs, i, b) ==
    /\ i \in 1 .. Len(bs)
    /\ b \in emb_data
    /\ b.size = bs[i].size
    /\ b.offset = bs[i].offset
    /\ IsFree(b) => b.locked = 0
    /\ ~ IsFree(b) => \A j \in 1 .. Len(bs) : bs[j].handle = b.handle => j = i

(* A block whose handle or lock count changes. *)
LEMMA ReplacedWhole ==
  ASSUME NEW bs, NEW at, Whole(bs, at), NEW i, NEW b, Replaces(bs, i, b)
  PROVE  \E cs : /\ cs = [bs EXCEPT ![i] = b]
                 /\ Whole(cs, at) /\ Len(cs) = Len(bs) /\ cs[i] = b
                 /\ \A j \in 1 .. Len(bs) : j # i => cs[j] = bs[j]
<1>1. /\ bs \in Seq(emb_data) /\ FreeUnlocked(bs) /\ OneBlockEach(bs)
      /\ Adds(bs, at) /\ StartsWithin(bs, at) /\ bs # <<>> /\ at[Len(bs)] = TotalKb
  BY DEF Whole, Chain
<1>2. PICK n \in Nat : n = Len(bs)
  BY <1>1
<1>3. /\ i \in 1 .. n /\ b \in emb_data
      /\ b.size = bs[i].size /\ b.offset = bs[i].offset
  BY <1>2 DEF Replaces
<1>4. PICK cs : cs = [bs EXCEPT ![i] = b]
  OBVIOUS
<1>5. /\ cs \in Seq(emb_data) /\ Len(cs) = n /\ DOMAIN cs = 1 .. n /\ DOMAIN bs = 1 .. n
      /\ cs[i] = b /\ \A j \in 1 .. n : j # i => cs[j] = bs[j]
  BY <1>1, <1>2, <1>3, <1>4
<1>6. \A j \in 1 .. n : cs[j].size = bs[j].size /\ cs[j].offset = bs[j].offset
  BY <1>3, <1>5
<1>7. Adds(cs, at) /\ StartsWithin(cs, at)
  BY <1>1, <1>2, <1>5, <1>6 DEF Adds, StartsWithin
<1>8. FreeUnlocked(cs)
  BY <1>1, <1>5 DEF FreeUnlocked, Replaces
<1>9. OneBlockEach(cs)
  <2>1. ~ IsFree(b) => \A j \in 1 .. n : bs[j].handle = b.handle => j = i
    BY <1>2 DEF Replaces
  <2>2. ASSUME NEW j \in 1 .. n, NEW k \in 1 .. n,
               ~ IsFree(cs[j]), cs[j].handle = cs[k].handle
        PROVE  j = k
    <3>1. CASE j = i /\ k # i
      BY <2>1, <2>2, <3>1, <1>5
    <3>2. CASE j # i /\ k = i
      <4>1. ~ IsFree(b) /\ bs[j].handle = b.handle
        BY <2>2, <3>2, <1>5 DEF IsFree
      <4>. QED BY <4>1, <2>1, <3>2
    <3>3. CASE j # i /\ k # i
      BY <2>2, <3>3, <1>1, <1>5 DEF OneBlockEach
    <3>. QED BY <3>1, <3>2, <3>3
  <2>. QED BY <2>2, <1>5 DEF OneBlockEach
<1>10. cs # <<>> /\ at[Len(cs)] = TotalKb
  BY <1>1, <1>2, <1>3, <1>5
<1>. QED BY <1>2, <1>4, <1>5, <1>7, <1>8, <1>9, <1>10 DEF Whole, Chain

(* Block b is what is left in front when block a is cut to kb. *)
Cuts(a, kb, b) ==
    /\ kb \in Nat /\ kb <= a.size
    /\ b = [size |-> kb, offset |-> a.offset, locked |-> a.locked, handle |-> a.handle]

(* A block with another size. *)
LEMMA CutBlock ==
  ASSUME NEW a \in emb_data, NEW kb
  PROVE  [a EXCEPT !.size = kb] = [size |-> kb, offset |-> a.offset,
                                   locked |-> a.locked, handle |-> a.handle]
BY DEF emb_data

(* Split, block by block. *)
SplitInto(bs, i, kb, b, cs) ==
    \E n \in Nat :
        /\ n = Len(bs)
        /\ cs \in Seq(emb_data) /\ Len(cs) = n + 1
        /\ \A j \in 1 .. n + 1 :
              cs[j] = IF j < i THEN bs[j]
                      ELSE IF j = i THEN b
                      ELSE IF j = i + 1
                      THEN [size |-> bs[i].size - kb, offset |-> bs[i].offset + kb,
                            locked |-> 0, handle |-> 0]
                      ELSE bs[j - 1]

(* Split is what SplitInto says. *)
LEMMA SplitIs ==
  ASSUME NEW bs \in Seq(emb_data), NEW i \in 1 .. Len(bs), NEW kb, NEW b,
         Cuts(bs[i], kb, b), kb # bs[i].size
  PROVE  \E cs : cs = Split(bs, i, kb) /\ SplitInto(bs, i, kb, b, cs)
<1>1. PICK n \in Nat : n = Len(bs)
  OBVIOUS
<1>2. PICK a : a = bs[i]
  OBVIOUS
<1>3. /\ i \in 1 .. n /\ a \in emb_data /\ a.size \in Nat /\ a.offset \in Nat
      /\ a.locked \in 0 .. MaxLock /\ a.handle \in 0 .. MaxHandle
  BY <1>1, <1>2, Fields
<1>4. /\ kb \in Nat /\ kb <= a.size
      /\ b = [size |-> kb, offset |-> a.offset, locked |-> a.locked, handle |-> a.handle]
  BY <1>2 DEF Cuts
<1>5. b \in emb_data
  BY <1>3, <1>4 DEF emb_data
<1>6. b = [a EXCEPT !.size = kb]
  BY <1>3, <1>4, CutBlock
<1>7. PICK f : f = [size |-> a.size - kb, offset |-> a.offset + kb,
                    locked |-> 0, handle |-> 0]
  OBVIOUS
<1>8. f \in emb_data
  <2>1. a.size - kb \in Nat /\ a.offset + kb \in Nat
    BY <1>3, <1>4
  <2>2. 0 \in 0 .. MaxLock /\ 0 \in 0 .. MaxHandle
    BY XmsAssumption
  <2>. QED BY ONLY <2>1, <2>2, <1>7 DEF emb_data
<1>9. PICK ds : ds = [bs EXCEPT ![i] = b]
  OBVIOUS
<1>10. /\ ds \in Seq(emb_data) /\ Len(ds) = n
       /\ ds[i] = b /\ \A j \in 1 .. n : j # i => ds[j] = bs[j]
  BY <1>1, <1>3, <1>5, <1>9
<1>11. ds = [bs EXCEPT ![i].size = kb]
  BY <1>2, <1>3, <1>6, <1>9
<1>12. Split(bs, i, kb) = InsertAt(ds, i + 1, f)
  BY <1>2, <1>7, <1>11 DEF Split
<1>13. PICK front, back : front = SubSeq(ds, 1, i) /\ back = SubSeq(ds, i + 1, n)
  OBVIOUS
<1>14. /\ front \in Seq(emb_data) /\ Len(front) = i
       /\ \A j \in 1 .. i : front[j] = ds[j]
  BY <1>3, <1>10, <1>13
<1>15. /\ back \in Seq(emb_data) /\ Len(back) = n - i
       /\ \A j \in 1 .. n - i : back[j] = ds[j + i]
  <2>1. PICK k, l : k = i + 1 /\ l = n - i
    OBVIOUS
  <2>2. n \in Nat /\ k \in 1 .. n + 1 /\ l \in Nat /\ (n - k) + 1 = l /\ i \in Nat /\ i = k - 1
    BY <1>3, <2>1
  <2>3. back = SubSeq(ds, k, n) /\ ds \in Seq(emb_data) /\ Len(ds) = n
    BY <1>10, <1>13, <2>1
  <2>4. back \in Seq(emb_data) /\ Len(back) = (n - k) + 1
    BY ONLY <2>2, <2>3
  <2>5. ASSUME NEW j \in 1 .. l PROVE back[j] = ds[j + i]
    <3>1. back[j] = ds[(k + j) - 1] /\ (k + j) - 1 = j + i
      BY ONLY <2>2, <2>3, <2>4
    <3>. QED BY <3>1
  <2>. QED BY <2>1, <2>2, <2>4, <2>5
<1>16. PICK cs : cs = (front \o <<f>>) \o back
  OBVIOUS
<1>17. cs = Split(bs, i, kb)
  <2>1. (i + 1) - 1 = i
    BY <1>3
  <2>2. InsertAt(ds, i + 1, f)
          = SubSeq(ds, 1, (i + 1) - 1) \o <<f>> \o SubSeq(ds, i + 1, Len(ds))
    BY DEF InsertAt
  <2>3. InsertAt(ds, i + 1, f) = SubSeq(ds, 1, i) \o <<f>> \o SubSeq(ds, i + 1, n)
    BY <2>1, <2>2, <1>10, Zenon
  <2>. QED BY <2>3, <1>12, <1>13, <1>16, Zenon
<1>18. PICK fs : fs = front \o <<f>>
  OBVIOUS
<1>19. /\ fs \in Seq(emb_data) /\ Len(fs) = i + 1
       /\ fs[i + 1] = f /\ \A j \in 1 .. i : fs[j] = ds[j]
  BY <1>3, <1>8, <1>14, <1>18
<1>20. /\ cs \in Seq(emb_data) /\ Len(cs) = n + 1
       /\ \A j \in 1 .. i + 1 : cs[j] = fs[j]
       /\ \A j \in i + 2 .. n + 1 : cs[j] = back[j - (i + 1)]
  <2>1. cs = fs \o back
    BY <1>16, <1>18
  <2>2. PICK k \in Nat : k = i + 1 /\ k <= n + 1
    BY <1>3
  <2>3. PICK l \in Nat : l = n - i /\ k + l = n + 1
    BY <1>3, <2>2
  <2>4. /\ fs \in Seq(emb_data) /\ Len(fs) = k
        /\ back \in Seq(emb_data) /\ Len(back) = l
    BY <1>15, <1>19, <2>2, <2>3
  <2>5. /\ cs \in Seq(emb_data) /\ Len(cs) = k + l
        /\ \A j \in 1 .. k : cs[j] = fs[j]
        /\ \A j \in k + 1 .. k + l : cs[j] = back[j - k]
    BY ONLY <2>1, <2>4, k \in Nat, l \in Nat
  <2>6. i + 2 = k + 1
    BY <1>3, <2>2
  <2>. QED BY <2>2, <2>3, <2>5, <2>6
<1>21. ASSUME NEW j \in 1 .. n + 1
       PROVE  cs[j] = IF j < i THEN bs[j] ELSE IF j = i THEN b
                      ELSE IF j = i + 1 THEN f ELSE bs[j - 1]
  <2>1. CASE j <= i
    BY <2>1, <1>3, <1>10, <1>19, <1>20
  <2>2. CASE j = i + 1
    BY <2>2, <1>3, <1>19, <1>20
  <2>3. CASE j > i + 1
    <3>1. j - (i + 1) \in 1 .. n - i /\ (j - (i + 1)) + i = j - 1
      BY <2>3, <1>3
    <3>2. cs[j] = ds[j - 1]
      <4>1. PICK q : q = j - (i + 1)
        OBVIOUS
      <4>2. q \in 1 .. n - i /\ q + i = j - 1
        BY <3>1, <4>1
      <4>3. back[q] = ds[j - 1]
        BY ONLY <4>2, <1>15
      <4>4. cs[j] = back[q]
        <5>1. PICK p : p = i + 1
          OBVIOUS
        <5>2. j \in p + 1 .. n + 1 /\ q = j - p /\ p \in Nat /\ i + 2 = p + 1
          BY <2>3, <4>1, <1>3, <5>1
        <5>3. \A m \in i + 2 .. n + 1 : cs[m] = back[m - (i + 1)]
          BY <1>20
        <5>. QED BY ONLY <5>1, <5>2, <5>3
      <4>. QED BY ONLY <4>3, <4>4
    <3>. QED BY <2>3, <3>2, <1>3, <1>10
  <2>. QED BY <2>1, <2>2, <2>3, <1>3
<1>22. SplitInto(bs, i, kb, b, cs)
  BY <1>1, <1>2, <1>7, <1>20, <1>21 DEF SplitInto
<1>. QED BY <1>17, <1>22
(* A list with a block split in two. *)
LEMMA SplitWhole ==
  ASSUME NEW bs, NEW at, Whole(bs, at), NEW i \in 1 .. Len(bs), NEW kb, NEW b,
         Cuts(bs[i], kb, b)
  PROVE  \E cs, au : /\ cs = Split(bs, i, kb) /\ Whole(cs, au)
                     /\ i \in DOMAIN cs /\ cs[i] = b
                     /\ SameBut(bs, cs, bs[i].handle)
<1>1. /\ bs \in Seq(emb_data) /\ FreeUnlocked(bs) /\ OneBlockEach(bs)
      /\ Adds(bs, at) /\ StartsWithin(bs, at) /\ bs # <<>> /\ at[Len(bs)] = TotalKb
  BY DEF Whole, Chain
<1>2. PICK a : a = bs[i]
  OBVIOUS
<1>3. /\ a \in emb_data /\ a.size \in Nat /\ a.offset \in Nat
      /\ a.locked \in 0 .. MaxLock /\ a.handle \in 0 .. MaxHandle
  BY <1>1, <1>2, Fields
<1>4. /\ kb \in Nat /\ kb <= a.size
      /\ b = [size |-> kb, offset |-> a.offset, locked |-> a.locked, handle |-> a.handle]
  BY <1>2 DEF Cuts
<1>5. ASSUME kb = a.size
      PROVE  \E cs, au : /\ cs = Split(bs, i, kb) /\ Whole(cs, au)
                         /\ i \in DOMAIN cs /\ cs[i] = b
                         /\ SameBut(bs, cs, bs[i].handle)
  <2>1. a = b
    BY <1>3, <1>4, <1>5 DEF emb_data
  <2>2. Split(bs, i, kb) = bs
    BY <1>2, <1>5 DEF Split
  <2>3. SameBut(bs, bs, bs[i].handle)
    BY DEF SameBut
  <2>4. i \in DOMAIN bs
    BY <1>1
  <2>. QED BY <2>1, <2>2, <2>3, <2>4, <1>2
<1>6. ASSUME kb # a.size
      PROVE  \E cs, au : /\ cs = Split(bs, i, kb) /\ Whole(cs, au)
                         /\ i \in DOMAIN cs /\ cs[i] = b
                         /\ SameBut(bs, cs, bs[i].handle)
  <2>0. PICK cs : cs = Split(bs, i, kb) /\ SplitInto(bs, i, kb, b, cs)
    <3>1. kb # bs[i].size
      BY <1>2, <1>6
    <3>. QED BY <3>1, <1>1, SplitIs
  <2>1. PICK n \in Nat : /\ n = Len(bs)
                         /\ cs \in Seq(emb_data) /\ Len(cs) = n + 1
                         /\ \A j \in 1 .. n + 1 :
                              cs[j] = IF j < i THEN bs[j]
                                      ELSE IF j = i THEN b
                                      ELSE IF j = i + 1
                                      THEN [size |-> bs[i].size - kb,
                                            offset |-> bs[i].offset + kb,
                                            locked |-> 0, handle |-> 0]
                                      ELSE bs[j - 1]
    BY <2>0 DEF SplitInto
  <2>2. PICK f : f = [size |-> a.size - kb, offset |-> a.offset + kb,
                      locked |-> 0, handle |-> 0]
    OBVIOUS
  <2>3. f.size = a.size - kb /\ f.offset = a.offset + kb /\ f.locked = 0 /\ f.handle = 0
    BY <2>2
  <2>4. b.size = kb /\ b.offset = a.offset /\ b.locked = a.locked /\ b.handle = a.handle
    BY <1>4
  <2>5. n \in Nat /\ i \in 1 .. n /\ DOMAIN bs = 1 .. n /\ DOMAIN cs = 1 .. n + 1
    BY <1>1, <2>1
  <2>6. /\ \A j \in 1 .. n + 1 : j < i => cs[j] = bs[j]
        /\ cs[i] = b /\ cs[i + 1] = f
        /\ \A j \in 1 .. n + 1 : j > i + 1 => cs[j] = bs[j - 1]
    <3>1. \A j \in 1 .. n + 1 :
             cs[j] = IF j < i THEN bs[j] ELSE IF j = i THEN b
                     ELSE IF j = i + 1 THEN f ELSE bs[j - 1]
      BY <1>2, <2>1, <2>2
    <3>. QED BY <2>5, <3>1
  <2>7. /\ at \in [0 .. n -> Nat] /\ at[0] = 0
        /\ \A j \in 1 .. n : at[j] = at[j - 1] + bs[j].size
        /\ at[n] = TotalKb
    BY <1>1, <2>1 DEF Adds
  <2>8. PICK au : au = [m \in 0 .. n + 1 |-> IF m < i THEN at[m]
                                            ELSE IF m = i THEN at[i - 1] + kb
                                            ELSE at[m - 1]]
    OBVIOUS
  <2>9. /\ \A m \in 0 .. n + 1 : m < i => au[m] = at[m]
        /\ au[i] = at[i - 1] + kb
        /\ \A m \in 0 .. n + 1 : m > i => au[m] = at[m - 1]
    BY <2>5, <2>8
  <2>10. au \in [0 .. n + 1 -> Nat]
    <3>1. at[i - 1] + kb \in Nat
      BY <1>4, <2>5, <2>7
    <3>2. \A m \in 0 .. n + 1 : m < i => at[m] \in Nat
      BY <2>5, <2>7
    <3>3. \A m \in 0 .. n + 1 : m > i => at[m - 1] \in Nat
      BY <2>5, <2>7
    <3>. QED BY <3>1, <3>2, <3>3, <2>5, <2>8
  <2>11. Adds(cs, au)
    <3>1. au[0] = 0
      <4>1. 0 \in 0 .. n + 1 /\ 0 < i
        BY <2>5
      <4>2. au[0] = at[0]
        BY <4>1, <2>9
      <4>. QED BY <4>2, <2>7
    <3>2. ASSUME NEW j \in 1 .. n + 1 PROVE au[j] = au[j - 1] + cs[j].size
      <4>1. CASE j < i
        <5>1. au[j] = at[j] /\ au[j - 1] = at[j - 1] /\ cs[j] = bs[j]
          BY <4>1, <2>5, <2>6, <2>9
        <5>2. j \in 1 .. n
          BY <4>1, <2>5
        <5>3. at[j] = at[j - 1] + bs[j].size
          BY <5>2, <2>7
        <5>. QED BY <5>1, <5>3
      <4>2. CASE j = i
        <5>1. au[j] = at[i - 1] + kb /\ au[j - 1] = at[i - 1] /\ cs[j].size = kb
          BY <4>2, <2>4, <2>5, <2>6, <2>9
        <5>. QED BY <5>1
      <4>3. CASE j = i + 1
        <5>1. au[j] = at[i] /\ au[j - 1] = at[i - 1] + kb /\ cs[j].size = a.size - kb
          BY <4>3, <2>3, <2>5, <2>6, <2>9
        <5>2. at[i] = at[i - 1] + a.size /\ at[i - 1] \in Nat /\ at[i] \in Nat
          BY <1>2, <2>5, <2>7
        <5>3. a.size \in Nat /\ kb \in Nat
          BY <1>3, <1>4
        <5>. QED BY ONLY <5>1, <5>2, <5>3
      <4>4. CASE j > i + 1
        <5>1. PICK k : k = j - 1
          OBVIOUS
        <5>2. k \in 1 .. n /\ k > i
          BY <4>4, <5>1, <2>5
        <5>3. au[j] = at[k] /\ au[k] = at[k - 1] /\ cs[j] = bs[k]
          BY <4>4, <5>1, <5>2, <2>5, <2>6, <2>9
        <5>. QED BY <5>1, <5>2, <5>3, <2>7
      <4>. QED BY <4>1, <4>2, <4>3, <4>4, <2>5
    <3>. QED BY ONLY <3>1, <3>2, <2>1, <2>10 DEF Adds
  <2>12. StartsWithin(cs, au)
    <3>1. \A j \in 1 .. n : bs[j].offset <= at[j - 1]
      BY <1>1, <2>1 DEF StartsWithin
    <3>2. ASSUME NEW j \in 1 .. n + 1 PROVE cs[j].offset <= au[j - 1]
      <4>1. CASE j < i
        <5>1. au[j - 1] = at[j - 1] /\ cs[j] = bs[j] /\ j \in 1 .. n
          BY <4>1, <2>5, <2>6, <2>9
        <5>. QED BY <5>1, <3>1
      <4>2. CASE j = i
        <5>1. au[j - 1] = at[i - 1] /\ cs[j].offset = bs[i].offset
          BY <4>2, <1>2, <2>4, <2>5, <2>6, <2>9
        <5>. QED BY <4>2, <5>1, <3>1, <2>5
      <4>3. CASE j = i + 1
        <5>1. au[j - 1] = at[i - 1] + kb /\ cs[j].offset = bs[i].offset + kb
          BY <4>3, <1>2, <2>3, <2>5, <2>6, <2>9
        <5>2. bs[i].offset <= at[i - 1] /\ at[i - 1] \in Nat /\ bs[i].offset \in Nat
          BY <1>2, <1>3, <2>5, <2>7, <3>1
        <5>. QED BY <5>1, <5>2, <1>4
      <4>4. CASE j > i + 1
        <5>1. PICK k : k = j - 1
          OBVIOUS
        <5>2. k \in 1 .. n /\ k > i
          BY <4>4, <5>1, <2>5
        <5>3. au[k] = at[k - 1] /\ cs[j] = bs[k]
          BY <4>4, <5>1, <5>2, <2>5, <2>6, <2>9
        <5>. QED BY <5>1, <5>2, <5>3, <3>1
      <4>. QED BY <4>1, <4>2, <4>3, <4>4, <2>5
    <3>. QED BY <3>2, <2>1 DEF StartsWithin
  <2>13. ASSUME NEW j \in 1 .. n + 1, j # i + 1
         PROVE  \E p \in 1 .. n : /\ j = IF p <= i THEN p ELSE p + 1
                                  /\ p # i => cs[j] = bs[p]
                                  /\ cs[j].handle = bs[p].handle
                                  /\ cs[j].locked = bs[p].locked
    <3>1. CASE j < i
      BY <3>1, <2>5, <2>6
    <3>2. CASE j = i
      BY <3>2, <1>2, <2>4, <2>5, <2>6
    <3>3. CASE j > i + 1
      <4>1. PICK p : p = j - 1
        OBVIOUS
      <4>2. p \in 1 .. n /\ p > i /\ j = p + 1
        BY <3>3, <4>1, <2>5
      <4>3. cs[j] = bs[p]
        BY <3>3, <4>1, <2>6
      <4>. QED BY <4>2, <4>3, <2>5
    <3>. QED BY <2>13, <3>1, <3>2, <3>3, <2>5
  <2>14. FreeUnlocked(cs)
    <3>1. ASSUME NEW j \in 1 .. n + 1, IsFree(cs[j]) PROVE cs[j].locked = 0
      <4>1. CASE j = i + 1
        BY <4>1, <2>3, <2>6
      <4>2. CASE j # i + 1
        <5>1. PICK p \in 1 .. n : /\ cs[j].handle = bs[p].handle
                                  /\ cs[j].locked = bs[p].locked
          BY <4>2, <2>13
        <5>. QED BY <3>1, <5>1, <1>1, <2>5 DEF FreeUnlocked, IsFree
      <4>. QED BY <4>1, <4>2
    <3>. QED BY <3>1, <2>5 DEF FreeUnlocked
  <2>15. OneBlockEach(cs)
    <3>1. ASSUME NEW j \in 1 .. n + 1, NEW k \in 1 .. n + 1,
                 ~ IsFree(cs[j]), cs[j].handle = cs[k].handle
          PROVE  j = k
      <4>1. j # i + 1 /\ k # i + 1
        BY <3>1, <2>3, <2>6 DEF IsFree
      <4>2. PICK p \in 1 .. n : /\ j = IF p <= i THEN p ELSE p + 1
                                /\ cs[j].handle = bs[p].handle
        BY <4>1, <2>13
      <4>3. PICK q \in 1 .. n : /\ k = IF q <= i THEN q ELSE q + 1
                                /\ cs[k].handle = bs[q].handle
        BY <4>1, <2>13
      <4>4. p = q
        BY <3>1, <4>2, <4>3, <1>1, <2>5 DEF OneBlockEach, IsFree
      <4>. QED BY <4>2, <4>3, <4>4
    <3>. QED BY <3>1, <2>5 DEF OneBlockEach
  <2>16. SameBut(bs, cs, bs[i].handle)
    <3>1. ASSUME NEW p \in 1 .. n, p # i
          PROVE  \E j \in 1 .. n + 1 : cs[j] = bs[p]
      <4>1. CASE p < i
        BY <4>1, <2>5, <2>6
      <4>2. CASE p > i
        <5>1. p + 1 \in 1 .. n + 1 /\ p + 1 > i + 1 /\ (p + 1) - 1 = p
          BY <4>2, <2>5
        <5>. QED BY <5>1, <2>6
      <4>. QED BY <3>1, <4>1, <4>2, <2>5
    <3>2. ASSUME NEW j \in 1 .. n + 1, ~ IsFree(cs[j]), cs[j].handle # bs[i].handle
          PROVE  \E p \in 1 .. n : bs[p] = cs[j]
      <4>1. j # i + 1
        BY <3>2, <2>3, <2>6 DEF IsFree
      <4>2. PICK p \in 1 .. n : /\ p # i => cs[j] = bs[p]
                                /\ cs[j].handle = bs[p].handle
        BY <4>1, <2>13
      <4>. QED BY <3>2, <4>2
    <3>. QED BY <3>1, <3>2, <2>5 DEF SameBut
  <2>17. cs # <<>> /\ au[Len(cs)] = TotalKb
    <3>1. au[n + 1] = at[n] /\ n + 1 # 0
      BY <2>5, <2>9
    <3>. QED BY <3>1, <2>1, <2>7
  <2>18. Whole(cs, au)
    BY <2>1, <2>11, <2>12, <2>14, <2>15, <2>17 DEF Whole, Chain
  <2>19. i \in DOMAIN cs /\ cs[i] = b
    BY <2>5, <2>6
  <2>. QED BY <2>0, <2>16, <2>18, <2>19
<1>. QED BY <1>5, <1>6
(* Block i, in front of a free block, is to become b, which has kb. *)
GrowsTo(bs, i, kb, b) ==
    /\ i \in 1 .. Len(bs) - 1
    /\ IsFree(bs[i + 1])
    /\ kb \in Nat
    /\ b = [size |-> kb, offset |-> bs[i].offset,
            locked |-> bs[i].locked, handle |-> bs[i].handle]

(* A block that grows into a part of the free block behind it. *)
LEMMA GrownIntoWhole ==
  ASSUME NEW bs, NEW at, Whole(bs, at), NEW i, NEW kb, NEW b,
         GrowsTo(bs, i, kb, b), bs[i].size < kb, Room(bs, i) > kb
  PROVE  \E cs, au : /\ cs = [bs EXCEPT ![i].size = kb,
                                        ![i + 1].size = Room(bs, i) - kb]
                     /\ Whole(cs, au)
                     /\ i \in DOMAIN cs /\ cs[i] = b
                     /\ SameBut(bs, cs, bs[i].handle)
<1>1. /\ bs \in Seq(emb_data) /\ FreeUnlocked(bs) /\ OneBlockEach(bs)
      /\ Adds(bs, at) /\ StartsWithin(bs, at) /\ bs # <<>> /\ at[Len(bs)] = TotalKb
  BY DEF Whole, Chain
<1>2. PICK n \in Nat : n = Len(bs)
  BY <1>1
<1>3. PICK k : k = i + 1
  OBVIOUS
<1>4. /\ n \in Nat /\ i \in 1 .. n /\ k \in 1 .. n /\ i < n /\ k = i + 1 /\ i # k
      /\ IsFree(bs[k]) /\ kb \in Nat
      /\ b = [size |-> kb, offset |-> bs[i].offset,
              locked |-> bs[i].locked, handle |-> bs[i].handle]
  BY <1>2, <1>3 DEF GrowsTo
<1>5. PICK a, c : a = bs[i] /\ c = bs[k]
  OBVIOUS
<1>6. /\ a \in emb_data /\ a.size \in Nat /\ a.offset \in Nat
      /\ a.locked \in 0 .. MaxLock /\ a.handle \in 0 .. MaxHandle
      /\ c \in emb_data /\ c.size \in Nat /\ c.offset \in Nat
      /\ c.locked \in 0 .. MaxLock /\ c.handle \in 0 .. MaxHandle
  BY <1>1, <1>2, <1>4, <1>5, Fields
<1>7. Room(bs, i) = a.size + c.size
  BY <1>2, <1>4, <1>5 DEF Room
<1>8. PICK rest : rest = Room(bs, i) - kb
  OBVIOUS
<1>9. rest \in Nat /\ kb + rest = a.size + c.size /\ rest <= c.size
  BY <1>4, <1>5, <1>6, <1>7, <1>8
<1>10. PICK d : d = [size |-> rest, offset |-> c.offset,
                     locked |-> c.locked, handle |-> c.handle]
  OBVIOUS
<1>11. /\ b \in emb_data /\ b.size = kb /\ b.offset = a.offset
       /\ b.locked = a.locked /\ b.handle = a.handle
  BY <1>4, <1>5, <1>6 DEF emb_data
<1>12. /\ d \in emb_data /\ d.size = rest /\ d.offset = c.offset
       /\ d.locked = c.locked /\ d.handle = c.handle
  BY <1>6, <1>9, <1>10 DEF emb_data
<1>13. b = [a EXCEPT !.size = kb] /\ d = [c EXCEPT !.size = rest]
  <2>1. b = [size |-> kb, offset |-> a.offset, locked |-> a.locked, handle |-> a.handle]
    BY <1>4, <1>5
  <2>. QED BY <2>1, <1>6, <1>10, CutBlock
<1>14. PICK ds : ds = [bs EXCEPT ![i] = b]
  OBVIOUS
<1>15. /\ ds \in Seq(emb_data) /\ Len(ds) = n
       /\ ds[i] = b /\ \A j \in 1 .. n : j # i => ds[j] = bs[j]
  BY <1>1, <1>2, <1>4, <1>11, <1>14
<1>16. PICK cs : cs = [ds EXCEPT ![k] = d]
  OBVIOUS
<1>17. /\ cs \in Seq(emb_data) /\ Len(cs) = n /\ DOMAIN cs = 1 .. n /\ DOMAIN bs = 1 .. n
       /\ cs[i] = b /\ cs[k] = d
       /\ \A j \in 1 .. n : j # i /\ j # k => cs[j] = bs[j]
  BY <1>1, <1>2, <1>4, <1>12, <1>15, <1>16
<1>18. cs = [bs EXCEPT ![i].size = kb, ![i + 1].size = Room(bs, i) - kb]
  <2>1. ds = [bs EXCEPT ![i].size = kb]
    BY <1>5, <1>13, <1>14
  <2>2. ds[k] = c
    BY <1>4, <1>5, <1>15
  <2>3. cs = [ds EXCEPT ![k].size = rest]
    BY <2>2, <1>13, <1>16
  <2>. QED BY <2>1, <2>3, <1>3, <1>8
<1>19. /\ at \in [0 .. n -> Nat] /\ at[0] = 0
       /\ \A j \in 1 .. n : at[j] = at[j - 1] + bs[j].size
       /\ at[n] = TotalKb
  BY <1>1, <1>2 DEF Adds
<1>20. /\ i - 1 \in 0 .. n /\ at[i - 1] \in Nat /\ at[i] = at[i - 1] + a.size
       /\ at[k] = at[i] + c.size /\ at[i] \in Nat /\ k - 1 = i /\ i \in 0 .. n
  <2>1. i - 1 \in 0 .. n /\ k - 1 = i /\ i \in 0 .. n
    BY <1>4
  <2>. QED BY <2>1, <1>4, <1>5, <1>19
<1>21. PICK au : au = [at EXCEPT ![i] = at[i - 1] + kb]
  OBVIOUS
<1>22. /\ au \in [0 .. n -> Nat] /\ au[i] = at[i - 1] + kb
       /\ \A j \in 0 .. n : j # i => au[j] = at[j]
  <2>1. PICK v : v = at[i - 1] + kb
    OBVIOUS
  <2>2. v \in Nat /\ i \in 0 .. n /\ at \in [0 .. n -> Nat] /\ au = [at EXCEPT ![i] = v]
    BY <1>4, <1>19, <1>20, <1>21, <2>1
  <2>3. /\ au \in [0 .. n -> Nat] /\ au[i] = v
        /\ \A j \in 0 .. n : j # i => au[j] = at[j]
    BY ONLY <2>2
  <2>. QED BY ONLY <2>1, <2>3
<1>23. Adds(cs, au)
  <2>1. au[0] = 0
    BY <1>4, <1>19, <1>22
  <2>2. ASSUME NEW j \in 1 .. n PROVE au[j] = au[j - 1] + cs[j].size
    <3>1. CASE j = i
      <4>1. au[j - 1] = at[i - 1]
        BY <3>1, <1>20, <1>22
      <4>. QED BY <3>1, <4>1, <1>11, <1>17, <1>22
    <3>2. CASE j = k
      <4>1. au[j] = at[k] /\ au[j - 1] = at[i - 1] + kb /\ cs[j].size = rest
        BY <3>2, <1>4, <1>12, <1>17, <1>20, <1>22
      <4>. QED BY <4>1, <1>4, <1>6, <1>9, <1>20
    <3>3. CASE j # i /\ j # k
      <4>1. j - 1 \in 0 .. n /\ j - 1 # i /\ j \in 0 .. n
        BY <3>3, <1>4
      <4>2. au[j] = at[j] /\ au[j - 1] = at[j - 1] /\ cs[j] = bs[j]
        BY <3>3, <4>1, <1>17, <1>22
      <4>. QED BY <4>2, <1>19
    <3>. QED BY <3>1, <3>2, <3>3
  <2>. QED BY ONLY <2>1, <2>2, <1>17, <1>22 DEF Adds
<1>24. StartsWithin(cs, au)
  <2>1. \A j \in 1 .. n : bs[j].offset <= at[j - 1]
    BY <1>1, <1>2 DEF StartsWithin
  <2>2. ASSUME NEW j \in 1 .. n PROVE cs[j].offset <= au[j - 1]
    <3>1. CASE j = i
      <4>1. au[j - 1] = at[j - 1] /\ cs[j].offset = bs[j].offset
        BY <3>1, <1>5, <1>11, <1>17, <1>20, <1>22
      <4>. QED BY <4>1, <2>1
    <3>2. CASE j = k
      <4>1. au[j - 1] = at[i - 1] + kb /\ cs[j].offset = bs[k].offset
        BY <3>2, <1>5, <1>12, <1>17, <1>20, <1>22
      <4>2. bs[k].offset <= at[i]
        BY <2>1, <1>4, <1>20
      <4>3. a.size <= kb
        BY <1>5, <1>6, <1>4
      <4>. QED BY <4>1, <4>2, <4>3, <1>4, <1>5, <1>6, <1>20
    <3>3. CASE j # i /\ j # k
      <4>1. j - 1 \in 0 .. n /\ j - 1 # i
        BY <3>3, <1>4
      <4>2. au[j - 1] = at[j - 1] /\ cs[j] = bs[j]
        BY <3>3, <4>1, <1>17, <1>22
      <4>. QED BY <4>2, <2>1
    <3>. QED BY <3>1, <3>2, <3>3
  <2>. QED BY <2>2, <1>17 DEF StartsWithin
<1>25. \A j \in 1 .. n : cs[j].handle = bs[j].handle /\ cs[j].locked = bs[j].locked
  BY <1>5, <1>11, <1>12, <1>17
<1>26. FreeUnlocked(cs) /\ OneBlockEach(cs)
  BY <1>1, <1>17, <1>25 DEF FreeUnlocked, OneBlockEach, IsFree
<1>27. SameBut(bs, cs, bs[i].handle)
  <2>1. ASSUME NEW j \in 1 .. n, ~ IsFree(bs[j]), bs[j].handle # bs[i].handle
        PROVE  cs[j] = bs[j]
    BY <2>1, <1>4, <1>17
  <2>2. ASSUME NEW j \in 1 .. n, ~ IsFree(cs[j]), cs[j].handle # bs[i].handle
        PROVE  bs[j] = cs[j]
    BY <2>2, <2>1, <1>25 DEF IsFree
  <2>. QED BY <2>1, <2>2, <1>17 DEF SameBut
<1>28. cs # <<>> /\ au[Len(cs)] = TotalKb
  BY <1>4, <1>17, <1>19, <1>22
<1>29. Whole(cs, au)
  BY <1>17, <1>23, <1>24, <1>26, <1>28 DEF Whole, Chain
<1>. QED BY <1>4, <1>17, <1>18, <1>27, <1>29

(* A block that takes all of the last block, which is free. *)
LEMMA GrownOverWhole ==
  ASSUME NEW bs, NEW at, Whole(bs, at), NEW i, NEW kb, NEW b,
         GrowsTo(bs, i, kb, b), Room(bs, i) = kb, i + 1 = Len(bs)
  PROVE  \E cs, au : /\ cs = [Front(bs) EXCEPT ![i].size = kb]
                     /\ Whole(cs, au)
                     /\ i \in DOMAIN cs /\ cs[i] = b
                     /\ SameBut(bs, cs, bs[i].handle)
<1>1. /\ bs \in Seq(emb_data) /\ FreeUnlocked(bs) /\ OneBlockEach(bs)
      /\ Adds(bs, at) /\ StartsWithin(bs, at) /\ bs # <<>> /\ at[Len(bs)] = TotalKb
  BY DEF Whole, Chain
<1>2. PICK n : n = i + 1
  OBVIOUS
<1>3. /\ n = Len(bs) /\ n \in Nat /\ i \in 1 .. n /\ n - 1 = i /\ i \in Nat \ {0}
      /\ DOMAIN bs = 1 .. n /\ IsFree(bs[n]) /\ kb \in Nat
      /\ b = [size |-> kb, offset |-> bs[i].offset,
              locked |-> bs[i].locked, handle |-> bs[i].handle]
  BY <1>1, <1>2 DEF GrowsTo
<1>4. PICK a, c : a = bs[i] /\ c = bs[n]
  OBVIOUS
<1>5. /\ a \in emb_data /\ a.size \in Nat /\ a.offset \in Nat
      /\ a.locked \in 0 .. MaxLock /\ a.handle \in 0 .. MaxHandle /\ c.size \in Nat
  <2>1. n \in 1 .. n
    BY <1>3
  <2>. QED BY <2>1, <1>1, <1>3, <1>4, Fields
<1>6. kb = a.size + c.size
  BY <1>2, <1>3, <1>4 DEF Room
<1>7. /\ b \in emb_data /\ b.size = kb /\ b.offset = a.offset
      /\ b.locked = a.locked /\ b.handle = a.handle
  BY <1>3, <1>4, <1>5 DEF emb_data
<1>8. b = [a EXCEPT !.size = kb]
  <2>1. b = [size |-> kb, offset |-> a.offset, locked |-> a.locked, handle |-> a.handle]
    BY <1>3, <1>4
  <2>. QED BY <2>1, <1>5, CutBlock
<1>9. PICK ds : ds = Front(bs)
  OBVIOUS
<1>10. /\ ds \in Seq(emb_data) /\ Len(ds) = i /\ DOMAIN ds = 1 .. i
       /\ \A j \in 1 .. i : ds[j] = bs[j]
  <2>1. ds = SubSeq(bs, 1, i)
    BY <1>3, <1>9 DEF Front
  <2>2. i <= Len(bs)
    BY <1>3
  <2>. QED BY <2>1, <2>2, <1>1, <1>3
<1>11. PICK cs : cs = [ds EXCEPT ![i] = b]
  OBVIOUS
<1>12. /\ cs \in Seq(emb_data) /\ Len(cs) = i /\ DOMAIN cs = 1 .. i
       /\ cs[i] = b /\ \A j \in 1 .. i : j # i => cs[j] = bs[j]
  BY <1>3, <1>7, <1>10, <1>11
<1>13. cs = [Front(bs) EXCEPT ![i].size = kb]
  <2>1. ds[i] = a
    BY <1>3, <1>4, <1>10
  <2>. QED BY <2>1, <1>8, <1>9, <1>11
<1>14. /\ at \in [0 .. n -> Nat] /\ at[0] = 0
       /\ \A j \in 1 .. n : at[j] = at[j - 1] + bs[j].size
       /\ at[n] = TotalKb
  BY <1>1, <1>3 DEF Adds
<1>15. /\ at[i - 1] \in Nat /\ at[i] = at[i - 1] + a.size /\ at[n] = at[i] + c.size
       /\ at[i] \in Nat
  <2>1. i - 1 \in 0 .. n /\ i \in 0 .. n /\ n \in 1 .. n
    BY <1>3
  <2>. QED BY <2>1, <1>3, <1>4, <1>14
<1>16. PICK au : au = [j \in 0 .. i |-> IF j = i THEN at[n] ELSE at[j]]
  OBVIOUS
<1>17. /\ au \in [0 .. i -> Nat] /\ au[i] = at[n]
       /\ \A j \in 0 .. i : j # i => au[j] = at[j]
  BY <1>3, <1>14, <1>16
<1>18. Adds(cs, au)
  <2>1. au[0] = 0
    BY <1>3, <1>14, <1>17
  <2>2. ASSUME NEW j \in 1 .. i PROVE au[j] = au[j - 1] + cs[j].size
    <3>1. j - 1 \in 0 .. i /\ j - 1 # i /\ j \in 1 .. n
      BY <1>3
    <3>2. au[j - 1] = at[j - 1]
      BY <3>1, <1>17
    <3>3. CASE j = i
      <4>1. au[j] = at[n] /\ cs[j].size = kb /\ au[j - 1] = at[i - 1]
        BY <3>2, <3>3, <1>7, <1>12, <1>17
      <4>2. at[n] = at[i - 1] + (a.size + c.size)
        BY <1>5, <1>15
      <4>. QED BY ONLY <4>1, <4>2, <1>6
    <3>4. CASE j # i
      <4>1. au[j] = at[j]
        BY <3>1, <3>4, <1>17
      <4>2. at[j] = at[j - 1] + bs[j].size
        BY <3>1, <1>14
      <4>. QED BY <3>2, <3>4, <4>1, <4>2, <1>12
    <3>. QED BY <3>3, <3>4
  <2>. QED BY ONLY <2>1, <2>2, <1>12, <1>17 DEF Adds
<1>19. StartsWithin(cs, au)
  <2>1. \A j \in 1 .. n : bs[j].offset <= at[j - 1]
    BY <1>1, <1>3 DEF StartsWithin
  <2>2. ASSUME NEW j \in 1 .. i PROVE cs[j].offset <= au[j - 1]
    <3>1. j - 1 \in 0 .. i /\ j - 1 # i /\ j \in 1 .. n
      BY <1>3
    <3>2. au[j - 1] = at[j - 1]
      BY <3>1, <1>17
    <3>3. cs[j].offset = bs[j].offset
      BY <1>4, <1>7, <1>12
    <3>. QED BY <2>1, <3>1, <3>2, <3>3
  <2>. QED BY <2>2, <1>12 DEF StartsWithin
<1>20. \A j \in 1 .. i : cs[j].handle = bs[j].handle /\ cs[j].locked = bs[j].locked
  BY <1>4, <1>7, <1>12
<1>21. \A j \in 1 .. i : j \in 1 .. n
  BY <1>3
<1>22. FreeUnlocked(cs) /\ OneBlockEach(cs)
  BY <1>1, <1>3, <1>12, <1>20, <1>21 DEF FreeUnlocked, OneBlockEach, IsFree
<1>23. SameBut(bs, cs, bs[i].handle)
  <2>1. ASSUME NEW j \in 1 .. n, ~ IsFree(bs[j]), bs[j].handle # bs[i].handle
        PROVE  j \in 1 .. i /\ cs[j] = bs[j]
    <3>1. j # n /\ j # i
      BY <2>1, <1>3
    <3>2. j \in 1 .. i
      BY <3>1, <1>3
    <3>. QED BY <3>1, <3>2, <1>12
  <2>2. ASSUME NEW j \in 1 .. i, ~ IsFree(cs[j]), cs[j].handle # bs[i].handle
        PROVE  j \in 1 .. n /\ bs[j] = cs[j]
    BY <2>2, <1>12, <1>20, <1>21
  <2>. QED BY <2>1, <2>2, <1>3, <1>12 DEF SameBut
<1>24. cs # <<>> /\ au[Len(cs)] = TotalKb
  BY <1>3, <1>12, <1>14, <1>17
<1>25. Whole(cs, au)
  BY <1>12, <1>18, <1>19, <1>22, <1>24 DEF Whole, Chain
<1>26. i \in DOMAIN cs /\ cs[i] = b
  BY <1>3, <1>12
<1>. QED BY <1>13, <1>23, <1>25, <1>26, Zenon
(* Blocks in use that are the same in as and bs, and but for h in bs and   *)
(* cs, are the same but for h in as and cs.                                *)
LEMMA SameButSteps ==
  ASSUME NEW ls, NEW bs, NEW cs, NEW g, NEW h, g \in {0, h},
         SameBut(ls, bs, g), SameBut(bs, cs, h)
  PROVE  SameBut(ls, cs, h)
<1>1. ASSUME NEW i \in DOMAIN ls, ~ IsFree(ls[i]), ls[i].handle # h
      PROVE  \E k \in DOMAIN cs : cs[k] = ls[i]
  <2>1. PICK j \in DOMAIN bs : bs[j] = ls[i]
    BY <1>1 DEF SameBut, IsFree
  <2>. QED BY <2>1, <1>1 DEF SameBut
<1>2. ASSUME NEW k \in DOMAIN cs, ~ IsFree(cs[k]), cs[k].handle # h
      PROVE  \E i \in DOMAIN ls : ls[i] = cs[k]
  <2>1. PICK j \in DOMAIN bs : bs[j] = cs[k]
    BY <1>2 DEF SameBut
  <2>. QED BY <2>1, <1>2 DEF SameBut, IsFree
<1>. QED BY <1>1, <1>2 DEF SameBut

(* cs is bs with block b in the place of block i, and neither i nor b has  *)
(* another handle than h.                                                  *)
Swapped(bs, cs, i, b, h) ==
    /\ bs \in Seq(emb_data) /\ cs \in Seq(emb_data) /\ Len(cs) = Len(bs)
    /\ i \in 1 .. Len(bs) /\ cs[i] = b
    /\ \A j \in 1 .. Len(bs) : j # i => cs[j] = bs[j]
    /\ bs[i].handle \in {0, h} /\ b.handle \in {0, h}

(* Such a change leaves the other blocks in use alone. *)
LEMMA SwappedSame ==
  ASSUME NEW bs, NEW cs, NEW i, NEW b, NEW h, Swapped(bs, cs, i, b, h)
  PROVE  SameBut(bs, cs, h)
<1>1. /\ DOMAIN bs = 1 .. Len(bs) /\ DOMAIN cs = 1 .. Len(bs) /\ cs[i] = b
      /\ \A j \in 1 .. Len(bs) : j # i => cs[j] = bs[j]
      /\ bs[i].handle \in {0, h} /\ b.handle \in {0, h}
  BY DEF Swapped
<1>. QED BY <1>1 DEF SameBut, IsFree

(* Block b is a with another handle. *)
LEMMA RenamedBlock ==
  ASSUME NEW a \in emb_data, NEW h \in 0 .. MaxHandle
  PROVE  \E b : /\ b = [a EXCEPT !.handle = h]
                /\ b \in emb_data /\ b.handle = h /\ b.size = a.size
                /\ b.offset = a.offset /\ b.locked = a.locked
<1>1. PICK b : b = [size |-> a.size, offset |-> a.offset, locked |-> a.locked, handle |-> h]
  OBVIOUS
<1>2. /\ a.size \in Nat /\ a.offset \in Nat
      /\ a.locked \in 0 .. MaxLock /\ a.handle \in 0 .. MaxHandle
  BY DEF emb_data
<1>3. b = [a EXCEPT !.handle = h]
  BY <1>1 DEF emb_data
<1>4. b \in emb_data
  BY <1>1, <1>2 DEF emb_data
<1>. QED BY <1>1, <1>3, <1>4

(* Block b is a with another lock count. *)
LEMMA LockedBlock ==
  ASSUME NEW a \in emb_data, NEW l \in 0 .. MaxLock
  PROVE  \E b : /\ b = [a EXCEPT !.locked = l]
                /\ b \in emb_data /\ b.locked = l /\ b.size = a.size
                /\ b.offset = a.offset /\ b.handle = a.handle
<1>1. PICK b : b = [size |-> a.size, offset |-> a.offset, locked |-> l, handle |-> a.handle]
  OBVIOUS
<1>2. /\ a.size \in Nat /\ a.offset \in Nat
      /\ a.locked \in 0 .. MaxLock /\ a.handle \in 0 .. MaxHandle
  BY DEF emb_data
<1>3. b = [a EXCEPT !.locked = l]
  BY <1>1 DEF emb_data
<1>4. b \in emb_data
  BY <1>1, <1>2 DEF emb_data
<1>. QED BY <1>1, <1>3, <1>4

(* An unlocked block changes its handle, to 0 or to one that is not used.  *)
Renamable(bs, at, i, g) ==
    /\ Whole(bs, at) /\ i \in 1 .. Len(bs) /\ bs[i].locked = 0
    /\ g \in 0 .. MaxHandle /\ g \notin Used(bs)

Renamed(bs, at, i, g, cs) ==
    /\ cs = [bs EXCEPT ![i].handle = g] /\ Whole(cs, at)
    /\ Len(cs) = Len(bs)
    /\ cs[i].handle = g /\ cs[i].locked = 0
    /\ cs[i].size = bs[i].size /\ cs[i].offset = bs[i].offset
    /\ \A j \in 1 .. Len(bs) : j # i => cs[j] = bs[j]
    /\ \A h : bs[i].handle \in {0, h} /\ g \in {0, h} => SameBut(bs, cs, h)

LEMMA RenamedWhole ==
  ASSUME NEW bs, NEW at, NEW i, NEW g, Renamable(bs, at, i, g)
  PROVE  Renamed(bs, at, i, g, [bs EXCEPT ![i].handle = g])
<1>1. /\ bs \in Seq(emb_data) /\ DOMAIN bs = 1 .. Len(bs)
      /\ Whole(bs, at) /\ i \in 1 .. Len(bs) /\ bs[i].locked = 0
      /\ g \in 0 .. MaxHandle /\ g \notin Used(bs)
  BY DEF Renamable, Whole, Chain
<1>2. PICK b : /\ b = [bs[i] EXCEPT !.handle = g]
               /\ b \in emb_data /\ b.handle = g /\ b.size = bs[i].size
               /\ b.offset = bs[i].offset /\ b.locked = bs[i].locked
  BY <1>1, Fields, RenamedBlock
<1>3. Replaces(bs, i, b)
  <2>1. ~ IsFree(b) => \A j \in 1 .. Len(bs) : bs[j].handle # b.handle
    BY <1>1, <1>2 DEF Used, IsFree
  <2>. QED BY <2>1, <1>1, <1>2 DEF Replaces
<1>4. PICK cs : /\ cs = [bs EXCEPT ![i] = b]
                /\ Whole(cs, at) /\ Len(cs) = Len(bs) /\ cs[i] = b
                /\ \A j \in 1 .. Len(bs) : j # i => cs[j] = bs[j]
  BY <1>1, <1>3, ReplacedWhole
<1>5. cs = [bs EXCEPT ![i].handle = g]
  BY <1>2, <1>4
<1>6. ASSUME NEW h, bs[i].handle \in {0, h}, g \in {0, h}
      PROVE  SameBut(bs, cs, h)
  <2>1. cs \in Seq(emb_data)
    BY <1>4 DEF Whole, Chain
  <2>2. Swapped(bs, cs, i, b, h)
    BY <2>1, <1>1, <1>2, <1>4, <1>6 DEF Swapped
  <2>. QED BY <2>2, SwappedSame
<1>7. /\ cs[i].handle = g /\ cs[i].locked = 0
      /\ cs[i].size = bs[i].size /\ cs[i].offset = bs[i].offset
  BY <1>1, <1>2, <1>4
<1>8. \A h : bs[i].handle \in {0, h} /\ g \in {0, h} => SameBut(bs, cs, h)
  BY <1>6
<1>. QED BY ONLY <1>4, <1>5, <1>7, <1>8 DEF Renamed

(* A lock count changes of a block in use. *)
LEMMA LockedWhole ==
  ASSUME NEW bs, NEW at, Whole(bs, at), NEW i \in 1 .. Len(bs),
         NEW l \in 0 .. MaxLock, ~ IsFree(bs[i])
  PROVE  \E cs : /\ cs = [bs EXCEPT ![i].locked = l] /\ Whole(cs, at)
                 /\ i \in DOMAIN cs
                 /\ cs[i].handle = bs[i].handle /\ cs[i].locked = l
                 /\ cs[i].size = bs[i].size /\ cs[i].offset = bs[i].offset
                 /\ SameBut(bs, cs, bs[i].handle)
<1>1. /\ bs \in Seq(emb_data) /\ DOMAIN bs = 1 .. Len(bs) /\ OneBlockEach(bs)
  BY DEF Whole, Chain
<1>2. PICK b : /\ b = [bs[i] EXCEPT !.locked = l]
               /\ b \in emb_data /\ b.locked = l /\ b.size = bs[i].size
               /\ b.offset = bs[i].offset /\ b.handle = bs[i].handle
  BY <1>1, Fields, LockedBlock
<1>3. Replaces(bs, i, b)
  <2>1. ~ IsFree(b) /\ \A j \in 1 .. Len(bs) : bs[j].handle = b.handle => j = i
    BY <1>1, <1>2 DEF OneBlockEach, IsFree
  <2>. QED BY <2>1, <1>2 DEF Replaces
<1>4. PICK cs : /\ cs = [bs EXCEPT ![i] = b]
                /\ Whole(cs, at) /\ Len(cs) = Len(bs) /\ cs[i] = b
                /\ \A j \in 1 .. Len(bs) : j # i => cs[j] = bs[j]
  BY <1>3, ReplacedWhole
<1>5. cs = [bs EXCEPT ![i].locked = l]
  BY <1>2, <1>4
<1>6. cs \in Seq(emb_data)
  BY <1>4 DEF Whole, Chain
<1>7. SameBut(bs, cs, bs[i].handle)
  <2>2. Swapped(bs, cs, i, b, bs[i].handle)
    BY <1>1, <1>2, <1>4, <1>6 DEF Swapped
  <2>. QED BY <2>2, SwappedSame
<1>8. i \in DOMAIN cs
  BY <1>4, <1>6
<1>. QED BY <1>2, <1>4, <1>5, <1>7, <1>8

(* The handle h of block i goes to block j, which is split for kb. *)
Moves(bs, i, h, j, kb) ==
    /\ i \in search_handle(bs, h) /\ bs[i].locked = 0
    /\ j \in search_freemem(bs, kb)
    /\ kb \in Nat

(* A block that moves. *)
LEMMA MovedWhole ==
  ASSUME NEW bs, NEW at, Whole(bs, at), NEW i, NEW h, NEW j, NEW kb,
         Moves(bs, i, h, j, kb)
  PROVE  \E cs, au :
            /\ cs = Split([bs EXCEPT ![i].handle = 0, ![j].handle = h], j, kb)
            /\ Whole(cs, au) /\ j \in DOMAIN cs
            /\ cs[j].handle = h /\ cs[j].size = kb /\ cs[j].locked = 0
            /\ SameBut(bs, cs, h)
<1>1. /\ bs \in Seq(emb_data) /\ DOMAIN bs = 1 .. Len(bs)
      /\ OneBlockEach(bs) /\ FreeUnlocked(bs)
  BY DEF Whole, Chain
<1>2. /\ i \in 1 .. Len(bs) /\ bs[i].handle = h /\ h # 0 /\ bs[i].locked = 0
      /\ j \in 1 .. Len(bs) /\ IsFree(bs[j]) /\ bs[j].size >= kb /\ kb \in Nat
  BY <1>1 DEF Moves, search_handle, search_freemem, IsFree
<1>3. h \in 0 .. MaxHandle /\ 0 \in 0 .. MaxHandle /\ 0 \notin Used(bs)
  BY <1>1, <1>2, Fields, XmsAssumption DEF Used
<1>4. bs[j].locked = 0 /\ bs[j].handle = 0 /\ i # j
  BY <1>1, <1>2 DEF FreeUnlocked, IsFree
<1>5. PICK ds : /\ ds = [bs EXCEPT ![i].handle = 0] /\ Whole(ds, at)
                /\ Len(ds) = Len(bs) /\ ds[i].handle = 0
                /\ \A k \in 1 .. Len(bs) : k # i => ds[k] = bs[k]
                /\ \A g : bs[i].handle \in {0, g} /\ 0 \in {0, g} => SameBut(bs, ds, g)
  <2>1. Renamable(bs, at, i, 0)
    BY <1>2, <1>3 DEF Renamable
  <2>2. Renamed(bs, at, i, 0, [bs EXCEPT ![i].handle = 0])
    BY ONLY <2>1, RenamedWhole
  <2>. QED BY ONLY <2>2 DEF Renamed
<1>6. ds \in Seq(emb_data) /\ DOMAIN ds = 1 .. Len(ds)
  BY <1>5 DEF Whole, Chain
<1>7. h \notin Used(ds)
  <2>1. SUFFICES ASSUME NEW k \in 1 .. Len(bs), ds[k].handle = h PROVE FALSE
    BY <1>5, <1>6 DEF Used
  <2>2. CASE k = i
    BY <2>1, <2>2, <1>2, <1>5
  <2>3. CASE k # i
    <3>1. bs[k].handle = h
      BY <2>1, <2>3, <1>5
    <3>. QED BY <3>1, <2>3, <1>1, <1>2 DEF OneBlockEach, IsFree
  <2>. QED BY <2>2, <2>3
<1>8. ds[j] = bs[j] /\ j \in 1 .. Len(ds)
  BY <1>2, <1>4, <1>5
<1>9. PICK es : /\ es = [ds EXCEPT ![j].handle = h] /\ Whole(es, at)
                /\ Len(es) = Len(ds)
                /\ es[j].handle = h /\ es[j].locked = 0
                /\ es[j].size = ds[j].size /\ es[j].offset = ds[j].offset
                /\ \A k \in 1 .. Len(ds) : k # j => es[k] = ds[k]
                /\ \A g : ds[j].handle \in {0, g} /\ h \in {0, g} => SameBut(ds, es, g)
  <2>1. Renamable(ds, at, j, h)
    BY <1>3, <1>4, <1>5, <1>7, <1>8 DEF Renamable
  <2>2. Renamed(ds, at, j, h, [ds EXCEPT ![j].handle = h])
    BY ONLY <2>1, RenamedWhole
  <2>. QED BY ONLY <2>2 DEF Renamed
<1>10. SameBut(bs, es, h)
  <2>1. SameBut(bs, ds, h)
    BY <1>2, <1>5
  <2>2. SameBut(ds, es, h)
    BY <1>4, <1>8, <1>9
  <2>. QED BY <2>1, <2>2, SameButSteps
<1>11. PICK b : b = [size |-> kb, offset |-> es[j].offset,
                     locked |-> es[j].locked, handle |-> es[j].handle]
  OBVIOUS
<1>12. Cuts(es[j], kb, b)
  BY <1>2, <1>8, <1>9, <1>11 DEF Cuts
<1>13. PICK cs, au : /\ cs = Split(es, j, kb) /\ Whole(cs, au)
                     /\ j \in DOMAIN cs /\ cs[j] = b
                     /\ SameBut(es, cs, es[j].handle)
  <2>1. Whole(es, at) /\ j \in 1 .. Len(es)
    BY <1>8, <1>9
  <2>. QED BY ONLY <2>1, <1>12, SplitWhole
<1>14. SameBut(bs, cs, h)
  BY <1>9, <1>10, <1>13, SameButSteps
<1>15. es = [bs EXCEPT ![i].handle = 0, ![j].handle = h]
  BY <1>5, <1>9
<1>16. cs[j].handle = h /\ cs[j].size = kb /\ cs[j].locked = 0
  BY <1>9, <1>11, <1>13
<1>. QED BY <1>13, <1>14, <1>15, <1>16
--------------------------------------------------------------------------------
(* The table programs see.                                                 *)

(* What a whole list says about its blocks. *)
LEMMA WholeBlocks ==
  ASSUME NEW bs, NEW at, Whole(bs, at)
  PROVE  /\ bs \in Seq(emb_data) /\ DOMAIN bs = 1 .. Len(bs)
         /\ Used(bs) \subseteq 1 .. MaxHandle
         /\ \A i \in 1 .. Len(bs) : /\ at[i - 1] \in Nat /\ at[i] \in Nat
                                    /\ at[i] = at[i - 1] + bs[i].size
                                    /\ at[i] <= TotalKb
                                    /\ bs[i].size \in 0 .. TotalKb
                                    /\ bs[i].offset + bs[i].size <= TotalKb
<1>1. /\ bs \in Seq(emb_data) /\ Adds(bs, at) /\ StartsWithin(bs, at)
      /\ at[Len(bs)] = TotalKb /\ DOMAIN bs = 1 .. Len(bs) /\ Len(bs) \in Nat
  BY DEF Whole, Chain
<1>2. Used(bs) \subseteq 1 .. MaxHandle
  BY <1>1, Fields DEF Used
<1>3. ASSUME NEW i \in 1 .. Len(bs)
      PROVE  /\ at[i - 1] \in Nat /\ at[i] \in Nat
             /\ at[i] = at[i - 1] + bs[i].size
             /\ at[i] <= TotalKb
             /\ bs[i].size \in 0 .. TotalKb
             /\ bs[i].offset + bs[i].size <= TotalKb
  <2>1. i - 1 \in 0 .. Len(bs) /\ i \in 0 .. Len(bs) /\ Len(bs) \in 0 .. Len(bs)
    BY <1>1
  <2>2. at[i - 1] \in Nat /\ at[i] \in Nat /\ at[i] = at[i - 1] + bs[i].size
    BY <1>1, <2>1 DEF Adds
  <2>3. bs[i].size \in Nat /\ bs[i].offset \in Nat
    BY <1>1, Fields
  <2>4. at[i] <= TotalKb
    <3>1. at[i] <= at[Len(bs)]
      BY <1>1, <2>1, AddsRises
    <3>. QED BY <3>1, <1>1
  <2>5. bs[i].offset <= at[i - 1]
    BY <1>1 DEF StartsWithin
  <2>6. bs[i].size <= TotalKb
    BY <2>2, <2>3, <2>4, XmsAssumption
  <2>7. bs[i].offset + bs[i].size <= TotalKb
    BY <2>2, <2>3, <2>4, <2>5, XmsAssumption
  <2>. QED BY <2>2, <2>3, <2>4, <2>6, <2>7, XmsAssumption
<1>. QED BY <1>1, <1>2, <1>3

(* Table has the size and the lock count of the one block of each handle.  *)
LEMMA TableIs ==
  ASSUME NEW bs, NEW at, Whole(bs, at)
  PROVE  \E t : /\ t = Table(bs) /\ DOMAIN t = Used(bs)
                /\ t = [h \in Used(bs) |-> t[h]]
                /\ \A i \in 1 .. Len(bs) :
                      bs[i].handle # 0 =>
                         /\ bs[i].handle \in Used(bs)
                         /\ t[bs[i].handle] = [size |-> bs[i].size,
                                               locked |-> bs[i].locked]
<1>1. bs \in Seq(emb_data) /\ DOMAIN bs = 1 .. Len(bs) /\ OneBlockEach(bs)
  BY DEF Whole, Chain
<1>2. PICK t : t = Table(bs)
  OBVIOUS
<1>3. DOMAIN t = Used(bs) /\ t = [h \in Used(bs) |-> t[h]]
  BY <1>2 DEF Table
<1>4. ASSUME NEW i \in 1 .. Len(bs), bs[i].handle # 0
      PROVE  /\ bs[i].handle \in Used(bs)
             /\ t[bs[i].handle] = [size |-> bs[i].size, locked |-> bs[i].locked]
  <2>1. PICK h : h = bs[i].handle
    OBVIOUS
  <2>2. h \in Used(bs)
    BY <1>1, <1>4, <2>1 DEF Used
  <2>3. \A j \in search_handle(bs, h) : j = i
    BY <1>1, <1>4, <2>1 DEF search_handle, OneBlockEach, IsFree
  <2>4. i \in search_handle(bs, h)
    BY <1>1, <1>4, <2>1 DEF search_handle, IsFree
  <2>5. (CHOOSE j \in search_handle(bs, h) : TRUE) = i
    BY <2>3, <2>4
  <2>6. t[h] = LET b == bs[CHOOSE j \in search_handle(bs, h) : TRUE]
               IN  [size |-> b.size, locked |-> b.locked]
    BY <1>2, <2>2 DEF Table
  <2>7. t[h] = [size |-> bs[i].size, locked |-> bs[i].locked]
    BY <2>5, <2>6
  <2>. QED BY <2>1, <2>2, <2>7
<1>. QED BY <1>2, <1>3, <1>4

(* Both lists are whole, and have the same blocks in use but for h. *)
Both(bs, at, cs, au, h) == Whole(bs, at) /\ Whole(cs, au) /\ SameBut(bs, cs, h)

(* The tables of the two lists agree but for h. *)
LEMMA TableBut ==
  ASSUME NEW bs, NEW at, NEW cs, NEW au, NEW h, Both(bs, at, cs, au, h)
  PROVE  \E t, u : /\ t = Table(bs) /\ u = Table(cs)
                   /\ DOMAIN t = Used(bs) /\ DOMAIN u = Used(cs)
                   /\ u = [x \in Used(cs) |-> u[x]]
                   /\ t = [x \in Used(bs) |-> t[x]]
                   /\ \A x : x # h => (x \in Used(bs) <=> x \in Used(cs))
                   /\ \A x \in Used(cs) : x # h => t[x] = u[x]
<1>1. /\ bs \in Seq(emb_data) /\ DOMAIN bs = 1 .. Len(bs)
      /\ cs \in Seq(emb_data) /\ DOMAIN cs = 1 .. Len(cs)
      /\ Whole(bs, at) /\ Whole(cs, au) /\ SameBut(bs, cs, h)
  BY DEF Both, Whole, Chain
<1>2. PICK t : /\ t = Table(bs) /\ DOMAIN t = Used(bs)
               /\ t = [x \in Used(bs) |-> t[x]]
               /\ \A i \in 1 .. Len(bs) :
                     bs[i].handle # 0 =>
                        /\ bs[i].handle \in Used(bs)
                        /\ t[bs[i].handle] = [size |-> bs[i].size,
                                              locked |-> bs[i].locked]
  BY <1>1, TableIs
<1>3. PICK u : /\ u = Table(cs) /\ DOMAIN u = Used(cs)
               /\ u = [x \in Used(cs) |-> u[x]]
               /\ \A i \in 1 .. Len(cs) :
                     cs[i].handle # 0 =>
                        /\ cs[i].handle \in Used(cs)
                        /\ u[cs[i].handle] = [size |-> cs[i].size,
                                              locked |-> cs[i].locked]
  BY <1>1, TableIs
<1>4. ASSUME NEW x \in Used(bs), x # h PROVE x \in Used(cs)
  <2>1. PICK i \in 1 .. Len(bs) : bs[i].handle = x /\ x # 0
    BY <1>1 DEF Used
  <2>2. PICK j \in 1 .. Len(cs) : cs[j] = bs[i]
    BY <1>1, <1>4, <2>1 DEF SameBut, IsFree
  <2>. QED BY <2>1, <2>2, <1>3
<1>5. ASSUME NEW x \in Used(cs), x # h PROVE x \in Used(bs) /\ t[x] = u[x]
  <2>1. PICK j \in 1 .. Len(cs) : cs[j].handle = x /\ x # 0
    BY <1>1 DEF Used
  <2>2. PICK i \in 1 .. Len(bs) : bs[i] = cs[j]
    BY <1>1, <1>5, <2>1 DEF SameBut, IsFree
  <2>3. bs[i].handle = x /\ bs[i].size = cs[j].size /\ bs[i].locked = cs[j].locked
    BY <2>1, <2>2
  <2>4. x \in Used(bs) /\ t[x] = [size |-> bs[i].size, locked |-> bs[i].locked]
    BY <2>1, <2>3, <1>2
  <2>5. u[x] = [size |-> cs[j].size, locked |-> cs[j].locked]
    BY <2>1, <1>3
  <2>. QED BY <2>3, <2>4, <2>5
<1>. QED BY <1>2, <1>3, <1>4, <1>5

(* Nothing changes for programs when no handle is excepted. *)
LEMMA TableSame ==
  ASSUME NEW bs, NEW at, NEW cs, NEW au, Both(bs, at, cs, au, 0)
  PROVE  Table(cs) = Table(bs)
<1>1. PICK t, u : /\ t = Table(bs) /\ u = Table(cs)
                  /\ DOMAIN t = Used(bs) /\ DOMAIN u = Used(cs)
                  /\ u = [x \in Used(cs) |-> u[x]]
                  /\ t = [x \in Used(bs) |-> t[x]]
                  /\ \A x : x # 0 => (x \in Used(bs) <=> x \in Used(cs))
                  /\ \A x \in Used(cs) : x # 0 => t[x] = u[x]
  BY TableBut
<1>2. 0 \notin Used(bs) /\ 0 \notin Used(cs)
  BY DEF Used
<1>3. Used(bs) = Used(cs)
  BY <1>1, <1>2
<1>4. \A x \in Used(cs) : t[x] = u[x]
  BY <1>1, <1>2
<1>. QED BY <1>1, <1>3, <1>4

(* t and u are the tables of the two lists. *)
Tables(bs, cs, t, u) == t = Table(bs) /\ u = Table(cs)

LosesTable(bs, at, cs, au, h, t, u) ==
    Both(bs, at, cs, au, h) /\ Tables(bs, cs, t, u) /\ h \notin Used(cs)

(* The table when handle h is not used any more. *)
LEMMA TableGone ==
  ASSUME NEW bs, NEW at, NEW cs, NEW au, NEW h, NEW t, NEW u,
         LosesTable(bs, at, cs, au, h, t, u)
  PROVE  u = [x \in (DOMAIN t) \ {h} |-> t[x]]
<1>1. PICK v, w : /\ v = Table(bs) /\ w = Table(cs)
                  /\ DOMAIN v = Used(bs) /\ DOMAIN w = Used(cs)
                  /\ w = [x \in Used(cs) |-> w[x]]
                  /\ v = [x \in Used(bs) |-> v[x]]
                  /\ \A x : x # h => (x \in Used(bs) <=> x \in Used(cs))
                  /\ \A x \in Used(cs) : x # h => v[x] = w[x]
  BY TableBut DEF LosesTable
<1>2. t = v /\ u = w /\ h \notin Used(cs)
  BY <1>1 DEF LosesTable, Tables
<1>3. Used(cs) = (DOMAIN t) \ {h}
  BY <1>1, <1>2
<1>4. \A x \in Used(cs) : t[x] = u[x]
  BY <1>1, <1>2
<1>. QED BY <1>1, <1>2, <1>3, <1>4

(* Block j of cs is in use, with handle h, kb kilobytes and l locks. *)
Holds(cs, j, h, kb, l) ==
    /\ j \in DOMAIN cs
    /\ cs[j].handle = h /\ h # 0
    /\ cs[j].size = kb /\ cs[j].locked = l

HasTable(bs, at, cs, au, h, j, kb, l, t, u) ==
    Both(bs, at, cs, au, h) /\ Tables(bs, cs, t, u) /\ Holds(cs, j, h, kb, l)

Gets(bs, h, kb, l, t, u) ==
    /\ DOMAIN t = Used(bs) /\ t = [x \in Used(bs) |-> t[x]]
    /\ u = [x \in Used(bs) \cup {h} |-> u[x]]
    /\ u[h] = [size |-> kb, locked |-> l]
    /\ \A x \in Used(bs) : x # h => u[x] = t[x]

(* The table when handle h has a new block, or its block has changed. *)
LEMMA TableHas ==
  ASSUME NEW bs, NEW at, NEW cs, NEW au, NEW h, NEW j, NEW kb, NEW l, NEW t, NEW u,
         HasTable(bs, at, cs, au, h, j, kb, l, t, u)
  PROVE  Gets(bs, h, kb, l, t, u)
<1>1. /\ DOMAIN t = Used(bs) /\ DOMAIN u = Used(cs)
      /\ u = [x \in Used(cs) |-> u[x]]
      /\ t = [x \in Used(bs) |-> t[x]]
      /\ \A x : x # h => (x \in Used(bs) <=> x \in Used(cs))
      /\ \A x \in Used(cs) : x # h => t[x] = u[x]
  <2>1. PICK v, w : /\ v = Table(bs) /\ w = Table(cs)
                    /\ DOMAIN v = Used(bs) /\ DOMAIN w = Used(cs)
                    /\ w = [x \in Used(cs) |-> w[x]]
                    /\ v = [x \in Used(bs) |-> v[x]]
                    /\ \A x : x # h => (x \in Used(bs) <=> x \in Used(cs))
                    /\ \A x \in Used(cs) : x # h => v[x] = w[x]
    BY TableBut DEF HasTable
  <2>2. t = v /\ u = w
    BY <2>1 DEF HasTable, Tables
  <2>. QED BY <2>1, <2>2
<1>2. h \in Used(cs) /\ u[h] = [size |-> kb, locked |-> l]
  <2>1. Whole(cs, au) /\ DOMAIN cs = 1 .. Len(cs)
    BY DEF HasTable, Both, Whole, Chain
  <2>2. PICK v : /\ v = Table(cs)
                 /\ \A i \in 1 .. Len(cs) :
                       cs[i].handle # 0 =>
                          /\ cs[i].handle \in Used(cs)
                          /\ v[cs[i].handle] = [size |-> cs[i].size,
                                                locked |-> cs[i].locked]
    BY <2>1, TableIs
  <2>3. v = u
    BY <2>2 DEF HasTable, Tables
  <2>. QED BY <2>1, <2>2, <2>3 DEF HasTable, Holds
<1>3. Used(cs) = Used(bs) \cup {h}
  BY <1>1, <1>2
<1>4. u = [x \in Used(bs) \cup {h} |-> u[x]]
  BY <1>1, <1>3
<1>. QED BY <1>1, <1>2, <1>3, <1>4 DEF Gets

(* The blocks of a whole list hand out no more memory than there is: block *)
(* by block, they are counted from 1 to TotalKb.                           *)
LEMMA EnoughKb ==
  ASSUME NEW bs, NEW at, Whole(bs, at)
  PROVE  Promise!UsedKb(Table(bs)) <= TotalKb
<1>1. /\ bs \in Seq(emb_data) /\ DOMAIN bs = 1 .. Len(bs) /\ OneBlockEach(bs)
      /\ Adds(bs, at)
  BY DEF Whole, Chain
<1>2. \A i \in 1 .. Len(bs) : /\ at[i - 1] \in Nat /\ at[i] \in Nat
                              /\ at[i] = at[i - 1] + bs[i].size
                              /\ at[i] <= TotalKb
                              /\ bs[i].size \in 0 .. TotalKb
  BY WholeBlocks
<1>3. PICK t : /\ t = Table(bs) /\ DOMAIN t = Used(bs)
               /\ \A i \in 1 .. Len(bs) :
                     bs[i].handle # 0 =>
                        /\ bs[i].handle \in Used(bs)
                        /\ t[bs[i].handle] = [size |-> bs[i].size,
                                              locked |-> bs[i].locked]
  BY TableIs
<1>. DEFINE Place(h) == CHOOSE i \in 1 .. Len(bs) : bs[i].handle = h
<1>4. ASSUME NEW h \in Used(bs)
      PROVE  /\ Place(h) \in 1 .. Len(bs) /\ bs[Place(h)].handle = h
             /\ h # 0 /\ t[h].size = bs[Place(h)].size
  <2>1. h # 0 /\ \E i \in 1 .. Len(bs) : bs[i].handle = h
    BY <1>1 DEF Used
  <2>2. Place(h) \in 1 .. Len(bs) /\ bs[Place(h)].handle = h
    BY <2>1
  <2>3. t[h] = [size |-> bs[Place(h)].size, locked |-> bs[Place(h)].locked]
    BY <2>1, <2>2, <1>3
  <2>. QED BY <2>1, <2>2, <2>3
<1>. HIDE DEF Place
<1>5. PICK S : S = Promise!Handed(t)
  OBVIOUS
<1>6. ASSUME NEW x \in S
      PROVE  /\ x = <<x[1], x[2]>> /\ x[1] \in Used(bs)
             /\ x[2] \in 1 .. bs[Place(x[1])].size
  <2>1. PICK h \in Used(bs) : x \in {h} \X (1 .. t[h].size)
    BY <1>3, <1>5 DEF Promise!Handed
  <2>. QED BY <2>1, <1>4
<1>7. PICK f : f = [x \in S |-> at[Place(x[1]) - 1] + x[2]]
  OBVIOUS
<1>8. ASSUME NEW x \in S
      PROVE  \E i \in 1 .. Len(bs), k \in Nat :
                /\ i = Place(x[1]) /\ k = x[2] /\ k \in 1 .. bs[i].size
                /\ f[x] = at[i - 1] + k /\ at[i - 1] \in Nat
                /\ at[i] = at[i - 1] + bs[i].size /\ at[i] <= TotalKb
                /\ bs[i].size \in Nat /\ bs[i].handle = x[1]
  <2>1. PICK h, k : h = x[1] /\ k = x[2] /\ h \in Used(bs)
    BY <1>6
  <2>2. PICK i : i = Place(h)
    OBVIOUS
  <2>3. i \in 1 .. Len(bs) /\ k \in 1 .. bs[i].size /\ bs[i].handle = h
    BY <1>4, <1>6, <2>1, <2>2
  <2>4. f[x] = at[i - 1] + k
    BY <1>7, <2>1, <2>2
  <2>5. /\ at[i - 1] \in Nat /\ at[i] = at[i - 1] + bs[i].size /\ at[i] <= TotalKb
        /\ bs[i].size \in Nat
    BY <1>2, <2>3
  <2>6. k \in Nat
    BY <2>3, <2>5
  <2>7. i = Place(x[1])
    BY ONLY <2>1, <2>2
  <2>. QED BY ONLY <2>1, <2>3, <2>4, <2>5, <2>6, <2>7
<1>9. f \in [S -> 1 .. TotalKb]
  <2>1. ASSUME NEW x \in S PROVE f[x] \in 1 .. TotalKb
    <3>1. PICK i \in 1 .. Len(bs), k \in Nat :
                /\ k \in 1 .. bs[i].size /\ f[x] = at[i - 1] + k /\ at[i - 1] \in Nat
                /\ at[i] = at[i - 1] + bs[i].size /\ at[i] <= TotalKb
                /\ bs[i].size \in Nat
      BY <1>8
    <3>2. PICK p, q, z : p = at[i - 1] /\ q = at[i] /\ z = bs[i].size
      OBVIOUS
    <3>. QED BY ONLY <3>1, <3>2, XmsAssumption
  <2>. QED BY <2>1, <1>7
<1>10. ASSUME NEW x \in S, NEW y \in S, f[x] = f[y] PROVE x = y
  <2>1. PICK i \in 1 .. Len(bs), k \in Nat :
                /\ i = Place(x[1]) /\ k = x[2] /\ k \in 1 .. bs[i].size
                /\ f[x] = at[i - 1] + k /\ at[i - 1] \in Nat
                /\ at[i] = at[i - 1] + bs[i].size
                /\ bs[i].size \in Nat /\ bs[i].handle = x[1]
    BY <1>8
  <2>2. PICK j \in 1 .. Len(bs), l \in Nat :
                /\ j = Place(y[1]) /\ l = y[2] /\ l \in 1 .. bs[j].size
                /\ f[y] = at[j - 1] + l /\ at[j - 1] \in Nat
                /\ at[j] = at[j - 1] + bs[j].size
                /\ bs[j].size \in Nat /\ bs[j].handle = y[1]
    BY <1>8
  <2>3. Len(bs) \in Nat
    BY <1>1
  <2>9. /\ f[x] <= at[i] /\ f[x] > at[i - 1]
        /\ f[y] <= at[j] /\ f[y] > at[j - 1]
        /\ f[x] \in Nat /\ at[i] \in Nat /\ at[j] \in Nat
        /\ at[i - 1] \in Nat /\ at[j - 1] \in Nat
    <3>1. ASSUME NEW a \in Nat, NEW n \in Nat, NEW m \in 1 .. n, NEW c, NEW d,
                 c = a + m, d = a + n
          PROVE  c <= d /\ c > a /\ c \in Nat /\ d \in Nat
      BY <3>1
    <3>2. f[x] <= at[i] /\ f[x] > at[i - 1] /\ f[x] \in Nat /\ at[i] \in Nat
      BY ONLY <3>1, <2>1
    <3>3. f[y] <= at[j] /\ f[y] > at[j - 1] /\ at[j] \in Nat
      BY ONLY <3>1, <2>2
    <3>. QED BY <3>2, <3>3, <2>1, <2>2
  <2>4. ~ i < j
    <3>1. ASSUME i < j PROVE at[i] <= at[j - 1]
      <4>1. PICK m : m = j - 1
        OBVIOUS
      <4>2. i \in 0 .. Len(bs) /\ m \in 0 .. Len(bs) /\ i <= m
        BY <2>3, <3>1, <4>1
      <4>3. at[i] <= at[m]
        BY <4>2, <1>1, AddsRises
      <4>. QED BY <4>1, <4>3
    <3>. QED BY ONLY <3>1, <2>9, <1>10
  <2>5. ~ j < i
    <3>1. ASSUME j < i PROVE at[j] <= at[i - 1]
      <4>1. PICK m : m = i - 1
        OBVIOUS
      <4>2. j \in 0 .. Len(bs) /\ m \in 0 .. Len(bs) /\ j <= m
        BY <2>3, <3>1, <4>1
      <4>3. at[j] <= at[m]
        BY <4>2, <1>1, AddsRises
      <4>. QED BY <4>1, <4>3
    <3>. QED BY ONLY <3>1, <2>9, <1>10
  <2>6. i = j
    BY <2>3, <2>4, <2>5
  <2>7. k = l
    BY <2>1, <2>2, <2>6, <1>10
  <2>8. x[1] = y[1] /\ x[2] = y[2]
    BY <2>1, <2>2, <2>6, <2>7
  <2>. QED BY <2>8, <1>6
<1>11. f \in Injection(S, 1 .. TotalKb)
  BY <1>9, <1>10 DEF Injection, IsInjective
<1>12. IsFiniteSet(1 .. TotalKb) /\ Cardinality(1 .. TotalKb) = TotalKb
  BY XmsAssumption, FS_Interval
<1>13. Cardinality(S) <= TotalKb
  <2>1. Cardinality(S) <= Cardinality(1 .. TotalKb)
    BY <1>11, <1>12, FS_Injection
  <2>. QED BY <2>1, <1>12
<1>14. Promise!Cardinality(S) = Cardinality(S)
  BY DEF Promise!Cardinality, Cardinality
<1>. QED BY <1>3, <1>5, <1>13, <1>14 DEF Promise!UsedKb
--------------------------------------------------------------------------------
(* What the calls do: each leaves a whole list, and changes one handle.    *)

(* Nothing a program can see changes. *)
Rests(bs, cs) == \E at, au : Both(bs, at, cs, au, 0)

(* A handle that was not used has a block. *)
Hands(bs, cs) ==
    \E at, au, j : \E h \in 1 .. MaxHandle, kb \in 0 .. TotalKb :
        /\ Both(bs, at, cs, au, h)
        /\ h \notin Used(bs)
        /\ Holds(cs, j, h, kb, 0)

(* An unlocked block goes away. *)
Frees(bs, cs) ==
    \E at, au, h, i : /\ Both(bs, at, cs, au, h)
                      /\ Holds(bs, i, h, bs[i].size, 0)
                      /\ h \notin Used(cs)

(* An unlocked block has another size, and maybe another place. *)
Resizes(bs, cs) ==
    \E at, au, h, i, j, kb : /\ Both(bs, at, cs, au, h)
                             /\ Holds(bs, i, h, bs[i].size, 0)
                             /\ Holds(cs, j, h, kb, 0)

(* A block is locked, or unlocked, once. *)
Locks(bs, cs) ==
    \E at, au, h, i, j : \E l, m \in 0 .. MaxLock :
        /\ Both(bs, at, cs, au, h)
        /\ Holds(bs, i, h, bs[i].size, l)
        /\ Holds(cs, j, h, bs[i].size, m)
        /\ cs[j].offset = bs[i].offset
        /\ m = l + 1 \/ l = m + 1

Does(bs, cs) ==
    Rests(bs, cs) \/ Hands(bs, cs) \/ Frees(bs, cs) \/ Resizes(bs, cs) \/ Locks(bs, cs)

(* The invariant is about the partial sums Upto. *)
LEMMA IInvWhole ==
  ASSUME IInv
  PROVE  Whole(embs, Upto(embs))
<1>1. embs \in Seq(emb_data) /\ embs # <<>>
  BY DEF IInv, TypeOK
<1>2. Adds(embs, Upto(embs))
  BY <1>1, UptoAdds
<1>. QED BY <1>1, <1>2 DEF IInv, NothingLost, Whole, Chain

(* Whatever the partial sums of a whole list are called, they are Upto. *)
LEMMA WholeUpto ==
  ASSUME NEW bs, NEW at, Whole(bs, at)
  PROVE  /\ bs \in Seq(emb_data) /\ bs # <<>>
         /\ FreeUnlocked(bs) /\ OneBlockEach(bs) /\ StartsWithin(bs, Upto(bs))
         /\ Upto(bs)[Len(bs)] = TotalKb
<1>1. /\ bs \in Seq(emb_data) /\ bs # <<>> /\ FreeUnlocked(bs) /\ OneBlockEach(bs)
      /\ Adds(bs, at) /\ StartsWithin(bs, at) /\ at[Len(bs)] = TotalKb
  BY DEF Whole, Chain
<1>2. Adds(bs, Upto(bs))
  BY <1>1, UptoAdds
<1>3. at = Upto(bs)
  BY <1>1, <1>2, AddsOnce
<1>. QED BY <1>1, <1>3

(* A whole list is the same as itself. *)
LEMMA WholeRests ==
  ASSUME NEW bs, NEW at, Whole(bs, at)
  PROVE  Rests(bs, bs)
<1>1. SameBut(bs, bs, 0)
  BY DEF SameBut
<1>. QED BY <1>1 DEF Rests, Both

(* The largest handle. *)
LEMMA LastHandleIs ==
  ASSUME NEW bs, NEW at, Whole(bs, at)
  PROVE  \E h \in 0 .. MaxHandle : /\ h = LastHandle(bs)
                                   /\ \A i \in 1 .. Len(bs) : bs[i].handle <= h
<1>1. bs \in Seq(emb_data) /\ DOMAIN bs = 1 .. Len(bs) /\ Len(bs) > 0
  BY DEF Whole, Chain
<1>2. PICK T : T = {bs[i].handle : i \in DOMAIN bs}
  OBVIOUS
<1>3. \A i \in 1 .. Len(bs) : bs[i].handle \in T /\ bs[i].handle \in 0 .. MaxHandle
  BY <1>1, <1>2, Fields
<1>4. T \subseteq 0 .. MaxHandle
  BY <1>1, <1>2, <1>3
<1>5. T # {}
  <2>1. 1 \in 1 .. Len(bs)
    BY <1>1
  <2>. QED BY <2>1, <1>3
<1>6. MaxHandle \in Nat
  BY XmsAssumption
<1>7. Max(T) \in T /\ \A y \in T : y <= Max(T)
  BY <1>4, <1>5, <1>6, MaxProperty
<1>. QED BY <1>2, <1>3, <1>4, <1>7 DEF LastHandle

(* AH=08h merges. *)
LEMMA QueryDoes ==
  ASSUME IInv, QueryFree
  PROVE  Rests(embs, embs')
<1>1. Whole(embs, Upto(embs))
  BY IInvWhole
<1>2. PICK cs, at : /\ cs = merge_free_region(embs)
                    /\ Whole(cs, at) /\ SameBut(embs, cs, 0)
  BY <1>1, MergedWhole
<1>3. embs' = cs
  BY <1>2 DEF QueryFree
<1>. QED BY <1>1, <1>2, <1>3 DEF Rests, Both

(* Where search_freemem and search_handle point. *)
LEMMA FoundBlocks ==
  ASSUME NEW bs, NEW at, Whole(bs, at)
  PROVE  /\ \A kb : \A i \in search_freemem(bs, kb) :
               /\ i \in 1 .. Len(bs) /\ IsFree(bs[i]) /\ bs[i].handle = 0
               /\ bs[i].locked = 0 /\ kb <= bs[i].size /\ bs[i].size \in 0 .. TotalKb
         /\ \A h : \A i \in search_handle(bs, h) :
               /\ i \in 1 .. Len(bs) /\ i \in DOMAIN bs /\ ~ IsFree(bs[i])
               /\ bs[i].handle = h /\ h # 0 /\ h \in 0 .. MaxHandle
               /\ bs[i].size \in 0 .. TotalKb /\ bs[i].locked \in 0 .. MaxLock
               /\ Holds(bs, i, h, bs[i].size, bs[i].locked)
<1>1. bs \in Seq(emb_data) /\ DOMAIN bs = 1 .. Len(bs) /\ FreeUnlocked(bs)
  BY DEF Whole, Chain
<1>2. \A i \in 1 .. Len(bs) : bs[i].size \in 0 .. TotalKb
  BY WholeBlocks
<1>3. ASSUME NEW kb, NEW i \in search_freemem(bs, kb)
      PROVE  /\ i \in 1 .. Len(bs) /\ IsFree(bs[i]) /\ bs[i].handle = 0
             /\ bs[i].locked = 0 /\ kb <= bs[i].size /\ bs[i].size \in 0 .. TotalKb
  <2>1. i \in 1 .. Len(bs) /\ IsFree(bs[i]) /\ bs[i].size >= kb
    BY <1>1 DEF search_freemem
  <2>2. bs[i].size >= kb => kb <= bs[i].size
    OBVIOUS
  <2>. QED BY <2>1, <2>2, <1>1, <1>2 DEF FreeUnlocked, IsFree
<1>4. ASSUME NEW h, NEW i \in search_handle(bs, h)
      PROVE  /\ i \in 1 .. Len(bs) /\ i \in DOMAIN bs /\ ~ IsFree(bs[i])
             /\ bs[i].handle = h /\ h # 0 /\ h \in 0 .. MaxHandle
             /\ bs[i].size \in 0 .. TotalKb /\ bs[i].locked \in 0 .. MaxLock
             /\ Holds(bs, i, h, bs[i].size, bs[i].locked)
  <2>1. /\ i \in 1 .. Len(bs) /\ i \in DOMAIN bs /\ ~ IsFree(bs[i])
        /\ bs[i].handle = h /\ h # 0
    BY <1>1 DEF search_handle, IsFree
  <2>2. bs[i].locked \in 0 .. MaxLock /\ bs[i].handle \in 0 .. MaxHandle
    BY <2>1, <1>1, Fields
  <2>. QED BY <2>1, <2>2, <1>2 DEF Holds
<1>. QED BY <1>3, <1>4

(* AH=09h. *)
LEMMA AllocDoes ==
  ASSUME IInv, NEW kb \in Sizes, Alloc(kb)
  PROVE  Rests(embs, embs') \/ Hands(embs, embs')
<1>1. PICK bs, at : bs = embs /\ at = Upto(embs) /\ Whole(bs, at)
  BY IInvWhole
<1>2. PICK i, last : /\ i \in search_freemem(bs, kb) /\ last = LastHandle(bs)
                     /\ embs' = IF last = MaxHandle THEN Split(bs, i, kb)
                                ELSE [Split(bs, i, kb) EXCEPT ![i].handle = last + 1]
  BY <1>1 DEF Alloc
<1>3. /\ i \in 1 .. Len(bs) /\ IsFree(bs[i]) /\ bs[i].handle = 0
      /\ bs[i].locked = 0 /\ kb <= bs[i].size /\ bs[i].size \in 0 .. TotalKb
  BY <1>1, <1>2, FoundBlocks
<1>4. kb \in Nat /\ kb \in 0 .. TotalKb
  BY <1>3, XmsAssumption
<1>5. PICK b : b = [size |-> kb, offset |-> bs[i].offset,
                    locked |-> bs[i].locked, handle |-> bs[i].handle]
  OBVIOUS
<1>6. Cuts(bs[i], kb, b)
  BY <1>3, <1>4, <1>5 DEF Cuts
<1>7. PICK cs, au : /\ cs = Split(bs, i, kb) /\ Whole(cs, au)
                    /\ i \in DOMAIN cs /\ cs[i] = b
                    /\ SameBut(bs, cs, bs[i].handle)
  BY ONLY <1>1, <1>3, <1>6, SplitWhole
<1>8. SameBut(bs, cs, 0) /\ cs[i].handle = 0 /\ cs[i].locked = 0 /\ cs[i].size = kb
  BY <1>3, <1>5, <1>7
<1>9. CASE last = MaxHandle
  <2>1. embs' = cs
    BY <1>2, <1>7, <1>9
  <2>. QED BY <2>1, <1>1, <1>7, <1>8 DEF Rests, Both
<1>10. CASE last # MaxHandle
  <2>1. PICK h : h = last + 1
    OBVIOUS
  <2>2. last \in 0 .. MaxHandle /\ \A j \in 1 .. Len(bs) : bs[j].handle <= last
    BY <1>1, <1>2, LastHandleIs
  <2>3. h \in 1 .. MaxHandle /\ h \in 0 .. MaxHandle /\ h # 0
    BY <2>1, <2>2, <1>10, XmsAssumption
  <2>4. /\ bs \in Seq(emb_data) /\ DOMAIN bs = 1 .. Len(bs)
        /\ cs \in Seq(emb_data) /\ DOMAIN cs = 1 .. Len(cs)
    BY <1>1, <1>7 DEF Whole, Chain
  <2>5. \A j \in 1 .. Len(bs) : bs[j].handle # h
    BY <2>1, <2>2, <2>4, Fields
  <2>6. h \notin Used(bs)
    BY <2>4, <2>5 DEF Used
  <2>7. h \notin Used(cs)
    <3>1. ASSUME NEW j \in 1 .. Len(cs), cs[j].handle = h PROVE FALSE
      <4>1. PICK k \in 1 .. Len(bs) : bs[k] = cs[j]
        BY <3>1, <2>3, <2>4, <1>8 DEF SameBut, IsFree
      <4>. QED BY <4>1, <3>1, <2>5
    <3>. QED BY <3>1, <2>4 DEF Used
  <2>8. i \in 1 .. Len(cs)
    BY <2>4, <1>7
  <2>9. PICK ds : /\ ds = [cs EXCEPT ![i].handle = h] /\ Whole(ds, au)
                  /\ Len(ds) = Len(cs)
                  /\ ds[i].handle = h /\ ds[i].locked = 0
                  /\ ds[i].size = cs[i].size /\ ds[i].offset = cs[i].offset
                  /\ \A j \in 1 .. Len(cs) : j # i => ds[j] = cs[j]
                  /\ \A g : cs[i].handle \in {0, g} /\ h \in {0, g} => SameBut(cs, ds, g)
    <3>1. Renamable(cs, au, i, h)
      BY <1>7, <1>8, <2>3, <2>7, <2>8 DEF Renamable
    <3>2. Renamed(cs, au, i, h, [cs EXCEPT ![i].handle = h])
      BY ONLY <3>1, RenamedWhole
    <3>. QED BY ONLY <3>2 DEF Renamed
  <2>10. SameBut(bs, ds, h)
    <3>1. SameBut(cs, ds, h)
      BY <2>9, <1>8
    <3>. QED BY <3>1, <1>8, SameButSteps
  <2>11. Holds(ds, i, h, kb, 0)
    <3>1. DOMAIN ds = 1 .. Len(ds)
      BY <2>9 DEF Whole, Chain
    <3>. QED BY <3>1, <2>3, <2>8, <2>9, <1>8 DEF Holds
  <2>12. embs' = ds
    BY <2>1, <2>9, <1>2, <1>7, <1>10
  <2>13. Both(bs, at, ds, au, h)
    BY <2>9, <2>10, <1>1 DEF Both
  <2>14. Hands(bs, ds)
    BY <2>3, <2>6, <2>11, <2>13, <1>4 DEF Hands
  <2>. QED BY <2>12, <2>14, <1>1
<1>. QED BY <1>9, <1>10

(* AH=0Ah. *)
LEMMA FreeDoes ==
  ASSUME IInv, NEW h, Free(h)
  PROVE  Frees(embs, embs')
<1>1. PICK bs, at : bs = embs /\ at = Upto(embs) /\ Whole(bs, at)
  BY IInvWhole
<1>2. PICK i : /\ i \in search_handle(bs, h) /\ bs[i].locked = 0
               /\ embs' = [bs EXCEPT ![i].handle = 0]
  BY <1>1 DEF Free
<1>3. /\ i \in 1 .. Len(bs) /\ bs[i].handle = h /\ h # 0
      /\ Holds(bs, i, h, bs[i].size, bs[i].locked)
  BY <1>1, <1>2, FoundBlocks
<1>4. 0 \in 0 .. MaxHandle /\ 0 \notin Used(bs)
  BY XmsAssumption DEF Used
<1>5. PICK cs : /\ cs = [bs EXCEPT ![i].handle = 0] /\ Whole(cs, at)
                /\ Len(cs) = Len(bs)
                /\ cs[i].handle = 0 /\ cs[i].locked = 0
                /\ cs[i].size = bs[i].size /\ cs[i].offset = bs[i].offset
                /\ \A j \in 1 .. Len(bs) : j # i => cs[j] = bs[j]
                /\ \A g : bs[i].handle \in {0, g} /\ 0 \in {0, g} => SameBut(bs, cs, g)
  <2>1. Renamable(bs, at, i, 0)
    BY <1>1, <1>2, <1>3, <1>4 DEF Renamable
  <2>2. Renamed(bs, at, i, 0, [bs EXCEPT ![i].handle = 0])
    BY ONLY <2>1, RenamedWhole
  <2>. QED BY ONLY <2>2 DEF Renamed
<1>6. SameBut(bs, cs, h)
  BY <1>3, <1>5
<1>7. h \notin Used(cs)
  <2>1. /\ bs \in Seq(emb_data) /\ DOMAIN bs = 1 .. Len(bs) /\ OneBlockEach(bs)
        /\ DOMAIN cs = 1 .. Len(bs)
    BY <1>1, <1>5 DEF Whole, Chain
  <2>2. ASSUME NEW j \in 1 .. Len(bs), cs[j].handle = h PROVE FALSE
    <3>1. j # i
      BY <2>2, <1>3, <1>5
    <3>2. bs[j].handle = h
      BY <2>2, <3>1, <1>5
    <3>. QED BY <3>1, <3>2, <2>1, <1>3 DEF OneBlockEach, IsFree
  <2>. QED BY <2>1, <2>2 DEF Used
<1>8. Both(bs, at, cs, at, h)
  BY <1>1, <1>5, <1>6 DEF Both
<1>9. Frees(bs, cs)
  BY <1>2, <1>3, <1>7, <1>8 DEF Frees
<1>. QED BY <1>1, <1>2, <1>5, <1>9

(* AH=0Ch and AH=0Dh: block i is locked l times afterwards. *)
LEMMA LockDoes ==
  ASSUME IInv, NEW h, Lock(h) \/ Unlock(h)
  PROVE  Locks(embs, embs')
<1>1. PICK bs, at : bs = embs /\ at = Upto(embs) /\ Whole(bs, at)
  BY IInvWhole
<1>2. PICK i : /\ i \in search_handle(bs, h)
               /\ \/ bs[i].locked < MaxLock /\ embs' = [bs EXCEPT ![i].locked = @ + 1]
                  \/ bs[i].locked > 0 /\ embs' = [bs EXCEPT ![i].locked = @ - 1]
  BY <1>1 DEF Lock, Unlock
<1>3. /\ i \in 1 .. Len(bs) /\ ~ IsFree(bs[i]) /\ bs[i].handle = h /\ h # 0
      /\ bs[i].locked \in 0 .. MaxLock
      /\ Holds(bs, i, h, bs[i].size, bs[i].locked)
  BY <1>1, <1>2, FoundBlocks
<1>4. PICK l \in 0 .. MaxLock : /\ l = bs[i].locked + 1 \/ bs[i].locked = l + 1
                                /\ embs' = [bs EXCEPT ![i].locked = l]
  <2>1. CASE bs[i].locked < MaxLock /\ embs' = [bs EXCEPT ![i].locked = @ + 1]
    <3>1. PICK l : l = bs[i].locked + 1
      OBVIOUS
    <3>2. l \in 0 .. MaxLock /\ embs' = [bs EXCEPT ![i].locked = l]
      BY <2>1, <3>1, <1>3, XmsAssumption
    <3>. QED BY <3>1, <3>2
  <2>2. CASE bs[i].locked > 0 /\ embs' = [bs EXCEPT ![i].locked = @ - 1]
    <3>1. PICK l : l = bs[i].locked - 1
      OBVIOUS
    <3>2. /\ l \in 0 .. MaxLock /\ bs[i].locked = l + 1
          /\ embs' = [bs EXCEPT ![i].locked = l]
      BY <2>2, <3>1, <1>3, XmsAssumption
    <3>. QED BY <3>1, <3>2
  <2>. QED BY <2>1, <2>2, <1>2
<1>5. PICK cs : /\ cs = [bs EXCEPT ![i].locked = l] /\ Whole(cs, at)
                /\ i \in DOMAIN cs
                /\ cs[i].handle = bs[i].handle /\ cs[i].locked = l
                /\ cs[i].size = bs[i].size /\ cs[i].offset = bs[i].offset
                /\ SameBut(bs, cs, bs[i].handle)
  <2>1. Whole(bs, at) /\ i \in 1 .. Len(bs) /\ ~ IsFree(bs[i]) /\ l \in 0 .. MaxLock
    BY <1>1, <1>3
  <2>. QED BY ONLY <2>1, LockedWhole
<1>6. Both(bs, at, cs, at, h)
  BY <1>1, <1>3, <1>5 DEF Both
<1>7. Holds(cs, i, h, bs[i].size, l)
  BY <1>3, <1>5 DEF Holds
<1>8. Locks(bs, cs)
  <2>1. PICK k \in 0 .. MaxLock : k = bs[i].locked
    BY <1>3
  <2>2. Holds(bs, i, h, bs[i].size, k) /\ (l = k + 1 \/ k = l + 1)
    BY <2>1, <1>3, <1>4
  <2>. QED BY <2>2, <1>5, <1>6, <1>7 DEF Locks
<1>. QED BY <1>1, <1>4, <1>5, <1>8

(* AH=0Fh with a smaller size. *)
LEMMA ShrinkDoes ==
  ASSUME IInv, NEW h, NEW kb \in Sizes, Shrink(h, kb)
  PROVE  Resizes(embs, embs')
<1>1. PICK bs, at : bs = embs /\ at = Upto(embs) /\ Whole(bs, at)
  BY IInvWhole
<1>2. PICK i : /\ i \in search_handle(bs, h) /\ bs[i].locked = 0 /\ kb < bs[i].size
               /\ embs' = Split(bs, i, kb)
  BY <1>1 DEF Shrink
<1>3. /\ i \in 1 .. Len(bs) /\ bs[i].handle = h /\ h # 0 /\ bs[i].size \in 0 .. TotalKb
      /\ Holds(bs, i, h, bs[i].size, bs[i].locked)
  BY <1>1, <1>2, FoundBlocks
<1>4. kb \in Nat /\ kb <= bs[i].size
  BY <1>2, <1>3, XmsAssumption
<1>5. PICK b : b = [size |-> kb, offset |-> bs[i].offset,
                    locked |-> bs[i].locked, handle |-> bs[i].handle]
  OBVIOUS
<1>6. Cuts(bs[i], kb, b)
  BY <1>4, <1>5 DEF Cuts
<1>7. PICK cs, au : /\ cs = Split(bs, i, kb) /\ Whole(cs, au)
                    /\ i \in DOMAIN cs /\ cs[i] = b
                    /\ SameBut(bs, cs, bs[i].handle)
  BY ONLY <1>1, <1>3, <1>6, SplitWhole
<1>8. Both(bs, at, cs, au, h)
  BY <1>1, <1>3, <1>7 DEF Both
<1>9. Holds(cs, i, h, kb, 0)
  BY <1>2, <1>3, <1>5, <1>7 DEF Holds
<1>10. Resizes(bs, cs)
  BY <1>2, <1>3, <1>8, <1>9 DEF Resizes
<1>. QED BY <1>1, <1>2, <1>7, <1>10
(* AH=0Fh with a larger size: growing in place or moving. *)
LEMMA GrowDoes ==
  ASSUME IInv, NEW bs, NEW at, Whole(bs, at), SameBut(embs, bs, 0),
         NEW h, NEW kb \in Sizes,
         GrowIntoNext(bs, h, kb) \/ GrowOverNext(bs, h, kb)
            \/ GrowElsewhere(bs, h, kb) \/ GrowCrash(bs, h, kb)
  PROVE  Rests(embs, embs') \/ Resizes(embs, embs')
<1>1. PICK ls, lt : ls = embs /\ lt = Upto(embs) /\ Whole(ls, lt)
  BY IInvWhole
<1>2. SameBut(ls, bs, 0)
  BY <1>1
<1>3. kb \in Nat
  BY XmsAssumption
<1>4. ASSUME NEW cs, NEW au, NEW i, NEW j, embs' = cs, Whole(cs, au), SameBut(bs, cs, h),
             i \in search_handle(bs, h), bs[i].locked = 0, Holds(cs, j, h, kb, 0)
      PROVE  Resizes(embs, embs')
  <2>1. i \in DOMAIN bs /\ ~ IsFree(bs[i]) /\ bs[i].handle = h /\ h # 0
    BY <1>4, FoundBlocks
  <2>2. PICK k \in DOMAIN ls : ls[k] = bs[i]
    BY <2>1, <1>2 DEF SameBut, IsFree
  <2>3. Holds(ls, k, h, ls[k].size, 0)
    BY <2>1, <2>2, <1>4 DEF Holds
  <2>4. SameBut(ls, cs, h)
    BY <1>2, <1>4, SameButSteps
  <2>5. Both(ls, lt, cs, au, h)
    BY <2>4, <1>1, <1>4 DEF Both
  <2>6. Resizes(ls, cs)
    BY <2>3, <2>5, <1>4 DEF Resizes
  <2>. QED BY <2>6, <1>1, <1>4
<1>5. CASE GrowIntoNext(bs, h, kb)
  <2>1. PICK i \in DOMAIN bs : /\ Grows(bs, i, h, kb) /\ Room(bs, i) > kb
                               /\ embs' = [bs EXCEPT ![i].size = kb,
                                                     ![i + 1].size = Room(bs, i) - kb]
    BY <1>5 DEF GrowIntoNext
  <2>2. i \in search_handle(bs, h) /\ bs[i].locked = 0 /\ bs[i].size < kb
    BY <2>1 DEF Grows
  <2>3. i \in 1 .. Len(bs) /\ bs[i].handle = h /\ h # 0
    BY <2>2, FoundBlocks
  <2>4. i \in 1 .. Len(bs) - 1 /\ IsFree(bs[i + 1])
    <3>1. i < Len(bs) /\ IsFree(bs[i + 1])
      BY <2>1, <1>3 DEF Room
    <3>. QED BY <3>1, <2>3
  <2>5. PICK b : b = [size |-> kb, offset |-> bs[i].offset,
                      locked |-> bs[i].locked, handle |-> bs[i].handle]
    OBVIOUS
  <2>6. GrowsTo(bs, i, kb, b)
    BY <2>4, <2>5, <1>3 DEF GrowsTo
  <2>7. PICK cs, au : /\ cs = [bs EXCEPT ![i].size = kb,
                                         ![i + 1].size = Room(bs, i) - kb]
                      /\ Whole(cs, au)
                      /\ i \in DOMAIN cs /\ cs[i] = b
                      /\ SameBut(bs, cs, bs[i].handle)
    <3>1. Whole(bs, at) /\ bs[i].size < kb /\ Room(bs, i) > kb
      BY <2>1, <2>2
    <3>. QED BY ONLY <3>1, <2>6, GrownIntoWhole
  <2>8. Holds(cs, i, h, kb, 0)
    BY <2>2, <2>3, <2>5, <2>7 DEF Holds
  <2>9. embs' = cs /\ SameBut(bs, cs, h)
    BY <2>1, <2>3, <2>7
  <2>. QED BY <2>2, <2>7, <2>8, <2>9, <1>4
<1>6. CASE GrowOverNext(bs, h, kb)
  <2>1. PICK i \in DOMAIN bs : /\ Grows(bs, i, h, kb) /\ Room(bs, i) = kb
                               /\ IF i + 1 = Len(bs)
                                  THEN embs' = [Front(bs) EXCEPT ![i].size = kb]
                                  ELSE embs' = embs
    BY <1>6 DEF GrowOverNext
  <2>2. CASE i + 1 # Len(bs)
    <3>1. embs' = embs
      BY <2>1, <2>2
    <3>2. Rests(ls, ls)
      BY <1>1, WholeRests
    <3>. QED BY <3>1, <3>2, <1>1
  <2>3. CASE i + 1 = Len(bs)
    <3>1. i \in search_handle(bs, h) /\ bs[i].locked = 0 /\ bs[i].size < kb
      BY <2>1 DEF Grows
    <3>2. /\ i \in 1 .. Len(bs) /\ bs[i].handle = h /\ h # 0
          /\ bs[i].size \in 0 .. TotalKb
      BY <3>1, FoundBlocks
    <3>3. i \in 1 .. Len(bs) - 1 /\ IsFree(bs[i + 1])
      <4>1. kb # 0
        BY <3>1, <3>2, <1>3
      <4>2. i < Len(bs) /\ IsFree(bs[i + 1])
        BY <4>1, <2>1, <1>3 DEF Room
      <4>. QED BY <4>2, <3>2
    <3>4. PICK b : b = [size |-> kb, offset |-> bs[i].offset,
                        locked |-> bs[i].locked, handle |-> bs[i].handle]
      OBVIOUS
    <3>5. GrowsTo(bs, i, kb, b)
      BY <3>3, <3>4, <1>3 DEF GrowsTo
    <3>6. PICK cs, au : /\ cs = [Front(bs) EXCEPT ![i].size = kb]
                        /\ Whole(cs, au)
                        /\ i \in DOMAIN cs /\ cs[i] = b
                        /\ SameBut(bs, cs, bs[i].handle)
      <4>1. Whole(bs, at) /\ Room(bs, i) = kb /\ i + 1 = Len(bs)
        BY <2>1, <2>3
      <4>. QED BY ONLY <4>1, <3>5, GrownOverWhole
    <3>7. Holds(cs, i, h, kb, 0)
      BY <3>1, <3>2, <3>4, <3>6 DEF Holds
    <3>8. embs' = cs /\ SameBut(bs, cs, h)
      BY <2>1, <2>3, <3>2, <3>6
    <3>. QED BY <3>1, <3>6, <3>7, <3>8, <1>4
  <2>. QED BY <2>2, <2>3
<1>7. CASE GrowElsewhere(bs, h, kb)
  <2>1. PICK i \in DOMAIN bs, j \in search_freemem(bs, kb) :
           /\ Grows(bs, i, h, kb)
           /\ embs' = Split([bs EXCEPT ![i].handle = 0, ![j].handle = h], j, kb)
    BY <1>7 DEF GrowElsewhere
  <2>2. i \in search_handle(bs, h) /\ bs[i].locked = 0
    BY <2>1 DEF Grows
  <2>3. h # 0
    BY <2>2, FoundBlocks
  <2>4. Moves(bs, i, h, j, kb)
    BY <2>1, <2>2, <1>3 DEF Moves
  <2>5. PICK cs, au :
            /\ cs = Split([bs EXCEPT ![i].handle = 0, ![j].handle = h], j, kb)
            /\ Whole(cs, au) /\ j \in DOMAIN cs
            /\ cs[j].handle = h /\ cs[j].size = kb /\ cs[j].locked = 0
            /\ SameBut(bs, cs, h)
    <3>1. Whole(bs, at)
      OBVIOUS
    <3>. QED BY ONLY <3>1, <2>4, MovedWhole
  <2>6. Holds(cs, j, h, kb, 0) /\ embs' = cs
    BY <2>1, <2>3, <2>5 DEF Holds
  <2>. QED BY <2>2, <2>5, <2>6, <1>4
<1>8. CASE GrowCrash(bs, h, kb)
  <2>1. embs' = bs
    BY <1>8 DEF GrowCrash
  <2>2. Rests(ls, bs)
    BY <1>1, <1>2 DEF Rests, Both
  <2>. QED BY <2>1, <2>2, <1>1
<1>. QED BY <1>5, <1>6, <1>7, <1>8

(* Every step is one of these. *)
LEMMA NextDoes ==
  ASSUME IInv, [Next]_vars
  PROVE  Does(embs, embs')
<1>1. ASSUME QueryFree PROVE Does(embs, embs')
  BY <1>1, QueryDoes DEF Does
<1>2. ASSUME NEW kb \in Sizes, Alloc(kb) PROVE Does(embs, embs')
  BY <1>2, AllocDoes DEF Does
<1>3. ASSUME embs' = embs PROVE Does(embs, embs')
  <2>1. Rests(embs, embs)
    BY IInvWhole, WholeRests
  <2>. QED BY <1>3, <2>1 DEF Does
<1>4. ASSUME NEW kb \in Sizes, AllocCrash(kb) PROVE Does(embs, embs')
  BY <1>3, <1>4 DEF AllocCrash
<1>5. ASSUME NEW h, Free(h) PROVE Does(embs, embs')
  BY <1>5, FreeDoes DEF Does
<1>6. ASSUME NEW h, Lock(h) \/ Unlock(h) PROVE Does(embs, embs')
  BY <1>6, LockDoes DEF Does
<1>7. ASSUME NEW h, NEW kb \in Sizes, Shrink(h, kb) PROVE Does(embs, embs')
  BY <1>7, ShrinkDoes DEF Does
<1>8. ASSUME NEW h, NEW kb \in Sizes, NEW bs, bs = merge_free_region(embs),
             GrowIntoNext(bs, h, kb) \/ GrowOverNext(bs, h, kb)
                \/ GrowElsewhere(bs, h, kb) \/ GrowCrash(bs, h, kb)
      PROVE  Does(embs, embs')
  <2>1. PICK cs, at : /\ cs = merge_free_region(embs)
                      /\ Whole(cs, at) /\ SameBut(embs, cs, 0)
    BY IInvWhole, MergedWhole
  <2>2. Whole(bs, at) /\ SameBut(embs, bs, 0)
    BY <2>1, <1>8
  <2>3. Rests(embs, embs') \/ Resizes(embs, embs')
    BY <2>2, <1>8, GrowDoes
  <2>. QED BY <2>3 DEF Does
<1>9. CASE UNCHANGED vars
  BY <1>3, <1>9 DEF vars
<1>10. CASE Next
  BY <1>1, <1>2, <1>4, <1>5, <1>6, <1>7, <1>8, <1>10 DEF Next
<1>. QED BY <1>9, <1>10
--------------------------------------------------------------------------------
(* The invariants.                                                         *)

(* After a step the list is whole. *)
LEMMA DoesWhole ==
  ASSUME NEW bs, NEW cs, Does(bs, cs)
  PROVE  \E at : Whole(cs, at)
BY DEF Does, Rests, Hands, Frees, Resizes, Locks, Both

(* At the start all of the memory is one free block. *)
LEMMA InitIInv ==
  ASSUME Init
  PROVE  IInv
<1>1. PICK b : b = [size |-> TotalKb, offset |-> 0, locked |-> 0, handle |-> 0]
  OBVIOUS
<1>2. /\ b \in emb_data /\ b.size = TotalKb /\ b.offset = 0
      /\ b.locked = 0 /\ b.handle = 0 /\ TotalKb \in Nat
  BY <1>1, XmsAssumption DEF emb_data
<1>3. PICK bs : bs = <<b>>
  OBVIOUS
<1>4. /\ bs \in Seq(emb_data) /\ bs # <<>> /\ Len(bs) = 1 /\ DOMAIN bs = 1 .. 1
      /\ bs[1] = b
  BY <1>2, <1>3
<1>5. PICK at : at = [n \in 0 .. 1 |-> IF n = 0 THEN 0 ELSE TotalKb]
  OBVIOUS
<1>6. /\ at \in [0 .. 1 -> Nat] /\ at[0] = 0 /\ at[1] = TotalKb
  BY <1>2, <1>5
<1>7. \A i \in 1 .. 1 : i = 1 /\ i - 1 = 0
  OBVIOUS
<1>8. Adds(bs, at)
  <2>1. \A i \in 1 .. Len(bs) : at[i] = at[i - 1] + bs[i].size
    BY <1>2, <1>4, <1>6, <1>7
  <2>. QED BY <2>1, <1>4, <1>6 DEF Adds
<1>9. StartsWithin(bs, at) /\ FreeUnlocked(bs) /\ OneBlockEach(bs)
  BY <1>2, <1>4, <1>6, <1>7 DEF StartsWithin, FreeUnlocked, OneBlockEach, IsFree
<1>10. Whole(bs, at)
  BY <1>4, <1>6, <1>8, <1>9 DEF Whole, Chain
<1>11. embs = bs /\ fate = "runs"
  BY <1>1, <1>3 DEF Init
<1>. QED BY <1>10, <1>11, WholeUpto DEF IInv, TypeOK, NothingLost

(* Every step keeps the invariant. *)
LEMMA NextIInv ==
  ASSUME IInv, [Next]_vars
  PROVE  IInv'
<1>1. PICK cs, at : cs = embs' /\ Whole(cs, at)
  BY NextDoes, DoesWhole
<1>2. /\ cs \in Seq(emb_data) /\ cs # <<>>
      /\ FreeUnlocked(cs) /\ OneBlockEach(cs) /\ StartsWithin(cs, Upto(cs))
      /\ Upto(cs)[Len(cs)] = TotalKb
  BY <1>1, WholeUpto
<1>3. fate' \in {"runs", "crashed", "damaged"}
  <2>1. CASE UNCHANGED vars
    BY <2>1 DEF vars, IInv, TypeOK
  <2>2. CASE Next
    <3>1. QueryFree => Survives
      BY DEF QueryFree
    <3>2. \A kb : (Alloc(kb) => Survives) /\ (AllocCrash(kb) => Ends("crashed"))
      BY Zenon DEF Alloc, AllocCrash
    <3>3. \A h : (Free(h) => Survives) /\ (Lock(h) => Survives) /\ (Unlock(h) => Survives)
      BY Zenon DEF Free, Lock, Unlock
    <3>4. \A h, kb : Shrink(h, kb) => Survives
      BY Zenon DEF Shrink
    <3>5. \A bs, h, kb : /\ GrowIntoNext(bs, h, kb) => Survives
                         /\ GrowElsewhere(bs, h, kb) => Survives
                         /\ GrowCrash(bs, h, kb) => Ends("crashed")
      <4>1. \A bs, h, kb : GrowIntoNext(bs, h, kb) => Survives
        BY Zenon DEF GrowIntoNext
      <4>2. \A bs, h, kb : GrowElsewhere(bs, h, kb) => Survives
        BY DEF GrowElsewhere
      <4>3. \A bs, h, kb : GrowCrash(bs, h, kb) => Ends("crashed")
        BY Zenon DEF GrowCrash
      <4>. QED BY <4>1, <4>2, <4>3
    <3>6. \A bs, h, kb : GrowOverNext(bs, h, kb) => Survives \/ Ends("damaged")
      BY DEF GrowOverNext
    <3>7. Survives \/ Ends("crashed") \/ Ends("damaged")
      BY <2>2, <3>1, <3>2, <3>3, <3>4, <3>5, <3>6, Zenon DEF Next
    <3>. QED BY <3>7 DEF Survives, Ends
  <2>. QED BY <2>1, <2>2
<1>4. TypeOK'
  BY <1>1, <1>2, <1>3 DEF TypeOK
<1>5. /\ FreeUnlocked(embs') /\ OneBlockEach(embs') /\ StartsWithin(embs', Upto(embs'))
      /\ Upto(embs')[Len(embs')] = TotalKb
  BY <1>1, <1>2
<1>. QED BY <1>4, <1>5 DEF IInv, NothingLost

(* The list is well formed at all times: see the definition of IInv. *)
THEOREM Invariant == Spec => []IInv
<1>1. IInv /\ [Next]_vars => IInv'
  BY NextIInv
<1>. QED BY <1>1, InitIInv, PTL DEF Spec

(* The variables keep their types, for every size of memory and number of  *)
(* handles.                                                                *)
THEOREM TypeCorrect == Spec => []TypeOK
<1>1. IInv => TypeOK
  BY DEF IInv
<1>. QED BY <1>1, Invariant, PTL

(* Extended memory neither leaks nor grows (extmem.c:97-148, 545-590).     *)
THEOREM MemoryIsKept == Spec => []NothingLost
<1>1. IInv => NothingLost
  BY DEF IInv
<1>. QED BY <1>1, Invariant, PTL

(* No block reaches past the end of memory, whatever offsets growing       *)
(* blocks leave behind (extmem.c:571-575).                                 *)
THEOREM BlocksStayInside == Spec => []BlocksInside
<1>1. IInv => BlocksInside
  <2>1. SUFFICES ASSUME IInv PROVE BlocksInside
    OBVIOUS
  <2>2. PICK bs, at : bs = embs /\ Whole(bs, at)
    BY <2>1, IInvWhole
  <2>3. /\ DOMAIN bs = 1 .. Len(bs)
        /\ \A i \in 1 .. Len(bs) : bs[i].offset + bs[i].size <= TotalKb
    BY <2>2, WholeBlocks
  <2>. QED BY <2>2, <2>3 DEF BlocksInside
<1>. QED BY <1>1, Invariant, PTL

--------------------------------------------------------------------------------
(* Locked blocks stay, and the list implements XmsHandles.                 *)

(* A locked block is still there after a step. *)
LEMMA DoesKeepLocked ==
  ASSUME NEW bs, NEW cs, Does(bs, cs), NEW k \in DOMAIN bs, bs[k].locked > 0
  PROVE  \E j \in DOMAIN cs : /\ cs[j].handle = bs[k].handle
                              /\ cs[j].offset = bs[k].offset
                              /\ cs[j].size = bs[k].size
<1>1. ASSUME NEW at, NEW au, NEW h, Both(bs, at, cs, au, h)
      PROVE  /\ ~ IsFree(bs[k])
             /\ bs[k].handle # h => \E j \in DOMAIN cs : cs[j] = bs[k]
             /\ \A i \in DOMAIN bs : bs[i].handle = bs[k].handle => i = k
  <2>1. /\ FreeUnlocked(bs) /\ OneBlockEach(bs) /\ SameBut(bs, cs, h)
        /\ bs[k].locked \in Nat
    <3>1. bs \in Seq(emb_data) /\ k \in 1 .. Len(bs) /\ MaxLock \in Nat
      BY <1>1, XmsAssumption DEF Both, Whole, Chain
    <3>2. bs[k].locked \in 0 .. MaxLock
      BY <3>1, Fields
    <3>. QED BY <3>1, <3>2, <1>1 DEF Both, Whole, Chain
  <2>2. ~ IsFree(bs[k])
    BY <2>1 DEF FreeUnlocked
  <2>. QED BY <2>1, <2>2 DEF SameBut, OneBlockEach
<1>2. CASE Rests(bs, cs)
  BY <1>1, <1>2 DEF Rests, IsFree
<1>3. CASE Hands(bs, cs)
  <2>1. PICK at, au, h : Both(bs, at, cs, au, h) /\ h \notin Used(bs)
    BY <1>3 DEF Hands
  <2>2. bs[k].handle # h
    BY <2>1, <1>1 DEF Used, IsFree
  <2>. QED BY <2>1, <2>2, <1>1
<1>4. ASSUME NEW at, NEW au, NEW h, NEW i, NEW s,
             Both(bs, at, cs, au, h), Holds(bs, i, h, s, 0)
      PROVE  \E j \in DOMAIN cs : cs[j] = bs[k]
  <2>1. bs[k].handle # h
    <3>1. i \in DOMAIN bs /\ bs[i].handle = h /\ bs[i].locked = 0
      BY <1>4 DEF Holds
    <3>. QED BY <3>1, <1>1, <1>4
  <2>. QED BY <2>1, <1>1, <1>4
<1>5. CASE Frees(bs, cs)
  BY <1>4, <1>5 DEF Frees
<1>6. CASE Resizes(bs, cs)
  BY <1>4, <1>6 DEF Resizes
<1>7. CASE Locks(bs, cs)
  <2>1. PICK at, au, h, i, j, l, m :
           /\ Both(bs, at, cs, au, h)
           /\ Holds(bs, i, h, bs[i].size, l)
           /\ Holds(cs, j, h, bs[i].size, m)
           /\ cs[j].offset = bs[i].offset
    BY <1>7 DEF Locks
  <2>2. CASE bs[k].handle # h
    BY <2>1, <2>2, <1>1
  <2>3. CASE bs[k].handle = h
    <3>1. i = k
      BY <2>1, <2>3, <1>1 DEF Holds
    <3>. QED BY <2>1, <2>3, <3>1 DEF Holds
  <2>. QED BY <2>2, <2>3
<1>. QED BY <1>2, <1>3, <1>5, <1>6, <1>7 DEF Does

(* A locked block keeps handle, place and size while other blocks are      *)
(* freed, merged and moved (extmem.c:435-460, 534).                        *)
THEOREM LockedBlocksStay == Spec => LockedStays
<1>. DEFINE A == \A i \in DOMAIN embs : embs[i].locked > 0 =>
                    \E j \in DOMAIN embs' :
                        /\ embs'[j].handle = embs[i].handle
                        /\ embs'[j].offset = embs[i].offset
                        /\ embs'[j].size = embs[i].size
<1>1. IInv /\ [Next]_vars => A
  BY NextDoes, DoesKeepLocked
<1>2. IInv /\ [Next]_vars => [A]_vars
  BY <1>1
<1>. QED BY <1>2, Invariant, PTL DEF Spec, LockedStays

(* The table of the first list is empty. *)
LEMMA InitPromise ==
  ASSUME Init
  PROVE  Promise!Init
<1>1. Used(embs) = {}
  BY DEF Init, Used
<1>2. Table(embs) = [h \in {} |-> 0]
  BY <1>1 DEF Table
<1>3. [h \in {} |-> 0] = <<>>
  OBVIOUS
<1>. QED BY <1>2, <1>3 DEF Promise!Init

(* What the table has for a block in use of the first list. *)
LEMMA HoldsTable ==
  ASSUME NEW bs, NEW at, NEW cs, NEW au, NEW h, Both(bs, at, cs, au, h),
         NEW i, NEW kb, NEW l, Holds(bs, i, h, kb, l)
  PROVE  h \in DOMAIN Table(bs) /\ Table(bs)[h] = [size |-> kb, locked |-> l]
<1>1. Whole(bs, at) /\ DOMAIN bs = 1 .. Len(bs)
  BY DEF Both, Whole, Chain
<1>2. PICK t : /\ t = Table(bs) /\ DOMAIN t = Used(bs)
               /\ \A k \in 1 .. Len(bs) :
                     bs[k].handle # 0 =>
                        /\ bs[k].handle \in Used(bs)
                        /\ t[bs[k].handle] = [size |-> bs[k].size,
                                              locked |-> bs[k].locked]
  BY <1>1, TableIs
<1>. QED BY <1>1, <1>2 DEF Holds

(* A step of the list is a step of the table. *)
LEMMA NextPromise ==
  ASSUME IInv, [Next]_vars
  PROVE  [Promise!Next]_(Table(embs))
<1>1. PICK bs, cs : bs = embs /\ cs = embs' /\ Does(bs, cs)
  BY NextDoes
<1>2. PICK t, u : Tables(bs, cs, t, u) /\ t = Table(bs) /\ u = Table(cs)
  BY DEF Tables
<1>3. Table(embs) = t /\ Table(embs)' = u
  BY <1>1, <1>2
<1>4. CASE Rests(bs, cs)
  <2>1. u = t
    BY <1>2, <1>4, TableSame DEF Rests
  <2>. QED BY <2>1, <1>3
<1>5. CASE Hands(bs, cs)
  <2>1. PICK at, au, j, h, kb :
           /\ h \in 1 .. MaxHandle /\ kb \in 0 .. TotalKb
           /\ Both(bs, at, cs, au, h) /\ h \notin Used(bs) /\ Holds(cs, j, h, kb, 0)
    BY <1>5 DEF Hands
  <2>2. /\ DOMAIN t = Used(bs)
        /\ u = [x \in Used(bs) \cup {h} |->
                  IF x = h THEN [size |-> kb, locked |-> 0] ELSE t[x]]
    <3>1. HasTable(bs, at, cs, au, h, j, kb, 0, t, u)
      BY <1>2, <2>1 DEF HasTable
    <3>2. Gets(bs, h, kb, 0, t, u)
      BY ONLY <3>1, TableHas
    <3>. QED BY <3>2 DEF Gets
  <2>3. Promise!UsedKb(u) <= TotalKb
    BY <1>2, <2>1, EnoughKb DEF Both
  <2>4. Promise!Alloc(h, kb)
    BY <1>3, <2>1, <2>2, <2>3 DEF Promise!Alloc
  <2>. QED BY <2>1, <2>4 DEF Promise!Next
<1>6. CASE Frees(bs, cs)
  <2>1. PICK at, au, h, i :
           Both(bs, at, cs, au, h) /\ Holds(bs, i, h, bs[i].size, 0) /\ h \notin Used(cs)
    BY <1>6 DEF Frees
  <2>2. h \in DOMAIN t /\ t[h] = [size |-> bs[i].size, locked |-> 0]
    BY <1>2, <2>1, HoldsTable
  <2>3. u = [x \in (DOMAIN t) \ {h} |-> t[x]]
    <3>1. LosesTable(bs, at, cs, au, h, t, u)
      BY <1>2, <2>1 DEF LosesTable
    <3>. QED BY ONLY <3>1, TableGone
  <2>4. Promise!Free(h)
    BY <1>3, <2>2, <2>3 DEF Promise!Free
  <2>. QED BY <1>3, <2>2, <2>4 DEF Promise!Next
<1>7. CASE Resizes(bs, cs)
  <2>1. PICK at, au, h, i, j, kb : /\ Both(bs, at, cs, au, h)
                                   /\ Holds(bs, i, h, bs[i].size, 0)
                                   /\ Holds(cs, j, h, kb, 0)
    BY <1>7 DEF Resizes
  <2>2. h \in DOMAIN t /\ t[h] = [size |-> bs[i].size, locked |-> 0]
    BY <1>2, <2>1, HoldsTable
  <2>3. kb \in 0 .. TotalKb
    BY <2>1, WholeBlocks DEF Both, Holds
  <2>4. /\ DOMAIN t = Used(bs) /\ t = [x \in Used(bs) |-> t[x]]
        /\ u = [x \in Used(bs) \cup {h} |->
                  IF x = h THEN [size |-> kb, locked |-> 0] ELSE t[x]]
    <3>1. HasTable(bs, at, cs, au, h, j, kb, 0, t, u)
      BY <1>2, <2>1 DEF HasTable
    <3>2. Gets(bs, h, kb, 0, t, u)
      BY ONLY <3>1, TableHas
    <3>. QED BY <3>2 DEF Gets
  <2>5. u = [t EXCEPT ![h].size = kb]
    BY <2>2, <2>4
  <2>6. Promise!UsedKb(u) <= TotalKb
    <3>1. Whole(cs, au)
      BY ONLY <2>1 DEF Both
    <3>2. Promise!UsedKb(Table(cs)) <= TotalKb
      BY ONLY <3>1, EnoughKb
    <3>. QED BY <1>2, <3>2
  <2>7. Promise!Realloc(h, kb)
    <3>1. t[h].locked = 0
      BY ONLY <2>2
    <3>. QED BY ONLY <1>3, <2>2, <2>5, <2>6, <3>1 DEF Promise!Realloc
  <2>. QED BY <1>3, <2>2, <2>3, <2>7 DEF Promise!Next
<1>8. CASE Locks(bs, cs)
  <2>1. PICK at, au, h, i, j, l, m :
           /\ l \in 0 .. MaxLock /\ m \in 0 .. MaxLock
           /\ Both(bs, at, cs, au, h)
           /\ Holds(bs, i, h, bs[i].size, l)
           /\ Holds(cs, j, h, bs[i].size, m)
           /\ m = l + 1 \/ l = m + 1
    <3>1. PICK at, au, h, i, j : \E l, m \in 0 .. MaxLock :
             /\ Both(bs, at, cs, au, h)
             /\ Holds(bs, i, h, bs[i].size, l)
             /\ Holds(cs, j, h, bs[i].size, m)
             /\ cs[j].offset = bs[i].offset
             /\ m = l + 1 \/ l = m + 1
      BY ONLY <1>8, Zenon DEF Locks
    <3>2. PICK l \in 0 .. MaxLock, m \in 0 .. MaxLock :
             /\ Both(bs, at, cs, au, h)
             /\ Holds(bs, i, h, bs[i].size, l)
             /\ Holds(cs, j, h, bs[i].size, m)
             /\ m = l + 1 \/ l = m + 1
      BY ONLY <3>1, Zenon
    <3>. QED BY ONLY <3>2, Zenon
  <2>2. h \in DOMAIN t /\ t[h] = [size |-> bs[i].size, locked |-> l]
    <3>1. Both(bs, at, cs, au, h) /\ Holds(bs, i, h, bs[i].size, l)
      BY ONLY <2>1
    <3>2. h \in DOMAIN Table(bs) /\ Table(bs)[h] = [size |-> bs[i].size, locked |-> l]
      BY ONLY <3>1, HoldsTable
    <3>. QED BY <1>2, <3>2
  <2>3. /\ DOMAIN t = Used(bs) /\ t = [x \in Used(bs) |-> t[x]]
        /\ u = [x \in Used(bs) \cup {h} |->
                  IF x = h THEN [size |-> bs[i].size, locked |-> m] ELSE t[x]]
    <3>1. HasTable(bs, at, cs, au, h, j, bs[i].size, m, t, u)
      BY <1>2, <2>1 DEF HasTable
    <3>2. Gets(bs, h, bs[i].size, m, t, u)
      BY ONLY <3>1, TableHas
    <3>. QED BY <3>2 DEF Gets
  <2>4. u = [t EXCEPT ![h].locked = m]
    BY <2>2, <2>3
  <2>5. MaxLock \in Nat
    BY XmsAssumption
  <2>6. CASE m = l + 1
    <3>1. t[h].locked < MaxLock /\ u = [t EXCEPT ![h].locked = @ + 1]
      BY <2>1, <2>2, <2>4, <2>5, <2>6
    <3>2. Promise!Lock(h)
      BY <1>3, <3>1 DEF Promise!Lock
    <3>. QED BY <1>3, <2>2, <3>2 DEF Promise!Next
  <2>7. CASE l = m + 1
    <3>1. t[h].locked > 0 /\ t[h].locked - 1 = m
      BY <2>1, <2>2, <2>5, <2>7
    <3>3. u = [t EXCEPT ![h].locked = @ - 1]
      BY <2>2, <2>4, <3>1
    <3>2. Promise!Unlock(h)
      BY <1>3, <3>1, <3>3 DEF Promise!Unlock
    <3>. QED BY <1>3, <2>2, <3>2 DEF Promise!Next
  <2>. QED BY <2>1, <2>6, <2>7
<1>. QED BY <1>1, <1>4, <1>5, <1>6, <1>7, <1>8 DEF Does

(* Programs see a table of blocks by handle that obeys XmsHandles, however *)
(* the list is split, merged and moved (extmem.c:309-366, 435-592).        *)
THEOREM ListImplementsHandles == Spec => Promised
<1>1. Init => Promise!Init
  BY InitPromise
<1>2. IInv /\ [Next]_vars => [Promise!Next]_(Table(embs))
  BY NextPromise
<1>. QED BY <1>1, <1>2, Invariant, PTL DEF Spec, Promised, Promise!Spec
================================================================================
