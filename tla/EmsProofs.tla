-------------------------------- MODULE EmsProofs --------------------------------
(***************************************************************************)
(* Ems: pages are conserved, no two blocks have one address, the frame     *)
(* shows pages of blocks that are allocated until a row of a table is      *)
(* stored behind it, and save areas stay, for any number of blocks, pages  *)
(* and tables.                                                             *)
(***************************************************************************)
EXTENDS Ems, NumberLemmas, SequenceTheorems

--------------------------------------------------------------------------------
(* The handle that AH=43h gives.                                           *)
IsScan(list, n, f) ==
    f = [k \in 0 .. n |->
            IF k = 0 THEN 1
            ELSE IF list[k].handle = f[k - 1] THEN f[k - 1] + 1 ELSE f[k - 1]]

(* The pass over the list ends with a handle. *)
LEMMA ScanExists ==
  ASSUME NEW list \in Seq(Node)
  PROVE  \E f : IsScan(list, Len(list), f)
<1> DEFINE T == {n \in Nat : \E f \in [0 .. n -> Nat] : IsScan(list, n, f)}
<1>1. 0 \in T
  <2> DEFINE f == [k \in 0 .. 0 |-> 1]
  <2>1. f \in [0 .. 0 -> Nat] /\ f[0] = 1
    OBVIOUS
  <2>2. IsScan(list, 0, f)
    BY DEF IsScan
  <2>3. QED
    BY <2>1, <2>2
<1>2. ASSUME NEW n \in T PROVE n + 1 \in T
  <2>1. PICK f \in [0 .. n -> Nat] : IsScan(list, n, f)
    BY <1>2
  <2>2. n \in Nat
    OBVIOUS
  <2>3. PICK v : v = IF list[n + 1].handle = f[n] THEN f[n] + 1 ELSE f[n]
    OBVIOUS
  <2>4. v \in Nat
    BY <2>2, <2>3
  <2>5. PICK g : g = [k \in 0 .. n + 1 |-> IF k = n + 1 THEN v ELSE f[k]]
    OBVIOUS
  <2>6. g \in [0 .. n + 1 -> Nat]
    BY <2>2, <2>4, <2>5
  <2>7. ASSUME NEW k \in 0 .. n + 1
        PROVE  g[k] = IF k = 0 THEN 1
                      ELSE IF list[k].handle = g[k - 1] THEN g[k - 1] + 1 ELSE g[k - 1]
    <3>1. CASE k = n + 1
      <4>1. k # 0 /\ k - 1 = n /\ n \in 0 .. n + 1 /\ n # n + 1
        BY <2>2, <3>1
      <4>2. g[k] = v /\ g[k - 1] = f[n]
        BY <2>5, <3>1, <4>1
      <4>3. QED
        BY <2>3, <3>1, <4>1, <4>2
    <3>2. CASE k # n + 1
      <4>1. k \in 0 .. n
        BY <2>2, <3>2
      <4>2. g[k] = f[k] /\ (k # 0 => k - 1 \in 0 .. n /\ g[k - 1] = f[k - 1])
        BY <2>2, <2>5, <4>1
      <4>3. f[k] = IF k = 0 THEN 1
                   ELSE IF list[k].handle = f[k - 1] THEN f[k - 1] + 1 ELSE f[k - 1]
        BY <2>1, <4>1 DEF IsScan
      <4>4. QED
        BY <4>2, <4>3
    <3>3. QED
      BY <3>1, <3>2
  <2>8. g = [k \in 0 .. n + 1 |-> g[k]]
    BY <2>5
  <2>9. IsScan(list, n + 1, g)
    BY <2>7, <2>8 DEF IsScan
  <2>10. PICK m \in Nat : m = n + 1
    BY <2>2
  <2>11. g \in [0 .. m -> Nat] /\ IsScan(list, m, g)
    BY <2>6, <2>9, <2>10
  <2>12. m \in T
    BY <2>11
  <2>13. QED
    BY <2>10, <2>12
<1>3. T \subseteq Nat
  OBVIOUS
<1>4. T = Nat
  <2> HIDE DEF T
  <2> QED BY <1>1, <1>2, <1>3, NatSetInduction
<1>5. Len(list) \in T
  BY <1>4
<1>6. QED
  BY <1>5

LEMMA HandleIsNat ==
  ASSUME NEW list \in Seq(Node)
  PROVE  HandleAfter(list) \in Nat
<1>1. PICK f : /\ f = CHOOSE s : IsScan(list, Len(list), s)
               /\ IsScan(list, Len(list), f)
  BY ScanExists
<1>2. HandleAfter(list) = f[Len(list)]
  BY <1>1 DEF HandleAfter, IsScan
<1> DEFINE n == Len(list)
           T == {k \in Nat : k <= n => f[k] \in Nat}
<1>3. n \in Nat /\ \A k \in 0 .. n :
         f[k] = IF k = 0 THEN 1
                ELSE IF list[k].handle = f[k - 1] THEN f[k - 1] + 1 ELSE f[k - 1]
  <2>1. n \in Nat
    OBVIOUS
  <2>2. f = [k \in 0 .. n |->
               IF k = 0 THEN 1
               ELSE IF list[k].handle = f[k - 1] THEN f[k - 1] + 1 ELSE f[k - 1]]
    BY <1>1 DEF IsScan
  <2> HIDE DEF n
  <2>3. QED
    BY <2>1, <2>2
<1>4. 0 \in T
  BY <1>3
<1>5. ASSUME NEW k \in T PROVE k + 1 \in T
  <2>1. CASE k + 1 <= n
    <3>1. k \in Nat /\ k + 1 \in 0 .. n /\ f[k] \in Nat
      BY <1>3, <2>1
    <3>2. f[k + 1] = f[k] + 1 \/ f[k + 1] = f[k]
      BY <1>3, <3>1
    <3>3. QED
      BY <3>1, <3>2
  <2>2. CASE ~ (k + 1 <= n)
    BY <2>2
  <2>3. QED
    BY <2>1, <2>2
<1>6. T \subseteq Nat
  OBVIOUS
<1>7. T = Nat
  <2> HIDE DEF T
  <2> QED BY <1>4, <1>5, <1>6, NatSetInduction
<1>8. QED
  BY <1>2, <1>3, <1>7

--------------------------------------------------------------------------------
(* Lists of blocks: no address twice, the pages counted, and a frame that  *)
(* shows only pages of the list.                                           *)
Apart(list) == \A j, k \in DOMAIN list : list[j].mem = list[k].mem => j = k

PagesCounted(list, free) ==
    /\ IsFiniteSet(AllPages(list))
    /\ free + Cardinality(AllPages(list)) = MaxPages

FrameOK(list, map) ==
    \A i \in Phys : map[i] # Null => \E k \in DOMAIN list : Shows(list, map[i], k)

ListOK(list, free) ==
    /\ list \in Seq(Node)
    /\ free \in Nat
    /\ Apart(list)
    /\ PagesCounted(list, free)

(* A block has as many pages as it says. *)
LEMMA BlockPages ==
  ASSUME NEW b \in Node
  PROVE  IsFiniteSet(PagesOf(b)) /\ Cardinality(PagesOf(b)) = b.pages
<1>1. PICK n \in Nat : n = b.pages
  BY DEF Node
<1>2. IsFiniteSet(1 .. n) /\ Cardinality(1 .. n) = n
  BY FS_Interval
<1>3. PICK m, S : m = b.mem /\ S = 1 .. n
  OBVIOUS
<1>4. IsFiniteSet({m} \X S) /\ Cardinality({m} \X S) = Cardinality(S)
  BY <1>2, <1>3, PairsCount
<1>5. QED
  BY <1>1, <1>2, <1>3, <1>4 DEF PagesOf

(* Sets that change by the pages of one block. *)
LEMMA AddPages ==
  ASSUME NEW S, NEW P, IsFiniteSet(S), IsFiniteSet(P), S \cap P = {}
  PROVE  /\ IsFiniteSet(S \cup P)
         /\ Cardinality(S \cup P) = Cardinality(S) + Cardinality(P)
<1>1. Cardinality(S) \in Nat /\ Cardinality(P) \in Nat
  BY FS_CardinalityType
<1>2. Cardinality(S \cap P) = 0
  BY FS_EmptySet
<1>3. /\ IsFiniteSet(S \cup P)
      /\ Cardinality(S \cup P) = Cardinality(S) + Cardinality(P) - Cardinality(S \cap P)
  BY FS_Union, Zenon
<1>4. QED
  BY <1>1, <1>2, <1>3

LEMMA DropPages ==
  ASSUME NEW S, NEW P, IsFiniteSet(S), P \subseteq S
  PROVE  /\ IsFiniteSet(S \ P) /\ IsFiniteSet(P)
         /\ Cardinality(S \ P) = Cardinality(S) - Cardinality(P)
<1>1. IsFiniteSet(P)
  BY FS_Subset
<1>2. S \cap P = P
  OBVIOUS
<1>3. /\ IsFiniteSet(S \ P)
      /\ Cardinality(S \ P) = Cardinality(S) - Cardinality(S \cap P)
  BY FS_Difference, Zenon
<1>4. QED
  BY <1>1, <1>2, <1>3

(* The pages of two lists, when list2 has the blocks of list but the one   *)
(* at k, and maybe one more, b.                                            *)
Swaps(list, k, list2) ==
    /\ k \in DOMAIN list
    /\ \A i \in DOMAIN list2 : \E j \in DOMAIN list : j # k /\ list2[i] = list[j]
    /\ \A j \in DOMAIN list : j # k => \E i \in DOMAIN list2 : list2[i] = list[j]

LEMMA PagesWithout ==
  ASSUME NEW list, Apart(list), NEW k, NEW list2, Swaps(list, k, list2)
  PROVE  /\ AllPages(list2) = AllPages(list) \ PagesOf(list[k])
         /\ PagesOf(list[k]) \subseteq AllPages(list)
<1>1. ASSUME NEW x \in AllPages(list2) PROVE x \in AllPages(list) \ PagesOf(list[k])
  <2>1. PICK i \in DOMAIN list2 : x \in PagesOf(list2[i])
    BY DEF AllPages
  <2>2. PICK j \in DOMAIN list : j # k /\ list2[i] = list[j]
    BY DEF Swaps
  <2>3. x \in PagesOf(list[j])
    BY <2>1, <2>2
  <2>4. x \notin PagesOf(list[k])
    BY <2>2, <2>3 DEF PagesOf, Apart, Swaps
  <2>5. QED
    BY <2>3, <2>4 DEF AllPages
<1>2. ASSUME NEW x \in AllPages(list), x \notin PagesOf(list[k]) PROVE x \in AllPages(list2)
  <2>1. PICK j \in DOMAIN list : x \in PagesOf(list[j])
    BY DEF AllPages
  <2>2. PICK i \in DOMAIN list2 : list2[i] = list[j]
    BY <1>2, <2>1 DEF Swaps
  <2>3. QED
    BY <2>1, <2>2 DEF AllPages
<1>3. PagesOf(list[k]) \subseteq AllPages(list)
  BY DEF AllPages, Swaps
<1>4. QED
  BY <1>1, <1>2, <1>3

(* A new block at an address that is not in use. *)
LEMMA AppendGood ==
  ASSUME NEW list, NEW free, ListOK(list, free), NEW b \in Node, b.pages <= free,
         \A k \in DOMAIN list : list[k].mem # b.mem,
         NEW list2, list2 = Append(list, b)
  PROVE  /\ ListOK(list2, free - b.pages)
         /\ \A map : FrameOK(list, map) => FrameOK(list2, map)
<1>1. list \in Seq(Node) /\ free \in Nat /\ Apart(list) /\ PagesCounted(list, free)
  BY DEF ListOK
<1>2. PICK n \in Nat : n = Len(list)
  BY <1>1
<1>3. /\ list2 \in Seq(Node) /\ DOMAIN list = 1 .. n /\ DOMAIN list2 = 1 .. n + 1
      /\ list2[n + 1] = b /\ \A i \in 1 .. n : list2[i] = list[i] /\ i \in 1 .. n + 1
  BY <1>1, <1>2
<1>4. \A i \in 1 .. n + 1 : i = n + 1 \/ i \in 1 .. n
  BY <1>2
<1>5. Apart(list2)
  BY <1>1, <1>3, <1>4 DEF Apart
<1>6. AllPages(list2) = AllPages(list) \cup PagesOf(b)
  <2>1. ASSUME NEW x \in AllPages(list2) PROVE x \in AllPages(list) \cup PagesOf(b)
    <3>1. PICK i \in 1 .. n + 1 : x \in PagesOf(list2[i])
      BY <1>3 DEF AllPages
    <3>2. CASE i = n + 1
      BY <1>3, <3>1, <3>2
    <3>3. CASE i \in 1 .. n
      BY <1>3, <3>1, <3>3 DEF AllPages
    <3>4. QED
      BY <1>4, <3>2, <3>3
  <2>2. ASSUME NEW x \in AllPages(list) PROVE x \in AllPages(list2)
    <3>1. PICK i \in 1 .. n : x \in PagesOf(list[i])
      BY <1>3 DEF AllPages
    <3>2. QED
      BY <1>3, <3>1 DEF AllPages
  <2>3. ASSUME NEW x \in PagesOf(b) PROVE x \in AllPages(list2)
    <3>1. n + 1 \in 1 .. n + 1
      BY <1>2
    <3>2. QED
      BY <1>3, <3>1 DEF AllPages
  <2>4. QED
    BY <2>1, <2>2, <2>3
<1>7. AllPages(list) \cap PagesOf(b) = {}
  BY DEF AllPages, PagesOf
<1>8. PagesCounted(list2, free - b.pages)
  <2>1. PICK S, P : S = AllPages(list) /\ P = PagesOf(b)
    OBVIOUS
  <2>2. IsFiniteSet(P) /\ Cardinality(P) = b.pages
    BY <2>1, BlockPages
  <2>3. IsFiniteSet(S) /\ free + Cardinality(S) = MaxPages /\ S \cap P = {}
    BY <1>1, <1>7, <2>1 DEF PagesCounted
  <2>4. IsFiniteSet(S \cup P) /\ Cardinality(S \cup P) = Cardinality(S) + Cardinality(P)
    BY <2>2, <2>3, AddPages
  <2>5. Cardinality(S) \in Nat /\ b.pages \in Nat
    BY <2>3, FS_CardinalityType DEF Node
  <2>6. (free - b.pages) + Cardinality(S \cup P) = MaxPages
    BY <1>1, <2>2, <2>3, <2>4, <2>5
  <2>7. QED
    BY <1>6, <2>1, <2>4, <2>6 DEF PagesCounted
<1>9. free - b.pages \in Nat
  BY <1>1 DEF Node
<1>10. ASSUME NEW map, FrameOK(list, map) PROVE FrameOK(list2, map)
  BY <1>3, <1>10 DEF FrameOK, Shows
<1>11. QED
  BY <1>3, <1>5, <1>8, <1>9, <1>10 DEF ListOK

(* A block is taken out. *)
LEMMA RemoveGood ==
  ASSUME NEW list, NEW free, ListOK(list, free), NEW k \in DOMAIN list,
         NEW list2, list2 = RemoveAt(list, k)
  PROVE  /\ ListOK(list2, free + list[k].pages)
         /\ Swaps(list, k, list2)
<1>1. list \in Seq(Node) /\ free \in Nat /\ Apart(list) /\ PagesCounted(list, free)
  BY DEF ListOK
<1>2. PICK n \in Nat : n = Len(list)
  BY <1>1
<1>3. k \in 1 .. n /\ DOMAIN list = 1 .. n
  BY <1>1, <1>2
<1>4. /\ list2 \in Seq(Node) /\ DOMAIN list2 = 1 .. n - 1
      /\ \A i \in 1 .. n - 1 : list2[i] = IF i < k THEN list[i] ELSE list[i + 1]
  <2>1. PICK u, v : u = SubSeq(list, 1, k - 1) /\ v = SubSeq(list, k + 1, n)
    OBVIOUS
  <2>2. /\ u \in Seq(Node) /\ Len(u) = k - 1
        /\ \A i \in 1 .. k - 1 : u[i] = list[i]
    <3>1. PICK l : l = k - 1
      OBVIOUS
    <3>2. l \in 0 .. Len(list) /\ list \in Seq(Node) /\ u = SubSeq(list, 1, l)
      BY <1>1, <1>2, <1>3, <2>1, <3>1
    <3>3. u \in Seq(Node) /\ Len(u) = l /\ \A i \in 1 .. l : u[i] = list[i]
      BY ONLY <3>2
    <3>4. QED
      BY ONLY <3>1, <3>3
  <2>3. /\ v \in Seq(Node) /\ Len(v) = n - k
        /\ \A i \in 1 .. n - k : v[i] = list[k + i]
    <3>1. PICK m : m = n - k
      OBVIOUS
    <3>2. /\ m \in Nat /\ k \in Nat \ {0} /\ n = k + m /\ Len(list) = n
          /\ list \in Seq(Node) /\ v = SubSeq(list, k + 1, n)
      BY <1>1, <1>2, <1>3, <2>1, <3>1
    <3>3. v \in Seq(Node) /\ Len(v) = m /\ \A i \in 1 .. m : v[i] = list[k + i]
      <4>1. PICK q : q = k + 1
        OBVIOUS
      <4>2. /\ q \in Int /\ n \in Int /\ \A i \in q .. n : list[i] \in Node
            /\ v = SubSeq(list, q, n)
        <5>1. \A i \in 1 .. n : list[i] \in Node
          BY ONLY <3>2
        <5>2. k \in Nat /\ n \in Nat /\ v = SubSeq(list, k + 1, n)
          BY ONLY <3>2
        <5>3. QED
          BY ONLY <4>1, <5>1, <5>2
      <4>3. /\ v \in Seq(Node) /\ Len(v) = IF q <= n THEN n - q + 1 ELSE 0
            /\ \A i \in 1 .. n - q + 1 : v[i] = list[q + i - 1]
        BY ONLY <4>2, SubSeqProperties
      <4>4. /\ m = n - q + 1 /\ m = IF q <= n THEN n - q + 1 ELSE 0
            /\ \A i \in 1 .. m : q + i - 1 = k + i
        <5>1. m \in Nat /\ k \in Nat /\ n = k + m /\ q = k + 1
          BY ONLY <3>2, <4>1
        <5>2. QED
          BY ONLY <5>1
      <4>5. QED
        BY <4>3, <4>4
    <3>4. QED
      BY ONLY <3>1, <3>3
  <2>4. list2 = u \o v
    BY <1>2, <2>1 DEF RemoveAt
  <2>5. list2 \in Seq(Node) /\ Len(list2) = n - 1
    BY <1>2, <1>3, <2>2, <2>3, <2>4
  <2>6. ASSUME NEW i \in 1 .. n - 1
        PROVE  list2[i] = IF i < k THEN list[i] ELSE list[i + 1]
    <3>1. CASE i < k
      <4>1. i \in 1 .. k - 1
        BY <1>2, <1>3, <3>1
      <4>2. list2[i] = u[i]
        <5>1. PICK l : l = k - 1
          OBVIOUS
        <5>2. Len(u) = l /\ i \in 1 .. l /\ l \in Nat
          BY <1>2, <1>3, <2>2, <4>1, <5>1
        <5>3. QED
          BY ONLY <2>2, <2>3, <2>4, <5>2
      <4>3. QED
        BY <2>2, <3>1, <4>1, <4>2
    <3>2. CASE ~ (i < k)
      <4>1. i - (k - 1) \in 1 .. n - k /\ k + (i - (k - 1)) = i + 1
        BY <1>2, <1>3, <3>2
      <4>2. list2[i] = v[i - (k - 1)]
        <5>1. PICK l : l = k - 1
          OBVIOUS
        <5>2. PICK m : m = n - k
          OBVIOUS
        <5>3. /\ Len(u) = l /\ Len(v) = m /\ l \in Nat /\ m \in Nat
              /\ i \in l + 1 .. l + m
          BY <1>2, <1>3, <2>2, <2>3, <3>2, <5>1, <5>2
        <5>4. list2[i] = v[i - l]
          <6>1. \A x \in Seq(Node), y \in Seq(Node), j \in Nat :
                   j > Len(x) /\ j <= Len(x) + Len(y) => (x \o y)[j] = y[j - Len(x)]
            OBVIOUS
          <6>2. i \in Nat /\ i > l /\ i <= l + m
            BY ONLY <5>3
          <6>3. QED
            BY ONLY <2>2, <2>3, <2>4, <5>3, <6>1, <6>2
        <5>5. QED
          BY <5>1, <5>4
      <4>3. QED
        BY <2>3, <3>2, <4>1, <4>2
    <3>3. QED
      BY <3>1, <3>2
  <2>7. DOMAIN list2 = 1 .. n - 1
    BY <2>5
  <2>8. QED
    BY <2>5, <2>6, <2>7
<1>5. Apart(list2)
  <2> SUFFICES ASSUME NEW i \in 1 .. n - 1, NEW j \in 1 .. n - 1, list2[i].mem = list2[j].mem
               PROVE  i = j
    BY <1>4 DEF Apart
  <2>1. PICK a, c : a = (IF i < k THEN i ELSE i + 1) /\ c = (IF j < k THEN j ELSE j + 1)
    OBVIOUS
  <2>2. /\ a \in 1 .. n /\ c \in 1 .. n /\ list2[i] = list[a] /\ list2[j] = list[c]
        /\ (a = c => i = j)
    BY <1>2, <1>3, <1>4, <2>1
  <2>3. QED
    BY <1>1, <1>3, <2>2 DEF Apart
<1>6. Swaps(list, k, list2)
  <2>1. ASSUME NEW i \in 1 .. n - 1
        PROVE  \E j \in 1 .. n : j # k /\ list2[i] = list[j]
    <3>1. CASE i < k
      <4>1. i \in 1 .. n /\ i # k
        BY <1>2, <1>3, <3>1
      <4>2. QED
        BY <1>4, <3>1, <4>1
    <3>2. CASE ~ (i < k)
      <4>1. i + 1 \in 1 .. n /\ i + 1 # k
        BY <1>2, <1>3, <3>2
      <4>2. QED
        BY <1>4, <3>2, <4>1
    <3>3. QED
      BY <3>1, <3>2
  <2>2. ASSUME NEW j \in 1 .. n, j # k
        PROVE  \E i \in 1 .. n - 1 : list2[i] = list[j]
    <3>1. CASE j < k
      <4>1. j \in 1 .. n - 1
        BY <1>2, <1>3, <3>1
      <4>2. QED
        BY <1>4, <3>1, <4>1
    <3>2. CASE ~ (j < k)
      <4>1. j - 1 \in 1 .. n - 1 /\ ~ (j - 1 < k) /\ (j - 1) + 1 = j
        BY <1>2, <1>3, <2>2, <3>2
      <4>2. QED
        BY <1>4, <4>1
    <3>3. QED
      BY <3>1, <3>2
  <2>3. DOMAIN list = 1 .. n /\ DOMAIN list2 = 1 .. n - 1 /\ k \in 1 .. n
    BY <1>3, <1>4
  <2>4. QED
    BY ONLY <2>1, <2>2, <2>3 DEF Swaps
<1>7. list[k] \in Node /\ list[k].pages \in Nat
  <2>1. list[k] \in Node
    BY <1>1, <1>3
  <2>2. QED
    BY <2>1 DEF Node
<1>8. PagesCounted(list2, free + list[k].pages)
  <2>1. PICK S, P, b : S = AllPages(list) /\ P = PagesOf(b) /\ b = list[k]
    OBVIOUS
  <2>2. AllPages(list2) = S \ P /\ P \subseteq S
    BY <1>1, <1>6, <2>1, PagesWithout
  <2>3. IsFiniteSet(S) /\ free + Cardinality(S) = MaxPages
    BY <1>1, <2>1 DEF PagesCounted
  <2>4. IsFiniteSet(S \ P) /\ Cardinality(S \ P) = Cardinality(S) - Cardinality(P)
    BY <2>2, <2>3, DropPages
  <2>5. b \in Node /\ b.pages \in Nat
    BY <1>7, <2>1
  <2>6. Cardinality(P) = b.pages
    BY <2>1, <2>5, BlockPages
  <2>7. (free + b.pages) + Cardinality(S \ P) = MaxPages
    <3>1. Cardinality(S) \in Nat
      BY <2>3, FS_CardinalityType
    <3>2. QED
      BY <1>1, <2>3, <2>4, <2>5, <2>6, <3>1
  <2>8. QED
    BY <2>1, <2>2, <2>4, <2>7 DEF PagesCounted
<1>9. QED
  BY <1>1, <1>4, <1>5, <1>6, <1>7, <1>8 DEF ListOK

(* A block is replaced by one at its own address, or at one that no block  *)
(* has.                                                                    *)
Replaces(list, free, k, b, list2) ==
    /\ ListOK(list, free)
    /\ k \in DOMAIN list /\ b \in Node /\ b.pages <= free + list[k].pages
    /\ b.mem = list[k].mem \/ \A i \in DOMAIN list : list[i].mem # b.mem
    /\ list2 = [list EXCEPT ![k] = b]

LEMMA ReplaceGood ==
  ASSUME NEW list, NEW free, NEW k, NEW b, NEW list2, Replaces(list, free, k, b, list2)
  PROVE  ListOK(list2, (free + list[k].pages) - b.pages)
<1>a. /\ ListOK(list, free)
      /\ k \in DOMAIN list /\ b \in Node /\ b.pages <= free + list[k].pages
      /\ b.mem = list[k].mem \/ \A i \in DOMAIN list : list[i].mem # b.mem
      /\ list2 = [list EXCEPT ![k] = b]
  BY DEF Replaces
<1> USE <1>a
<1>1. list \in Seq(Node) /\ free \in Nat /\ Apart(list) /\ PagesCounted(list, free)
  BY DEF ListOK
<1>2. /\ list2 \in Seq(Node) /\ DOMAIN list2 = DOMAIN list /\ list2[k] = b
      /\ \A i \in DOMAIN list : i # k => list2[i] = list[i]
  BY <1>1
<1>3. list[k] \in Node
  BY <1>1
<1>4. list[k].pages \in Nat /\ b.pages \in Nat
  BY <1>3 DEF Node
<1>5. Apart(list2)
  BY <1>1, <1>2 DEF Apart
<1>6. AllPages(list2) = (AllPages(list) \ PagesOf(list[k])) \cup PagesOf(b)
  <2>1. ASSUME NEW x \in AllPages(list2)
        PROVE  x \in (AllPages(list) \ PagesOf(list[k])) \cup PagesOf(b)
    <3>1. PICK i \in DOMAIN list : x \in PagesOf(list2[i])
      BY <1>2 DEF AllPages
    <3>2. CASE i = k
      BY <1>2, <3>1, <3>2
    <3>3. CASE i # k
      <4>1. x \in PagesOf(list[i])
        BY <1>2, <3>1, <3>3
      <4>2. x \notin PagesOf(list[k])
        BY <1>1, <3>3, <4>1 DEF PagesOf, Apart
      <4>3. QED
        BY <4>1, <4>2 DEF AllPages
    <3>4. QED
      BY <3>2, <3>3
  <2>2. ASSUME NEW x \in AllPages(list), x \notin PagesOf(list[k])
        PROVE  x \in AllPages(list2)
    <3>1. PICK i \in DOMAIN list : x \in PagesOf(list[i])
      BY DEF AllPages
    <3>2. i # k
      BY <2>2, <3>1
    <3>3. QED
      BY <1>2, <3>1, <3>2 DEF AllPages
  <2>3. PagesOf(b) \subseteq AllPages(list2)
    BY <1>2 DEF AllPages
  <2>4. QED
    BY <2>1, <2>2, <2>3
<1>7. (AllPages(list) \ PagesOf(list[k])) \cap PagesOf(b) = {}
  <2> SUFFICES ASSUME NEW x \in AllPages(list), x \notin PagesOf(list[k]), x \in PagesOf(b)
               PROVE  FALSE
    OBVIOUS
  <2>1. PICK i \in DOMAIN list : x \in PagesOf(list[i])
    BY DEF AllPages
  <2>2. list[i].mem = b.mem
    BY <2>1 DEF PagesOf
  <2>3. i # k
    BY <2>1
  <2>4. QED
    BY <1>1, <2>2, <2>3 DEF Apart
<1>8. PagesCounted(list2, (free + list[k].pages) - b.pages)
  <2>1. PICK S, P, a, B : /\ S = AllPages(list) /\ a = list[k]
                          /\ P = PagesOf(a) /\ B = PagesOf(b)
    OBVIOUS
  <2>2. IsFiniteSet(S) /\ free + Cardinality(S) = MaxPages
    BY <1>1, <2>1 DEF PagesCounted
  <2>3. P \subseteq S
    BY <2>1 DEF AllPages
  <2>4. IsFiniteSet(S \ P) /\ Cardinality(S \ P) = Cardinality(S) - Cardinality(P)
    BY <2>2, <2>3, DropPages
  <2>5. a \in Node /\ a.pages \in Nat
    BY <1>3, <1>4, <2>1
  <2>6. Cardinality(P) = a.pages
    BY <2>1, <2>5, BlockPages
  <2>7. IsFiniteSet(B) /\ Cardinality(B) = b.pages
    BY <2>1, BlockPages
  <2>8. PICK U : U = S \ P
    OBVIOUS
  <2>9. U \cap B = {} /\ IsFiniteSet(U)
    BY <1>7, <2>1, <2>4, <2>8
  <2>10. IsFiniteSet(U \cup B) /\ Cardinality(U \cup B) = Cardinality(U) + Cardinality(B)
    BY <2>7, <2>9, AddPages
  <2>11. Cardinality(S) \in Nat
    BY <2>2, FS_CardinalityType
  <2>12. ((free + a.pages) - b.pages) + Cardinality(U \cup B) = MaxPages
    BY <1>1, <1>4, <2>2, <2>4, <2>5, <2>6, <2>7, <2>8, <2>10, <2>11
  <2>13. QED
    BY <1>6, <2>1, <2>8, <2>10, <2>12 DEF PagesCounted
<1>9. (free + list[k].pages) - b.pages \in Nat
  BY <1>1, <1>4
<1>10. QED
  BY <1>2, <1>5, <1>8, <1>9 DEF ListOK

(* The save area of a block is used, or becomes free. *)
Saves(list, free, k, m, list2) ==
    /\ ListOK(list, free)
    /\ k \in DOMAIN list /\ m \in FrameType \cup {Null}
    /\ list2 = [list EXCEPT ![k].saved_map = m]

LEMMA SaveGood ==
  ASSUME NEW list, NEW free, NEW k, NEW m, NEW list2, Saves(list, free, k, m, list2)
  PROVE  /\ ListOK(list2, free)
         /\ \A map : FrameOK(list, map) => FrameOK(list2, map)
<1>a. /\ ListOK(list, free)
      /\ k \in DOMAIN list /\ m \in FrameType \cup {Null}
      /\ list2 = [list EXCEPT ![k].saved_map = m]
  BY DEF Saves
<1> USE <1>a
<1>1. list \in Seq(Node) /\ free \in Nat
  BY DEF ListOK
<1>2. list[k] \in Node
  BY <1>1
<1>3. PICK b : b = [list[k] EXCEPT !.saved_map = m]
  OBVIOUS
<1>4. /\ b \in Node /\ b.mem = list[k].mem /\ b.pages = list[k].pages
      /\ list[k].pages \in Nat
  BY <1>2, <1>3 DEF Node
<1>5. list2 = [list EXCEPT ![k] = b]
  BY <1>1, <1>3
<1>6. ListOK(list2, free)
  <2>1. ListOK(list2, (free + list[k].pages) - b.pages)
    <3>1. b.pages <= free + list[k].pages
      BY <1>1, <1>4
    <3>2. Replaces(list, free, k, b, list2)
      BY <1>4, <1>5, <3>1 DEF Replaces
    <3>3. QED
      BY ONLY <3>2, ReplaceGood
  <2>2. (free + list[k].pages) - b.pages = free
    BY <1>1, <1>4
  <2>3. QED
    BY <2>1, <2>2
<1>7. ASSUME NEW map, FrameOK(list, map) PROVE FrameOK(list2, map)
  <2>1. /\ DOMAIN list2 = DOMAIN list
        /\ \A i \in DOMAIN list : list2[i].mem = list[i].mem /\ list2[i].pages = list[i].pages
    BY <1>1, <1>4, <1>5
  <2>2. QED
    BY <1>7, <2>1 DEF FrameOK, Shows
<1>8. QED
  BY <1>6, <1>7

--------------------------------------------------------------------------------
(* Frames. *)

(* A frame that was validated shows pages of the list only. *)
LEMMA ValidatedGood ==
  ASSUME NEW list, NEW map \in FrameType
  PROVE  Validated(list, map) \in FrameType /\ FrameOK(list, Validated(list, map))
<1>1. PICK m : m = Validated(list, map)
  OBVIOUS
<1>2. ASSUME NEW i \in Phys
      PROVE  \/ m[i] = Null
             \/ m[i] = map[i] /\ \E k \in DOMAIN list : Shows(list, map[i], k)
  BY <1>1 DEF Validated
<1>3. m = [i \in Phys |-> m[i]]
  BY <1>1 DEF Validated
<1>4. m \in FrameType
  BY <1>2, <1>3 DEF FrameType
<1>5. FrameOK(list, m)
  BY <1>2 DEF FrameOK
<1>6. QED
  BY <1>1, <1>4, <1>5

(* A row that is carried out shows a page of its block. *)
LEMMA EntryGood ==
  ASSUME NEW list \in Seq(Node), NEW k \in DOMAIN list, NEW row \in Row,
         InBlock(list[k], row)
  PROVE  /\ Entry(list[k], row) \in Page \cup {Null}
         /\ Entry(list[k], row) # Null => Shows(list, Entry(list[k], row), k)
<1>1. list[k] \in Node
  OBVIOUS
<1>2. PICK b : b = list[k]
  OBVIOUS
<1>3. CASE row.log = Unmap
  BY <1>3 DEF Entry
<1>4. CASE row.log # Unmap
  <2>1. Entry(b, row) = [mem |-> b.mem, log |-> row.log] /\ row.log < b.pages
    BY <1>2, <1>4 DEF Entry, InBlock
  <2>2. b.mem \in Mem /\ row.log \in Nat
    BY <1>1, <1>2 DEF Node, Row
  <2>3. Entry(b, row) \in Page
    BY <2>1, <2>2 DEF Page
  <2>4. Shows(list, Entry(b, row), k)
    BY <1>2, <2>1, <2>3, EmsAssumption DEF Shows
  <2>5. QED
    BY <1>2, <2>3, <2>4
<1>5. QED
  BY <1>3, <1>4

(* The last of the rows that store a place. *)
LEMMA LastRow ==
  ASSUME NEW b, NEW table \in Tables, NEW n, RowsFor(b, table, n) # {},
         NEW r, r = Max(RowsFor(b, table, n))
  PROVE  /\ r \in RowsFor(b, table, n) /\ r \in DOMAIN table.rows
         /\ table.rows[r] \in Row /\ InBlock(b, table.rows[r])
<1>1. table.rows \in Seq(Row)
  BY EmsAssumption DEF Table
<1>2. PICK T, l : T = RowsFor(b, table, n) /\ l = Len(table.rows)
  OBVIOUS
<1>3. l \in Nat /\ T \subseteq 0 .. l /\ T # {}
  BY <1>1, <1>2 DEF RowsFor, Done
<1>4. Max(T) \in T
  BY <1>3, MaxProperty
<1>5. r \in RowsFor(b, table, n)
  BY <1>2, <1>4
<1>6. r \in DOMAIN table.rows /\ InBlock(b, table.rows[r])
  <2>1. r \in DOMAIN table.rows /\ \A s \in 1 .. r : InBlock(b, table.rows[s])
    BY <1>5 DEF RowsFor, Done
  <2>2. r \in 1 .. r
    BY <1>1, <2>1
  <2>3. QED
    BY <2>1, <2>2
<1>7. table.rows[r] \in Row
  BY <1>1, <1>6
<1>8. QED
  BY <1>5, <1>6, <1>7

(* What a table stores for page i, before a pointer comes over log_page. *)
Stored(node, table, i) ==
    IF RowsFor(node, table, i) = {} THEN ems_map[i]
    ELSE Entry(node, table.rows[Max(RowsFor(node, table, i))])

LEMMA StoredGood ==
  ASSUME NEW k \in DOMAIN ems_memory, NEW table \in Tables, NEW i \in Phys,
         ems_memory \in Seq(Node), ems_map \in FrameType
  PROVE  /\ Stored(ems_memory[k], table, i) \in Page \cup {Null}
         /\ \/ Stored(ems_memory[k], table, i) = ems_map[i]
            \/ Stored(ems_memory[k], table, i) # Null
                  => Shows(ems_memory, Stored(ems_memory[k], table, i), k)
<1>1. PICK b : b = ems_memory[k]
  OBVIOUS
<1>2. CASE RowsFor(b, table, i) = {}
  BY <1>1, <1>2 DEF Stored, FrameType
<1>3. CASE RowsFor(b, table, i) # {}
  <2>1. PICK r : r = Max(RowsFor(b, table, i))
    OBVIOUS
  <2>2. table.rows[r] \in Row /\ InBlock(b, table.rows[r])
    BY <1>3, <2>1, LastRow
  <2>3. Stored(b, table, i) = Entry(b, table.rows[r])
    BY <1>3, <2>1 DEF Stored
  <2>4. QED
    BY <1>1, <2>2, <2>3, EntryGood
<1>4. QED
  BY <1>2, <1>3

(* AH=50h, 55h and 56h leave a frame, and unless a row is stored behind it *)
(* one that shows pages of the list only.                                  *)
LEMMA AlteredGood ==
  ASSUME NEW k \in DOMAIN ems_memory, NEW table \in Tables,
         ems_memory \in Seq(Node), ems_map \in FrameType
  PROVE  /\ Altered(ems_memory[k], table) \in FrameType
         /\ ~ IsWild(ems_memory[k], table) /\ FrameOK(ems_memory, ems_map)
               => FrameOK(ems_memory, Altered(ems_memory[k], table))
<1>1. PICK list, b, m : list = ems_memory /\ b = list[k] /\ m = Altered(b, table)
  OBVIOUS
<1>2. b \in Node
  BY <1>1
<1>3. ASSUME NEW i \in Phys
      PROVE  /\ \/ m[i] = Stored(b, table, i)
                \/ Stored(b, table, i) # Null
                   /\ \E r : m[i] = [Stored(b, table, i) EXCEPT !.log = HalfOf(b, table.rows[r], i)]
             /\ RowsFor(b, table, PhysPages + i \div 2) = {} => m[i] = Stored(b, table, i)
  BY <1>1, Zenon DEF Altered, Stored
<1>4. ASSUME NEW row, NEW i PROVE HalfOf(b, row, i) \in Nat
  <2>1. b.mem \in Mem
    BY <1>2 DEF Node
  <2>2. QED
    BY <2>1, EmsAssumption DEF HalfOf
<1>5. m \in FrameType
  <2>1. ASSUME NEW i \in Phys PROVE m[i] \in Page \cup {Null}
    <3>1. PICK page : page = Stored(b, table, i)
      OBVIOUS
    <3>2. page \in Page \cup {Null}
      BY <1>1, <3>1, StoredGood
    <3>3. CASE m[i] = page
      BY <3>2, <3>3
    <3>4. CASE page # Null /\ \E r : m[i] = [page EXCEPT !.log = HalfOf(b, table.rows[r], i)]
      <4>1. PICK h \in Nat : m[i] = [page EXCEPT !.log = h]
        BY <1>4, <3>4
      <4>2. page \in Page
        BY <3>2, <3>4
      <4>3. [page EXCEPT !.log = h] \in Page
        BY <4>2 DEF Page
      <4>4. QED
        BY <4>1, <4>3
    <3>5. QED
      BY <1>3, <3>1, <3>3, <3>4
  <2>2. m = [i \in Phys |-> m[i]]
    BY <1>1 DEF Altered
  <2>3. QED
    BY <2>1, <2>2 DEF FrameType
<1>6. ASSUME ~ IsWild(b, table), FrameOK(list, ems_map) PROVE FrameOK(list, m)
  <2>1. ASSUME NEW i \in Phys PROVE m[i] = Stored(b, table, i)
    <3>1. PICK n : n = PhysPages + i \div 2
      OBVIOUS
    <3>2. n >= PhysPages
      BY <3>1, EmsAssumption DEF Phys
    <3>3. RowsFor(b, table, n) = {}
      BY <1>6, <3>2 DEF IsWild, RowsFor
    <3>4. QED
      BY <1>3, <3>1, <3>3
  <2>2. ASSUME NEW i \in Phys, m[i] # Null
        PROVE  \E j \in DOMAIN list : Shows(list, m[i], j)
    <3>1. m[i] = ems_map[i] \/ Shows(list, m[i], k)
      BY <1>1, <2>1, <2>2, StoredGood
    <3>2. CASE m[i] = ems_map[i]
      BY <1>6, <2>2, <3>2 DEF FrameOK
    <3>3. CASE Shows(list, m[i], k)
      BY <1>1, <3>3
    <3>4. QED
      BY <3>1, <3>2, <3>3
  <2>3. QED
    BY <2>2 DEF FrameOK
<1>7. QED
  BY <1>1, <1>5, <1>6

--------------------------------------------------------------------------------
(* The inductive invariant. *)
Frames == fate = "runs" => FrameOK(ems_memory, ems_map)

IInv ==
    /\ TypeOK
    /\ ListOK(ems_memory, ems_freepages)
    /\ Frames

LEMMA InitInv == ASSUME Init PROVE IInv
<1>1. EmptyFrame \in FrameType /\ \A i \in Phys : EmptyFrame[i] = Null
  BY DEF EmptyFrame, FrameType
<1>2. NoBuffer \in [map : FrameType, flag : SUBSET Phys]
  BY <1>1 DEF NoBuffer
<1>3. MaxPages \in Nat
  BY EmsAssumption
<1>4. TypeOK
  BY <1>1, <1>2, <1>3 DEF Init, TypeOK
<1>5. FrameOK(ems_memory, ems_map)
  BY <1>1 DEF Init, FrameOK
<1>6. ListOK(ems_memory, ems_freepages)
  <2>1. ems_memory = <<>> /\ DOMAIN ems_memory = {}
    BY DEF Init
  <2>2. AllPages(ems_memory) = {}
    <3>1. {PagesOf(ems_memory[k]) : k \in DOMAIN ems_memory} = {}
      BY <2>1
    <3>2. QED
      BY <3>1, Zenon DEF AllPages
  <2>3. IsFiniteSet({}) /\ Cardinality({}) = 0
    BY FS_EmptySet
  <2>4. PagesCounted(ems_memory, ems_freepages)
    <3>1. ems_freepages = MaxPages /\ ems_freepages + 0 = MaxPages
      BY <1>3 DEF Init
    <3>2. IsFiniteSet(AllPages(ems_memory)) /\ Cardinality(AllPages(ems_memory)) = 0
      BY <2>2, <2>3
    <3>3. QED
      BY <3>1, <3>2 DEF PagesCounted
  <2>5. QED
    BY <1>4, <2>1, <2>4 DEF ListOK, Apart, TypeOK
<1>7. QED
  BY <1>4, <1>5, <1>6 DEF IInv, Frames

(* AH=43h. *)
LEMMA AllocateStep ==
  ASSUME IInv, NEW n \in 1 .. MaxPages, NEW mem \in Mem, Allocate(n, mem)
  PROVE  IInv'
<1>1. /\ TypeOK /\ ListOK(ems_memory, ems_freepages) /\ Frames
      /\ ems_memory \in Seq(Node) /\ ems_freepages \in Nat
  BY DEF IInv, TypeOK
<1>2. PICK b : b = [mem |-> mem, handle |-> HandleAfter(ems_memory), pages |-> n,
                    saved_map |-> Null]
  OBVIOUS
<1>3. /\ n <= ems_freepages /\ mem \notin InUse
      /\ ems_memory' = Append(ems_memory, b)
      /\ ems_freepages' = ems_freepages - n
      /\ fate = "runs" /\ fate' = "runs"
      /\ UNCHANGED <<ems_map, buffer>>
  BY <1>1, <1>2 DEF Allocate, Survives
<1>4. n \in Nat
  BY EmsAssumption
<1>5. b \in Node /\ b.pages = n /\ b.mem = mem
  BY <1>1, <1>2, <1>4, HandleIsNat DEF Node
<1>6. \A k \in DOMAIN ems_memory : ems_memory[k].mem # b.mem
  BY <1>3, <1>5 DEF InUse
<1>7. PICK list, free, list2 : /\ list = ems_memory /\ free = ems_freepages
                               /\ list2 = ems_memory'
  OBVIOUS
<1>8. ListOK(list2, free - b.pages) /\ \A map : FrameOK(list, map) => FrameOK(list2, map)
  <2>1. /\ ListOK(list, free) /\ b \in Node /\ b.pages <= free
        /\ \A k \in DOMAIN list : list[k].mem # b.mem
        /\ list2 = Append(list, b)
    BY <1>1, <1>3, <1>5, <1>6, <1>7
  <2>2. QED
    BY ONLY <2>1, AppendGood
<1>9. ListOK(ems_memory', ems_freepages')
  BY <1>3, <1>5, <1>7, <1>8
<1>10. TypeOK'
  BY <1>1, <1>3, <1>9 DEF TypeOK, ListOK
<1>11. Frames'
  BY <1>1, <1>3, <1>7, <1>8 DEF Frames
<1>12. QED
  BY <1>1, <1>9, <1>10, <1>11 DEF IInv

(* AH=45h. *)
LEMMA ReleaseStep ==
  ASSUME IInv, NEW k \in DOMAIN ems_memory, Release(k)
  PROVE  IInv'
<1>1. /\ TypeOK /\ ListOK(ems_memory, ems_freepages) /\ Frames
      /\ ems_memory \in Seq(Node) /\ ems_freepages \in Nat /\ ems_map \in FrameType
  BY DEF IInv, TypeOK
<1>2. /\ ems_memory' = RemoveAt(ems_memory, k)
      /\ ems_freepages' = ems_freepages + ems_memory[k].pages
      /\ ems_map' = Validated(ems_memory', ems_map)
      /\ fate' = "runs"
      /\ UNCHANGED buffer
  BY DEF Release, Survives
<1>3. PICK list, free, list2, map, map2 :
         /\ list = ems_memory /\ free = ems_freepages
         /\ list2 = ems_memory' /\ map = ems_map /\ map2 = ems_map'
  OBVIOUS
<1>4. ListOK(list2, free + list[k].pages)
  <2>1. ListOK(list, free) /\ k \in DOMAIN list /\ list2 = RemoveAt(list, k)
    BY <1>1, <1>2, <1>3
  <2>2. QED
    BY ONLY <2>1, RemoveGood
<1>5. map2 \in FrameType /\ FrameOK(list2, map2)
  BY <1>1, <1>2, <1>3, ValidatedGood
<1>6. TypeOK'
  BY <1>1, <1>2, <1>3, <1>4, <1>5 DEF TypeOK, ListOK
<1>7. Frames'
  BY <1>2, <1>3, <1>5 DEF Frames
<1>8. QED
  BY <1>2, <1>3, <1>4, <1>6, <1>7 DEF IInv

(* AH=51h. *)
LEMMA ReallocateStep ==
  ASSUME IInv, NEW k \in DOMAIN ems_memory, NEW n \in 0 .. MaxPages, NEW mem \in Mem,
         Reallocate(k, n, mem)
  PROVE  IInv'
<1>1. /\ TypeOK /\ ListOK(ems_memory, ems_freepages) /\ Frames
      /\ ems_memory \in Seq(Node) /\ ems_freepages \in Nat /\ ems_map \in FrameType
  BY DEF IInv, TypeOK
<1>2. /\ n <= ems_freepages + ems_memory[k].pages
      /\ mem = ems_memory[k].mem \/ mem \notin InUse
      /\ ems_memory' = [ems_memory EXCEPT ![k].pages = n, ![k].mem = mem]
      /\ ems_freepages' = ems_freepages + ems_memory[k].pages - n
      /\ ems_map' = Validated(ems_memory', ems_map)
      /\ fate' = "runs"
      /\ UNCHANGED buffer
  BY DEF Reallocate, Survives
<1>3. PICK list, free, list2, map, map2 :
         /\ list = ems_memory /\ free = ems_freepages
         /\ list2 = ems_memory' /\ map = ems_map /\ map2 = ems_map'
  OBVIOUS
<1>4. PICK b : b = [list[k] EXCEPT !.pages = n, !.mem = mem]
  OBVIOUS
<1>5. list[k] \in Node
  BY <1>1, <1>3
<1>6. n \in Nat
  BY EmsAssumption
<1>7. b \in Node /\ b.pages = n /\ b.mem = mem
  BY <1>4, <1>5, <1>6 DEF Node
<1>8. list2 = [list EXCEPT ![k] = b]
  <2>1. list2 = [list EXCEPT ![k].pages = n, ![k].mem = mem]
    BY <1>2, <1>3
  <2>2. k \in DOMAIN list /\ list \in Seq(Node)
    BY <1>1, <1>3
  <2>3. QED
    BY ONLY <1>4, <2>1, <2>2
<1>9. ListOK(list2, (free + list[k].pages) - b.pages)
  <2>1. b.mem = list[k].mem \/ \A i \in DOMAIN list : list[i].mem # b.mem
    BY <1>2, <1>3, <1>7 DEF InUse
  <2>2. /\ ListOK(list, free) /\ k \in DOMAIN list /\ b \in Node
        /\ b.pages <= free + list[k].pages
    BY <1>1, <1>2, <1>3, <1>7
  <2>3. Replaces(list, free, k, b, list2)
    BY <1>8, <2>1, <2>2 DEF Replaces
  <2>4. QED
    BY ONLY <2>3, ReplaceGood
<1>10. map2 \in FrameType /\ FrameOK(list2, map2)
  BY <1>1, <1>2, <1>3, ValidatedGood
<1>11. ListOK(ems_memory', ems_freepages')
  <2>1. PICK left : left = (free + list[k].pages) - b.pages
    OBVIOUS
  <2>2. ems_freepages' = left
    <3>1. free \in Nat /\ list[k].pages \in Nat
      BY <1>1, <1>3, <1>5 DEF Node
    <3>2. QED
      BY <1>2, <1>3, <1>6, <1>7, <2>1, <3>1
  <2>3. ListOK(list2, left)
    BY <1>9, <2>1
  <2>4. QED
    BY <1>3, <2>2, <2>3
<1>12. TypeOK'
  BY <1>1, <1>2, <1>3, <1>10, <1>11 DEF TypeOK, ListOK
<1>13. Frames'
  BY <1>2, <1>3, <1>10 DEF Frames
<1>14. QED
  BY <1>11, <1>12, <1>13 DEF IInv

(* AH=47h and 48h. *)
LEMMA SaveStep ==
  ASSUME IInv, NEW k \in DOMAIN ems_memory, SaveContext(k) \/ RestoreContext(k)
  PROVE  IInv'
<1>1. /\ TypeOK /\ ListOK(ems_memory, ems_freepages) /\ Frames
      /\ ems_memory \in Seq(Node) /\ ems_map \in FrameType
  BY DEF IInv, TypeOK
<1>2. PICK from, m :
         /\ from \in FrameType /\ m \in FrameType \cup {Null}
         /\ ems_map' = Validated(ems_memory, from)
         /\ ems_memory' = [ems_memory EXCEPT ![k].saved_map = m]
  <2>1. CASE SaveContext(k)
    <3>1. Validated(ems_memory, ems_map) \in FrameType
      BY <1>1, ValidatedGood
    <3>2. QED
      BY <1>1, <2>1, <3>1 DEF SaveContext
  <2>2. CASE RestoreContext(k)
    <3>1. ems_memory[k] \in Node
      BY <1>1
    <3>2. ems_memory[k].saved_map \in FrameType
      BY <2>2, <3>1 DEF Node, RestoreContext, IsSaved
    <3>3. QED
      BY <2>2, <3>2 DEF RestoreContext
  <2>3. QED
    BY <2>1, <2>2
<1>3. UNCHANGED <<ems_freepages, buffer>> /\ fate' = "runs"
  BY DEF SaveContext, RestoreContext, Survives
<1>4. PICK list, free, list2, map2 :
         /\ list = ems_memory /\ free = ems_freepages
         /\ list2 = ems_memory' /\ map2 = ems_map'
  OBVIOUS
<1>5. ListOK(list2, free) /\ \A map : FrameOK(list, map) => FrameOK(list2, map)
  <2>1. Saves(list, free, k, m, list2)
    BY <1>1, <1>2, <1>4 DEF Saves
  <2>2. QED
    BY ONLY <2>1, SaveGood
<1>6. map2 \in FrameType /\ FrameOK(list, map2)
  BY <1>2, <1>4, ValidatedGood
<1>7. TypeOK'
  BY <1>1, <1>3, <1>4, <1>5, <1>6 DEF TypeOK, ListOK
<1>8. Frames'
  BY <1>3, <1>4, <1>5, <1>6 DEF Frames
<1>9. QED
  BY <1>1, <1>3, <1>4, <1>5, <1>7, <1>8 DEF IInv

(* What does not change the list, and leaves a good frame good. *)
LEMMA FrameStep ==
  ASSUME IInv, UNCHANGED <<ems_memory, ems_freepages>>,
         ems_map' \in FrameType,
         buffer' \in [map : FrameType, flag : SUBSET Phys], fate' \in {"runs", "wild"},
         Frames => Frames'
  PROVE  IInv'
<1>1. TypeOK'
  BY DEF IInv, TypeOK
<1>2. QED
  BY <1>1 DEF IInv

(* AH=4Eh and 4Fh, and the other calls that set the frame. *)
LEMMA BufferStep ==
  ASSUME IInv,
         \/ \E flag \in SUBSET Phys : GetMap(flag)
         \/ SetMap \/ SwapMap \/ SetPartialMap
  PROVE  IInv'
<1>1. /\ ems_map \in FrameType
      /\ buffer \in [map : FrameType, flag : SUBSET Phys]
  BY DEF IInv, TypeOK
<1>2. NoBuffer \in [map : FrameType, flag : SUBSET Phys]
  BY DEF NoBuffer, EmptyFrame, FrameType
<1>3. UNCHANGED <<ems_memory, ems_freepages>> /\ fate = "runs" /\ fate' = "runs"
  BY DEF GetMap, SetMap, SwapMap, SetPartialMap, Survives
<1>4. buffer' \in [map : FrameType, flag : SUBSET Phys]
  BY <1>1, <1>2 DEF GetMap, SetMap, SwapMap, SetPartialMap
<1>5. ems_map' = ems_map \/ \E map \in FrameType : ems_map' = Validated(ems_memory, map)
  <2>1. [i \in Phys |-> IF i \in buffer.flag THEN buffer.map[i] ELSE ems_map[i]] \in FrameType
    BY <1>1 DEF FrameType
  <2>2. buffer.map \in FrameType
    BY <1>1
  <2>3. QED
    BY <2>1, <2>2 DEF GetMap, SetMap, SwapMap, SetPartialMap
<1>6. /\ ems_map' \in FrameType
      /\ FrameOK(ems_memory, ems_map) => FrameOK(ems_memory, ems_map')
  <2>1. \A map \in FrameType : /\ Validated(ems_memory, map) \in FrameType
                               /\ FrameOK(ems_memory, Validated(ems_memory, map))
    BY ValidatedGood
  <2>2. QED
    BY <1>1, <1>5, <2>1
<1>7. Frames => Frames'
  BY <1>3, <1>6 DEF Frames
<1>8. QED
  BY <1>1, <1>3, <1>4, <1>6, <1>7, FrameStep

(* AH=44h. *)
LEMMA MapPageStep ==
  ASSUME IInv, NEW k \in DOMAIN ems_memory, NEW row \in Row, MapPage(k, row)
  PROVE  IInv'
<1>1. /\ ems_memory \in Seq(Node) /\ ems_map \in FrameType
      /\ buffer \in [map : FrameType, flag : SUBSET Phys]
  BY DEF IInv, TypeOK
<1>2. /\ InBlock(ems_memory[k], row) /\ row.phys \in Phys
      /\ ems_map' = [ems_map EXCEPT ![row.phys] = Entry(ems_memory[k], row)]
      /\ fate = "runs" /\ fate' = "runs"
      /\ UNCHANGED <<ems_memory, ems_freepages, buffer>>
  BY DEF MapPage, Survives
<1>3. PICK page : page = Entry(ems_memory[k], row)
  OBVIOUS
<1>4. page \in Page \cup {Null} /\ (page # Null => Shows(ems_memory, page, k))
  BY <1>1, <1>2, <1>3, EntryGood
<1>5. ems_map' \in FrameType
  BY <1>1, <1>2, <1>3, <1>4 DEF FrameType
<1>6. FrameOK(ems_memory, ems_map) => FrameOK(ems_memory, ems_map')
  BY <1>1, <1>2, <1>3, <1>4 DEF FrameOK, FrameType
<1>7. Frames => Frames'
  BY <1>2, <1>6 DEF Frames
<1>8. QED
  BY <1>1, <1>2, <1>5, <1>7, FrameStep

(* AH=50h, 55h and 56h. *)
LEMMA AlterStep ==
  ASSUME IInv, NEW k \in DOMAIN ems_memory, NEW table \in Tables,
         MapMultiple(k, table) \/ StoreWild(k, table)
  PROVE  IInv'
<1>1. /\ ems_memory \in Seq(Node) /\ ems_map \in FrameType
      /\ buffer \in [map : FrameType, flag : SUBSET Phys]
  BY DEF IInv, TypeOK
<1>2. /\ ems_map' = Altered(ems_memory[k], table)
      /\ fate = "runs" /\ fate' \in {"runs", "wild"}
      /\ fate' = "runs" => ~ IsWild(ems_memory[k], table)
      /\ UNCHANGED <<ems_memory, ems_freepages, buffer>>
  BY DEF MapMultiple, StoreWild, Survives
<1>3. /\ ems_map' \in FrameType
      /\ ~ IsWild(ems_memory[k], table) /\ FrameOK(ems_memory, ems_map)
            => FrameOK(ems_memory, ems_map')
  BY <1>1, <1>2, AlteredGood
<1>4. Frames => Frames'
  BY <1>2, <1>3 DEF Frames
<1>5. QED
  BY <1>1, <1>2, <1>3, <1>4, FrameStep

(* The positions and tables that calls use. *)
LEMMA NamedFacts ==
  /\ Named \subseteq DOMAIN ems_memory
  /\ \A table \in Tables : Len(table.rows) = 1 => table.rows[1] \in Row
<1>1. Named \subseteq DOMAIN ems_memory
  BY DEF Named
<1>2. ASSUME NEW table \in Tables, Len(table.rows) = 1 PROVE table.rows[1] \in Row
  <2>1. table.rows \in Seq(Row)
    BY EmsAssumption DEF Table
  <2>2. QED
    BY <1>2, <2>1
<1>3. QED
  BY <1>1, <1>2

LEMMA NextInv == ASSUME IInv, [Next]_vars PROVE IInv'
<1>1. ASSUME NEW n \in 1 .. MaxPages, NEW mem \in Mem, Allocate(n, mem) PROVE IInv'
  BY <1>1, AllocateStep
<1>2. ASSUME NEW k \in Named, NEW table \in Tables, Len(table.rows) = 1,
             MapPage(k, table.rows[1])
      PROVE  IInv'
  BY <1>2, NamedFacts, MapPageStep
<1>3. ASSUME NEW k \in Named, Release(k) PROVE IInv'
  BY <1>3, NamedFacts, ReleaseStep
<1>4. ASSUME NEW k \in Named, NEW n \in 0 .. MaxPages, NEW mem \in Mem, Reallocate(k, n, mem)
      PROVE  IInv'
  BY <1>4, NamedFacts, ReallocateStep
<1>5. ASSUME NEW k \in Named, SaveContext(k) \/ RestoreContext(k) PROVE IInv'
  BY <1>5, NamedFacts, SaveStep
<1>6. CASE (\E flag \in SUBSET Phys : GetMap(flag)) \/ SetMap \/ SwapMap \/ SetPartialMap
  BY <1>6, BufferStep
<1>7. ASSUME NEW k \in Named, NEW table \in Tables,
             MapMultiple(k, table) \/ StoreWild(k, table)
      PROVE  IInv'
  BY <1>7, NamedFacts, AlterStep
<1>8. CASE UNCHANGED vars
  <2>1. UNCHANGED <<ems_memory, ems_freepages, ems_map, buffer, fate>>
    BY <1>8 DEF vars
  <2>2. Frames => Frames'
    BY <2>1 DEF Frames
  <2>3. QED
    BY <2>1, <2>2, FrameStep DEF IInv, TypeOK
<1>9. QED
  BY <1>1, <1>2, <1>3, <1>4, <1>5, <1>6, <1>7, <1>8 DEF Next

(* A block whose save area is in use is still there after every step, with *)
(* the same frame or with its save area free.                              *)
LEMMA NextSaved ==
  ASSUME IInv, [Next]_vars, NEW k \in DOMAIN ems_memory, IsSaved(ems_memory[k])
  PROVE  \E j \in DOMAIN ems_memory' :
            /\ ems_memory'[j].handle = ems_memory[k].handle
            /\ ems_memory'[j].saved_map \in {ems_memory[k].saved_map, Null}
<1> DEFINE Kept ==
      \E j \in DOMAIN ems_memory' :
         /\ ems_memory'[j].handle = ems_memory[k].handle
         /\ ems_memory'[j].saved_map \in {ems_memory[k].saved_map, Null}
<1> SUFFICES Kept
  OBVIOUS
<1>1. /\ ems_memory \in Seq(Node) /\ ListOK(ems_memory, ems_freepages)
      /\ Named \subseteq DOMAIN ems_memory
  BY NamedFacts DEF IInv, TypeOK
<1>2. CASE UNCHANGED ems_memory
  BY <1>2
<1>3. ASSUME NEW n \in 1 .. MaxPages, NEW mem \in Mem, Allocate(n, mem) PROVE Kept
  <2>1. \E b : ems_memory' = Append(ems_memory, b)
    BY <1>3 DEF Allocate
  <2>2. k \in DOMAIN ems_memory' /\ ems_memory'[k] = ems_memory[k]
    BY <1>1, <2>1
  <2>3. QED
    BY <2>2
<1>4. ASSUME NEW i \in Named, Release(i) PROVE Kept
  <2>1. ~ IsSaved(ems_memory[i]) /\ i \in DOMAIN ems_memory
    BY <1>1, <1>4 DEF Release
  <2>2. Swaps(ems_memory, i, ems_memory')
    <3>1. PICK list, free, list2 : /\ list = ems_memory /\ free = ems_freepages
                                   /\ list2 = ems_memory'
      OBVIOUS
    <3>2. ListOK(list, free) /\ i \in DOMAIN list /\ list2 = RemoveAt(list, i)
      BY <1>1, <1>4, <2>1, <3>1 DEF Release
    <3>3. Swaps(list, i, list2)
      BY ONLY <3>2, RemoveGood
    <3>4. QED
      BY <3>1, <3>3
  <2>3. k # i
    BY <2>1
  <2>4. \E j \in DOMAIN ems_memory' : ems_memory'[j] = ems_memory[k]
    BY <2>2, <2>3 DEF Swaps
  <2>5. QED
    BY <2>4
<1>5. ASSUME NEW i \in Named, NEW n \in 0 .. MaxPages, NEW mem \in Mem, Reallocate(i, n, mem)
      PROVE  Kept
  <2>1. ems_memory' = [ems_memory EXCEPT ![i].pages = n, ![i].mem = mem]
    BY <1>5 DEF Reallocate
  <2>2. ems_memory[k] \in Node /\ i \in DOMAIN ems_memory
    BY <1>1
  <2>3. /\ k \in DOMAIN ems_memory'
        /\ ems_memory'[k] = IF k = i THEN [ems_memory[k] EXCEPT !.pages = n, !.mem = mem]
                                     ELSE ems_memory[k]
    BY <1>1, <2>1, <2>2
  <2>4. /\ ems_memory'[k].handle = ems_memory[k].handle
        /\ ems_memory'[k].saved_map = ems_memory[k].saved_map
    BY <2>2, <2>3 DEF Node
  <2>5. QED
    BY <2>3, <2>4
<1>6. ASSUME NEW i \in Named, SaveContext(i) \/ RestoreContext(i) PROVE Kept
  <2>1. \E m : /\ ems_memory' = [ems_memory EXCEPT ![i].saved_map = m]
               /\ i = k => m = Null
    BY <1>6 DEF SaveContext, RestoreContext
  <2>2. PICK m : /\ ems_memory' = [ems_memory EXCEPT ![i].saved_map = m]
                 /\ i = k => m = Null
    BY <2>1
  <2>3. ems_memory[k] \in Node /\ i \in DOMAIN ems_memory
    BY <1>1
  <2>4. /\ k \in DOMAIN ems_memory'
        /\ ems_memory'[k] = IF k = i THEN [ems_memory[k] EXCEPT !.saved_map = m]
                                     ELSE ems_memory[k]
    BY <1>1, <2>2, <2>3
  <2>5. /\ ems_memory'[k].handle = ems_memory[k].handle
        /\ ems_memory'[k].saved_map \in {ems_memory[k].saved_map, Null}
    BY <2>2, <2>3, <2>4 DEF Node
  <2>6. QED
    BY <2>4, <2>5
<1>7. ASSUME NEW i \in Named, NEW table \in Tables,
             \/ MapPage(i, table.rows[1]) \/ MapMultiple(i, table) \/ StoreWild(i, table)
      PROVE  Kept
  <2>1. UNCHANGED ems_memory
    BY <1>7 DEF MapPage, MapMultiple, StoreWild
  <2>2. QED
    BY <1>2, <2>1
<1>8. CASE \/ \E flag \in SUBSET Phys : GetMap(flag)
           \/ SetMap \/ SwapMap \/ SetPartialMap \/ UNCHANGED vars
  <2>1. UNCHANGED ems_memory
    BY <1>8 DEF GetMap, SetMap, SwapMap, SetPartialMap, vars
  <2>2. QED
    BY <1>2, <2>1
<1> HIDE DEF Kept
<1>9. QED
  BY <1>3, <1>4, <1>5, <1>6, <1>7, <1>8 DEF Next

--------------------------------------------------------------------------------
(* The invariant behind all that follows. *)
THEOREM Invariant == Spec => []IInv
<1>1. Init => IInv
  BY InitInv
<1>2. IInv /\ [Next]_vars => IInv'
  BY NextInv
<1>3. QED
  BY <1>1, <1>2, PTL DEF Spec

(* Blocks, frames, save areas and counters have their types; the count of  *)
(* free pages never runs below zero.                                       *)
THEOREM TypeCorrect == Spec => []TypeOK
<1>1. IInv => TypeOK
  BY DEF IInv
<1>2. QED
  BY <1>1, Invariant, PTL

(* Every page is free or in one block, whatever is allocated, resized and  *)
(* released in whatever order.                                             *)
THEOREM PagesAreConserved == Spec => []PagesConserved
<1>1. IInv => PagesConserved
  BY DEF IInv, ListOK, PagesCounted, PagesConserved
<1>2. QED
  BY <1>1, Invariant, PTL

(* No two blocks of the list have one host address, although addresses are *)
(* used again after they were freed.                                       *)
THEOREM BlocksApart == Spec => []Apart(ems_memory)
<1>1. IInv => Apart(ems_memory)
  BY DEF IInv, ListOK
<1>2. QED
  BY <1>1, Invariant, PTL

(* As long as no row of a table was stored behind the frame, it shows only *)
(* pages of blocks that are allocated, whatever old copy of it is put back *)
(* and whatever addresses are used again.                                  *)
THEOREM FrameStaysLive == Spec => []FrameIsLive
<1>1. IInv => FrameIsLive
  BY DEF IInv, Frames, FrameOK, FrameIsLive, MapsHandlePages, Live
<1>2. QED
  BY <1>1, Invariant, PTL

(* A block with a save area in use is not released, and the frame in it is *)
(* not replaced.                                                           *)
THEOREM SavesAreKept == Spec => SavedIsKept
<1>1. IInv /\ [Next]_vars =>
         [\A k \in DOMAIN ems_memory :
             IsSaved(ems_memory[k]) =>
                \E j \in DOMAIN ems_memory' :
                   /\ ems_memory'[j].handle = ems_memory[k].handle
                   /\ ems_memory'[j].saved_map \in {ems_memory[k].saved_map, Null}]_vars
  BY NextSaved
<1>2. QED
  BY <1>1, Invariant, PTL DEF Spec, SavedIsKept
================================================================================
