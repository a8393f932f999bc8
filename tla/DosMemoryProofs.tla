---------------------------- MODULE DosMemoryProofs ----------------------------
(***************************************************************************)
(* DosMemory: the arena stays tiled, every live process keeps its blocks,  *)
(* no block outlives its process, termination finds its way back and calls *)
(* leave the memory of others alone, for arenas of any size, any programs  *)
(* and any depth of EXEC.                                                  *)
(*                                                                         *)
(* First the allocator: what the operators of module Mcb preserve, for     *)
(* every arena. The chain still tiles the memory, and blocks of other      *)
(* owners stay as they were.                                               *)
(***************************************************************************)
EXTENDS McbWalk, NumberLemmas, SequenceTheorems

Sound(ar) == IsArena(ar) /\ Tiled(ar)

(* Every block of ar that is in use and not in S is in new, unchanged. *)
Kept(ar, new, S) ==
    \A a \in DOMAIN ar :
        ar[a].owner # 0 /\ a \notin S =>
            /\ a \in DOMAIN new
            /\ new[a].owner = ar[a].owner
            /\ new[a].size = ar[a].size

(* Blocks in use in new were in use in ar with the same owner, or their    *)
(* owner is one of S.                                                      *)
OwnersFrom(ar, new, S) ==
    \A b \in DOMAIN new :
        new[b].owner # 0 =>
            \/ b \in DOMAIN ar /\ new[b].owner = ar[b].owner
            \/ new[b].owner \in S

(* new is ar with the blocks of S given to owner o. *)
Reowned(ar, new, S, o) ==
    /\ DOMAIN new = DOMAIN ar
    /\ \A b \in DOMAIN ar :
         /\ new[b].size = ar[b].size
         /\ b \in S => new[b].owner = o
         /\ b \notin S => new[b] = ar[b]

(* new is ar with the block of a merged with free blocks behind it. *)
Grown(ar, new, a) ==
    /\ DOMAIN new \subseteq DOMAIN ar /\ a \in DOMAIN new
    /\ new[a].owner = ar[a].owner
    /\ ar[a].size <= new[a].size
    /\ \A b \in DOMAIN new : b # a => new[b] = ar[b]

(* new is what a resize promises: the block keeps its place and owner, and  *)
(* has the size asked for or has grown without reaching it.                *)
Resized(ar, new, a, size) ==
    /\ Sound(new)
    /\ Kept(ar, new, {a})
    /\ OwnersFrom(ar, new, {})
    /\ a \in DOMAIN new
    /\ new[a].owner = ar[a].owner
    /\ new[a].size = size \/ (ar[a].size <= new[a].size /\ new[a].size < size)

(* r is what an allocation promises: free memory is taken, all blocks in   *)
(* use stay, and the one block it adds is as it was asked for.             *)
Allocated(ar, r, size, owner) ==
    /\ Sound(r.arena)
    /\ Kept(ar, r.arena, {})
    /\ OwnersFrom(ar, r.arena, {owner})
    /\ r.mcb # 0 =>
         /\ r.mcb \in DOMAIN r.arena
         /\ r.arena[r.mcb].owner = owner
         /\ r.arena[r.mcb].size = size
         /\ r.mcb \in DOMAIN ar => ar[r.mcb].owner = 0

--------------------------------------------------------------------------------
(* The fields of a header of a sound arena, one fact each. *)
LEMMA HeaderFacts ==
  ASSUME NEW ar, Sound(ar), NEW a \in DOMAIN ar
  PROVE  /\ a \in Nat /\ MemStart <= a /\ a < MemEnd
         /\ ar[a] \in Header
         /\ ar[a].owner \in Nat /\ ar[a].size \in Nat /\ ar[a].last \in BOOLEAN
         /\ mcb_next(ar, a) = a + ar[a].size + 1
         /\ mcb_next(ar, a) \in Nat /\ a < mcb_next(ar, a)
         /\ mcb_next(ar, a) <= MemEnd
         /\ ar[a].last <=> mcb_next(ar, a) = MemEnd
         /\ mcb_next(ar, a) < MemEnd => mcb_next(ar, a) \in DOMAIN ar
         /\ \A b \in DOMAIN ar : a < b => mcb_next(ar, a) <= b
<1>1. a \in Paras /\ ar[a] \in Header
  BY DEF Sound, IsArena
<1>2. a \in Nat /\ MemStart <= a /\ a < MemEnd
  BY <1>1, ArenaAssumption DEF Paras
<1>3. ar[a].owner \in Nat /\ ar[a].size \in Nat /\ ar[a].last \in BOOLEAN
  BY <1>1 DEF Header
<1>4. QED
  BY <1>1, <1>2, <1>3 DEF mcb_next, Sound, Tiled

LEMMA InitSound == Sound(mcb_init)
<1>1. IsArena(mcb_init)
  BY ArenaAssumption DEF mcb_init, IsArena, Paras, Header
<1>2. Tiled(mcb_init)
  BY ArenaAssumption DEF mcb_init, Tiled, mcb_next
<1>3. QED
  BY <1>1, <1>2 DEF Sound

(* Giving a block another owner. *)
LEMMA SetOwnerSound ==
  ASSUME NEW ar, Sound(ar), NEW a \in DOMAIN ar, NEW o \in Nat
  PROVE  /\ Sound(mcb_set_owner(ar, a, o))
         /\ Reowned(ar, mcb_set_owner(ar, a, o), {a}, o)
<1> DEFINE new == mcb_set_owner(ar, a, o)
<1>1. DOMAIN new = DOMAIN ar
  BY DEF mcb_set_owner
<1>2. \A b \in DOMAIN ar : b # a => new[b] = ar[b]
  BY DEF mcb_set_owner
<1>3. new[a] = [ar[a] EXCEPT !.owner = o] /\ ar[a] \in Header
  BY HeaderFacts DEF mcb_set_owner
<1>4. /\ new[a] \in Header /\ new[a].owner = o
      /\ new[a].size = ar[a].size /\ new[a].last = ar[a].last
  BY <1>3 DEF Header
<1>5. \A b \in DOMAIN ar : new[b].size = ar[b].size /\ new[b].last = ar[b].last
  BY <1>2, <1>4
<1>6. IsArena(new)
  <2>1. \A b \in DOMAIN new : new[b] \in Header
    BY <1>1, <1>2, <1>4, HeaderFacts
  <2>2. new = [b \in DOMAIN new |-> new[b]]
    BY DEF mcb_set_owner
  <2>3. DOMAIN new \subseteq Paras
    BY <1>1 DEF Sound, IsArena
  <2>4. QED
    BY <2>1, <2>2, <2>3 DEF IsArena
<1>7. Tiled(new)
  <2>1. \A b \in DOMAIN ar : mcb_next(new, b) = mcb_next(ar, b)
    BY <1>5 DEF mcb_next
  <2>2. QED
    BY <1>1, <1>5, <2>1 DEF Tiled, Sound
<1>8. Reowned(ar, new, {a}, o)
  <2> HIDE DEF new
  <2> QED BY <1>1, <1>2, <1>4, <1>5 DEF Reowned
<1>9. QED
  BY <1>6, <1>7, <1>8 DEF Sound

--------------------------------------------------------------------------------
(* Splitting a block: a header is put at c inside the block of a, whose    *)
(* lower part goes to o1 and whose upper part goes to o2.                  *)
Split(ar, a, c, o1, o2) ==
    [b \in DOMAIN ar \cup {c} |->
        IF b = a THEN [owner |-> o1, size |-> c - a - 1, last |-> FALSE]
        ELSE IF b = c THEN [owner |-> o2, size |-> mcb_next(ar, a) - c - 1,
                            last |-> ar[a].last]
        ELSE ar[b]]

LEMMA SplitIsTwoHeaders ==
  ASSUME NEW ar, NEW a \in DOMAIN ar, NEW c, a # c, NEW o1, NEW o2
  PROVE  Split(ar, a, c, o1, o2) =
           mcb_new(mcb_new(ar, c, o2, mcb_next(ar, a) - c - 1, ar[a].last),
                   a, o1, c - a - 1, FALSE)
<1> DEFINE upper == mcb_new(ar, c, o2, mcb_next(ar, a) - c - 1, ar[a].last)
           both == mcb_new(upper, a, o1, c - a - 1, FALSE)
<1>1. DOMAIN upper = DOMAIN ar \cup {c}
  BY DEF mcb_new
<1>2. \A b \in DOMAIN ar \cup {c} :
         upper[b] = IF b = c THEN [owner |-> o2, size |-> mcb_next(ar, a) - c - 1,
                                   last |-> ar[a].last]
                             ELSE ar[b]
  BY DEF mcb_new
<1>3. both = [b \in DOMAIN ar \cup {c} |->
                IF b = a THEN [owner |-> o1, size |-> c - a - 1, last |-> FALSE]
                         ELSE upper[b]]
  <2>1. DOMAIN upper \cup {a} = DOMAIN ar \cup {c}
    BY <1>1
  <2> HIDE DEF upper
  <2>2. QED
    BY <2>1 DEF mcb_new
<1>4. both = Split(ar, a, c, o1, o2)
  <2> HIDE DEF upper, both
  <2> QED BY <1>2, <1>3 DEF Split
<1>5. QED
  BY <1>4

LEMMA SplitSound ==
  ASSUME NEW ar, Sound(ar), NEW a \in DOMAIN ar, NEW c \in Nat,
         a < c, c < mcb_next(ar, a), NEW o1 \in Nat, NEW o2 \in Nat
  PROVE  /\ Sound(Split(ar, a, c, o1, o2))
         /\ Kept(ar, Split(ar, a, c, o1, o2), {a})
         /\ c \notin DOMAIN ar
<1> DEFINE new == Split(ar, a, c, o1, o2)
           n == mcb_next(ar, a)
<1>1. DOMAIN new = DOMAIN ar \cup {c}
  BY DEF Split
<1>2. a \in Nat /\ n \in Nat /\ n <= MemEnd /\ MemStart <= a
  BY HeaderFacts
<1>3. c \notin DOMAIN ar
  BY <1>2, HeaderFacts
<1>4. new[a] = [owner |-> o1, size |-> c - a - 1, last |-> FALSE]
  BY DEF Split
<1>5. new[c] = [owner |-> o2, size |-> n - c - 1, last |-> ar[a].last]
  BY <1>2 DEF Split
<1>6. \A b \in DOMAIN ar \ {a} : new[b] = ar[b]
  BY <1>3 DEF Split
<1>7. mcb_next(new, a) = c /\ mcb_next(new, c) = n
  BY <1>2, <1>4, <1>5 DEF mcb_next
<1>8. \A b \in DOMAIN ar \ {a} : mcb_next(new, b) = mcb_next(ar, b)
  BY <1>6 DEF mcb_next
<1>9. IsArena(new)
  <2>1. c \in Paras
    BY <1>2, ArenaAssumption DEF Paras
  <2>2. DOMAIN new \subseteq Paras
    BY <1>1, <2>1 DEF Sound, IsArena
  <2>3. new[a] \in Header /\ new[c] \in Header
    BY <1>2, <1>4, <1>5, HeaderFacts DEF Header
  <2>4. \A b \in DOMAIN new : new[b] \in Header
    BY <1>1, <1>6, <2>3, HeaderFacts
  <2>5. new = [b \in DOMAIN new |-> new[b]]
    BY DEF Split
  <2>6. QED
    BY <2>2, <2>4, <2>5 DEF IsArena
<1>10. Tiled(new)
  <2> HIDE DEF new
  <2>1. MemStart \in DOMAIN new
    BY <1>1 DEF Sound, Tiled
  <2>2. ASSUME NEW b \in DOMAIN new
        PROVE  /\ mcb_next(new, b) <= MemEnd
               /\ new[b].last <=> mcb_next(new, b) = MemEnd
               /\ mcb_next(new, b) < MemEnd => mcb_next(new, b) \in DOMAIN new
               /\ \A d \in DOMAIN new : b < d => mcb_next(new, b) <= d
    <3>1. CASE b = a
      <4>1. c < MemEnd
        BY <1>2, ArenaAssumption
      <4>2. ~ new[a].last
        BY <1>4
      <4>3. \A d \in DOMAIN ar : a < d => n <= d
        BY HeaderFacts
      <4>4. \A d \in DOMAIN new : a < d => c <= d
        BY <1>1, <1>2, <4>3, HeaderFacts
      <4>5. QED
        BY <3>1, <1>1, <1>7, <4>1, <4>2, <4>4, ArenaAssumption
    <3>2. CASE b = c
      <4>1. \A d \in DOMAIN new : c < d => n <= d
        BY <1>1, <1>2, HeaderFacts
      <4>2. new[c].last <=> n = MemEnd
        BY <1>5, HeaderFacts
      <4>3. QED
        BY <3>2, <1>1, <1>2, <1>7, <4>1, <4>2, HeaderFacts
    <3>3. CASE b # a /\ b # c
      <4>1. b \in DOMAIN ar \ {a}
        BY <3>3, <1>1
      <4>2. mcb_next(new, b) = mcb_next(ar, b) /\ new[b] = ar[b]
        BY <4>1, <1>6, <1>8
      <4>3. b < c => mcb_next(ar, b) <= a
        BY <4>1, <1>2, HeaderFacts
      <4>4. b < c => mcb_next(ar, b) <= c
        BY <4>1, <4>3, <1>2, HeaderFacts
      <4>5. QED
        BY <1>1, <4>1, <4>2, <4>4, HeaderFacts
    <3>4. QED
      BY <3>1, <3>2, <3>3
  <2>3. QED
    BY <2>1, <2>2 DEF Tiled
<1>11. Kept(ar, new, {a})
  <2> HIDE DEF new
  <2> QED BY <1>1, <1>6 DEF Kept
<1>12. QED
  BY <1>3, <1>9, <1>10, <1>11 DEF Sound

--------------------------------------------------------------------------------
(* Merging: what mcb and the free blocks behind it become. *)
RunEnd(ar, mcb) == Max({mcb} \cup FreeRun(ar, mcb))

LEMMA RunFacts ==
  ASSUME NEW ar, Sound(ar), NEW a \in DOMAIN ar
  PROVE  /\ RunEnd(ar, a) \in DOMAIN ar /\ a <= RunEnd(ar, a)
         /\ RunEnd(ar, a) = a \/ RunEnd(ar, a) \in FreeRun(ar, a)
         /\ \A b \in DOMAIN ar :
              a < b => (b \in FreeRun(ar, a) <=> b <= RunEnd(ar, a))
         /\ mcb_next(ar, RunEnd(ar, a)) \in DOMAIN ar =>
              ~ mcb_is_free(ar, mcb_next(ar, RunEnd(ar, a)))
         /\ \A b \in FreeRun(ar, a) :
              b \in DOMAIN ar /\ a < b /\ mcb_is_free(ar, b)
<1> DEFINE run == FreeRun(ar, a)
           z == RunEnd(ar, a)
<1>1. run \subseteq DOMAIN ar /\ \A b \in run : a < b
  BY DEF FreeRun
<1>2. \A b \in run : mcb_is_free(ar, b)
  <2> SUFFICES ASSUME NEW b \in run PROVE mcb_is_free(ar, b)
    OBVIOUS
  <2>1. b \in DOMAIN ar /\ a < b /\ b <= b
    BY <1>1, HeaderFacts
  <2>2. QED
    BY <2>1 DEF FreeRun
<1>3. z \in {a} \cup run /\ \A b \in {a} \cup run : b <= z
  <2>1. {a} \cup run \subseteq 0 .. MemEnd
    BY <1>1, HeaderFacts, ArenaAssumption
  <2>2. QED
    BY <2>1, MaxProperty, ArenaAssumption DEF RunEnd
<1>4. z \in DOMAIN ar /\ a <= z
  BY <1>1, <1>3, HeaderFacts
<1>5. ASSUME NEW b \in DOMAIN ar, a < b PROVE b \in run <=> b <= z
  <2>1. b \in run => b <= z
    BY <1>3
  <2>2. ASSUME b <= z PROVE b \in run
    <3>1. z \in run
      BY <1>3, <1>5, <2>2, HeaderFacts
    <3>2. \A c \in DOMAIN ar : a < c /\ c <= z => mcb_is_free(ar, c)
      BY <3>1 DEF FreeRun
    <3>3. \A c \in DOMAIN ar : c <= b => c <= z
      BY <1>4, <2>2, HeaderFacts
    <3>4. QED
      BY <1>5, <3>2, <3>3 DEF FreeRun
  <2>3. QED
    BY <2>1, <2>2
<1>6. ASSUME mcb_next(ar, z) \in DOMAIN ar, mcb_is_free(ar, mcb_next(ar, z))
      PROVE  FALSE
  <2> DEFINE n == mcb_next(ar, z)
  <2>1. n \in Nat /\ z < n /\ a < n
    BY <1>4, HeaderFacts
  <2>2. ASSUME NEW c \in DOMAIN ar, a < c, c <= n PROVE mcb_is_free(ar, c)
    <3>1. CASE c <= z
      BY <3>1, <2>2, <1>2, <1>5
    <3>2. CASE z < c
      <4>1. c = n
        BY <3>2, <2>1, <2>2, <1>4, HeaderFacts
      <4>2. QED
        BY <4>1, <1>6
    <3>3. QED
      BY <3>1, <3>2, <1>4, HeaderFacts
  <2>3. n \in run
    BY <1>6, <2>1, <2>2 DEF FreeRun
  <2>4. QED
    BY <2>1, <2>3, <1>3, <1>4, HeaderFacts
<1>7. QED
  BY <1>1, <1>2, <1>3, <1>4, <1>5, <1>6

LEMMA GrownFacts ==
  ASSUME NEW ar, Sound(ar), NEW a \in DOMAIN ar
  PROVE  /\ GrownHeader(ar, a) \in Header
         /\ GrownHeader(ar, a).owner = ar[a].owner
         /\ GrownHeader(ar, a).last = ar[RunEnd(ar, a)].last
         /\ a + GrownHeader(ar, a).size + 1 = mcb_next(ar, RunEnd(ar, a))
         /\ ar[a].size <= GrownHeader(ar, a).size
<1> DEFINE z == RunEnd(ar, a)
<1>1. z \in DOMAIN ar /\ a <= z
  BY RunFacts
<1>2. /\ mcb_next(ar, z) \in Nat /\ z < mcb_next(ar, z) /\ z \in Nat
      /\ ar[z].last \in BOOLEAN
  BY <1>1, HeaderFacts
<1>3. a \in Nat /\ ar[a].owner \in Nat /\ ar[a].size \in Nat
  BY HeaderFacts
<1>4. GrownHeader(ar, a) = [owner |-> ar[a].owner,
                            size |-> mcb_next(ar, z) - a - 1,
                            last |-> ar[z].last]
  BY DEF GrownHeader, RunEnd
<1>5. mcb_next(ar, z) - a - 1 \in Nat
  BY <1>1, <1>2, <1>3
<1>6. a + ar[a].size + 1 <= mcb_next(ar, z)
  BY <1>1, <1>2, <1>3, HeaderFacts
<1>7. QED
  BY <1>2, <1>3, <1>4, <1>5, <1>6 DEF Header

(* Merging at every block of a set O at once covers mcb_grow_max, where O  *)
(* is one block, and mem_free_owned, where it is all blocks of a process.  *)
Merged(ar, O) == UNION {FreeRun(ar, b) : b \in O}

MergedInto(ar, O, new) ==
    /\ O \in SUBSET DOMAIN ar
    /\ \A a, b \in O : a \notin FreeRun(ar, b)
    /\ new = [b \in DOMAIN new |-> new[b]]
    /\ DOMAIN new = DOMAIN ar \ Merged(ar, O)
    /\ \A b \in DOMAIN new \ O : new[b] = ar[b]
    /\ \A b \in O : /\ new[b] \in Header
                     /\ new[b].size = GrownHeader(ar, b).size
                     /\ new[b].last = GrownHeader(ar, b).last

LEMMA MergeSound ==
  ASSUME NEW ar, Sound(ar), NEW O, NEW new, MergedInto(ar, O, new)
  PROVE  /\ Sound(new)
         /\ O \subseteq DOMAIN new
         /\ Kept(ar, new, O)
<1>. USE DEF MergedInto
<1>1. \A b \in DOMAIN ar : b \in Merged(ar, O) <=> \E a \in O : b \in FreeRun(ar, a)
  BY DEF Merged
<1>2. O \subseteq DOMAIN new
  BY <1>1
<1>3. \A b \in Merged(ar, O) : b \in DOMAIN ar /\ mcb_is_free(ar, b)
  BY RunFacts DEF Merged
<1>4. \A b \in DOMAIN new \ O : mcb_next(new, b) = mcb_next(ar, b)
  BY DEF mcb_next
<1>5. \A b \in O : mcb_next(new, b) = mcb_next(ar, RunEnd(ar, b))
  BY GrownFacts DEF mcb_next
<1>6. IsArena(new)
  <2>1. \A b \in DOMAIN new : new[b] \in Header
    BY HeaderFacts
  <2>2. DOMAIN new \subseteq Paras
    BY DEF Sound, IsArena
  <2>3. QED
    BY <2>1, <2>2 DEF IsArena
<1>7. MemStart \in DOMAIN new
  <2>1. MemStart \in DOMAIN ar
    BY DEF Sound, Tiled
  <2>2. \A a \in O : MemStart \notin FreeRun(ar, a)
    BY RunFacts, HeaderFacts, ArenaAssumption
  <2>3. QED
    BY <1>1, <2>1, <2>2
<1>8. ASSUME NEW b \in DOMAIN new
      PROVE  /\ mcb_next(new, b) <= MemEnd
             /\ new[b].last <=> mcb_next(new, b) = MemEnd
             /\ mcb_next(new, b) < MemEnd => mcb_next(new, b) \in DOMAIN new
             /\ \A d \in DOMAIN new : b < d => mcb_next(new, b) <= d
  <2>1. CASE b \in O
    <3> DEFINE z == RunEnd(ar, b)
    <3>1. z \in DOMAIN ar /\ b <= z /\ mcb_next(new, b) = mcb_next(ar, z)
      BY <2>1, <1>5, RunFacts
    <3>2. new[b].last = ar[z].last
      BY <2>1, GrownFacts
    <3>3. mcb_next(ar, z) < MemEnd => mcb_next(ar, z) \in DOMAIN new
      BY <3>1, <1>3, <2>1, HeaderFacts, RunFacts
    <3>4. ASSUME NEW d \in DOMAIN new, b < d PROVE mcb_next(ar, z) <= d
      <4>1. d \notin FreeRun(ar, b)
        BY <2>1, <1>1
      <4>2. z < d
        BY <4>1, <3>1, <3>4, <2>1, RunFacts, HeaderFacts
      <4>3. QED
        BY <4>2, <3>1, HeaderFacts
    <3>5. QED
      BY <3>1, <3>2, <3>3, <3>4, HeaderFacts
  <2>2. CASE b \notin O
    <3> DEFINE n == mcb_next(ar, b)
    <3>1. b \in DOMAIN ar /\ mcb_next(new, b) = n /\ new[b] = ar[b]
      BY <2>2, <1>4
    <3>2. ASSUME n \in DOMAIN ar, NEW a \in O, n \in FreeRun(ar, a) PROVE FALSE
      <4>1. a < n /\ a \in DOMAIN ar
        BY <3>2, RunFacts
      <4>2. a < b
        BY <4>1, <3>1, <3>2, <2>2, HeaderFacts
      <4>3. \A c \in DOMAIN ar : a < c /\ c <= n => mcb_is_free(ar, c)
        BY <3>2 DEF FreeRun
      <4>4. \A c \in DOMAIN ar : c <= b => c <= n
        BY <3>1, HeaderFacts
      <4>5. b \in FreeRun(ar, a)
        BY <4>2, <4>3, <4>4, <3>1 DEF FreeRun
      <4>6. QED
        BY <4>5, <1>1
    <3>3. n < MemEnd => n \in DOMAIN new
      BY <3>1, <3>2, <1>1, HeaderFacts
    <3>4. QED
      BY <3>1, <3>3, HeaderFacts
  <2>3. QED
    BY <2>1, <2>2
<1>9. Tiled(new)
  BY <1>7, <1>8 DEF Tiled
<1>10. Kept(ar, new, O)
  <2> SUFFICES ASSUME NEW a \in DOMAIN ar, ar[a].owner # 0, a \notin O
               PROVE  a \in DOMAIN new /\ new[a] = ar[a]
    BY DEF Kept
  <2>1. a \notin Merged(ar, O)
    BY <1>3 DEF mcb_is_free
  <2>2. QED
    BY <2>1
<1>11. QED
  BY <1>2, <1>6, <1>9, <1>10 DEF Sound

LEMMA GrowSound ==
  ASSUME NEW ar, Sound(ar), NEW a \in DOMAIN ar
  PROVE  /\ Sound(mcb_grow_max(ar, a))
         /\ Kept(ar, mcb_grow_max(ar, a), {a})
         /\ Grown(ar, mcb_grow_max(ar, a), a)
<1> DEFINE new == mcb_grow_max(ar, a)
<1>1. Merged(ar, {a}) = FreeRun(ar, a)
  BY DEF Merged
<1>2. DOMAIN new = DOMAIN ar \ Merged(ar, {a}) /\ new = [b \in DOMAIN new |-> new[b]]
  BY <1>1 DEF mcb_grow_max
<1>3. a \notin FreeRun(ar, a)
  <2>1. a \in Nat
    BY HeaderFacts
  <2>2. \A b \in FreeRun(ar, a) : a < b
    BY RunFacts
  <2>3. QED
    BY <2>1, <2>2
<1>4. a \in DOMAIN new /\ new[a] = GrownHeader(ar, a)
  BY <1>1, <1>3 DEF mcb_grow_max
<1>5. \A b \in DOMAIN new \ {a} : new[b] = ar[b]
  BY DEF mcb_grow_max
<1>6. GrownHeader(ar, a) \in Header
  BY GrownFacts
<1>7. Sound(new) /\ Kept(ar, new, {a})
  <2> HIDE DEF new
  <2>1. MergedInto(ar, {a}, new)
    BY <1>2, <1>3, <1>4, <1>5, <1>6 DEF MergedInto
  <2>2. QED
    BY ONLY <2>1, Sound(ar), MergeSound
<1>8. Grown(ar, new, a)
  <2>1. new[a].owner = ar[a].owner /\ ar[a].size <= new[a].size
    BY <1>4, GrownFacts
  <2> HIDE DEF new
  <2>2. QED
    BY <1>2, <1>4, <1>5, <2>1 DEF Grown
<1>9. QED
  BY <1>7, <1>8

LEMMA FreeSound ==
  ASSUME NEW ar, Sound(ar), NEW a \in DOMAIN ar
  PROVE  /\ Sound(mcb_free(ar, a))
         /\ Kept(ar, mcb_free(ar, a), {a})
         /\ OwnersFrom(ar, mcb_free(ar, a), {})
<1> DEFINE mid == mcb_set_owner(ar, a, 0)
           new == mcb_grow_max(mid, a)
<1>1. Sound(mid) /\ Reowned(ar, mid, {a}, 0)
  BY SetOwnerSound
<1>2. a \in DOMAIN mid
  BY <1>1 DEF Reowned
<1>3. Sound(new) /\ Kept(mid, new, {a}) /\ Grown(mid, new, a)
  <2> HIDE DEF mid
  <2> QED BY <1>1, <1>2, GrowSound
<1> HIDE DEF mid, new
<1>4. Kept(ar, new, {a})
  BY <1>1, <1>3 DEF Kept, Reowned, Grown
<1>5. OwnersFrom(ar, new, {})
  BY <1>1, <1>3 DEF OwnersFrom, Reowned, Grown
<1>6. QED
  BY <1>3, <1>4, <1>5 DEF mcb_free, mid, new

(* Freeing a set of blocks in use, each merged with the free blocks behind. *)
Freed(ar, O) ==
    [a \in DOMAIN ar \ Merged(ar, O) |->
        IF a \in O THEN [GrownHeader(ar, a) EXCEPT !.owner = 0] ELSE ar[a]]

FreedFrom(ar, O, new) ==
    /\ Sound(new) /\ Kept(ar, new, O)
    /\ DOMAIN new = DOMAIN ar \ Merged(ar, O)
    /\ O \subseteq DOMAIN new
    /\ \A a \in O : /\ new[a].owner = 0
                    /\ new[a].size = GrownHeader(ar, a).size
                    /\ new[a].last = GrownHeader(ar, a).last
    /\ \A a \in DOMAIN new \ O : new[a] = ar[a]

LEMMA FreedSound ==
  ASSUME NEW ar, Sound(ar), NEW O, O \subseteq DOMAIN ar,
         \A a \in O : ~ mcb_is_free(ar, a)
  PROVE  FreedFrom(ar, O, Freed(ar, O))
<1> DEFINE new == Freed(ar, O)
<1>1. DOMAIN new = DOMAIN ar \ Merged(ar, O) /\ new = [b \in DOMAIN new |-> new[b]]
  BY DEF Freed
<1>2. \A a, b \in O : a \notin FreeRun(ar, b)
  BY RunFacts
<1>3. O \subseteq DOMAIN new
  BY <1>1, <1>2 DEF Merged
<1>4. \A a \in O : new[a] = [GrownHeader(ar, a) EXCEPT !.owner = 0]
  BY <1>1, <1>3 DEF Freed
<1>5. \A a \in DOMAIN new \ O : new[a] = ar[a]
  BY <1>1 DEF Freed
<1>6. ASSUME NEW a \in O
      PROVE  /\ new[a] \in Header /\ new[a].owner = 0
             /\ new[a].size = GrownHeader(ar, a).size
             /\ new[a].last = GrownHeader(ar, a).last
  <2> DEFINE g == GrownHeader(ar, a)
  <2>1. g \in Header
    BY GrownFacts
  <2>2. new[a] = [g EXCEPT !.owner = 0]
    BY <1>4
  <2> HIDE DEF g
  <2>3. /\ new[a] \in Header /\ new[a].owner = 0
        /\ new[a].size = g.size /\ new[a].last = g.last
    BY <2>1, <2>2 DEF Header
  <2>4. QED
    BY <2>3 DEF g
<1>7. Sound(new) /\ Kept(ar, new, O)
  <2>1. O \in SUBSET DOMAIN ar
    OBVIOUS
  <2> HIDE DEF new
  <2>2. MergedInto(ar, O, new)
    BY <1>1, <1>2, <1>5, <1>6, <2>1 DEF MergedInto
  <2>3. QED
    BY ONLY <2>2, Sound(ar), MergeSound
<1> HIDE DEF new
<1>8. FreedFrom(ar, O, new)
  BY <1>1, <1>3, <1>5, <1>6, <1>7 DEF FreedFrom
<1>9. QED
  BY <1>8 DEF new

(* What mem_free_owned leaves: the process owns nothing any more. *)
OwnedBy(ar, p) == {a \in DOMAIN ar : ar[a].owner = p}

LEMMA FreedOwned == ASSUME NEW ar, NEW p PROVE mem_free_owned(ar, p) = Freed(ar, OwnedBy(ar, p))
BY DEF mem_free_owned, Freed, OwnedBy, Merged

LEMMA FreeOwnedSound ==
  ASSUME NEW ar, Sound(ar), NEW p \in Nat \ {0}
  PROVE  /\ Sound(mem_free_owned(ar, p))
         /\ Kept(ar, mem_free_owned(ar, p), {a \in DOMAIN ar : ar[a].owner = p})
         /\ OwnersFrom(ar, mem_free_owned(ar, p), {})
         /\ \A a \in DOMAIN mem_free_owned(ar, p) : mem_free_owned(ar, p)[a].owner # p
<1> DEFINE owned == OwnedBy(ar, p)
           new == Freed(ar, owned)
<1>1. owned \subseteq DOMAIN ar /\ \A a \in owned : ~ mcb_is_free(ar, a)
  BY DEF mcb_is_free, OwnedBy
<1>2. \A a \in DOMAIN ar : a \notin owned => ar[a].owner # p
  BY DEF OwnedBy
<1> HIDE DEF owned
<1>3. FreedFrom(ar, owned, new)
  BY <1>1, FreedSound
<1> HIDE DEF new
<1> USE DEF FreedFrom
<1>4. \A a \in DOMAIN new : new[a].owner # p
  BY <1>2, <1>3
<1>5. OwnersFrom(ar, new, {})
  BY <1>3 DEF OwnersFrom
<1>6. QED
  BY <1>3, <1>4, <1>5, FreedOwned DEF new, owned, OwnedBy

--------------------------------------------------------------------------------
(* Allocation: the strategy picks one of the fitting blocks. *)
LEMMA BestExists ==
  ASSUME NEW ar, Sound(ar), NEW size \in Nat, NEW stg \in Nat,
         Fitting(ar, size) # {}
  PROVE  \E a \in Fitting(ar, size) : IsBest(ar, Fitting(ar, size), stg, a)
<1> DEFINE fit == Fitting(ar, size)
<1>1. fit \subseteq DOMAIN ar
  BY DEF Fitting
<1>2. fit \subseteq Nat /\ fit \subseteq 0 .. MemEnd
  <2>1. ASSUME NEW b \in DOMAIN ar PROVE b \in Nat /\ b <= MemEnd
    BY HeaderFacts, ArenaAssumption
  <2>2. MemEnd \in Nat
    BY ArenaAssumption
  <2> HIDE DEF fit
  <2>3. QED
    BY ONLY <1>1, <2>1, <2>2
<1> HIDE DEF fit
<1>3. CASE stg = FirstFit
  <2>1. PICK a \in fit : \A b \in fit : a <= b
    BY <1>2, LeastNat DEF fit
  <2>2. QED
    BY <1>3, <2>1 DEF IsBest, fit, FirstFit, BestFit
<1>4. CASE stg = BestFit
  <2> DEFINE sizes == {ar[a].size : a \in fit}
  <2>1. sizes \subseteq Nat /\ sizes # {}
    BY <1>1, HeaderFacts DEF fit
  <2>2. PICK n \in sizes : \A m \in sizes : n <= m
    <3> HIDE DEF sizes
    <3> QED BY <2>1, LeastNat
  <2> DEFINE least == {a \in fit : ar[a].size = n}
  <2>3. least \subseteq Nat /\ least # {}
    BY <1>2
  <2>4. PICK a \in least : \A b \in least : a <= b
    <3> HIDE DEF least
    <3> QED BY <2>3, LeastNat
  <2>5. ASSUME NEW b \in fit
        PROVE  ar[a].size < ar[b].size \/ (ar[a].size = ar[b].size /\ a <= b)
    <3>1. ar[b].size \in sizes /\ ar[a].size = n
      OBVIOUS
    <3>2. n <= ar[b].size /\ n \in Nat /\ ar[b].size \in Nat
      BY <2>1, <2>2, <3>1
    <3>3. ar[b].size = n => a <= b
      BY <2>4
    <3>4. QED
      BY <3>1, <3>2, <3>3
  <2>6. stg # FirstFit
    BY <1>4 DEF FirstFit, BestFit
  <2>7. QED
    BY <1>4, <2>5, <2>6 DEF IsBest, fit
<1>5. CASE stg # FirstFit /\ stg # BestFit
  <2>1. PICK a \in fit : \A b \in fit : b <= a
    BY <1>2, GreatestNat, ArenaAssumption DEF fit
  <2>2. QED
    BY <1>5, <2>1 DEF IsBest, fit
<1>6. QED
  BY <1>3, <1>4, <1>5

(* Placing a request in a fitting free block. *)
LEMMA PlaceSound ==
  ASSUME NEW ar, Sound(ar), NEW size \in Nat, NEW owner \in Nat, NEW stg \in Nat,
         NEW best \in DOMAIN ar, ar[best].owner = 0, ar[best].size >= size
  PROVE  Allocated(ar, Place(ar, best, size, owner, stg), size, owner)
<1> DEFINE r == Place(ar, best, size, owner, stg)
           slack == ar[best].size - size
           last == ar[best].last
           low == best + slack
           high == best + size + 1
<1>1. /\ best \in Nat /\ slack \in Nat /\ last \in BOOLEAN
      /\ ar[best].size \in Nat /\ mcb_next(ar, best) = best + ar[best].size + 1
  BY HeaderFacts
<1>2. ASSUME NEW new, Kept(ar, new, {best}) PROVE Kept(ar, new, {})
  BY <1>2 DEF Kept
<1>3. CASE slack = 0
  <2>1. r = [mcb |-> best, arena |-> mcb_new(ar, best, owner, size, last)]
    BY <1>3 DEF Place
  <2>2. ar[best] = [owner |-> 0, size |-> size, last |-> last]
    BY <1>1, <1>3, HeaderFacts DEF Header
  <2>3. r.arena = mcb_set_owner(ar, best, owner)
    <3>1. DOMAIN ar \cup {best} = DOMAIN ar
      OBVIOUS
    <3>2. [ar[best] EXCEPT !.owner = owner]
              = [owner |-> owner, size |-> size, last |-> last]
      BY <2>2
    <3>3. ar = [b \in DOMAIN ar |-> ar[b]]
      BY DEF Sound, IsArena
    <3>4. mcb_set_owner(ar, best, owner)
             = [b \in DOMAIN ar |-> IF b = best THEN [ar[best] EXCEPT !.owner = owner]
                                    ELSE ar[b]]
      BY <3>3 DEF mcb_set_owner
    <3>5. QED
      BY <2>1, <3>1, <3>2, <3>4 DEF mcb_new
  <2>4. r.mcb = best
    BY <2>1
  <2> HIDE DEF r
  <2>5. /\ Sound(r.arena) /\ DOMAIN r.arena = DOMAIN ar /\ r.arena[best].owner = owner
        /\ Kept(ar, r.arena, {best})
        /\ \A b \in DOMAIN ar :
              r.arena[b].size = ar[b].size /\ (b # best => r.arena[b] = ar[b])
    <3>1. Sound(r.arena) /\ Reowned(ar, r.arena, {best}, owner)
      BY <2>3, SetOwnerSound
    <3>2. QED
      BY <3>1 DEF Reowned, Kept
  <2>6. r.arena[best].size = size
    BY <2>2, <2>5
  <2>7. Allocated(ar, r, size, owner)
    BY <2>4, <2>5, <2>6, <1>2 DEF OwnersFrom, Allocated
  <2>8. QED
    BY <2>7 DEF r
<1>4. CASE slack > 0 /\ stg >= 2
  <2>1. r = [mcb |-> low,
             arena |-> mcb_new(mcb_new(ar, low, owner, size, last),
                               best, 0, slack - 1, FALSE)]
    BY <1>1, <1>4 DEF Place
  <2>2. r.mcb = low /\ r.arena = Split(ar, best, low, 0, owner)
    <3>1. low - best - 1 = slack - 1 /\ mcb_next(ar, best) - low - 1 = size
      BY <1>1
    <3>2. best # low
      BY <1>1, <1>4
    <3>3. Split(ar, best, low, 0, owner) =
            mcb_new(mcb_new(ar, low, owner, mcb_next(ar, best) - low - 1, last),
                    best, 0, low - best - 1, FALSE)
      <4> HIDE DEF low
      <4> QED BY <3>2, SplitIsTwoHeaders
    <3>4. r.arena = Split(ar, best, low, 0, owner)
      <4> HIDE DEF r, slack, last, low, high
      <4> QED BY <2>1, <3>1, <3>3
    <3>5. QED
      <4> HIDE DEF r, slack, last, low, high
      <4> QED BY <2>1, <3>4
  <2>3. low \in Nat /\ best < low /\ low < mcb_next(ar, best)
    BY <1>1, <1>4
  <2> HIDE DEF r
  <2>4. Sound(r.arena) /\ Kept(ar, r.arena, {best}) /\ low \notin DOMAIN ar
    BY <2>2, <2>3, SplitSound
  <2>5. /\ DOMAIN r.arena = DOMAIN ar \cup {low}
        /\ r.arena[low] = [owner |-> owner, size |-> mcb_next(ar, best) - low - 1,
                           last |-> last]
        /\ r.arena[best].owner = 0
        /\ \A b \in DOMAIN ar : b # best => r.arena[b] = ar[b]
    BY <2>2, <2>3, <2>4 DEF Split
  <2>6. r.arena[low].size = size /\ r.arena[low].owner = owner
    BY <2>5, <1>1
  <2>7. Allocated(ar, r, size, owner)
    BY <2>2, <2>4, <2>5, <2>6, <1>2 DEF OwnersFrom, Allocated
  <2>8. QED
    BY <2>7 DEF r
<1>5. CASE slack > 0 /\ ~ (stg >= 2)
  <2>1. r = [mcb |-> best,
             arena |-> mcb_new(mcb_new(ar, high, 0, slack - 1, last),
                               best, owner, size, FALSE)]
    BY <1>1, <1>5 DEF Place
  <2>2. r.mcb = best /\ r.arena = Split(ar, best, high, owner, 0)
    <3>1. high - best - 1 = size /\ mcb_next(ar, best) - high - 1 = slack - 1
      BY <1>1
    <3>2. best # high
      BY <1>1, <1>5
    <3>3. Split(ar, best, high, owner, 0) =
            mcb_new(mcb_new(ar, high, 0, mcb_next(ar, best) - high - 1, last),
                    best, owner, high - best - 1, FALSE)
      <4> HIDE DEF high
      <4> QED BY <3>2, SplitIsTwoHeaders
    <3>4. r.arena = Split(ar, best, high, owner, 0)
      <4> HIDE DEF r, slack, last, low, high
      <4> QED BY <2>1, <3>1, <3>3
    <3>5. QED
      <4> HIDE DEF r, slack, last, low, high
      <4> QED BY <2>1, <3>4
  <2>3. high \in Nat /\ best < high /\ high < mcb_next(ar, best)
    BY <1>1, <1>5
  <2> HIDE DEF r
  <2>4. Sound(r.arena) /\ Kept(ar, r.arena, {best}) /\ high \notin DOMAIN ar
    BY <2>2, <2>3, SplitSound
  <2>5. /\ DOMAIN r.arena = DOMAIN ar \cup {high}
        /\ r.arena[best] = [owner |-> owner, size |-> high - best - 1, last |-> FALSE]
        /\ r.arena[high].owner = 0
        /\ \A b \in DOMAIN ar : b # best => r.arena[b] = ar[b]
    BY <2>2, <2>3, <2>4 DEF Split
  <2>6. r.arena[best].size = size /\ r.arena[best].owner = owner
    BY <2>5, <1>1
  <2>7. Allocated(ar, r, size, owner)
    BY <2>2, <2>4, <2>5, <2>6, <1>2 DEF OwnersFrom, Allocated
  <2>8. QED
    BY <2>7 DEF r
<1>6. QED
  BY <1>1, <1>3, <1>4, <1>5

LEMMA AllocSound ==
  ASSUME NEW ar, Sound(ar), NEW size \in Nat, NEW owner \in Nat, NEW stg \in Nat
  PROVE  Allocated(ar, mcb_alloc_new(ar, size, owner, stg), size, owner)
<1> DEFINE fit == Fitting(ar, size)
           best == CHOOSE a \in fit : IsBest(ar, fit, stg, a)
           r == mcb_alloc_new(ar, size, owner, stg)
<1>1. CASE fit = {}
  <2>1. r = [mcb |-> 0, arena |-> ar]
    BY <1>1 DEF mcb_alloc_new
  <2>2. Kept(ar, ar, {}) /\ OwnersFrom(ar, ar, {owner})
    BY DEF Kept, OwnersFrom
  <2> HIDE DEF r
  <2>3. Allocated(ar, r, size, owner)
    BY <2>1, <2>2 DEF Allocated
  <2>4. QED
    BY <2>3 DEF r
<1>2. CASE fit # {}
  <2>1. best \in fit
    <3>1. \E a \in fit : IsBest(ar, fit, stg, a)
      BY <1>2, BestExists
    <3> HIDE DEF fit
    <3>2. QED
      BY <3>1
  <2>2. best \in DOMAIN ar /\ ar[best].owner = 0 /\ ar[best].size >= size
    <3> HIDE DEF best
    <3> QED BY <2>1 DEF Fitting, mcb_is_free
  <2>3. r = Place(ar, best, size, owner, stg)
    BY <1>2 DEF mcb_alloc_new
  <2> HIDE DEF best, fit, r
  <2>4. Allocated(ar, Place(ar, best, size, owner, stg), size, owner)
    BY <2>2, PlaceSound
  <2>5. QED
    BY <2>3, <2>4 DEF r
<1>3. QED
  BY <1>1, <1>2

(* Resizing keeps the block where it is and leaves all others alone; when  *)
(* it falls short the block is larger than before, never smaller.          *)
LEMMA ResizeSound ==
  ASSUME NEW ar, Sound(ar), NEW a \in DOMAIN ar, NEW size \in Nat
  PROVE  Resized(ar, mcb_resize(ar, a, size), a, size)
<1> DEFINE grown == mcb_grow_max(ar, a)
           new == mcb_resize(ar, a, size)
<1>0. Sound(grown) /\ Kept(ar, grown, {a}) /\ Grown(ar, grown, a)
  BY GrowSound
<1>1. new = IF ar[a].size = size THEN ar
            ELSE IF grown[a].size > size THEN Shrink(grown, a, size)
            ELSE grown
  BY DEF mcb_resize
<1> SUFFICES Resized(ar, new, a, size)
  OBVIOUS
<1> HIDE DEF new, grown
<1>2. /\ a \in DOMAIN grown /\ grown[a].owner = ar[a].owner
      /\ ar[a].size <= grown[a].size /\ DOMAIN grown \subseteq DOMAIN ar
      /\ \A b \in DOMAIN grown : grown[b].owner = ar[b].owner
  BY <1>0 DEF Grown
<1>3. ar[a].size \in Nat /\ a \in Nat /\ ar[a].owner \in Nat
  BY HeaderFacts
<1>4. grown[a].size \in Nat /\ mcb_next(grown, a) = a + grown[a].size + 1
  BY <1>0, <1>2, HeaderFacts
<1>5. CASE ar[a].size = size
  <2>1. new = ar
    BY <1>1, <1>5
  <2>2. Kept(ar, ar, {a}) /\ OwnersFrom(ar, ar, {})
    BY DEF Kept, OwnersFrom
  <2>3. QED
    BY <2>1, <2>2, <1>5 DEF Resized
<1>6. CASE ar[a].size # size /\ grown[a].size > size
  <2> DEFINE c == a + size + 1
  <2>1. new = Shrink(grown, a, size)
    BY <1>1, <1>6
  <2>2. c \in Nat /\ a < c /\ c < mcb_next(grown, a)
    BY <1>3, <1>4, <1>6
  <2>3. new = Split(grown, a, c, ar[a].owner, 0)
    <3>1. /\ c - a - 1 = size
          /\ mcb_next(grown, a) - c - 1 = grown[a].size - size - 1
      BY <1>3, <1>4
    <3>2. new = mcb_new(mcb_new(grown, c, 0, grown[a].size - size - 1, grown[a].last),
                        a, ar[a].owner, size, FALSE)
      BY <2>1, <1>2 DEF Shrink
    <3>3. Split(grown, a, c, ar[a].owner, 0) =
            mcb_new(mcb_new(grown, c, 0, mcb_next(grown, a) - c - 1, grown[a].last),
                    a, ar[a].owner, c - a - 1, FALSE)
      <4>1. a # c
        BY <2>2, <1>3
      <4> HIDE DEF c
      <4>2. QED
        BY <4>1, <1>2, SplitIsTwoHeaders
    <3>4. QED
      <4> HIDE DEF c
      <4> QED BY <3>1, <3>2, <3>3
  <2>4. Sound(new) /\ Kept(grown, new, {a}) /\ c \notin DOMAIN grown
    <3> HIDE DEF c
    <3> QED BY <2>2, <2>3, <1>0, <1>2, <1>3, SplitSound
  <2>5. /\ DOMAIN new = DOMAIN grown \cup {c}
        /\ new[a] = [owner |-> ar[a].owner, size |-> c - a - 1, last |-> FALSE]
        /\ new[c].owner = 0
        /\ \A b \in DOMAIN grown : b # a => new[b] = grown[b]
    <3> HIDE DEF c
    <3> QED BY <2>2, <2>3, <2>4, <1>2, <1>3 DEF Split
  <2>6. new[a].size = size /\ new[a].owner = ar[a].owner
    BY <2>5, <1>3
  <2>7. Kept(ar, new, {a})
    BY <2>4, <1>0, <1>2 DEF Kept
  <2>8. QED
    <3> HIDE DEF c
    <3>1. OwnersFrom(ar, new, {})
      BY <2>5, <2>6, <1>2 DEF OwnersFrom
    <3>2. a \in DOMAIN new
      BY <2>5, <1>2
    <3>3. QED
      BY <2>4, <2>6, <2>7, <3>1, <3>2 DEF Resized
<1>7. CASE ar[a].size # size /\ ~ (grown[a].size > size)
  <2>1. new = grown
    BY <1>1, <1>7
  <2>2. grown[a].size = size \/ grown[a].size < size
    BY <1>4, <1>7
  <2>3. QED
    BY <2>1, <2>2, <1>0, <1>2 DEF OwnersFrom, Resized
<1>8. QED
  BY <1>5, <1>6, <1>7

--------------------------------------------------------------------------------
(* The state machine.                                                      *)

LEMMA MaxFreeType ==
  ASSUME NEW ar, Sound(ar), NEW size \in Nat
  PROVE  LargestTooSmall(ar, size) \in Nat
<1> DEFINE small == {b \in DOMAIN ar : mcb_is_free(ar, b) /\ ar[b].size < size}
           T == {0} \cup {ar[a].size : a \in small}
<1>1. T \subseteq 0 .. size
  BY HeaderFacts
<1>2. Max(T) \in T
  <2> HIDE DEF T
  <2>1. T # {}
    BY DEF T
  <2>2. QED
    BY <1>1, <2>1, MaxProperty
<1>3. QED
  BY <1>1, <1>2 DEF LargestTooSmall

--------------------------------------------------------------------------------
(* new is ar after blocks were allocated for owner 1; e, j and b are three  *)
(* different ones of them, unless one could not be had.                    *)
Taken(ar, new, e, j, b) ==
    /\ Sound(new)
    /\ Kept(ar, new, {})
    /\ OwnersFrom(ar, new, {SystemOwner})
    /\ e # 0 /\ j # 0 /\ b # 0 =>
         /\ e # j /\ e # b /\ j # b
         /\ {e, j, b} \subseteq DOMAIN new
         /\ \A x \in {e, j, b} \cap DOMAIN ar : ar[x].owner = 0

(* Three allocations in a row for owner 1 give three different blocks that *)
(* were not in use before.                                                 *)
LEMMA ThreeBlocks ==
  ASSUME NEW ar, NEW env, NEW jft, NEW blk, NEW n1, NEW n2, NEW n3,
         Sound(ar),
         Allocated(ar, env, n1, SystemOwner),
         Allocated(env.arena, jft, n2, SystemOwner),
         Allocated(jft.arena, blk, n3, SystemOwner)
  PROVE  Taken(ar, blk.arena, env.mcb, jft.mcb, blk.mcb)
<1>1. SystemOwner # 0
  BY DEF SystemOwner
<1>2. Sound(blk.arena)
  BY DEF Allocated
<1>3. Kept(ar, jft.arena, {})
  BY DEF Allocated, Kept
<1>4. Kept(ar, blk.arena, {})
  BY <1>3 DEF Allocated, Kept
<1>5. OwnersFrom(ar, jft.arena, {SystemOwner})
  BY <1>1 DEF Allocated, OwnersFrom
<1>6. OwnersFrom(ar, blk.arena, {SystemOwner})
  BY <1>1, <1>5 DEF Allocated, OwnersFrom
<1>7. ASSUME env.mcb # 0, jft.mcb # 0, blk.mcb # 0
      PROVE  /\ env.mcb # jft.mcb /\ env.mcb # blk.mcb /\ jft.mcb # blk.mcb
             /\ {env.mcb, jft.mcb, blk.mcb} \subseteq DOMAIN blk.arena
             /\ \A b \in {env.mcb, jft.mcb, blk.mcb} \cap DOMAIN ar : ar[b].owner = 0
  <2>1. env.mcb \in DOMAIN env.arena /\ env.arena[env.mcb].owner = SystemOwner
    BY <1>7 DEF Allocated
  <2>2. env.mcb \in DOMAIN jft.arena /\ jft.arena[env.mcb].owner = SystemOwner
    BY <1>1, <2>1 DEF Allocated, Kept
  <2>3. jft.mcb \in DOMAIN jft.arena /\ jft.arena[jft.mcb].owner = SystemOwner
    BY <1>7 DEF Allocated
  <2>4. env.mcb # jft.mcb
    BY <1>1, <1>7, <2>1 DEF Allocated
  <2>5. env.mcb # blk.mcb /\ jft.mcb # blk.mcb
    BY <1>1, <1>7, <2>2, <2>3 DEF Allocated
  <2>6. {env.mcb, jft.mcb, blk.mcb} \subseteq DOMAIN blk.arena
    BY <1>1, <1>7, <2>2, <2>3 DEF Allocated, Kept
  <2>7. env.mcb \in DOMAIN ar => ar[env.mcb].owner = 0
    BY <1>7 DEF Allocated
  <2>8. jft.mcb \in DOMAIN ar => ar[jft.mcb].owner = 0
    BY <1>7 DEF Allocated, Kept
  <2>9. blk.mcb \in DOMAIN ar => ar[blk.mcb].owner = 0
    BY <1>3, <1>7 DEF Allocated, Kept
  <2>10. QED
    BY <2>4, <2>5, <2>6, <2>7, <2>8, <2>9
<1>8. QED
  BY <1>2, <1>4, <1>6, <1>7 DEF Taken

(* Handing three blocks to their new owner. *)
LEMMA HandOver ==
  ASSUME NEW ar, Sound(ar), NEW e \in DOMAIN ar, NEW j \in DOMAIN ar,
         NEW b \in DOMAIN ar, NEW seg \in Nat
  PROVE  LET new == mcb_set_owner(mcb_set_owner(mcb_set_owner(ar, e, seg), j, seg),
                                  b, seg)
         IN  Sound(new) /\ Reowned(ar, new, {e, j, b}, seg)
<1> DEFINE a1 == mcb_set_owner(ar, e, seg)
           a2 == mcb_set_owner(a1, j, seg)
           a3 == mcb_set_owner(a2, b, seg)
<1>1. Sound(a1) /\ Reowned(ar, a1, {e}, seg)
  BY SetOwnerSound
<1> HIDE DEF a1
<1>2. j \in DOMAIN a1 /\ b \in DOMAIN a1
  BY <1>1 DEF Reowned
<1>3. Sound(a2) /\ Reowned(a1, a2, {j}, seg)
  BY <1>1, <1>2, SetOwnerSound
<1> HIDE DEF a2
<1>4. b \in DOMAIN a2
  BY <1>2, <1>3 DEF Reowned
<1>5. Sound(a3) /\ Reowned(a2, a3, {b}, seg)
  BY <1>3, <1>4, SetOwnerSound
<1> HIDE DEF a3
<1>6. Reowned(ar, a3, {e, j, b}, seg)
  BY <1>1, <1>3, <1>5 DEF Reowned
<1>7. QED
  BY <1>5, <1>6 DEF a1, a2, a3

(* What create_PSP does to the arena: it takes free memory only, and hands *)
(* the blocks to the new PSP, or leaves those it got to owner 1.           *)
Created(ar, new) ==
    /\ Sound(new.arena)
    /\ Kept(ar, new.arena, {})
    /\ ~ new.ok => OwnersFrom(ar, new.arena, {SystemOwner})
    /\ new.ok =>
         /\ new.seg \in Nat /\ new.jft \in Nat /\ new.seg # new.jft
         /\ OwnersFrom(ar, new.arena, {new.seg, SystemOwner})
         /\ new.seg - 1 \in DOMAIN new.arena
         /\ new.jft - 1 \in DOMAIN new.arena
         /\ new.arena[new.seg - 1].owner = new.seg
         /\ new.arena[new.jft - 1].owner = new.seg
         /\ new.arena[new.seg - 1].size = new.size
         /\ new.seg - 1 \in DOMAIN ar => ar[new.seg - 1].owner = 0

LEMMA CreateFacts ==
  ASSUME NEW ar, Sound(ar), NEW stg \in Nat, NEW envSize \in Nat
  PROVE  Created(ar, create_PSP(ar, stg, envSize))
<1> DEFINE env == mcb_alloc_new(ar, envSize, SystemOwner, stg)
           jft == mcb_alloc_new(env.arena, JftParas, SystemOwner, stg)
           all == mcb_alloc_new(jft.arena, AllMemory, SystemOwner, stg)
           max == LargestTooSmall(jft.arena, AllMemory)
           rest == mcb_alloc_new(jft.arena, max, SystemOwner, stg)
           blk == IF all.mcb # 0 THEN all ELSE rest
           seg == blk.mcb + 1
           a3 == mcb_set_owner(mcb_set_owner(mcb_set_owner(
                     blk.arena, env.mcb, seg), jft.mcb, seg), blk.mcb, seg)
           new == create_PSP(ar, stg, envSize)
<1>1. SystemOwner \in Nat /\ AllMemory \in Nat /\ JftParas \in Nat /\ SystemOwner # 0
  BY SizesAssumption DEF SystemOwner, AllMemory
<1>2. new = IF env.mcb = 0 \/ jft.mcb = 0 \/ blk.mcb = 0
            THEN [ok |-> FALSE, arena |-> blk.arena]
            ELSE [ok |-> TRUE, seg |-> seg, jft |-> jft.mcb + 1,
                  size |-> blk.arena[blk.mcb].size, arena |-> a3]
  BY DEF create_PSP
<1>3. Allocated(ar, env, envSize, SystemOwner)
  BY <1>1, AllocSound
<1> HIDE DEF env, new
<1>4. Allocated(env.arena, jft, JftParas, SystemOwner)
  <2>1. Sound(env.arena)
    BY <1>3 DEF Allocated
  <2>2. QED
    BY <1>1, <2>1, AllocSound
<1> HIDE DEF jft
<1>5. PICK n : Allocated(jft.arena, blk, n, SystemOwner)
  <2>1. Sound(jft.arena)
    BY <1>4 DEF Allocated
  <2>2. max \in Nat
    BY <1>1, <2>1, MaxFreeType
  <2> HIDE DEF max
  <2>3. Allocated(jft.arena, all, AllMemory, SystemOwner)
    BY <1>1, <2>1, AllocSound
  <2>4. Allocated(jft.arena, rest, max, SystemOwner)
    BY <1>1, <2>1, <2>2, AllocSound
  <2> HIDE DEF all, rest
  <2>5. QED
    BY <2>3, <2>4
<1> HIDE DEF blk
<1>6. Taken(ar, blk.arena, env.mcb, jft.mcb, blk.mcb)
  BY <1>3, <1>4, <1>5, ThreeBlocks
<1>60. /\ Sound(blk.arena)
       /\ Kept(ar, blk.arena, {})
       /\ OwnersFrom(ar, blk.arena, {SystemOwner})
  BY <1>6 DEF Taken
<1>7. CASE env.mcb = 0 \/ jft.mcb = 0 \/ blk.mcb = 0
  <2>1. new = [ok |-> FALSE, arena |-> blk.arena]
    BY <1>2, <1>7
  <2>2. Created(ar, new)
    BY <2>1, <1>60 DEF Created
  <2>3. QED
    BY <2>2 DEF new
<1>8. CASE ~ (env.mcb = 0 \/ jft.mcb = 0 \/ blk.mcb = 0)
  <2>1. /\ new.ok /\ new.seg = seg /\ new.jft = jft.mcb + 1
        /\ new.size = blk.arena[blk.mcb].size /\ new.arena = a3
    BY <1>2, <1>8
  <2>2. /\ env.mcb \in DOMAIN blk.arena /\ jft.mcb \in DOMAIN blk.arena
        /\ blk.mcb \in DOMAIN blk.arena /\ jft.mcb # blk.mcb
    BY <1>6, <1>8 DEF Taken
  <2>3. env.mcb \in Nat /\ jft.mcb \in Nat /\ blk.mcb \in Nat /\ blk.mcb > 0
    <3>1. \A x \in DOMAIN blk.arena : x \in Nat /\ MemStart <= x
      BY <1>60, HeaderFacts
    <3>2. QED
      BY <2>2, <3>1, ArenaAssumption
  <2>4. seg \in Nat /\ seg # 0 /\ seg # jft.mcb + 1 /\ seg - 1 = blk.mcb
    BY <2>2, <2>3
  <2> HIDE DEF seg
  <2>5. Sound(a3) /\ Reowned(blk.arena, a3, {env.mcb, jft.mcb, blk.mcb}, seg)
    BY <1>60, <2>2, <2>4, HandOver
  <2> HIDE DEF a3
  <2>6. Kept(ar, a3, {})
    <3>1. ASSUME NEW b \in DOMAIN ar, ar[b].owner # 0
          PROVE  /\ b \in DOMAIN a3 /\ a3[b].owner = ar[b].owner
                 /\ a3[b].size = ar[b].size
      <4>1. b \notin {env.mcb, jft.mcb, blk.mcb}
        BY <1>6, <1>8, <3>1 DEF Taken
      <4>2. b \in DOMAIN blk.arena /\ a3[b] = blk.arena[b]
        BY <1>60, <2>5, <3>1, <4>1 DEF Kept, Reowned
      <4>3. QED
        BY <1>60, <2>5, <3>1, <4>2 DEF Kept, Reowned
    <3>2. QED
      BY <3>1 DEF Kept
  <2>7. OwnersFrom(ar, a3, {seg, SystemOwner})
    BY <1>60, <2>5 DEF OwnersFrom, Reowned
  <2>8. /\ blk.mcb \in DOMAIN a3 /\ jft.mcb \in DOMAIN a3
        /\ a3[blk.mcb].owner = seg /\ a3[jft.mcb].owner = seg
        /\ a3[blk.mcb].size = blk.arena[blk.mcb].size
    BY <2>2, <2>5 DEF Reowned
  <2>9. jft.mcb + 1 - 1 = jft.mcb /\ jft.mcb + 1 \in Nat
    BY <2>3
  <2>10. blk.mcb \in DOMAIN ar => ar[blk.mcb].owner = 0
    BY <1>6, <1>8 DEF Taken
  <2>11. Created(ar, new)
    <3>1. Sound(new.arena) /\ Kept(ar, new.arena, {})
      BY <2>1, <2>5, <2>6
    <3>2. /\ new.seg \in Nat /\ new.jft \in Nat /\ new.seg # new.jft
          /\ new.seg - 1 = blk.mcb /\ new.jft - 1 = jft.mcb
      <4>1. new.seg = seg /\ new.jft = jft.mcb + 1
        BY <2>1
      <4>2. new.seg \in Nat /\ new.seg - 1 = blk.mcb
        BY <2>4, <4>1
      <4>3. new.jft \in Nat /\ new.jft - 1 = jft.mcb
        BY <2>3, <4>1
      <4>4. new.seg # new.jft
        BY <2>4, <4>1
      <4>5. QED
        BY <4>2, <4>3, <4>4
    <3>3. OwnersFrom(ar, new.arena, {new.seg, SystemOwner})
      BY <2>1, <2>7
    <3>4. /\ blk.mcb \in DOMAIN new.arena /\ jft.mcb \in DOMAIN new.arena
          /\ new.arena[blk.mcb].owner = new.seg
          /\ new.arena[jft.mcb].owner = new.seg
          /\ new.arena[blk.mcb].size = new.size
      BY <2>1, <2>8
    <3> HIDE DEF new
    <3>5. QED
      BY <2>1, <2>10, <3>1, <3>2, <3>3, <3>4 DEF Created
  <2>12. QED
    BY <2>11 DEF new
<1>9. QED
  BY <1>7, <1>8
--------------------------------------------------------------------------------
(* The inductive invariant.  ArenaTiled alone is not inductive: a resize    *)
(* of the running program's block needs that block to be there still, which *)
(* is ProcessesHeld, and after a termination it is the block of the process *)
(* returned to, which is Nested.                                           *)
IInv ==
    /\ TypeOK
    /\ ArenaTiled
    /\ OwnersKnown
    /\ ProcessesHeld
    /\ Nested(Nat)

LEMMA IInvSound == IInv => Sound(arena)
  BY DEF IInv, TypeOK, ArenaTiled, Sound

(* Where a live process sits: its segment is no more than MemEnd. *)
LEMMA LiveFacts ==
  ASSUME IInv, NEW p \in Live
  PROVE  /\ p \in Nat /\ 2 <= p /\ p <= MemEnd /\ p # NoParent
         /\ p - 1 \in DOMAIN arena /\ arena[p - 1].owner = p
         /\ arena[p - 1].size \in Nat /\ arena[p - 1].size >= PspParas
         /\ psp[p].jft \in Nat /\ psp[p].parent \in Nat /\ p # psp[p].jft
         /\ psp[p].jft - 1 \in DOMAIN arena /\ arena[psp[p].jft - 1].owner = p
<1>1. p \in Nat /\ psp[p] \in [parent : Nat, jft : Nat]
  BY DEF IInv, TypeOK
<1>2. /\ p - 1 \in DOMAIN arena /\ arena[p - 1].owner = p
      /\ arena[p - 1].size >= PspParas /\ p # psp[p].jft
      /\ psp[p].jft - 1 \in DOMAIN arena /\ arena[psp[p].jft - 1].owner = p
  BY DEF IInv, ProcessesHeld, Holds
<1>3. /\ p - 1 \in Nat /\ MemStart <= p - 1 /\ p - 1 < MemEnd
      /\ arena[p - 1].size \in Nat
  BY <1>2, IInvSound, HeaderFacts
<1>4. QED
  BY <1>1, <1>2, <1>3, ArenaAssumption DEF NoParent

--------------------------------------------------------------------------------
(* The memory half of the invariant after a step: it is enough that the    *)
(* blocks of the processes that live on were kept.                         *)
LEMMA HeldAfter ==
  ASSUME IInv, NEW S, Kept(arena, arena', S), NEW p \in Live,
         psp'[p] = psp[p], p - 1 \notin S, psp[p].jft - 1 \notin S
  PROVE  /\ Holds(p, p)' /\ Holds(p, psp[p].jft)'
         /\ arena'[p - 1].size >= PspParas
         /\ p # psp'[p].jft
<1>1. arena[p - 1].owner # 0 /\ arena[psp[p].jft - 1].owner # 0
  BY LiveFacts
<1>2. /\ p - 1 \in DOMAIN arena' /\ arena'[p - 1].owner = p
      /\ arena'[p - 1].size = arena[p - 1].size
  BY <1>1, LiveFacts DEF Kept
<1>3. psp[p].jft - 1 \in DOMAIN arena' /\ arena'[psp[p].jft - 1].owner = p
  BY <1>1, LiveFacts DEF Kept
<1>4. QED
  BY <1>2, <1>3, LiveFacts DEF Holds

LEMMA AllHeldAfter ==
  ASSUME IInv, NEW S, Kept(arena, arena', S), UNCHANGED psp,
         \A p \in Live : p - 1 \notin S /\ psp[p].jft - 1 \notin S
  PROVE  ProcessesHeld'
<1>1. \A p \in Live : Holds(p, p)' /\ Holds(p, psp[p].jft)'
                      /\ arena'[p - 1].size >= PspParas /\ p # psp'[p].jft
  BY HeldAfter
<1>2. QED
  BY <1>1 DEF ProcessesHeld, Holds, Live

LEMMA KnownAfter ==
  ASSUME IInv, OwnersFrom(arena, arena', {SystemOwner}), UNCHANGED <<psp, resident>>
  PROVE  OwnersKnown'
  BY DEF IInv, OwnersKnown, OwnersFrom, Live

--------------------------------------------------------------------------------
LEMMA InitInv == Init => IInv
<1> SUFFICES ASSUME Init PROVE IInv
  OBVIOUS
<1> USE DEF Init
<1>1. Sound(arena)
  BY InitSound
<1>2. Live = {}
  BY DEF Live
<1>3. TypeOK
  BY <1>1, <1>2 DEF TypeOK, Sound
<1>4. OwnersKnown
  BY DEF OwnersKnown, mcb_init
<1>5. ProcessesHeld
  BY <1>2 DEF ProcessesHeld
<1>6. Nested(Nat)
  BY <1>2 DEF Nested
<1>7. QED
  BY <1>1, <1>3, <1>4, <1>5, <1>6 DEF IInv, ArenaTiled, Sound

(* A step that changes memory only. *)
LEMMA MemoryStep ==
  ASSUME IInv, Sound(arena'), mcb_alloc_st' \in Nat, OwnersKnown', ProcessesHeld',
         UNCHANGED <<current_PSP, psp, exec_psp_root, resident, status>>
  PROVE  IInv'
<1>1. TypeOK'
  BY DEF IInv, TypeOK, Sound, Live
<1>2. Nested(Nat)'
  BY DEF IInv, Nested, LineOf, Live
<1>3. QED
  BY <1>1, <1>2 DEF IInv, ArenaTiled, Sound

(* The running process is a live one, and memory it may free or resize is  *)
(* neither a PSP nor the handle table of any process but its own PSP.      *)
LEMMA RunningLive ==
  ASSUME IInv, status = "running"
  PROVE  current_PSP \in Live
  BY DEF IInv, Nested, LineOf

LEMMA OwnBlock ==
  ASSUME IInv, status = "running", NEW seg \in Nat, Owns(seg), NEW p \in Live
  PROVE  psp[p].jft - 1 # seg - 1 /\ (p - 1 = seg - 1 => p = seg /\ p = current_PSP)
<1>1. current_PSP \in Live
  BY RunningLive
<1>2. /\ p \in Nat /\ arena[p - 1].owner = p
      /\ psp[p].jft \in Nat /\ arena[psp[p].jft - 1].owner = p
  BY LiveFacts
<1>3. seg # psp[current_PSP].jft /\ arena[seg - 1].owner = current_PSP
  BY DEF Owns
<1>4. QED
  BY <1>2, <1>3

LEMMA AllocStep ==
  ASSUME IInv, NEW size \in Nat, AllocBlock(size)
  PROVE  IInv'
<1>1. current_PSP \in Live /\ current_PSP \in Nat /\ mcb_alloc_st \in Nat
  BY RunningLive, LiveFacts DEF AllocBlock, IInv, TypeOK
<1>2. Allocated(arena, mcb_alloc_new(arena, size, current_PSP, mcb_alloc_st),
                size, current_PSP)
  BY <1>1, IInvSound, AllocSound
<1>3. /\ Sound(arena') /\ Kept(arena, arena', {})
      /\ OwnersFrom(arena, arena', {current_PSP})
  BY <1>2 DEF AllocBlock, Allocated
<1>4. UNCHANGED psp
  BY DEF AllocBlock
<1>5. ProcessesHeld'
  BY <1>3, <1>4, AllHeldAfter
<1>6. OwnersKnown'
  BY <1>1, <1>3 DEF AllocBlock, IInv, OwnersKnown, OwnersFrom, Live
<1>7. QED
  BY <1>1, <1>3, <1>5, <1>6, MemoryStep DEF AllocBlock

LEMMA FreeStep ==
  ASSUME IInv, NEW seg \in Nat, FreeBlock(seg)
  PROVE  IInv'
<1>1. seg - 1 \in DOMAIN arena
  BY DEF FreeBlock, Owns
<1>2. /\ Sound(arena') /\ Kept(arena, arena', {seg - 1})
      /\ OwnersFrom(arena, arena', {})
  BY <1>1, IInvSound, FreeSound DEF FreeBlock
<1>3. \A p \in Live : p - 1 \notin {seg - 1} /\ psp[p].jft - 1 \notin {seg - 1}
  BY OwnBlock DEF FreeBlock
<1>4. UNCHANGED <<psp, resident>> /\ mcb_alloc_st' \in Nat
  BY DEF FreeBlock, IInv, TypeOK
<1>5. ProcessesHeld'
  BY <1>2, <1>3, <1>4, AllHeldAfter
<1>6. OwnersKnown'
  BY <1>2, <1>4 DEF IInv, OwnersKnown, OwnersFrom, Live
<1>7. QED
  BY <1>2, <1>4, <1>5, <1>6, MemoryStep DEF FreeBlock

LEMMA ResizeStep ==
  ASSUME IInv, NEW seg \in Nat, NEW size \in Nat, ResizeBlock(seg, size)
  PROVE  IInv'
<1>1. seg - 1 \in DOMAIN arena
  BY DEF ResizeBlock, Owns
<1>2. Resized(arena, arena', seg - 1, size)
  BY <1>1, IInvSound, ResizeSound DEF ResizeBlock
<1>3. UNCHANGED <<psp, resident>> /\ mcb_alloc_st' \in Nat
  BY DEF ResizeBlock, IInv, TypeOK
<1>4. ASSUME NEW p \in Live
      PROVE  /\ Holds(p, p)' /\ Holds(p, psp[p].jft)'
             /\ arena'[p - 1].size >= PspParas
             /\ p # psp'[p].jft
  <2>1. psp[p].jft - 1 # seg - 1
    BY OwnBlock DEF ResizeBlock
  <2>2. CASE p - 1 # seg - 1
    BY <1>2, <1>3, <2>1, <2>2, HeldAfter DEF Resized
  <2>3. CASE p - 1 = seg - 1
    <3>1. p = seg /\ p = current_PSP
      BY <2>3, OwnBlock DEF ResizeBlock
    <3>2. /\ p - 1 \in DOMAIN arena' /\ arena'[p - 1].owner = p
      BY <1>2, <2>3, LiveFacts DEF Resized
    <3>3. arena'[p - 1].size \in Nat
      BY <1>2, <3>2, HeaderFacts DEF Resized
    <3>4. size >= PspParas /\ PspParas \in Nat
      BY <3>1, SizesAssumption DEF ResizeBlock
    <3>5. arena'[p - 1].size >= PspParas
      BY <1>2, <2>3, <3>3, <3>4, LiveFacts DEF Resized
    <3>6. /\ psp[p].jft - 1 \in DOMAIN arena' /\ arena'[psp[p].jft - 1].owner = p
      BY <1>2, <2>1, LiveFacts DEF Resized, Kept
    <3>7. QED
      BY <1>3, <3>2, <3>5, <3>6, LiveFacts DEF Holds
  <2>4. QED
    BY <2>2, <2>3
<1>5. ProcessesHeld'
  BY <1>3, <1>4 DEF ProcessesHeld, Holds, Live
<1>6. OwnersKnown'
  BY <1>2, <1>3 DEF Resized, IInv, OwnersKnown, OwnersFrom, Live
<1>7. QED
  BY <1>2, <1>3, <1>5, <1>6, MemoryStep DEF ResizeBlock, Resized

--------------------------------------------------------------------------------
(* What loading a program leaves: a new process with its two blocks, and   *)
(* every block that was in use as it was.                                  *)
Loaded(ar, fin, new) ==
    /\ Sound(fin)
    /\ Kept(ar, fin, {})
    /\ OwnersFrom(ar, fin, {new.seg, SystemOwner})
    /\ new.seg \in Nat /\ new.jft \in Nat /\ new.seg # new.jft
    /\ new.seg - 1 \in DOMAIN fin /\ fin[new.seg - 1].owner = new.seg
    /\ fin[new.seg - 1].size >= PspParas
    /\ new.jft - 1 \in DOMAIN fin /\ fin[new.jft - 1].owner = new.seg
    /\ new.seg - 1 \in DOMAIN ar => ar[new.seg - 1].owner = 0

LEMMA LoadFacts ==
  ASSUME NEW ar, NEW new, Created(ar, new), new.ok, ~ Overruns(new),
         NEW image \in Images
  PROVE  Loaded(ar, SizedFor(new.arena, new.seg, image), new)
<1> DEFINE fin == SizedFor(new.arena, new.seg, image)
           seg == new.seg
           blk == new.seg - 1
<1>1. /\ Sound(new.arena) /\ Kept(ar, new.arena, {}) /\ seg \in Nat /\ new.jft \in Nat
      /\ OwnersFrom(ar, new.arena, {seg, SystemOwner}) /\ seg # new.jft
      /\ blk \in DOMAIN new.arena /\ new.jft - 1 \in DOMAIN new.arena
      /\ new.arena[blk].owner = seg /\ new.arena[new.jft - 1].owner = seg
      /\ new.arena[blk].size = new.size
      /\ blk \in DOMAIN ar => ar[blk].owner = 0
  BY DEF Created
<1>2. image.max \in Nat /\ PspParas <= image.max /\ PspParas \in Nat
  BY SizesAssumption
<1>3. Resized(new.arena, fin, blk, image.max)
  BY <1>1, <1>2, ResizeSound DEF SizedFor
<1> HIDE DEF fin
<1>4. new.size \in Nat /\ new.size >= PspParas
  <2>1. new.size \in Nat
    BY <1>1, HeaderFacts
  <2>2. QED
    BY <2>1, <1>2 DEF Overruns
<1>5. Sound(fin) /\ blk \in DOMAIN fin /\ fin[blk].owner = seg
  BY <1>1, <1>3 DEF Resized
<1>6. fin[blk].size >= PspParas
  <2>1. fin[blk].size \in Nat
    BY <1>5, HeaderFacts
  <2>2. QED
    BY <2>1, <1>1, <1>2, <1>3, <1>4 DEF Resized
<1>7. seg # 0
  <2>1. blk \in Nat
    BY <1>1, HeaderFacts
  <2>2. QED
    BY <2>1, <1>1
<1>8. new.jft - 1 # blk
  BY <1>1
<1>9. new.jft - 1 \in DOMAIN fin /\ fin[new.jft - 1].owner = seg
  BY <1>1, <1>3, <1>7, <1>8 DEF Resized, Kept
<1>10. Kept(ar, fin, {})
  <2>1. ASSUME NEW a \in DOMAIN ar, ar[a].owner # 0
        PROVE  a \in DOMAIN fin /\ fin[a].owner = ar[a].owner /\ fin[a].size = ar[a].size
    <3>1. a # blk
      BY <1>1, <2>1
    <3>2. /\ a \in DOMAIN new.arena /\ new.arena[a].owner = ar[a].owner
          /\ new.arena[a].size = ar[a].size
      BY <1>1, <2>1 DEF Kept
    <3>3. QED
      BY <1>3, <2>1, <3>1, <3>2 DEF Resized, Kept
  <2>2. QED
    BY <2>1 DEF Kept
<1>11. OwnersFrom(ar, fin, {seg, SystemOwner})
  BY <1>1, <1>3 DEF Resized, OwnersFrom
<1>12. Loaded(ar, fin, new)
  BY <1>1, <1>5, <1>6, <1>9, <1>10, <1>11 DEF Loaded
<1>13. QED
  BY <1>12 DEF fin

LEMMA NewIsNotLive ==
  ASSUME IInv, NEW new, Loaded(arena, arena', new)
  PROVE  new.seg \notin Live
<1> SUFFICES ASSUME new.seg \in Live PROVE FALSE
  OBVIOUS
<1>1. new.seg - 1 \in DOMAIN arena /\ arena[new.seg - 1].owner = new.seg /\ 2 <= new.seg
  BY LiveFacts
<1>2. QED
  BY <1>1 DEF Loaded

LEMMA BootStep ==
  ASSUME IInv, NEW e \in EnvSizes, NEW image \in Images, Boot(e, image)
  PROVE  IInv'
<1>1. PICK new : new = create_PSP(arena, mcb_alloc_st, e)
  OBVIOUS
<1>2. /\ new.ok /\ ~ Overruns(new)
      /\ arena' = SizedFor(new.arena, new.seg, image)
      /\ current_PSP' = new.seg
      /\ psp' = [p \in {new.seg} |-> [parent |-> NoParent, jft |-> new.jft]]
      /\ status = "boot" /\ status' = "running"
      /\ UNCHANGED <<mcb_alloc_st, exec_psp_root, resident>>
  BY <1>1 DEF Boot
<1>3. Loaded(arena, arena', new)
  <2>1. e \in Nat /\ mcb_alloc_st \in Nat
    BY SizesAssumption DEF IInv, TypeOK
  <2>2. Created(arena, new)
    BY <1>1, <2>1, IInvSound, CreateFacts
  <2>3. QED
    BY <1>2, <2>2, LoadFacts
<1>4. Live = {} /\ exec_psp_root = <<>>
  BY <1>2 DEF IInv, Nested
<1>5. Live' = {new.seg}
  BY <1>2 DEF Live
<1>6. new.seg \in Nat /\ new.jft \in Nat
  BY <1>3 DEF Loaded
<1>7. TypeOK'
  <2>1. psp' \in [Live' -> [parent : Nat, jft : Nat]]
    BY <1>2, <1>5, <1>6 DEF NoParent
  <2>2. QED
    BY <1>2, <1>3, <1>5, <1>6, <2>1 DEF TypeOK, IInv, Loaded, Sound
<1>8. OwnersKnown'
  BY <1>2, <1>3, <1>4, <1>5 DEF IInv, OwnersKnown, OwnersFrom, Loaded
<1>9. ProcessesHeld'
  <2>1. psp'[new.seg].jft = new.jft
    BY <1>2
  <2>2. QED
    BY <1>3, <1>5, <2>1 DEF ProcessesHeld, Holds, Loaded
<1>10. Nested(Nat)'
  <2> DEFINE d == [p \in {new.seg} |-> 0]
  <2>1. d \in [Live' -> Nat] /\ psp'[new.seg].parent = NoParent
    BY <1>2, <1>5
  <2>2. exec_psp_root' = <<>>
    BY <1>2, <1>4
  <2>3. LineOf(d)'
    BY <1>2, <1>5, <2>1, <2>2 DEF LineOf
  <2>4. QED
    BY <1>2, <2>1, <2>3 DEF Nested
<1>11. QED
  BY <1>3, <1>7, <1>8, <1>9, <1>10 DEF IInv, ArenaTiled, Loaded, Sound

LEMMA ExecStep ==
  ASSUME IInv, NEW al \in {0, 1}, NEW e \in EnvSizes, NEW image \in Images,
         Exec(al, e, image)
  PROVE  IInv'
<1>1. PICK new : new = create_PSP(arena, mcb_alloc_st, e)
  OBVIOUS
<1>2. /\ new.ok /\ ~ Overruns(new)
      /\ arena' = SizedFor(new.arena, new.seg, image)
      /\ current_PSP' = new.seg
      /\ psp' = [p \in Live \cup {new.seg} |->
                    IF p = new.seg
                    THEN [parent |-> current_PSP, jft |-> new.jft]
                    ELSE psp[p]]
      /\ exec_psp_root' =
           IF al = 0
           THEN <<[psp |-> new.seg, parent |-> current_PSP]>> \o exec_psp_root
           ELSE exec_psp_root
      /\ status = "running" /\ status' = "running"
      /\ UNCHANGED <<mcb_alloc_st, resident>>
  BY <1>1 DEF Exec
<1>3. Loaded(arena, arena', new)
  <2>1. e \in Nat /\ mcb_alloc_st \in Nat
    BY SizesAssumption DEF IInv, TypeOK
  <2>2. Created(arena, new)
    BY <1>1, <2>1, IInvSound, CreateFacts
  <2>3. QED
    BY <1>2, <2>2, LoadFacts
<1>4. /\ new.seg \notin Live /\ new.seg \in Nat /\ new.jft \in Nat
      /\ current_PSP \in Live /\ current_PSP \in Nat
  BY <1>2, <1>3, NewIsNotLive, RunningLive, LiveFacts DEF Loaded
<1>5. /\ Live' = Live \cup {new.seg}
      /\ psp'[new.seg] = [parent |-> current_PSP, jft |-> new.jft]
      /\ \A p \in Live : psp'[p] = psp[p]
  BY <1>2, <1>4 DEF Live
<1>6. exec_psp_root \in Seq([psp : Nat, parent : Nat])
  BY DEF IInv, TypeOK
<1> DEFINE entry == [psp |-> new.seg, parent |-> current_PSP]
<1>7. /\ entry \in [psp : Nat, parent : Nat]
      /\ exec_psp_root' \in Seq([psp : Nat, parent : Nat])
  <2>1. entry \in [psp : Nat, parent : Nat]
    BY <1>4
  <2> HIDE DEF entry
  <2>2. <<entry>> \in Seq([psp : Nat, parent : Nat])
    BY <2>1
  <2>3. <<entry>> \o exec_psp_root \in Seq([psp : Nat, parent : Nat])
    BY <1>6, <2>2
  <2>4. QED
    BY <1>2, <1>6, <2>1, <2>3 DEF entry
<1>8. TypeOK'
  <2>1. psp' \in [Live' -> [parent : Nat, jft : Nat]]
    <3>1. \A p \in Live' : psp'[p] \in [parent : Nat, jft : Nat]
      <4>1. \A p \in Live : psp[p] \in [parent : Nat, jft : Nat]
        BY DEF IInv, TypeOK
      <4>2. psp'[new.seg] \in [parent : Nat, jft : Nat]
        BY <1>4, <1>5
      <4>3. QED
        BY <1>5, <4>1, <4>2
    <3>2. psp' = [p \in Live' |-> psp'[p]]
      BY <1>2, <1>5
    <3>3. QED
      BY <3>1, <3>2
  <2>2. QED
    BY <1>2, <1>3, <1>4, <1>5, <1>7, <2>1 DEF TypeOK, IInv, Loaded, Sound
<1>9. OwnersKnown'
  BY <1>2, <1>3, <1>5 DEF IInv, OwnersKnown, OwnersFrom, Loaded
<1>10. ProcessesHeld'
  <2>1. Kept(arena, arena', {})
    BY <1>3 DEF Loaded
  <2>2. \A p \in Live : /\ Holds(p, p)' /\ Holds(p, psp[p].jft)'
                        /\ arena'[p - 1].size >= PspParas /\ p # psp'[p].jft
    BY <1>5, <2>1, HeldAfter
  <2>3. /\ Holds(new.seg, new.seg)' /\ Holds(new.seg, new.jft)'
        /\ arena'[new.seg - 1].size >= PspParas /\ new.seg # new.jft
    BY <1>3 DEF Holds, Loaded
  <2>4. psp'[new.seg].jft = new.jft
    BY <1>5
  <2>5. QED
    BY <1>5, <2>2, <2>3, <2>4 DEF ProcessesHeld, Holds
<1>11. Nested(Nat)'
  <2>1. PICK d \in [Live -> Nat] : LineOf(d)
    BY <1>2 DEF IInv, Nested
  <2>2. \A p \in Live : d[p] \in Nat
    OBVIOUS
  <2>3. PICK e2 : e2 = [p \in Live' |-> IF p = new.seg THEN d[current_PSP] + 1
                                                     ELSE d[p]]
    OBVIOUS
  <2>4. /\ e2 \in [Live' -> Nat]
        /\ e2[new.seg] = d[current_PSP] + 1
        /\ \A p \in Live : e2[p] = d[p] /\ d[p] < e2[new.seg] /\ d[p] \in Nat
    <3>1. e2[new.seg] = d[current_PSP] + 1 /\ \A p \in Live : e2[p] = d[p]
      BY <1>4, <1>5, <2>3
    <3>2. \A p \in Live' : e2[p] \in Nat
      BY <1>4, <1>5, <2>2, <3>1
    <3>3. e2 \in [Live' -> Nat]
      BY <2>3, <3>2
    <3>4. ASSUME NEW p \in Live PROVE d[p] < d[current_PSP] + 1
      <4>1. d[p] \in Nat /\ d[current_PSP] \in Nat
        BY <1>4, <2>2
      <4>2. p = current_PSP \/ d[p] < d[current_PSP]
        BY <2>1 DEF LineOf
      <4>3. QED
        BY <4>1, <4>2
    <3>5. QED
      BY <2>2, <3>1, <3>3, <3>4
  <2>5. ASSUME NEW p \in Live'
        PROVE  /\ p # new.seg => e2[p] < e2[new.seg]
               /\ \/ psp'[p].parent = NoParent
                  \/ psp'[p].parent \in Live' /\ e2[p] = e2[psp'[p].parent] + 1
               /\ \A q \in Live' : e2[p] = e2[q] => p = q
    <3>1. CASE p = new.seg
      <4>1. psp'[p].parent = current_PSP /\ e2[p] = e2[current_PSP] + 1
        BY <1>4, <1>5, <2>4, <3>1
      <4>2. \A q \in Live : e2[p] # e2[q]
        BY <2>4, <3>1
      <4>3. QED
        BY <1>4, <1>5, <3>1, <4>1, <4>2
    <3>2. CASE p \in Live
      <4>1. p # new.seg /\ psp'[p] = psp[p] /\ e2[p] = d[p] /\ e2[p] < e2[new.seg]
        BY <1>4, <1>5, <2>4, <3>2
      <4>2. \/ psp[p].parent = NoParent
            \/ psp[p].parent \in Live /\ d[p] = d[psp[p].parent] + 1
        BY <2>1, <3>2 DEF LineOf
      <4>3. \A q \in Live : d[p] = d[q] => p = q
        BY <2>1, <3>2 DEF LineOf
      <4>4. e2[new.seg] # e2[p]
        BY <2>4, <3>2
      <4>5. QED
        BY <1>5, <2>4, <3>2, <4>1, <4>2, <4>3, <4>4
    <3>3. QED
      BY <1>5, <3>1, <3>2
  <2>6. ASSUME NEW i \in DOMAIN exec_psp_root'
        PROVE  /\ exec_psp_root'[i].psp \in Live'
               /\ exec_psp_root'[i].parent \in Live'
               /\ psp'[exec_psp_root'[i].psp].parent = exec_psp_root'[i].parent
               /\ \A j \in DOMAIN exec_psp_root' :
                    i < j => e2[exec_psp_root'[j].psp] < e2[exec_psp_root'[i].psp]
    <3>1. ASSUME NEW k \in DOMAIN exec_psp_root
          PROVE  /\ exec_psp_root[k].psp \in Live
                 /\ exec_psp_root[k].parent \in Live
                 /\ psp'[exec_psp_root[k].psp].parent = exec_psp_root[k].parent
                 /\ e2[exec_psp_root[k].psp] = d[exec_psp_root[k].psp]
                 /\ e2[exec_psp_root[k].psp] < e2[new.seg]
                 /\ \A j \in DOMAIN exec_psp_root :
                      k < j => e2[exec_psp_root[j].psp] < e2[exec_psp_root[k].psp]
      BY <1>5, <2>1, <2>4 DEF LineOf
    <3>2. CASE al # 0
      BY <1>2, <1>5, <3>1, <3>2
    <3>3. CASE al = 0
      <4>1. exec_psp_root' = <<entry>> \o exec_psp_root
        BY <1>2, <3>3
      <4>2. /\ exec_psp_root'[1] = entry /\ Len(exec_psp_root) \in Nat
            /\ DOMAIN exec_psp_root' = 1 .. Len(exec_psp_root) + 1
            /\ DOMAIN exec_psp_root = 1 .. Len(exec_psp_root)
            /\ \A j \in 2 .. Len(exec_psp_root) + 1 :
                  exec_psp_root'[j] = exec_psp_root[j - 1]
        <5> HIDE DEF entry
        <5> QED BY <1>6, <4>1
      <4>3. \A j \in 2 .. Len(exec_psp_root) + 1 : j - 1 \in DOMAIN exec_psp_root
        BY <4>2
      <4>4. CASE i = 1
        <5>1. exec_psp_root'[i].psp = new.seg /\ exec_psp_root'[i].parent = current_PSP
          BY <4>2, <4>4
        <5>2. psp'[new.seg].parent = current_PSP
          BY <1>5
        <5>3. ASSUME NEW j \in DOMAIN exec_psp_root', i < j
              PROVE  e2[exec_psp_root'[j].psp] < e2[new.seg]
          <6>1. j \in 2 .. Len(exec_psp_root) + 1
            BY <4>2, <4>4, <5>3
          <6>2. QED
            BY <3>1, <4>2, <4>3, <6>1
        <5>4. QED
          BY <1>4, <1>5, <5>1, <5>2, <5>3
      <4>5. CASE i # 1
        <5>1. i \in 2 .. Len(exec_psp_root) + 1
          BY <4>2, <4>5
        <5>2. exec_psp_root'[i] = exec_psp_root[i - 1] /\ i - 1 \in DOMAIN exec_psp_root
          BY <4>2, <4>3, <5>1
        <5>3. ASSUME NEW j \in DOMAIN exec_psp_root', i < j
              PROVE  e2[exec_psp_root'[j].psp] < e2[exec_psp_root'[i].psp]
          <6>1. j \in 2 .. Len(exec_psp_root) + 1 /\ i - 1 < j - 1
            BY <4>2, <5>1, <5>3
          <6>2. exec_psp_root'[j] = exec_psp_root[j - 1] /\ j - 1 \in DOMAIN exec_psp_root
            BY <4>2, <4>3, <6>1
          <6>3. QED
            BY <3>1, <5>2, <6>1, <6>2
        <5>4. QED
          BY <1>5, <3>1, <5>2, <5>3
      <4>6. QED
        BY <4>4, <4>5
    <3>4. QED
      BY <3>2, <3>3
  <2>7. LineOf(e2)'
    BY <1>2, <1>5, <2>5, <2>6 DEF LineOf
  <2>8. QED
    BY <1>2, <2>4, <2>7 DEF Nested
<1>12. QED
  BY <1>3, <1>8, <1>9, <1>10, <1>11 DEF IInv, ArenaTiled, Loaded, Sound

--------------------------------------------------------------------------------
(* Termination: both ways of finding the process to return to lead to the  *)
(* parent, and the rest of the line of descent is left.                    *)
LEMMA LeaveLine ==
  ASSUME IInv, LeaveProcess
  PROVE  /\ current_PSP \in Live
         /\ current_PSP' \in Live \ {current_PSP}
         /\ Live' = Live \ {current_PSP}
         /\ \A p \in Live' : psp'[p] = psp[p]
         /\ psp' = [p \in Live' |-> psp[p]]
         /\ exec_psp_root' \in Seq([psp : Nat, parent : Nat])
         /\ Nested(Nat)'
<1>1. /\ status = "running" /\ status' = "running" /\ current_PSP' = ReturnTo
      /\ psp[current_PSP].parent # NoParent
      /\ psp' = [p \in Live \ {current_PSP} |-> psp[p]]
      /\ exec_psp_root' = IF TopIsCurrent THEN Tail(exec_psp_root) ELSE exec_psp_root
  BY DEF LeaveProcess
<1>2. PICK d \in [Live -> Nat] : LineOf(d)
  BY <1>1 DEF IInv, Nested
<1>3. current_PSP \in Live /\ \A p \in Live : d[p] \in Nat
  BY <1>2 DEF LineOf
<1> DEFINE par == psp[current_PSP].parent
<1>4. par \in Live /\ d[current_PSP] = d[par] + 1
  BY <1>1, <1>2, <1>3 DEF LineOf
<1>5. par # current_PSP
  BY <1>3, <1>4
<1>6. Live' = Live \ {current_PSP} /\ \A p \in Live' : psp'[p] = psp[p]
  BY <1>1 DEF Live
<1>7. exec_psp_root \in Seq([psp : Nat, parent : Nat])
  BY DEF IInv, TypeOK
<1>8. ASSUME TopIsCurrent
      PROVE  /\ 1 \in DOMAIN exec_psp_root
             /\ exec_psp_root[1].psp = current_PSP
             /\ exec_psp_root[1].parent = par
  <2>1. /\ exec_psp_root # <<>> /\ Head(exec_psp_root) = exec_psp_root[1]
        /\ 1 \in DOMAIN exec_psp_root
    BY <1>7, <1>8 DEF TopIsCurrent
  <2>2. exec_psp_root[1].psp = current_PSP
    BY <2>1, <1>8 DEF TopIsCurrent
  <2>3. QED
    BY <2>1, <2>2, <1>2 DEF LineOf
<1>9. current_PSP' = par
  <2>1. CASE TopIsCurrent
    <3>1. Head(exec_psp_root) = exec_psp_root[1]
      BY <1>7, <1>8, <2>1
    <3>2. QED
      BY <1>1, <1>8, <2>1, <3>1 DEF ReturnTo
  <2>2. CASE ~ TopIsCurrent
    BY <1>1, <2>2 DEF ReturnTo
  <2>3. QED
    BY <2>1, <2>2
(* All that live on but the parent are above it. *)
<1>10. ASSUME NEW p \in Live \ {current_PSP}
       PROVE  /\ p # par => d[p] < d[par]
              /\ psp[p].parent # current_PSP
  <2>1. d[p] < d[current_PSP] /\ (d[p] = d[par] => p = par)
    BY <1>2, <1>4 DEF LineOf
  <2>2. d[p] \in Nat /\ d[par] \in Nat /\ d[current_PSP] \in Nat
    BY <1>3, <1>4
  <2>3. p # par => d[p] < d[par]
    BY <1>4, <2>1, <2>2
  <2>4. ASSUME psp[p].parent = current_PSP PROVE FALSE
    <3>1. current_PSP # NoParent
      BY <1>3, LiveFacts
    <3>2. d[p] = d[current_PSP] + 1
      BY <1>2, <2>4, <3>1 DEF LineOf
    <3>3. QED
      BY <2>1, <2>2, <3>2
  <2>5. QED
    BY <2>3, <2>4
(* An EXEC left on the stack is not that of the process that ends. *)
<1>11. ASSUME NEW i \in DOMAIN exec_psp_root, exec_psp_root[i].psp = current_PSP
       PROVE  TopIsCurrent /\ i = 1
  <2>1. i \in 1 .. Len(exec_psp_root) /\ 1 \in DOMAIN exec_psp_root
    BY <1>7
  <2>2. exec_psp_root[1].psp \in Live
    BY <1>2, <2>1 DEF LineOf
  <2>3. ASSUME i # 1 PROVE FALSE
    <3>1. 1 < i
      BY <2>1, <2>3
    <3>2. d[current_PSP] < d[exec_psp_root[1].psp]
      BY <1>2, <1>11, <2>1, <3>1 DEF LineOf
    <3>3. exec_psp_root[1].psp # current_PSP =>
             d[exec_psp_root[1].psp] < d[current_PSP]
      BY <1>2, <2>2 DEF LineOf
    <3>4. QED
      BY <1>3, <2>2, <3>2, <3>3
  <2>4. exec_psp_root # <<>> /\ Head(exec_psp_root) = exec_psp_root[1]
    BY <1>7, <2>1
  <2>5. QED
    BY <1>11, <2>3, <2>4 DEF TopIsCurrent
<1>12. ASSUME NEW i \in DOMAIN exec_psp_root, exec_psp_root[i].psp # current_PSP
       PROVE  /\ exec_psp_root[i].psp \in Live'
              /\ exec_psp_root[i].parent \in Live'
              /\ psp'[exec_psp_root[i].psp].parent = exec_psp_root[i].parent
  <2>1. /\ exec_psp_root[i].psp \in Live /\ exec_psp_root[i].parent \in Live
        /\ psp[exec_psp_root[i].psp].parent = exec_psp_root[i].parent
    BY <1>2 DEF LineOf
  <2>2. exec_psp_root[i].parent # current_PSP
    BY <1>10, <1>12, <2>1
  <2>3. QED
    BY <1>6, <1>12, <2>1, <2>2
(* The new stack is a suffix of the old one, k entries shorter. *)
<1>13. PICK k \in {0, 1} :
          /\ exec_psp_root' \in Seq([psp : Nat, parent : Nat])
          /\ \A i \in DOMAIN exec_psp_root' :
               /\ i \in Nat /\ i + k \in DOMAIN exec_psp_root
               /\ exec_psp_root'[i] = exec_psp_root[i + k]
               /\ exec_psp_root'[i].psp # current_PSP
  <2>1. CASE TopIsCurrent
    <3>1. /\ exec_psp_root' = Tail(exec_psp_root) /\ exec_psp_root # <<>>
      BY <1>1, <2>1 DEF TopIsCurrent
    <3>2. /\ exec_psp_root' \in Seq([psp : Nat, parent : Nat])
          /\ \A i \in DOMAIN exec_psp_root' :
               /\ i \in Nat /\ i + 1 \in DOMAIN exec_psp_root /\ i + 1 # 1
               /\ exec_psp_root'[i] = exec_psp_root[i + 1]
      BY <1>7, <3>1
    <3>3. QED
      BY <1>11, <3>2
  <2>2. CASE ~ TopIsCurrent
    <3>1. exec_psp_root' = exec_psp_root
      BY <1>1, <2>2
    <3>2. \A i \in DOMAIN exec_psp_root : i \in Nat /\ i + 0 = i
      BY <1>7
    <3>3. QED
      BY <1>7, <1>11, <2>2, <3>1, <3>2
  <2>3. QED
    BY <2>1, <2>2
<1>14. PICK e2 : e2 = [p \in Live' |-> d[p]]
  OBVIOUS
<1>15. e2 \in [Live' -> Nat] /\ \A p \in Live' : e2[p] = d[p] /\ p \in Live \ {current_PSP}
  BY <1>3, <1>6, <1>14
<1>16. LineOf(e2)'
  <2>1. current_PSP' \in Live'
    BY <1>4, <1>5, <1>6, <1>9
  <2>2. ASSUME NEW p \in Live'
        PROVE  /\ p # current_PSP' => e2[p] < e2[current_PSP']
               /\ \/ psp'[p].parent = NoParent
                  \/ psp'[p].parent \in Live' /\ e2[p] = e2[psp'[p].parent] + 1
               /\ \A q \in Live' : e2[p] = e2[q] => p = q
    <3>1. p # current_PSP' => e2[p] < e2[current_PSP']
      BY <1>9, <1>10, <1>15, <2>1
    <3>2. \/ psp[p].parent = NoParent
          \/ psp[p].parent \in Live /\ d[p] = d[psp[p].parent] + 1
      BY <1>2, <1>15 DEF LineOf
    <3>3. psp[p].parent \in Live => psp[p].parent \in Live'
      BY <1>6, <1>10, <1>15
    <3>4. \A q \in Live' : e2[p] = e2[q] => p = q
      BY <1>2, <1>15 DEF LineOf
    <3>5. QED
      BY <1>6, <1>15, <3>1, <3>2, <3>3, <3>4
  <2>3. ASSUME NEW i \in DOMAIN exec_psp_root'
        PROVE  /\ exec_psp_root'[i].psp \in Live'
               /\ exec_psp_root'[i].parent \in Live'
               /\ psp'[exec_psp_root'[i].psp].parent = exec_psp_root'[i].parent
               /\ \A j \in DOMAIN exec_psp_root' :
                    i < j => e2[exec_psp_root'[j].psp] < e2[exec_psp_root'[i].psp]
    <3>1. /\ exec_psp_root'[i].psp \in Live'
          /\ exec_psp_root'[i].parent \in Live'
          /\ psp'[exec_psp_root'[i].psp].parent = exec_psp_root'[i].parent
      BY <1>12, <1>13
    <3>2. ASSUME NEW j \in DOMAIN exec_psp_root', i < j
          PROVE  e2[exec_psp_root'[j].psp] < e2[exec_psp_root'[i].psp]
      <4>1. i + k < j + k /\ i + k \in DOMAIN exec_psp_root /\ j + k \in DOMAIN exec_psp_root
        BY <1>13, <3>2
      <4>2. d[exec_psp_root[j + k].psp] < d[exec_psp_root[i + k].psp]
        BY <1>2, <4>1 DEF LineOf
      <4>3. exec_psp_root'[i].psp \in Live' /\ exec_psp_root'[j].psp \in Live'
        BY <1>12, <1>13
      <4>4. QED
        BY <1>13, <1>15, <4>2, <4>3
    <3>3. QED
      BY <3>1, <3>2
  <2>4. QED
    BY <2>1, <2>2, <2>3 DEF LineOf
<1>17. Nested(Nat)'
  BY <1>1, <1>15, <1>16 DEF Nested
<1>18. QED
  BY <1>1, <1>3, <1>4, <1>5, <1>6, <1>9, <1>13, <1>17

(* What termination has to do to the memory. *)
LEMMA LeaveStep ==
  ASSUME IInv, LeaveProcess, NEW S,
         Sound(arena'), Kept(arena, arena', S), OwnersKnown', resident' \subseteq Nat,
         \A a \in S : a \in DOMAIN arena /\ arena[a].owner = current_PSP
  PROVE  IInv'
<1>1. /\ Live' = Live \ {current_PSP} /\ \A p \in Live' : psp'[p] = psp[p]
      /\ psp' = [p \in Live' |-> psp[p]] /\ current_PSP' \in Live
      /\ exec_psp_root' \in Seq([psp : Nat, parent : Nat])
      /\ Nested(Nat)'
  BY LeaveLine
<1>2. TypeOK'
  <2>1. psp' \in [Live' -> [parent : Nat, jft : Nat]] /\ Live' \subseteq Nat
    BY <1>1 DEF IInv, TypeOK
  <2>2. current_PSP' \in Nat
    BY <1>1 DEF IInv, TypeOK
  <2>3. mcb_alloc_st' = mcb_alloc_st /\ status' = status
    BY DEF LeaveProcess
  <2>4. QED
    BY <1>1, <2>1, <2>2, <2>3 DEF IInv, TypeOK, Sound
<1>3. \A p \in Live' : p - 1 \notin S /\ psp[p].jft - 1 \notin S
  <2>1. \A a \in S : arena[a].owner = current_PSP
    OBVIOUS
  <2>2. ASSUME NEW p \in Live'
        PROVE  arena[p - 1].owner = p /\ arena[psp[p].jft - 1].owner = p /\ p # current_PSP
    BY <1>1, LiveFacts
  <2>3. QED
    BY ONLY <2>1, <2>2
<1>4. \A p \in Live' : /\ Holds(p, p)' /\ Holds(p, psp[p].jft)'
                       /\ arena'[p - 1].size >= PspParas /\ p # psp'[p].jft
  BY <1>1, <1>3, HeldAfter
<1>5. ProcessesHeld'
  BY <1>1, <1>4 DEF ProcessesHeld, Holds
<1>6. QED
  BY <1>1, <1>2, <1>5 DEF IInv, ArenaTiled, Sound

LEMMA TerminateStep == IInv /\ Terminate => IInv'
<1> SUFFICES ASSUME IInv, Terminate PROVE IInv'
  OBVIOUS
<1> DEFINE S == {a \in DOMAIN arena : arena[a].owner = current_PSP}
<1>1. LeaveProcess /\ arena' = mem_free_owned(arena, current_PSP) /\ resident' = resident
  BY DEF Terminate
<1>2. current_PSP \in Live /\ Live' = Live \ {current_PSP}
  BY <1>1, LeaveLine
<1>3. current_PSP \in Nat \ {0}
  BY <1>2, LiveFacts
<1>4. /\ Sound(arena') /\ Kept(arena, arena', S) /\ OwnersFrom(arena, arena', {})
      /\ \A a \in DOMAIN arena' : arena'[a].owner # current_PSP
  BY <1>1, <1>3, IInvSound, FreeOwnedSound
<1>5. OwnersKnown'
  BY <1>1, <1>2, <1>4 DEF IInv, OwnersKnown, OwnersFrom
<1>6. resident' \subseteq Nat
  BY <1>1 DEF IInv, TypeOK
<1>7. QED
  BY <1>1, <1>4, <1>5, <1>6, LeaveStep

LEMMA KeepStep ==
  ASSUME IInv, NEW size \in Nat, KeepResident(size)
  PROVE  IInv'
<1> DEFINE n == IF size < MinResident THEN MinResident ELSE size
<1>1. /\ LeaveProcess /\ arena' = mcb_resize(arena, current_PSP - 1, n)
      /\ resident' = resident \cup {current_PSP}
  BY DEF KeepResident
<1>2. current_PSP \in Live /\ Live' = Live \ {current_PSP}
  BY <1>1, LeaveLine
<1>3. /\ current_PSP \in Nat /\ current_PSP - 1 \in DOMAIN arena
      /\ arena[current_PSP - 1].owner = current_PSP
  BY <1>2, LiveFacts
<1>4. n \in Nat
  BY SizesAssumption
<1> HIDE DEF n
<1>5. Resized(arena, arena', current_PSP - 1, n)
  BY <1>1, <1>3, <1>4, IInvSound, ResizeSound
<1>6. OwnersKnown'
  BY <1>1, <1>2, <1>5 DEF IInv, OwnersKnown, OwnersFrom, Resized
<1>7. resident' \subseteq Nat
  BY <1>1, <1>3 DEF IInv, TypeOK
<1>8. \A a \in {current_PSP - 1} : a \in DOMAIN arena /\ arena[a].owner = current_PSP
  BY <1>3
<1>9. Sound(arena') /\ Kept(arena, arena', {current_PSP - 1})
  BY <1>5 DEF Resized
<1>10. QED
  BY <1>1, <1>6, <1>7, <1>8, <1>9, LeaveStep

--------------------------------------------------------------------------------
LEMMA StrategyStep == ASSUME IInv, NEW s \in Strategies, SetStrategy(s) PROVE IInv'
<1>1. /\ mcb_alloc_st' \in Nat /\ arena' = arena
      /\ UNCHANGED <<current_PSP, psp, exec_psp_root, resident, status>>
  BY SizesAssumption DEF SetStrategy
<1>2. OwnersKnown' /\ ProcessesHeld'
  BY <1>1 DEF IInv, OwnersKnown, ProcessesHeld, Holds, Live
<1>3. QED
  BY <1>1, <1>2, IInvSound, MemoryStep

LEMMA NoMemoryStep == ASSUME IInv, NEW e \in EnvSizes, ExecNoMemory(e) PROVE IInv'
<1>1. PICK new : new = create_PSP(arena, mcb_alloc_st, e)
  OBVIOUS
<1>2. /\ ~ new.ok /\ arena' = new.arena
      /\ UNCHANGED <<mcb_alloc_st, current_PSP, psp, exec_psp_root, resident, status>>
  BY <1>1 DEF ExecNoMemory
<1>3. Created(arena, new)
  <2>1. e \in Nat /\ mcb_alloc_st \in Nat
    BY SizesAssumption DEF IInv, TypeOK
  <2>2. QED
    BY <1>1, <2>1, IInvSound, CreateFacts
<1>4. /\ Sound(arena') /\ Kept(arena, arena', {})
      /\ OwnersFrom(arena, arena', {SystemOwner})
  BY <1>2, <1>3 DEF Created
<1>5. ProcessesHeld'
  BY <1>2, <1>4, AllHeldAfter
<1>6. OwnersKnown'
  BY <1>2, <1>4, KnownAfter
<1>7. mcb_alloc_st' \in Nat
  BY <1>2 DEF IInv, TypeOK
<1>8. QED
  BY <1>2, <1>4, <1>5, <1>6, <1>7, MemoryStep

(* The emulator stops, or loses its arena; nothing else changes. *)
LEMMA StopStep ==
  ASSUME IInv, status = "running", status' \in {"exited", "overrun"},
         UNCHANGED <<arena, mcb_alloc_st, current_PSP, psp, exec_psp_root, resident>>
  PROVE  IInv'
<1>1. TypeOK'
  BY DEF IInv, TypeOK, Live
<1>2. Nested(Nat)'
  BY DEF IInv, Nested, LineOf, Live
<1>3. OwnersKnown' /\ ProcessesHeld' /\ ArenaTiled'
  BY DEF IInv, OwnersKnown, ProcessesHeld, Holds, Live, ArenaTiled
<1>4. QED
  BY <1>1, <1>2, <1>3 DEF IInv

LEMMA NextInv == IInv /\ Next => IInv'
<1> SUFFICES ASSUME IInv, Next PROVE IInv'
  OBVIOUS
<1>1. Requests \subseteq Nat
  BY SizesAssumption
<1>2. ASSUME NEW e \in EnvSizes, NEW i \in Images, Boot(e, i) PROVE IInv'
  BY <1>2, BootStep
<1>3. ASSUME NEW n \in Requests, AllocBlock(n) PROVE IInv'
  BY <1>1, <1>3, AllocStep
<1>4. ASSUME NEW a \in DOMAIN arena PROVE a + 1 \in Nat
  BY IInvSound, HeaderFacts
<1>5. ASSUME NEW a \in DOMAIN arena, FreeBlock(a + 1) PROVE IInv'
  BY <1>4, <1>5, FreeStep
<1>6. ASSUME NEW a \in DOMAIN arena, NEW n \in Requests, ResizeBlock(a + 1, n)
      PROVE  IInv'
  BY <1>1, <1>4, <1>6, ResizeStep
<1>7. ASSUME NEW s \in Strategies, SetStrategy(s) PROVE IInv'
  BY <1>7, StrategyStep
<1>8. ASSUME NEW al \in {0, 1}, NEW e \in EnvSizes, NEW i \in Images, Exec(al, e, i)
      PROVE  IInv'
  BY <1>8, ExecStep
<1>9. ASSUME NEW e \in EnvSizes, ExecNoMemory(e) PROVE IInv'
  BY <1>9, NoMemoryStep
<1>10. ASSUME NEW e \in EnvSizes, ExecOverrun(e) PROVE IInv'
  BY <1>10, StopStep DEF ExecOverrun
<1>11. ASSUME NEW e \in EnvSizes, NEW i \in Images, ExecUnloadable(e, i) PROVE IInv'
  BY <1>11, StopStep DEF ExecUnloadable
<1>12. CASE Terminate
  BY <1>12, TerminateStep
<1>13. ASSUME NEW n \in Requests, KeepResident(n) PROVE IInv'
  BY <1>1, <1>13, KeepStep
<1>14. CASE ExitEmulator
  BY <1>14, StopStep DEF ExitEmulator
<1>15. QED
  BY <1>2, <1>3, <1>5, <1>6, <1>7, <1>8, <1>9, <1>10, <1>11, <1>12, <1>13, <1>14
  DEF Next

LEMMA StutterInv == IInv /\ UNCHANGED vars => IInv'
<1> SUFFICES ASSUME IInv, UNCHANGED vars PROVE IInv'
  OBVIOUS
<1>1. /\ UNCHANGED <<arena, mcb_alloc_st, current_PSP, psp, exec_psp_root>>
      /\ UNCHANGED <<resident, status>>
  BY DEF vars
<1>2. TypeOK' /\ ArenaTiled'
  BY <1>1 DEF IInv, TypeOK, ArenaTiled, Live
<1>3. OwnersKnown' /\ ProcessesHeld'
  BY <1>1 DEF IInv, OwnersKnown, ProcessesHeld, Holds, Live
<1>4. Nested(Nat)'
  BY <1>1 DEF IInv, Nested, LineOf, Live
<1>5. QED
  BY <1>2, <1>3, <1>4 DEF IInv

(* The invariant of DosMemory, for every arena and every set of programs.  *)
THEOREM Invariant == Spec => []IInv
<1>1. IInv /\ [Next]_vars => IInv'
  BY NextInv, StutterInv
<1>2. QED
  BY <1>1, InitInv, PTL DEF Spec

(* Every variable keeps its type; in particular no call ever leaves a      *)
(* header with a size outside the arena (loader.c:397-602).                *)
THEOREM TypeCorrect == Spec => []TypeOK
<1>1. IInv => TypeOK
  BY DEF IInv
<1>2. QED
  BY <1>1, Invariant, PTL

(* The MCB chain tiles the arena after any sequence of allocations, frees, *)
(* resizes, EXECs and terminations (loader.c:397-602).                     *)
THEOREM ArenaStaysTiled == Spec => []ArenaTiled
<1>1. IInv => ArenaTiled
  BY DEF IInv
<1>2. QED
  BY <1>1, Invariant, PTL

(* No block outlives its process unless the process stayed resident or an  *)
(* EXEC failed half way (loader.c:591-602, 655-659).                       *)
THEOREM NoOrphanBlocks == Spec => []OwnersKnown
<1>1. IInv => OwnersKnown
  BY DEF IInv
<1>2. QED
  BY <1>1, Invariant, PTL

(* Every live process keeps its PSP block and its handle table whatever    *)
(* its children do (dos.c:3311-3336, 3601-3612).                           *)
THEOREM LiveProcessesHeld == Spec => []ProcessesHeld
<1>1. IInv => ProcessesHeld
  BY DEF IInv
<1>2. QED
  BY <1>1, Invariant, PTL

(* Termination returns to a live process at any depth of EXEC (dos.c:      *)
(* 3513-3526, 3615-3636).                                                  *)
THEOREM ReturnIsSafe == Spec => []ReturnChain
<1>1. IInv => ReturnChain
  <2> SUFFICES ASSUME IInv, status = "running"
               PROVE  /\ current_PSP \in Live
                      /\ \A p \in Live : psp[p].parent \in (Live \ {p}) \cup {NoParent}
                      /\ \A i \in DOMAIN exec_psp_root :
                           /\ {exec_psp_root[i].psp, exec_psp_root[i].parent} \subseteq Live
                           /\ psp[exec_psp_root[i].psp].parent = exec_psp_root[i].parent
    BY DEF ReturnChain
  <2>1. PICK d \in [Live -> Nat] : LineOf(d)
    BY DEF IInv, Nested
  <2>2. ASSUME NEW p \in Live PROVE psp[p].parent \in (Live \ {p}) \cup {NoParent}
    <3>1. d[p] \in Nat
      OBVIOUS
    <3>2. QED
      BY <2>1, <3>1 DEF LineOf
  <2>3. QED
    BY <2>1, <2>2 DEF LineOf
<1>2. QED
  BY <1>1, Invariant, PTL

--------------------------------------------------------------------------------
(* The action property. *)
Untouched ==
    \A a \in DOMAIN arena :
        arena[a].owner \notin {0, current_PSP} =>
            /\ a \in DOMAIN arena'
            /\ arena'[a].owner = arena[a].owner
            /\ arena'[a].size = arena[a].size

LEMMA Spares ==
  ASSUME NEW S, Kept(arena, arena', S),
         \A a \in S : a \in DOMAIN arena => arena[a].owner = current_PSP
  PROVE  Untouched
  BY DEF Kept, Untouched

LEMMA NextUntouched == IInv /\ Next => Untouched
<1> SUFFICES ASSUME IInv, Next PROVE Untouched
  OBVIOUS
<1>1. Requests \subseteq Nat /\ EnvSizes \subseteq Nat /\ mcb_alloc_st \in Nat
  BY SizesAssumption DEF IInv, TypeOK
<1>2. ASSUME arena' = arena PROVE Untouched
  BY <1>2 DEF Untouched
<1>3. ASSUME Kept(arena, arena', {}) PROVE Untouched
  BY <1>3, Spares
<1>4. ASSUME NEW e \in EnvSizes, NEW i \in Images, NEW new,
             new = create_PSP(arena, mcb_alloc_st, e), new.ok, ~ Overruns(new),
             arena' = SizedFor(new.arena, new.seg, i)
      PROVE  Untouched
  <2>1. Created(arena, new)
    BY <1>1, <1>4, IInvSound, CreateFacts
  <2>2. Loaded(arena, arena', new)
    BY <1>4, <2>1, LoadFacts
  <2>3. QED
    BY <2>2, <1>3 DEF Loaded
<1>5. ASSUME NEW e \in EnvSizes, NEW i \in Images, Boot(e, i) PROVE Untouched
  BY <1>4, <1>5 DEF Boot
<1>6. ASSUME NEW al \in {0, 1}, NEW e \in EnvSizes, NEW i \in Images, Exec(al, e, i)
      PROVE  Untouched
  BY <1>4, <1>6 DEF Exec
<1>7. ASSUME NEW n \in Requests, AllocBlock(n) PROVE Untouched
  <2>1. current_PSP \in Nat
    BY DEF IInv, TypeOK
  <2>2. Allocated(arena, mcb_alloc_new(arena, n, current_PSP, mcb_alloc_st),
                  n, current_PSP)
    BY <1>1, <2>1, IInvSound, AllocSound
  <2>3. Kept(arena, arena', {})
    BY <1>7, <2>2 DEF AllocBlock, Allocated
  <2>4. QED
    BY <1>3, <2>3
<1>8. ASSUME NEW a \in DOMAIN arena PROVE a \in Nat /\ a + 1 - 1 = a
  BY IInvSound, HeaderFacts
<1>9. ASSUME NEW a \in DOMAIN arena, FreeBlock(a + 1) PROVE Untouched
  <2>1. arena' = mcb_free(arena, a) /\ arena[a].owner = current_PSP
    BY <1>8, <1>9 DEF FreeBlock, Owns
  <2>2. Kept(arena, arena', {a})
    BY <2>1, IInvSound, FreeSound
  <2>3. QED
    BY <2>1, <2>2, Spares
<1>10. ASSUME NEW a \in DOMAIN arena, NEW n \in Requests, ResizeBlock(a + 1, n)
       PROVE  Untouched
  <2>1. arena' = mcb_resize(arena, a, n) /\ arena[a].owner = current_PSP
    BY <1>8, <1>10 DEF ResizeBlock, Owns
  <2>2. Kept(arena, arena', {a})
    BY <1>1, <2>1, IInvSound, ResizeSound DEF Resized
  <2>3. QED
    BY <2>1, <2>2, Spares
<1>11. ASSUME NEW s \in Strategies, SetStrategy(s) PROVE Untouched
  BY <1>2, <1>11 DEF SetStrategy
<1>12. ASSUME NEW e \in EnvSizes, ExecNoMemory(e) PROVE Untouched
  <2>1. Created(arena, create_PSP(arena, mcb_alloc_st, e))
    BY <1>1, IInvSound, CreateFacts
  <2>2. Kept(arena, arena', {})
    BY <1>12, <2>1 DEF ExecNoMemory, Created
  <2>3. QED
    BY <1>3, <2>2
<1>13. ASSUME NEW e \in EnvSizes, ExecOverrun(e) PROVE Untouched
  BY <1>2, <1>13 DEF ExecOverrun
<1>14. ASSUME NEW e \in EnvSizes, NEW i \in Images, ExecUnloadable(e, i)
       PROVE  Untouched
  BY <1>2, <1>14 DEF ExecUnloadable
<1>15. CASE Terminate
  <2> DEFINE S == {a \in DOMAIN arena : arena[a].owner = current_PSP}
  <2>1. LeaveProcess /\ arena' = mem_free_owned(arena, current_PSP)
    BY <1>15 DEF Terminate
  <2>2. current_PSP \in Nat \ {0}
    BY <2>1, LeaveLine, LiveFacts
  <2>3. Kept(arena, arena', S)
    BY <2>1, <2>2, IInvSound, FreeOwnedSound
  <2>4. QED
    BY <2>3, Spares
<1>16. ASSUME NEW n \in Requests, KeepResident(n) PROVE Untouched
  <2> DEFINE m == IF n < MinResident THEN MinResident ELSE n
  <2>1. LeaveProcess /\ arena' = mcb_resize(arena, current_PSP - 1, m) /\ m \in Nat
    BY <1>1, <1>16, SizesAssumption DEF KeepResident
  <2> HIDE DEF m
  <2>2. /\ current_PSP - 1 \in DOMAIN arena
        /\ arena[current_PSP - 1].owner = current_PSP
    BY <2>1, LeaveLine, LiveFacts
  <2>3. Kept(arena, arena', {current_PSP - 1})
    BY <2>1, <2>2, IInvSound, ResizeSound DEF Resized
  <2>4. QED
    BY <2>2, <2>3, Spares
<1>17. CASE ExitEmulator
  BY <1>2, <1>17 DEF ExitEmulator
<1>18. QED
  BY <1>5, <1>6, <1>7, <1>9, <1>10, <1>11, <1>12, <1>13, <1>14, <1>15, <1>16, <1>17
  DEF Next

(* A call never changes a block of another process (loader.c:465-602).     *)
THEOREM CallsSpareOthers == Spec => OthersUntouched
<1>1. IInv /\ [Next]_vars =>
        [\A a \in DOMAIN arena :
            arena[a].owner \notin {0, current_PSP} =>
                /\ a \in DOMAIN arena'
                /\ arena'[a].owner = arena[a].owner
                /\ arena'[a].size = arena[a].size]_vars
  BY NextUntouched DEF Untouched
<1>2. QED
  BY <1>1, Invariant, PTL DEF Spec, OthersUntouched

--------------------------------------------------------------------------------
(* The loops of the allocator, block by block.  First mcb_grow_max: y is x *)
(* when the free block n behind a has been swallowed.                      *)
Stopped(x, a) == x[a].last \/ ~ mcb_is_free(x, mcb_next(x, a))

Joined(x, a, n, y) ==
    /\ DOMAIN y = DOMAIN x \ {n} /\ y = [b \in DOMAIN y |-> y[b]]
    /\ y[a] \in Header
    /\ y[a].owner = x[a].owner /\ y[a].last = x[n].last
    /\ mcb_next(y, a) = mcb_next(x, n)
    /\ \A b \in DOMAIN y : b # a => y[b] = x[b]

FreeBehind(x, a, n) ==
    /\ Sound(x) /\ a \in DOMAIN x /\ n \in DOMAIN x
    /\ n = mcb_next(x, a) /\ mcb_is_free(x, n)

LEMMA SwallowJoins ==
  ASSUME NEW x, Sound(x), NEW a \in DOMAIN x, ~ Stopped(x, a)
  PROVE  /\ FreeBehind(x, a, mcb_next(x, a))
         /\ Joined(x, a, mcb_next(x, a), Swallow(x, a))
<1>1. PICK n : n = mcb_next(x, a)
  OBVIOUS
<1>2. ~ x[a].last /\ mcb_is_free(x, n)
  BY <1>1 DEF Stopped
<1>3. n \in DOMAIN x /\ a < n /\ a \in Nat /\ n \in Nat
  BY <1>1, <1>2, HeaderFacts, ArenaAssumption
<1>4. /\ x[a] \in Header /\ x[n] \in Header
      /\ n = a + x[a].size + 1 /\ mcb_next(x, n) = n + x[n].size + 1
      /\ x[a].size \in Nat /\ x[n].size \in Nat /\ x[n].last \in BOOLEAN
  BY <1>1, <1>3, HeaderFacts
<1>5. PICK m : m = [x[a] EXCEPT !.size = @ + 1 + x[n].size, !.last = x[n].last]
  OBVIOUS
<1>6. /\ m \in Header /\ m.owner = x[a].owner /\ m.last = x[n].last
      /\ m.size = x[a].size + 1 + x[n].size
  <2>1. PICK h \in Header, s \in Nat, l \in BOOLEAN : h = x[a] /\ s = x[a].size + 1 + x[n].size /\ l = x[n].last
    BY <1>4
  <2>2. m = [h EXCEPT !.size = s, !.last = l]
    BY <1>4, <1>5, <2>1
  <2>3. m \in Header /\ m.owner = h.owner /\ m.last = l /\ m.size = s
    BY <2>2 DEF Header
  <2>. QED BY <2>1, <2>3
<1>7. PICK y : y = [b \in DOMAIN x \ {n} |-> IF b = a THEN m ELSE x[b]]
  OBVIOUS
<1>8. Swallow(x, a) = y
  BY <1>1, <1>2, <1>5, <1>7 DEF Swallow
<1>9. /\ DOMAIN y = DOMAIN x \ {n} /\ y = [b \in DOMAIN y |-> y[b]]
      /\ y[a] = m /\ \A b \in DOMAIN y : b # a => y[b] = x[b]
  BY <1>3, <1>7
<1>10. mcb_next(y, a) = mcb_next(x, n)
  BY <1>3, <1>4, <1>6, <1>9 DEF mcb_next
<1>11. Joined(x, a, n, y)
  BY <1>6, <1>9, <1>10 DEF Joined
<1>12. FreeBehind(x, a, n)
  BY <1>1, <1>2, <1>3 DEF FreeBehind
<1>. QED BY <1>1, <1>8, <1>11, <1>12

LEMMA JoinedSound ==
  ASSUME NEW x, NEW a, NEW n, NEW y, FreeBehind(x, a, n), Joined(x, a, n, y)
  PROVE  Sound(y) /\ a \in DOMAIN y /\ n < mcb_next(y, a)
<1>. USE DEF FreeBehind, Joined
<1>1. /\ a \in DOMAIN y /\ a \in Nat /\ n \in Nat /\ a < n
      /\ n < mcb_next(y, a) /\ mcb_next(y, a) \in Nat
  BY HeaderFacts
<1>2. \A b \in DOMAIN x : b = a \/ b = n \/ b < a \/ n < b
  BY HeaderFacts
<1>3. IsArena(y)
  <2>1. \A b \in DOMAIN y : y[b] \in Header
    BY HeaderFacts
  <2>2. DOMAIN y \subseteq Paras
    BY DEF Sound, IsArena
  <2>. QED BY <2>1, <2>2 DEF IsArena
<1>4. MemStart \in DOMAIN y
  BY <1>1, HeaderFacts, ArenaAssumption DEF Sound, Tiled
<1>5. ASSUME NEW b \in DOMAIN y
      PROVE  /\ mcb_next(y, b) <= MemEnd
             /\ y[b].last <=> mcb_next(y, b) = MemEnd
             /\ mcb_next(y, b) < MemEnd => mcb_next(y, b) \in DOMAIN y
             /\ \A d \in DOMAIN y : b < d => mcb_next(y, b) <= d
  <2>1. CASE b = a
    <3>1. mcb_next(y, a) <= MemEnd /\ (y[a].last <=> mcb_next(y, a) = MemEnd)
      BY HeaderFacts
    <3>2. mcb_next(y, a) < MemEnd => mcb_next(y, a) \in DOMAIN y
      BY <1>1, HeaderFacts
    <3>3. ASSUME NEW d \in DOMAIN y, a < d PROVE mcb_next(x, n) <= d
      BY <1>1, <1>2, <3>3, HeaderFacts
    <3>. QED BY <2>1, <3>1, <3>2, <3>3
  <2>2. CASE b # a
    <3>1. b \in DOMAIN x /\ y[b] = x[b] /\ mcb_next(y, b) = mcb_next(x, b)
      BY <2>2 DEF mcb_next
    <3>2. mcb_next(x, b) # n
      <4>1. b < a => mcb_next(x, b) <= a
        BY <3>1, HeaderFacts
      <4>2. n < b => n < mcb_next(x, b)
        BY <1>1, <3>1, HeaderFacts
      <4>3. mcb_next(x, b) \in Nat /\ b \in Nat
        BY <3>1, HeaderFacts
      <4>. QED BY <1>1, <1>2, <2>2, <3>1, <4>1, <4>2, <4>3
    <3>. QED BY <3>1, <3>2, HeaderFacts
  <2>. QED BY <2>1, <2>2
<1>6. Tiled(y)
  BY <1>4, <1>5 DEF Tiled
<1>. QED BY <1>1, <1>3, <1>6 DEF Sound

(* Swallowing a block does not change where growing ends. *)
LEMMA JoinedRun ==
  ASSUME NEW x, NEW a, NEW n, NEW y, FreeBehind(x, a, n), Joined(x, a, n, y)
  PROVE  /\ FreeRun(x, a) = FreeRun(y, a) \cup {n}
         /\ mcb_next(x, RunEnd(x, a)) = mcb_next(y, RunEnd(y, a))
         /\ x[RunEnd(x, a)].last = y[RunEnd(y, a)].last
<1>1. /\ x[n].owner = 0 /\ n \in Nat /\ a \in Nat /\ a < n
      /\ a \in DOMAIN x /\ n \in DOMAIN x /\ a \in DOMAIN y
      /\ Sound(x) /\ Sound(y)
      /\ DOMAIN y = DOMAIN x \ {n}
      /\ \A b \in DOMAIN y : b # a => y[b] = x[b]
  BY JoinedSound, HeaderFacts DEF FreeBehind, Joined, mcb_is_free
<1>2. \A b \in DOMAIN x : b \in Nat /\ (a < b => n <= b)
  BY HeaderFacts DEF FreeBehind
<1>3. FreeRun(x, a) = FreeRun(y, a) \cup {n}
  <2>1. n \in FreeRun(x, a)
    BY <1>1, <1>2 DEF FreeRun, mcb_is_free
  <2>2. ASSUME NEW b \in DOMAIN y
        PROVE  b \in FreeRun(x, a) <=> b \in FreeRun(y, a)
    <3>1. \A c \in DOMAIN x : a < c => (mcb_is_free(x, c) <=> c = n \/ mcb_is_free(y, c))
      BY <1>1 DEF mcb_is_free
    <3>2. \A c \in DOMAIN y : a < c => (mcb_is_free(x, c) <=> mcb_is_free(y, c))
      BY <1>1 DEF mcb_is_free
    <3>3. b \in FreeRun(x, a) <=>
            /\ a < b
            /\ \A c \in DOMAIN x : a < c /\ c <= b => mcb_is_free(x, c)
      BY <1>1 DEF FreeRun
    <3>4. b \in FreeRun(y, a) <=>
            /\ a < b
            /\ \A c \in DOMAIN y : a < c /\ c <= b => mcb_is_free(y, c)
      BY DEF FreeRun
    <3>. QED BY <1>1, <3>1, <3>2, <3>3, <3>4
  <2>3. FreeRun(x, a) \subseteq DOMAIN x /\ FreeRun(y, a) \subseteq DOMAIN y
    BY DEF FreeRun
  <2>. QED BY <1>1, <2>1, <2>2, <2>3
<1>4. PICK z, v : z = RunEnd(x, a) /\ v = RunEnd(y, a)
  OBVIOUS
<1>5. /\ z \in DOMAIN x /\ a <= z /\ (z = a \/ z \in FreeRun(x, a))
      /\ \A b \in DOMAIN x : a < b => (b \in FreeRun(x, a) <=> b <= z)
  BY <1>1, <1>4, RunFacts
<1>6. /\ v \in DOMAIN y /\ a <= v /\ (v = a \/ v \in FreeRun(y, a))
      /\ \A b \in DOMAIN y : a < b => (b \in FreeRun(y, a) <=> b <= v)
  BY <1>1, <1>4, RunFacts
<1>7. z \in Nat /\ v \in Nat /\ n <= z
  BY <1>1, <1>2, <1>3, <1>5, <1>6
<1>8. CASE z = n
  <2>1. v = a
    <3>1. v # a => v \in DOMAIN x /\ a < v /\ v \in FreeRun(x, a)
      BY <1>1, <1>3, <1>6, <1>7
    <3>2. v # a => v <= n /\ n <= v
      BY <1>2, <1>5, <1>8, <3>1
    <3>. QED BY <1>1, <1>6, <1>7, <3>2
  <2>. QED BY <1>3, <1>4, <1>8, <2>1 DEF Joined
<1>9. CASE z # n
  <2>1. z \in DOMAIN y /\ z # a /\ a < z
    BY <1>1, <1>5, <1>7, <1>9
  <2>2. z \in FreeRun(y, a) /\ z <= v
    BY <1>3, <1>5, <1>6, <1>9, <2>1
  <2>3. v # a /\ a < v /\ v \in FreeRun(x, a) /\ v <= z
    BY <1>1, <1>3, <1>5, <1>6, <1>7, <2>1, <2>2
  <2>4. z = v /\ y[v] = x[v]
    BY <1>1, <1>6, <1>7, <2>2, <2>3
  <2>. QED BY <1>3, <1>4, <2>4 DEF mcb_next
<1>. QED BY <1>3, <1>8, <1>9

LEMMA JoinedGrows ==
  ASSUME NEW x, NEW a, NEW n, NEW y, FreeBehind(x, a, n), Joined(x, a, n, y)
  PROVE  mcb_grow_max(y, a) = mcb_grow_max(x, a)
<1>1. /\ Sound(x) /\ Sound(y) /\ a \in DOMAIN x /\ a \in DOMAIN y /\ a \in Nat
      /\ DOMAIN y = DOMAIN x \ {n} /\ y[a].owner = x[a].owner
      /\ \A b \in DOMAIN y : b # a => y[b] = x[b]
  BY JoinedSound, HeaderFacts DEF FreeBehind, Joined
<1>2. PICK g, h : g = GrownHeader(x, a) /\ h = GrownHeader(y, a)
  OBVIOUS
<1>3. /\ g \in Header /\ h \in Header /\ g.owner = h.owner /\ g.last = h.last
      /\ a + g.size + 1 = a + h.size + 1
  BY <1>1, <1>2, GrownFacts, JoinedRun
<1>4. g = h
  BY <1>1, <1>3 DEF Header
<1>5. DOMAIN x \ FreeRun(x, a) = DOMAIN y \ FreeRun(y, a)
  BY <1>1, JoinedRun
<1>. QED BY <1>1, <1>2, <1>4, <1>5 DEF mcb_grow_max

LEMMA StoppedGrown ==
  ASSUME NEW x, Sound(x), NEW a \in DOMAIN x, Stopped(x, a)
  PROVE  Swallow(x, a) = x /\ mcb_grow_max(x, a) = x
<1>1. Swallow(x, a) = x
  BY DEF Swallow, Stopped
<1>2. ASSUME NEW b \in FreeRun(x, a) PROVE FALSE
  <2>1. b \in DOMAIN x /\ a < b /\ b \in Nat /\ a \in Nat
    BY HeaderFacts DEF FreeRun
  <2>2. /\ mcb_next(x, a) <= b /\ b < MemEnd /\ mcb_next(x, a) \in Nat /\ a < mcb_next(x, a)
        /\ mcb_next(x, a) < MemEnd => mcb_next(x, a) \in DOMAIN x
        /\ x[a].last <=> mcb_next(x, a) = MemEnd
    BY <2>1, HeaderFacts
  <2>3. mcb_next(x, a) \in DOMAIN x /\ ~ x[a].last
    BY <2>1, <2>2, ArenaAssumption
  <2>4. mcb_is_free(x, mcb_next(x, a))
    BY <2>2, <2>3 DEF FreeRun
  <2>. QED BY <2>3, <2>4 DEF Stopped
<1>3. FreeRun(x, a) = {}
  BY <1>2
<1>4. a \in Nat /\ a \in 0 .. a /\ x[a] \in Header /\ x[a].size \in Nat
  BY HeaderFacts
<1>5. RunEnd(x, a) = a
  <2>1. RunEnd(x, a) = a \/ RunEnd(x, a) \in FreeRun(x, a)
    BY RunFacts
  <2>. QED BY <1>3, <2>1
<1>6. GrownHeader(x, a) = x[a]
  <2>1. GrownHeader(x, a) = [owner |-> x[a].owner,
                             size  |-> mcb_next(x, a) - a - 1,
                             last  |-> x[a].last]
    BY <1>5 DEF GrownHeader, RunEnd
  <2>2. mcb_next(x, a) - a - 1 = x[a].size
    BY <1>4 DEF mcb_next
  <2>. QED BY <1>4, <2>1, <2>2 DEF Header
<1>7. x = [b \in DOMAIN x |-> x[b]]
  BY DEF Sound, IsArena
<1>. QED BY <1>1, <1>3, <1>6, <1>7 DEF mcb_grow_max

(* Arenas as a set, in which the loops run. *)
Arenas == {x \in UNION {[D -> Header] : D \in SUBSET Paras} : Sound(x)}

LEMMA ArenasSound ==
  ASSUME NEW x
  PROVE  x \in Arenas <=> Sound(x)
<1>1. ASSUME Sound(x) PROVE x \in UNION {[D -> Header] : D \in SUBSET Paras}
  <2>1. PICK D : D = DOMAIN x
    OBVIOUS
  <2>2. D \in SUBSET Paras /\ x \in [D -> Header]
    BY <1>1, <2>1 DEF Sound, IsArena
  <2>. QED BY <2>2
<1>. QED BY <1>1 DEF Arenas

(* The passes of mcb_grow_max, up to the last one. *)
GrowPasses(f, ar, a) ==
    f = [n \in Passes |-> IF n = 0 THEN ar ELSE Swallow(f[n - 1], a)]

LEMMA PassesRange == /\ MemEnd - MemStart \in Nat /\ Passes = 0 .. MemEnd - MemStart
                     /\ MemEnd - MemStart # 0
BY ArenaAssumption DEF Passes

LEMMA GrowPassesExist ==
  ASSUME NEW ar, Sound(ar), NEW a \in DOMAIN ar
  PROVE  \E f : GrowPasses(f, ar, a)
<1> DEFINE S == {x \in Arenas : a \in DOMAIN x}
           g == [x \in S |-> Swallow(x, a)]
<1>1. ASSUME NEW x \in S PROVE Swallow(x, a) \in S
  <2>1. Sound(x) /\ a \in DOMAIN x
    BY ArenasSound
  <2>2. Sound(Swallow(x, a)) /\ a \in DOMAIN Swallow(x, a)
    <3>1. CASE Stopped(x, a)
      BY <2>1, <3>1, StoppedGrown
    <3>2. CASE ~ Stopped(x, a)
      BY <2>1, <3>2, SwallowJoins, JoinedSound
    <3>. QED BY <3>1, <3>2
  <2>. QED BY <2>2, ArenasSound
<1>2. ar \in S
  BY ArenasSound
<1> HIDE DEF S
<1>3. g \in [S -> S] /\ \A x \in S : g[x] = Swallow(x, a)
  BY <1>1
<1> HIDE DEF g
<1>4. PICK f : Iterates(f, S, ar, g, MemEnd - MemStart)
  BY <1>2, <1>3, PassesRange, Iteration
<1>5. /\ f = [n \in Passes |-> IF n = 0 THEN ar ELSE g[f[n - 1]]]
      /\ \A n \in Passes : f[n] \in S
  BY <1>4, PassesRange DEF Iterates
<1>6. \A n \in Passes : n # 0 => n - 1 \in Passes
  BY PassesRange
<1>7. \A n \in Passes : n # 0 => g[f[n - 1]] = Swallow(f[n - 1], a)
  BY <1>3, <1>5, <1>6
<1>8. f = [n \in Passes |-> IF n = 0 THEN ar ELSE Swallow(f[n - 1], a)]
  BY <1>5, <1>7
<1>. QED BY <1>8 DEF GrowPasses

(* After n passes the block has grown by n, or as far as it can. *)
GrownSoFar(x, ar, a, n) ==
    /\ Sound(x) /\ a \in DOMAIN x
    /\ mcb_grow_max(x, a) = mcb_grow_max(ar, a)
    /\ Stopped(x, a) \/ MemStart + n < mcb_next(x, a)

LEMMA GrowPass ==
  ASSUME NEW ar, NEW a, NEW n \in Nat, NEW x, GrownSoFar(x, ar, a, n)
  PROVE  GrownSoFar(Swallow(x, a), ar, a, n + 1)
<1>. USE DEF GrownSoFar
<1>1. CASE Stopped(x, a)
  BY <1>1, StoppedGrown
<1>2. CASE ~ Stopped(x, a)
  <2>1. PICK y, m : y = Swallow(x, a) /\ m = mcb_next(x, a)
    OBVIOUS
  <2>2. FreeBehind(x, a, m) /\ Joined(x, a, m, y)
    BY <1>2, <2>1, SwallowJoins
  <2>3. Sound(y) /\ a \in DOMAIN y /\ m < mcb_next(y, a)
        /\ mcb_grow_max(y, a) = mcb_grow_max(x, a)
    BY <2>2, JoinedSound, JoinedGrows
  <2>4. MemStart + n < m /\ m \in Nat /\ mcb_next(y, a) \in Nat /\ MemStart \in Nat
    BY <1>2, <2>1, <2>3, HeaderFacts, ArenaAssumption
  <2>5. MemStart + (n + 1) < mcb_next(y, a)
    BY <2>3, <2>4
  <2>. QED BY <2>1, <2>3, <2>5
<1>. QED BY <1>1, <1>2

(* What holds before the first pass, and after each, holds after the last. *)
LEMMA AfterPasses ==
  ASSUME NEW T, 0 \in T, \A n \in T : n \in Nat /\ n < MemEnd - MemStart => n + 1 \in T
  PROVE  MemEnd - MemStart \in T
<1> DEFINE N == MemEnd - MemStart
           U == {n \in Nat : n <= N => n \in T}
<1>1. U \subseteq Nat /\ 0 \in U
  OBVIOUS
<1>2. N \in Nat
  BY PassesRange
<1>3. ASSUME NEW n \in U PROVE n + 1 \in U
  BY <1>2, <1>3
<1> HIDE DEF U
<1>4. U = Nat
  BY <1>1, <1>3, NatSetInduction
<1>. QED BY <1>2, <1>4 DEF U

LEMMA GrowAsWalked ==
  ASSUME NEW ar, Sound(ar), NEW a \in DOMAIN ar
  PROVE  mcb_grow_max(ar, a) = GrowWalk(ar, a)
<1>1. PICK f : f = CHOOSE g : GrowPasses(g, ar, a)
  OBVIOUS
<1>2. GrowPasses(f, ar, a)
  BY <1>1, GrowPassesExist
<1>3. GrowWalk(ar, a) = f[MemEnd - MemStart]
  BY <1>1 DEF GrowWalk, GrowPasses, End
<1>4. /\ f[0] = ar
      /\ \A n \in Nat : n < MemEnd - MemStart => f[n + 1] = Swallow(f[n], a)
  <2>1. 0 \in Passes /\ f[0] = ar
    BY <1>2, PassesRange DEF GrowPasses
  <2>2. ASSUME NEW n \in Nat, n < MemEnd - MemStart
        PROVE  f[n + 1] = Swallow(f[n], a)
    <3>1. n + 1 \in Passes /\ n + 1 # 0 /\ (n + 1) - 1 = n
      BY <2>2, PassesRange
    <3>. QED BY <1>2, <3>1 DEF GrowPasses
  <2>. QED BY <2>1, <2>2
<1>5. GrownSoFar(ar, ar, a, 0)
  <2>1. MemStart + 0 < mcb_next(ar, a)
    BY HeaderFacts, ArenaAssumption
  <2>. QED BY <2>1 DEF GrownSoFar
<1> DEFINE T == {n \in Nat : GrownSoFar(f[n], ar, a, n)}
<1>6. 0 \in T
  BY <1>4, <1>5
<1>7. ASSUME NEW n \in T, n < MemEnd - MemStart PROVE n + 1 \in T
  <2>1. n \in Nat /\ GrownSoFar(f[n], ar, a, n)
    OBVIOUS
  <2>2. GrownSoFar(Swallow(f[n], a), ar, a, n + 1)
    BY <2>1, GrowPass
  <2>3. f[n + 1] = Swallow(f[n], a)
    BY <1>4, <1>7, <2>1
  <2>. QED BY <2>1, <2>2, <2>3
<1>8. MemEnd - MemStart \in T
  <2> HIDE DEF T
  <2>. QED BY <1>6, <1>7, AfterPasses
<1>9. PICK x : x = f[MemEnd - MemStart]
  OBVIOUS
<1>10. GrownSoFar(x, ar, a, MemEnd - MemStart)
  BY <1>8, <1>9
<1>11. Stopped(x, a)
  <2>1. mcb_next(x, a) <= MemEnd /\ mcb_next(x, a) \in Nat
    BY <1>10, HeaderFacts DEF GrownSoFar
  <2>. QED BY <1>10, <2>1, ArenaAssumption DEF GrownSoFar
<1>12. mcb_grow_max(ar, a) = x
  BY <1>10, <1>11, StoppedGrown DEF GrownSoFar
<1>. QED BY <1>3, <1>9, <1>12

--------------------------------------------------------------------------------
(* mem_free_owned: x is ar when the blocks of p below c have been freed. *)
Below(ar, p, c) == {a \in OwnedBy(ar, p) : a < c}

FreedBelow(x, ar, p, c) == x = Freed(ar, Below(ar, p, c))

LEMMA BelowInUse ==
  ASSUME NEW ar, Sound(ar), NEW p \in Nat \ {0}, NEW c
  PROVE  /\ Below(ar, p, c) \subseteq DOMAIN ar
         /\ \A a \in Below(ar, p, c) : ~ mcb_is_free(ar, a)
BY DEF Below, OwnedBy, mcb_is_free

LEMMA FreedBelowSound ==
  ASSUME NEW ar, Sound(ar), NEW p \in Nat \ {0}, NEW c, NEW x, FreedBelow(x, ar, p, c)
  PROVE  FreedFrom(ar, Below(ar, p, c), x) /\ Sound(x)
<1>1. FreedFrom(ar, Below(ar, p, c), Freed(ar, Below(ar, p, c)))
  BY BelowInUse, FreedSound
<1>. QED BY <1>1 DEF FreedBelow, FreedFrom

(* From c on the arena is as it was. *)
SameFrom(x, ar, c) ==
    /\ Sound(x) /\ Sound(ar) /\ c \in DOMAIN x /\ c \in DOMAIN ar
    /\ \A b \in Nat : c <= b => (b \in DOMAIN x <=> b \in DOMAIN ar)
    /\ \A b \in DOMAIN ar : c < b => x[b] = ar[b]
    /\ x[c].size = ar[c].size /\ x[c].last = ar[c].last

LEMMA FreedBelowSame ==
  ASSUME NEW ar, Sound(ar), NEW p \in Nat \ {0}, NEW x, NEW c \in DOMAIN x,
         FreedBelow(x, ar, p, c)
  PROVE  SameFrom(x, ar, c) /\ x[c] = ar[c]
<1>1. PICK O : O = Below(ar, p, c)
  OBVIOUS
<1>2. /\ Sound(x) /\ DOMAIN x = DOMAIN ar \ Merged(ar, O)
      /\ \A b \in DOMAIN x \ O : x[b] = ar[b]
  <2>1. FreedFrom(ar, Below(ar, p, c), x)
    BY FreedBelowSound
  <2>. QED BY <1>1, <2>1 DEF FreedFrom
<1>3. O \subseteq DOMAIN ar /\ \A o \in O : o < c /\ o \in Nat
  BY <1>1, HeaderFacts DEF Below, OwnedBy
<1>4. c \in DOMAIN ar /\ c \in Nat /\ c \notin Merged(ar, O) /\ c \notin O
  BY <1>2, <1>3, HeaderFacts
<1>5. ASSUME NEW b \in DOMAIN ar, c <= b, b \in Merged(ar, O) PROVE FALSE
  <2>1. PICK o \in O : b \in FreeRun(ar, o)
    BY <1>5 DEF Merged
  <2>2. \A d \in DOMAIN ar : o < d /\ d <= b => mcb_is_free(ar, d)
    BY <2>1 DEF FreeRun
  <2>3. b \in Nat /\ \A d \in DOMAIN ar : d <= c => d <= b
    <3>1. \A d \in DOMAIN ar : d \in Nat
      BY HeaderFacts
    <3>. QED BY <1>4, <1>5, <3>1
  <2>4. c \in FreeRun(ar, o)
    BY <1>3, <1>4, <1>5, <2>2, <2>3 DEF FreeRun
  <2>. QED BY <1>4, <2>4 DEF Merged
<1>6. \A b \in DOMAIN ar : c <= b => b \in DOMAIN x /\ b \notin O /\ x[b] = ar[b]
  <2>1. ASSUME NEW b \in DOMAIN ar, c <= b PROVE b \in DOMAIN x /\ b \notin O
    <3>1. b \in Nat
      BY HeaderFacts
    <3>. QED BY <1>2, <1>3, <1>4, <1>5, <2>1, <3>1
  <2>. QED BY <1>2, <2>1
<1>7. x[c] = ar[c]
  BY <1>4, <1>6
<1>8. \A b \in DOMAIN ar : b \in Nat /\ (c < b => c <= b)
  BY <1>4, HeaderFacts
<1>. QED BY <1>2, <1>4, <1>6, <1>7, <1>8 DEF SameFrom

LEMMA SameFromGrows ==
  ASSUME NEW x, NEW ar, NEW c, SameFrom(x, ar, c)
  PROVE  /\ FreeRun(x, c) = FreeRun(ar, c)
         /\ GrownHeader(x, c).owner = x[c].owner
         /\ GrownHeader(x, c).size = GrownHeader(ar, c).size
         /\ GrownHeader(x, c).last = GrownHeader(ar, c).last
<1>1. c \in Nat /\ \A b : b \in DOMAIN ar \/ b \in DOMAIN x => b \in Nat
  BY HeaderFacts DEF SameFrom
<1>2. \A b \in Nat : c < b => /\ b \in DOMAIN x <=> b \in DOMAIN ar
                              /\ b \in DOMAIN ar => x[b] = ar[b]
  BY <1>1 DEF SameFrom
<1>3. FreeRun(x, c) = FreeRun(ar, c)
  <2>1. ASSUME NEW b \in Nat, c < b
        PROVE  b \in FreeRun(x, c) <=> b \in FreeRun(ar, c)
    <3>1. b \in FreeRun(x, c) <=>
            /\ b \in DOMAIN x
            /\ \A d \in DOMAIN x : c < d /\ d <= b => x[d].owner = 0
      BY <2>1 DEF FreeRun, mcb_is_free
    <3>2. b \in FreeRun(ar, c) <=>
            /\ b \in DOMAIN ar
            /\ \A d \in DOMAIN ar : c < d /\ d <= b => ar[d].owner = 0
      BY <2>1 DEF FreeRun, mcb_is_free
    <3>. QED BY <1>1, <1>2, <2>1, <3>1, <3>2
  <2>2. /\ \A b \in FreeRun(x, c) : b \in Nat /\ c < b
        /\ \A b \in FreeRun(ar, c) : b \in Nat /\ c < b
    BY <1>1 DEF FreeRun
  <2>. QED BY <2>1, <2>2
<1>4. PICK z : z = RunEnd(ar, c)
  OBVIOUS
<1>5. RunEnd(x, c) = z
  BY <1>3, <1>4 DEF RunEnd
<1>6. z \in DOMAIN ar /\ (z = c \/ z \in FreeRun(ar, c)) /\ z \in Nat /\ c <= z
  BY <1>1, <1>4, RunFacts DEF SameFrom
<1>7. x[z].size = ar[z].size /\ x[z].last = ar[z].last
  BY <1>1, <1>2, <1>6 DEF SameFrom
<1>8. mcb_next(x, z) = mcb_next(ar, z)
  BY <1>7 DEF mcb_next
<1>9. /\ GrownHeader(x, c) = [owner |-> x[c].owner, size |-> mcb_next(x, z) - c - 1,
                              last |-> x[z].last]
      /\ GrownHeader(ar, c) = [owner |-> ar[c].owner, size |-> mcb_next(ar, z) - c - 1,
                               last |-> ar[z].last]
  BY <1>4, <1>5 DEF GrownHeader, RunEnd
<1>. QED BY <1>3, <1>7, <1>8, <1>9

(* A block of p is freed in x just as in ar. *)
LEMMA FreeOneMore ==
  ASSUME NEW ar, Sound(ar), NEW p \in Nat \ {0}, NEW x, NEW c \in DOMAIN x,
         FreedBelow(x, ar, p, c), ar[c].owner = p
  PROVE  mcb_free(x, c) = Freed(ar, Below(ar, p, c) \cup {c})
<1>1. PICK O, mid, y, g, h :
         /\ O = Below(ar, p, c) /\ mid = mcb_set_owner(x, c, 0)
         /\ y = mcb_free(x, c) /\ g = GrownHeader(mid, c) /\ h = GrownHeader(ar, c)
  OBVIOUS
<1>2. SameFrom(x, ar, c) /\ x[c] = ar[c] /\ Sound(x)
  BY FreedBelowSame DEF SameFrom
<1>3. Sound(mid) /\ Reowned(x, mid, {c}, 0)
  BY <1>1, <1>2, SetOwnerSound
<1>4. /\ DOMAIN mid = DOMAIN x /\ mid[c].owner = 0 /\ mid[c].size = x[c].size
      /\ \A b \in DOMAIN x : b # c => mid[b] = x[b]
  BY <1>3 DEF Reowned
<1>5. mid[c].last = x[c].last
  BY <1>1, <1>2, HeaderFacts DEF mcb_set_owner, Header
<1>6. c \in Nat /\ c \in DOMAIN ar /\ \A b \in DOMAIN ar : b \in Nat
  BY <1>2, HeaderFacts DEF SameFrom
<1>7. SameFrom(mid, ar, c)
  BY <1>2, <1>3, <1>4, <1>5, <1>6 DEF SameFrom
<1>8. /\ FreeRun(mid, c) = FreeRun(ar, c)
      /\ g.owner = 0 /\ g.size = h.size /\ g.last = h.last
  BY <1>1, <1>4, <1>7, SameFromGrows
<1>9. g \in Header /\ h \in Header
  BY <1>1, <1>3, <1>4, <1>6, GrownFacts
<1>10. g = [h EXCEPT !.owner = 0]
  BY <1>8, <1>9 DEF Header
<1>11. y = [b \in DOMAIN x \ FreeRun(ar, c) |-> IF b = c THEN g ELSE mid[b]]
  BY <1>1, <1>4, <1>8 DEF mcb_free, mcb_grow_max
<1>12. /\ DOMAIN x = DOMAIN ar \ Merged(ar, O)
       /\ x = [b \in DOMAIN ar \ Merged(ar, O) |->
                 IF b \in O THEN [GrownHeader(ar, b) EXCEPT !.owner = 0] ELSE ar[b]]
  BY <1>1 DEF FreedBelow, Freed
<1>13. Merged(ar, O \cup {c}) = Merged(ar, O) \cup FreeRun(ar, c)
  BY DEF Merged
<1>14. c \notin O
  BY <1>1, <1>6 DEF Below
<1>15. DOMAIN x \ FreeRun(ar, c) = DOMAIN ar \ Merged(ar, O \cup {c})
  BY <1>12, <1>13
<1>16. ASSUME NEW b \in DOMAIN x \ FreeRun(ar, c)
       PROVE  y[b] = IF b \in O \cup {c} THEN [GrownHeader(ar, b) EXCEPT !.owner = 0] ELSE ar[b]
  <2>1. CASE b = c
    BY <1>1, <1>10, <1>11, <2>1
  <2>2. CASE b # c
    <3>1. y[b] = x[b]
      BY <1>4, <1>11, <2>2
    <3>2. x[b] = IF b \in O THEN [GrownHeader(ar, b) EXCEPT !.owner = 0] ELSE ar[b]
      BY <1>12
    <3>. QED BY <2>2, <3>1, <3>2
  <2>. QED BY <2>1, <2>2
<1>17. y = [b \in DOMAIN x \ FreeRun(ar, c) |-> y[b]]
  BY <1>11
<1>18. y = [b \in DOMAIN ar \ Merged(ar, O \cup {c}) |->
              IF b \in O \cup {c} THEN [GrownHeader(ar, b) EXCEPT !.owner = 0] ELSE ar[b]]
  BY <1>15, <1>16, <1>17
<1>. QED BY <1>1, <1>18 DEF Freed

(* A pass of mem_free_owned, and where it goes on. *)
Visited(x, p, c) == IF x[c].owner = p THEN mcb_free(x, c) ELSE x

LEMMA VisitFrees ==
  ASSUME NEW ar, Sound(ar), NEW p \in Nat \ {0}, NEW x, NEW c \in DOMAIN x,
         FreedBelow(x, ar, p, c)
  PROVE  /\ c \in DOMAIN Visited(x, p, c) /\ Sound(Visited(x, p, c))
         /\ FreedBelow(Visited(x, p, c), ar, p, mcb_next(Visited(x, p, c), c))
<1>1. PICK y, O, m : /\ y = Visited(x, p, c) /\ O = Below(ar, p, c) /\ m = mcb_next(y, c)
  OBVIOUS
<1>2. SameFrom(x, ar, c) /\ x[c] = ar[c] /\ c \in DOMAIN ar /\ c \in Nat
  BY FreedBelowSame, HeaderFacts DEF SameFrom
<1>3. \A b \in DOMAIN ar : b \in Nat /\ (c < b \/ b = c \/ b < c)
  BY <1>2, HeaderFacts
<1>4. CASE ar[c].owner = p
  <2>1. y = Freed(ar, O \cup {c})
    BY <1>1, <1>2, <1>4, FreeOneMore DEF Visited
  <2>2. O \cup {c} \subseteq DOMAIN ar /\ \A a \in O \cup {c} : ~ mcb_is_free(ar, a)
    BY <1>1, <1>2, <1>4, BelowInUse DEF mcb_is_free
  <2>3. FreedFrom(ar, O \cup {c}, y)
    BY <2>1, <2>2, FreedSound
  <2>4. Sound(y) /\ c \in DOMAIN y /\ y[c].size = GrownHeader(ar, c).size
    BY <2>3 DEF FreedFrom
  <2>5. m = mcb_next(ar, RunEnd(ar, c))
    BY <1>1, <1>2, <2>4, GrownFacts DEF mcb_next
  <2>6. /\ RunEnd(ar, c) \in DOMAIN ar /\ c <= RunEnd(ar, c)
        /\ \A b \in DOMAIN ar : c < b => (b \in FreeRun(ar, c) <=> b <= RunEnd(ar, c))
    BY <1>2, RunFacts
  <2>7. /\ m \in Nat /\ RunEnd(ar, c) < m /\ RunEnd(ar, c) \in Nat
        /\ \A b \in DOMAIN ar : RunEnd(ar, c) < b => m <= b
    BY <2>5, <2>6, HeaderFacts
  <2>8. ASSUME NEW b \in OwnedBy(ar, p) PROVE b < m <=> b \in O \cup {c}
    <3>1. b \in DOMAIN ar /\ ~ mcb_is_free(ar, b)
      BY DEF OwnedBy, mcb_is_free
    <3>2. b \notin FreeRun(ar, c)
      BY <1>2, <3>1, RunFacts
    <3>3. c < b => RunEnd(ar, c) < b
      BY <1>3, <2>6, <2>7, <3>1, <3>2
    <3>4. c < b => m <= b
      BY <2>7, <3>1, <3>3
    <3>5. c < m
      BY <1>2, <2>6, <2>7
    <3>6. b \in O <=> b < c
      BY <1>1 DEF Below
    <3>. QED BY <1>2, <1>3, <2>7, <3>1, <3>4, <3>5, <3>6
  <2>9. O \cup {c} \subseteq OwnedBy(ar, p)
    BY <1>1, <1>2, <1>4 DEF Below, OwnedBy
  <2>10. Below(ar, p, m) = O \cup {c}
    BY <2>8, <2>9 DEF Below
  <2>. QED BY <1>1, <2>1, <2>4, <2>10 DEF FreedBelow
<1>5. CASE ar[c].owner # p
  <2>1. y = x /\ Sound(y) /\ Sound(ar)
    BY <1>1, <1>2, <1>5 DEF Visited, SameFrom
  <2>2. m = mcb_next(ar, c)
    BY <1>1, <1>2, <2>1 DEF mcb_next
  <2>3. /\ m \in Nat /\ c < m
        /\ \A b \in DOMAIN ar : c < b => m <= b
    BY <1>2, <2>2, HeaderFacts
  <2>4. ASSUME NEW b \in OwnedBy(ar, p) PROVE b < m <=> b < c
    <3>1. b \in DOMAIN ar /\ b # c
      BY <1>5 DEF OwnedBy
    <3>. QED BY <1>2, <1>3, <2>3, <3>1
  <2>5. Below(ar, p, m) = O
    BY <1>1, <2>4 DEF Below
  <2>. QED BY <1>1, <2>1, <2>5 DEF FreedBelow
<1>. QED BY <1>4, <1>5

(* Where the walk is: at the next block, or behind the topmost one. *)
Place0(c) == IF c = 0 THEN MemEnd ELSE c

Walking(s, ar, p, n) ==
    /\ s \in [mcb : {0} \cup Paras, arena : Arenas]
    /\ FreedBelow(s.arena, ar, p, Place0(s.mcb))
    /\ s.mcb # 0 => s.mcb \in DOMAIN s.arena /\ MemStart + n <= s.mcb

LEMMA AfterFacts ==
  ASSUME NEW x, Sound(x), NEW c \in DOMAIN x
  PROVE  /\ Place0(After(x, c)) = mcb_next(x, c)
         /\ After(x, c) \in {0} \cup Paras
         /\ After(x, c) # 0 => After(x, c) \in DOMAIN x /\ c < After(x, c)
<1>1. /\ mcb_next(x, c) \in Nat /\ c \in Nat /\ c < mcb_next(x, c)
      /\ mcb_next(x, c) <= MemEnd
      /\ x[c].last <=> mcb_next(x, c) = MemEnd
      /\ mcb_next(x, c) < MemEnd => mcb_next(x, c) \in DOMAIN x
  BY HeaderFacts
<1>2. CASE x[c].last
  BY <1>1, <1>2 DEF After, Place0
<1>3. CASE ~ x[c].last
  <2>1. mcb_next(x, c) \in DOMAIN x /\ mcb_next(x, c) # 0
    BY <1>1, <1>3, ArenaAssumption
  <2>2. mcb_next(x, c) \in Paras
    BY <2>1 DEF Sound, IsArena
  <2>. QED BY <1>1, <1>3, <2>1, <2>2 DEF After, Place0
<1>. QED BY <1>2, <1>3

LEMMA WalkingOn ==
  ASSUME NEW ar, Sound(ar), NEW p \in Nat \ {0}, NEW n \in Nat, NEW s, Walking(s, ar, p, n)
  PROVE  Walking(VisitOwned(s, p), ar, p, n + 1)
<1>1. CASE s.mcb = 0
  BY <1>1 DEF VisitOwned, Walking
<1>2. CASE s.mcb # 0
  <2>1. PICK c, x, y : c = s.mcb /\ x = s.arena /\ y = Visited(x, p, c)
    OBVIOUS
  <2>2. /\ c # 0 /\ c \in DOMAIN x /\ Sound(x) /\ MemStart + n <= c
        /\ FreedBelow(x, ar, p, c)
    BY <1>2, <2>1, ArenasSound DEF Walking, Place0
  <2>3. c \in DOMAIN y /\ Sound(y) /\ FreedBelow(y, ar, p, mcb_next(y, c))
    BY <2>1, <2>2, VisitFrees
  <2>4. y = IF x[c].owner = p THEN GrowWalk(mcb_set_owner(x, c, 0), c) ELSE x
    <3>1. Sound(mcb_set_owner(x, c, 0)) /\ c \in DOMAIN mcb_set_owner(x, c, 0)
      BY <2>2, SetOwnerSound DEF Reowned
    <3>2. mcb_free(x, c) = GrowWalk(mcb_set_owner(x, c, 0), c)
      BY <3>1, GrowAsWalked DEF mcb_free
    <3>. QED BY <2>1, <3>2 DEF Visited
  <2>5. VisitOwned(s, p) = [mcb |-> After(y, c), arena |-> y]
    BY <2>1, <2>2, <2>4 DEF VisitOwned
  <2>6. PICK t, d : t = VisitOwned(s, p) /\ d = After(y, c)
    OBVIOUS
  <2>7. t.mcb = d /\ t.arena = y /\ t = [mcb |-> d, arena |-> y]
    BY <2>5, <2>6
  <2>8. /\ d \in {0} \cup Paras /\ Place0(d) = mcb_next(y, c)
        /\ d # 0 => d \in DOMAIN y /\ c < d
    BY <2>3, <2>6, AfterFacts
  <2>9. t \in [mcb : {0} \cup Paras, arena : Arenas]
    BY <2>3, <2>7, <2>8, ArenasSound
  <2>10. d # 0 => MemStart + (n + 1) <= d
    BY <2>2, <2>3, <2>8, HeaderFacts, ArenaAssumption
  <2>. QED BY <2>3, <2>6, <2>7, <2>8, <2>9, <2>10 DEF Walking
<1>. QED BY <1>1, <1>2

LEMMA ArenasWalked ==
  ASSUME NEW ar, Sound(ar), NEW p \in Nat \ {0}
  PROVE  Walking([mcb |-> MemStart, arena |-> ar], ar, p, 0)
<1>1. PICK s : s = [mcb |-> MemStart, arena |-> ar]
  OBVIOUS
<1>2. s.mcb = MemStart /\ s.arena = ar
  BY <1>1
<1>3. MemStart \in DOMAIN ar /\ MemStart \in Paras /\ MemStart # 0 /\ MemStart \in Nat
  BY ArenaAssumption DEF Sound, Tiled, IsArena, Paras
<1>4. s \in [mcb : {0} \cup Paras, arena : Arenas]
  BY <1>1, <1>3, ArenasSound
<1>5. Below(ar, p, MemStart) = {}
  <2>1. \A a \in DOMAIN ar : a \in Nat /\ MemStart <= a
    BY HeaderFacts
  <2>2. \A a \in OwnedBy(ar, p) : ~ (a < MemStart)
    BY <1>3, <2>1 DEF OwnedBy
  <2>. QED BY <2>2 DEF Below
<1>6. Freed(ar, {}) = ar
  <2>1. Merged(ar, {}) = {}
    BY DEF Merged
  <2>2. ar = [b \in DOMAIN ar |-> ar[b]]
    BY DEF Sound, IsArena
  <2>. QED BY <2>1, <2>2 DEF Freed
<1>7. FreedBelow(ar, ar, p, MemStart)
  BY <1>5, <1>6 DEF FreedBelow
<1>8. Place0(s.mcb) = MemStart /\ MemStart + 0 <= s.mcb
  BY <1>2, <1>3 DEF Place0
<1>. QED BY <1>1, <1>2, <1>3, <1>4, <1>7, <1>8 DEF Walking

FreePasses(f, ar, p) ==
    f = [n \in Passes |-> IF n = 0 THEN [mcb |-> MemStart, arena |-> ar]
                          ELSE VisitOwned(f[n - 1], p)]

LEMMA FreePassesExist ==
  ASSUME NEW ar, Sound(ar), NEW p \in Nat \ {0}
  PROVE  \E f : FreePasses(f, ar, p)
<1> DEFINE a == [mcb |-> MemStart, arena |-> ar]
           S == {s \in [mcb : {0} \cup Paras, arena : Arenas] : \E n \in Nat : Walking(s, ar, p, n)}
           g == [s \in S |-> VisitOwned(s, p)]
<1>1. ASSUME NEW s \in S PROVE VisitOwned(s, p) \in S
  <2>1. PICK n \in Nat : Walking(s, ar, p, n)
    OBVIOUS
  <2>2. Walking(VisitOwned(s, p), ar, p, n + 1) /\ n + 1 \in Nat
    BY <2>1, WalkingOn
  <2>. QED BY <2>2 DEF Walking
<1>2. a \in S
  <2>1. Walking(a, ar, p, 0)
    BY ArenasWalked
  <2>. QED BY <2>1 DEF Walking
<1> HIDE DEF S, a
<1>3. g \in [S -> S] /\ \A s \in S : g[s] = VisitOwned(s, p)
  BY <1>1
<1> HIDE DEF g
<1>4. PICK f : Iterates(f, S, a, g, MemEnd - MemStart)
  BY <1>2, <1>3, PassesRange, Iteration
<1>5. /\ f = [n \in Passes |-> IF n = 0 THEN a ELSE g[f[n - 1]]]
      /\ \A n \in Passes : f[n] \in S
  BY <1>4, PassesRange DEF Iterates
<1>6. \A n \in Passes : n # 0 => n - 1 \in Passes
  BY PassesRange
<1>7. \A n \in Passes : n # 0 => g[f[n - 1]] = VisitOwned(f[n - 1], p)
  BY <1>3, <1>5, <1>6
<1>8. f = [n \in Passes |-> IF n = 0 THEN a ELSE VisitOwned(f[n - 1], p)]
  BY <1>5, <1>7
<1>. QED BY <1>8 DEF FreePasses, a

LEMMA FreeAsWalked ==
  ASSUME NEW ar, Sound(ar), NEW p \in Nat \ {0}
  PROVE  mem_free_owned(ar, p) = FreeOwnedWalk(ar, p)
<1>1. PICK f : f = CHOOSE g : FreePasses(g, ar, p)
  OBVIOUS
<1>2. FreePasses(f, ar, p)
  BY <1>1, FreePassesExist
<1>3. FreeOwnedWalk(ar, p) = f[MemEnd - MemStart].arena
  BY <1>1 DEF FreeOwnedWalk, FreePasses, End
<1>4. /\ f[0] = [mcb |-> MemStart, arena |-> ar]
      /\ \A n \in Nat : n < MemEnd - MemStart => f[n + 1] = VisitOwned(f[n], p)
  <2>1. 0 \in Passes /\ f[0] = [mcb |-> MemStart, arena |-> ar]
    BY <1>2, PassesRange DEF FreePasses
  <2>2. ASSUME NEW n \in Nat, n < MemEnd - MemStart
        PROVE  f[n + 1] = VisitOwned(f[n], p)
    <3>1. n + 1 \in Passes /\ n + 1 # 0 /\ (n + 1) - 1 = n
      BY <2>2, PassesRange
    <3>. QED BY <1>2, <3>1 DEF FreePasses
  <2>. QED BY <2>1, <2>2
<1> DEFINE T == {n \in Nat : Walking(f[n], ar, p, n)}
<1>5. 0 \in T
  BY <1>4, ArenasWalked
<1>6. ASSUME NEW n \in T, n < MemEnd - MemStart PROVE n + 1 \in T
  <2>1. n \in Nat /\ Walking(f[n], ar, p, n)
    OBVIOUS
  <2>2. Walking(VisitOwned(f[n], p), ar, p, n + 1)
    BY <2>1, WalkingOn
  <2>3. f[n + 1] = VisitOwned(f[n], p)
    BY <1>4, <1>6, <2>1
  <2>. QED BY <2>1, <2>2, <2>3
<1>7. MemEnd - MemStart \in T
  <2> HIDE DEF T
  <2>. QED BY <1>5, <1>6, AfterPasses
<1>8. PICK s : s = f[MemEnd - MemStart]
  OBVIOUS
<1>9. Walking(s, ar, p, MemEnd - MemStart)
  BY <1>7, <1>8
<1>10. s.mcb = 0
  <2>1. s.mcb # 0 => s.mcb < MemEnd /\ MemEnd <= s.mcb /\ s.mcb \in Nat
    BY <1>9, ArenaAssumption DEF Walking, Paras
  <2>. QED BY <2>1, ArenaAssumption
<1>11. s.arena = Freed(ar, Below(ar, p, MemEnd))
  BY <1>9, <1>10 DEF Walking, FreedBelow, Place0
<1>12. Below(ar, p, MemEnd) = OwnedBy(ar, p)
  <2>1. \A a \in DOMAIN ar : a < MemEnd
    BY HeaderFacts
  <2>. QED BY <2>1 DEF Below, OwnedBy
<1>. QED BY <1>3, <1>8, <1>11, <1>12, FreedOwned

--------------------------------------------------------------------------------
(* The scan of mcb_alloc_new: the best fitting block below c, and the      *)
(* largest size of the free blocks below c that are too small.             *)
FitBelow(ar, size, c) == {b \in Fitting(ar, size) : b < c}

Small(ar, size) == {b \in DOMAIN ar : mcb_is_free(ar, b) /\ ar[b].size < size}
SmallBelow(ar, size, c) == {b \in Small(ar, size) : b < c}

BestOf(ar, F, stg, a) == IF F = {} THEN a = 0 ELSE a \in F /\ IsBest(ar, F, stg, a)

LargestOf(ar, S, m) ==
    /\ m \in {0} \cup {ar[b].size : b \in S}
    /\ \A b \in S : ar[b].size <= m

(* Whether a is at least as good as b. *)
AsGood(ar, stg, a, b) ==
    /\ stg = 0 => a <= b
    /\ stg = 1 => ar[a].size < ar[b].size \/ (ar[a].size = ar[b].size /\ a <= b)
    /\ stg >= 2 => b <= a

LEMMA BestIsAsGood ==
  ASSUME NEW ar, NEW F, NEW stg \in Nat, NEW a
  PROVE  IsBest(ar, F, stg, a) <=> \A b \in F : AsGood(ar, stg, a, b)
<1>1. stg = 0 \/ stg = 1 \/ stg >= 2
  OBVIOUS
<1>2. CASE stg = 0
  BY <1>2 DEF IsBest, AsGood, FirstFit, BestFit
<1>3. CASE stg = 1
  BY <1>3 DEF IsBest, AsGood, FirstFit, BestFit
<1>4. CASE stg >= 2
  <2>1. stg # 0 /\ stg # 1
    BY <1>4
  <2>. QED BY <1>4, <2>1 DEF IsBest, AsGood, FirstFit, BestFit
<1>. QED BY <1>1, <1>2, <1>3, <1>4

(* One more block, above all others. *)
Preferred(ar, stg, a, c) ==
    IF a = 0 \/ (stg = 1 /\ ar[c].size < ar[a].size) \/ stg >= 2 THEN c ELSE a

LEMMA BestWithOneMore ==
  ASSUME NEW ar, Sound(ar), NEW F \in SUBSET DOMAIN ar, NEW stg \in Nat, NEW a,
         BestOf(ar, F, stg, a), NEW c \in DOMAIN ar, \A b \in F : b < c
  PROVE  BestOf(ar, F \cup {c}, stg, Preferred(ar, stg, a, c))
<1>1. \A b \in DOMAIN ar : b \in Nat /\ b # 0 /\ ar[b].size \in Nat
  BY HeaderFacts, ArenaAssumption
<1>2. AsGood(ar, stg, c, c)
  BY <1>1 DEF AsGood
<1>3. PICK t : t = Preferred(ar, stg, a, c)
  OBVIOUS
<1>4. CASE F = {}
  <2>1. t = c
    BY <1>3, <1>4 DEF Preferred, BestOf
  <2>2. IsBest(ar, {c}, stg, c)
    BY <1>2, BestIsAsGood
  <2>. QED BY <1>3, <1>4, <2>1, <2>2 DEF BestOf
<1>5. CASE F # {}
  <2>1. /\ a \in F /\ a \in DOMAIN ar /\ a # 0 /\ a < c /\ a \in Nat /\ c \in Nat
        /\ ar[a].size \in Nat /\ ar[c].size \in Nat
        /\ \A b \in F : AsGood(ar, stg, a, b)
    BY <1>1, <1>5, BestIsAsGood DEF BestOf
  <2>2. \A b \in F : b \in Nat /\ b < c /\ ar[b].size \in Nat
    BY <1>1
  <2>3. stg = 0 \/ stg = 1 \/ (stg >= 2 /\ stg # 1 /\ stg # 0)
    OBVIOUS
  <2>4. t \in F \cup {c} /\ \A b \in F \cup {c} : AsGood(ar, stg, t, b)
    <3>1. CASE stg = 0
      <4>1. t = a
        BY <1>3, <2>1, <3>1 DEF Preferred
      <4>2. AsGood(ar, stg, a, c)
        BY <2>1, <3>1 DEF AsGood
      <4>. QED BY <2>1, <4>1, <4>2
    <3>2. CASE stg = 1 /\ ar[c].size < ar[a].size
      <4>1. t = c
        BY <1>3, <3>2 DEF Preferred
      <4>2. ASSUME NEW b \in F PROVE AsGood(ar, stg, c, b)
        <5>1. ar[a].size <= ar[b].size
          BY <2>1, <2>2, <3>2 DEF AsGood
        <5>. QED BY <2>1, <2>2, <3>2, <5>1 DEF AsGood
      <4>. QED BY <1>2, <4>1, <4>2
    <3>3. CASE stg = 1 /\ ~ (ar[c].size < ar[a].size)
      <4>1. t = a
        BY <1>3, <2>1, <3>3 DEF Preferred
      <4>2. AsGood(ar, stg, a, c)
        BY <2>1, <3>3 DEF AsGood
      <4>. QED BY <2>1, <4>1, <4>2
    <3>4. CASE stg >= 2 /\ stg # 1 /\ stg # 0
      <4>1. t = c
        BY <1>3, <3>4 DEF Preferred
      <4>2. ASSUME NEW b \in F PROVE AsGood(ar, stg, c, b)
        BY <2>1, <2>2, <3>4 DEF AsGood
      <4>. QED BY <1>2, <4>1, <4>2
    <3>. QED BY <2>3, <3>1, <3>2, <3>3, <3>4
  <2>5. IsBest(ar, F \cup {c}, stg, t)
    BY <2>4, BestIsAsGood
  <2>. QED BY <1>3, <2>4, <2>5 DEF BestOf
<1>. QED BY <1>4, <1>5

LEMMA LargestWithOneMore ==
  ASSUME NEW ar, Sound(ar), NEW S \in SUBSET DOMAIN ar, NEW m,
         LargestOf(ar, S, m), NEW c \in DOMAIN ar
  PROVE  LargestOf(ar, S \cup {c}, IF ar[c].size > m THEN ar[c].size ELSE m)
<1>1. \A b \in DOMAIN ar : ar[b].size \in Nat
  BY HeaderFacts
<1>2. m \in Nat /\ ar[c].size \in Nat
  BY <1>1 DEF LargestOf
<1>. QED BY <1>1, <1>2 DEF LargestOf

Scanned(s, ar, size, stg, c) ==
    /\ BestOf(ar, FitBelow(ar, size, c), stg, s.best)
    /\ LargestOf(ar, SmallBelow(ar, size, c), s.max)

Scanning(s, ar, size, stg, n) ==
    /\ s \in [mcb : {0} \cup Paras, best : Nat, max : Nat]
    /\ Scanned(s, ar, size, stg, Place0(s.mcb))
    /\ s.mcb # 0 => s.mcb \in DOMAIN ar /\ MemStart + n <= s.mcb

LEMMA ScanningOn ==
  ASSUME NEW ar, Sound(ar), NEW size \in Nat, NEW stg \in Nat, NEW n \in Nat,
         NEW s, Scanning(s, ar, size, stg, n)
  PROVE  Scanning(Consider(ar, size, stg, s), ar, size, stg, n + 1)
<1>1. CASE s.mcb = 0
  BY <1>1 DEF Consider, Scanning
<1>2. CASE s.mcb # 0
  <2>1. PICK c, a, m : c = s.mcb /\ a = s.best /\ m = s.max
    OBVIOUS
  <2>2. /\ c # 0 /\ c \in DOMAIN ar /\ MemStart + n <= c /\ a \in Nat /\ m \in Nat
        /\ BestOf(ar, FitBelow(ar, size, c), stg, a)
        /\ LargestOf(ar, SmallBelow(ar, size, c), m)
    BY <1>2, <2>1 DEF Scanning, Scanned, Place0
  <2>3. PICK d, e, o, k : /\ d = After(ar, c) /\ e = mcb_next(ar, c)
                          /\ o = IF c \in Fitting(ar, size) THEN Preferred(ar, stg, a, c) ELSE a
                          /\ k = IF c \in Small(ar, size) /\ ar[c].size > m THEN ar[c].size ELSE m
    OBVIOUS
  <2>4. /\ ar[c].size \in Nat /\ c \in Nat /\ e \in Nat /\ c < e
        /\ \A b \in DOMAIN ar : b \in Nat /\ (c < b => e <= b)
    BY <2>2, <2>3, HeaderFacts
  <2>5. Consider(ar, size, stg, s) = [mcb |-> d, best |-> o, max |-> k]
    <3>1. (c \in Fitting(ar, size)) <=> mcb_is_free(ar, c) /\ ar[c].size >= size
      BY <2>2 DEF Fitting
    <3>2. c \in Small(ar, size) <=> mcb_is_free(ar, c) /\ ~ (ar[c].size >= size)
      BY <2>2, <2>4 DEF Small
    <3>. QED BY <2>1, <2>2, <2>3, <3>1, <3>2 DEF Consider, Preferred, BestFit
  <2>6. BestOf(ar, FitBelow(ar, size, e), stg, o)
    <3>1. Fitting(ar, size) \subseteq DOMAIN ar
      BY DEF Fitting
    <3>2. CASE c \in Fitting(ar, size)
      <4>1. FitBelow(ar, size, e) = FitBelow(ar, size, c) \cup {c}
        BY <2>4, <3>1, <3>2 DEF FitBelow
      <4>2. FitBelow(ar, size, c) \in SUBSET DOMAIN ar /\ \A b \in FitBelow(ar, size, c) : b < c
        BY <3>1 DEF FitBelow
      <4>. QED BY <2>2, <2>3, <3>2, <4>1, <4>2, BestWithOneMore
    <3>3. CASE c \notin Fitting(ar, size)
      <4>1. FitBelow(ar, size, e) = FitBelow(ar, size, c)
        BY <2>4, <3>1, <3>3 DEF FitBelow
      <4>. QED BY <2>2, <2>3, <3>3, <4>1
    <3>. QED BY <3>2, <3>3
  <2>7. LargestOf(ar, SmallBelow(ar, size, e), k)
    <3>1. Small(ar, size) \subseteq DOMAIN ar
      BY DEF Small
    <3>2. CASE c \in Small(ar, size)
      <4>1. SmallBelow(ar, size, e) = SmallBelow(ar, size, c) \cup {c}
        BY <2>4, <3>1, <3>2 DEF SmallBelow
      <4>2. SmallBelow(ar, size, c) \in SUBSET DOMAIN ar
        BY <3>1 DEF SmallBelow
      <4>. QED BY <2>2, <2>3, <3>2, <4>1, <4>2, LargestWithOneMore
    <3>3. CASE c \notin Small(ar, size)
      <4>1. SmallBelow(ar, size, e) = SmallBelow(ar, size, c)
        BY <2>4, <3>1, <3>3 DEF SmallBelow
      <4>. QED BY <2>2, <2>3, <3>3, <4>1
    <3>. QED BY <3>2, <3>3
  <2>8. /\ d \in {0} \cup Paras /\ Place0(d) = e
        /\ d # 0 => d \in DOMAIN ar /\ c < d
    BY <2>2, <2>3, AfterFacts
  <2>9. o \in Nat /\ k \in Nat
    BY <2>2, <2>3, <2>4 DEF Preferred
  <2>10. d # 0 => MemStart + (n + 1) <= d
    BY <2>2, <2>4, <2>8, ArenaAssumption
  <2>11. PICK t : t = [mcb |-> d, best |-> o, max |-> k]
    OBVIOUS
  <2>12. /\ t.mcb = d /\ t.best = o /\ t.max = k
         /\ t \in [mcb : {0} \cup Paras, best : Nat, max : Nat]
    BY <2>8, <2>9, <2>11
  <2>13. Scanning(t, ar, size, stg, n + 1)
    BY <2>6, <2>7, <2>8, <2>10, <2>12 DEF Scanning, Scanned
  <2>. QED BY <2>5, <2>11, <2>13
<1>. QED BY <1>1, <1>2

LEMMA ScanBegins ==
  ASSUME NEW ar, Sound(ar), NEW size \in Nat, NEW stg \in Nat
  PROVE  Scanning([mcb |-> MemStart, best |-> 0, max |-> 0], ar, size, stg, 0)
<1>1. PICK s : s = [mcb |-> MemStart, best |-> 0, max |-> 0]
  OBVIOUS
<1>2. MemStart \in DOMAIN ar /\ MemStart \in Paras /\ MemStart # 0 /\ MemStart \in Nat
  BY ArenaAssumption DEF Sound, Tiled, IsArena, Paras
<1>3. /\ s.mcb = MemStart /\ s.best = 0 /\ s.max = 0
      /\ s \in [mcb : {0} \cup Paras, best : Nat, max : Nat]
  BY <1>1, <1>2
<1>4. \A b \in DOMAIN ar : ~ (b < MemStart)
  <2>1. \A b \in DOMAIN ar : b \in Nat /\ MemStart <= b
    BY HeaderFacts
  <2>. QED BY <1>2, <2>1
<1>5. FitBelow(ar, size, MemStart) = {} /\ SmallBelow(ar, size, MemStart) = {}
  BY <1>4 DEF FitBelow, SmallBelow, Fitting, Small
<1>6. Place0(s.mcb) = MemStart /\ MemStart + 0 <= s.mcb
  BY <1>2, <1>3 DEF Place0
<1>. QED BY <1>1, <1>2, <1>3, <1>5, <1>6 DEF Scanning, Scanned, BestOf, LargestOf

ScanPasses(f, ar, size, stg) ==
    f = [n \in Passes |-> IF n = 0 THEN [mcb |-> MemStart, best |-> 0, max |-> 0]
                          ELSE Consider(ar, size, stg, f[n - 1])]

LEMMA ScanPassesExist ==
  ASSUME NEW ar, Sound(ar), NEW size \in Nat, NEW stg \in Nat
  PROVE  \E f : ScanPasses(f, ar, size, stg)
<1> DEFINE a == [mcb |-> MemStart, best |-> 0, max |-> 0]
           S == {s \in [mcb : {0} \cup Paras, best : Nat, max : Nat] :
                    \E n \in Nat : Scanning(s, ar, size, stg, n)}
           g == [s \in S |-> Consider(ar, size, stg, s)]
<1>1. ASSUME NEW s \in S PROVE Consider(ar, size, stg, s) \in S
  <2>1. PICK n \in Nat : Scanning(s, ar, size, stg, n)
    OBVIOUS
  <2>2. Scanning(Consider(ar, size, stg, s), ar, size, stg, n + 1) /\ n + 1 \in Nat
    BY <2>1, ScanningOn
  <2>. QED BY <2>2 DEF Scanning
<1>2. a \in S
  <2>1. Scanning(a, ar, size, stg, 0)
    BY ScanBegins
  <2>. QED BY <2>1 DEF Scanning
<1> HIDE DEF S, a
<1>3. g \in [S -> S] /\ \A s \in S : g[s] = Consider(ar, size, stg, s)
  BY <1>1
<1> HIDE DEF g
<1>4. PICK f : Iterates(f, S, a, g, MemEnd - MemStart)
  BY <1>2, <1>3, PassesRange, Iteration
<1>5. /\ f = [n \in Passes |-> IF n = 0 THEN a ELSE g[f[n - 1]]]
      /\ \A n \in Passes : f[n] \in S
  BY <1>4, PassesRange DEF Iterates
<1>6. \A n \in Passes : n # 0 => n - 1 \in Passes
  BY PassesRange
<1>7. \A n \in Passes : n # 0 => g[f[n - 1]] = Consider(ar, size, stg, f[n - 1])
  BY <1>3, <1>5, <1>6
<1>8. f = [n \in Passes |-> IF n = 0 THEN a ELSE Consider(ar, size, stg, f[n - 1])]
  BY <1>5, <1>7
<1>. QED BY <1>8 DEF ScanPasses, a

(* The last pass has seen all blocks. *)
LEMMA ScanEnds ==
  ASSUME NEW ar, Sound(ar), NEW size \in Nat, NEW stg \in Nat
  PROVE  /\ BestOf(ar, Fitting(ar, size), stg, ScanWalk(ar, size, stg).best)
         /\ LargestOf(ar, Small(ar, size), ScanWalk(ar, size, stg).max)
<1>1. PICK f : f = CHOOSE g : ScanPasses(g, ar, size, stg)
  OBVIOUS
<1>2. ScanPasses(f, ar, size, stg)
  BY <1>1, ScanPassesExist
<1>3. ScanWalk(ar, size, stg) = f[MemEnd - MemStart]
  BY <1>1 DEF ScanWalk, ScanPasses, End
<1>4. /\ f[0] = [mcb |-> MemStart, best |-> 0, max |-> 0]
      /\ \A n \in Nat : n < MemEnd - MemStart => f[n + 1] = Consider(ar, size, stg, f[n])
  <2>1. 0 \in Passes /\ f[0] = [mcb |-> MemStart, best |-> 0, max |-> 0]
    BY <1>2, PassesRange DEF ScanPasses
  <2>2. ASSUME NEW n \in Nat, n < MemEnd - MemStart
        PROVE  f[n + 1] = Consider(ar, size, stg, f[n])
    <3>1. n + 1 \in Passes /\ n + 1 # 0 /\ (n + 1) - 1 = n
      BY <2>2, PassesRange
    <3>. QED BY <1>2, <3>1 DEF ScanPasses
  <2>. QED BY <2>1, <2>2
<1> DEFINE T == {n \in Nat : Scanning(f[n], ar, size, stg, n)}
<1>5. 0 \in T
  BY <1>4, ScanBegins
<1>6. ASSUME NEW n \in T, n < MemEnd - MemStart PROVE n + 1 \in T
  <2>1. n \in Nat /\ Scanning(f[n], ar, size, stg, n)
    OBVIOUS
  <2>2. Scanning(Consider(ar, size, stg, f[n]), ar, size, stg, n + 1)
    BY <2>1, ScanningOn
  <2>3. f[n + 1] = Consider(ar, size, stg, f[n])
    BY <1>4, <1>6, <2>1
  <2>. QED BY <2>1, <2>2, <2>3
<1>7. MemEnd - MemStart \in T
  <2> HIDE DEF T
  <2>. QED BY <1>5, <1>6, AfterPasses
<1>8. PICK s : s = f[MemEnd - MemStart]
  OBVIOUS
<1>9. Scanning(s, ar, size, stg, MemEnd - MemStart)
  BY <1>7, <1>8
<1>10. s.mcb = 0
  <2>1. s.mcb # 0 => s.mcb < MemEnd /\ MemEnd <= s.mcb /\ s.mcb \in Nat
    BY <1>9, ArenaAssumption DEF Scanning, Paras
  <2>. QED BY <2>1, ArenaAssumption
<1>11. Scanned(s, ar, size, stg, MemEnd)
  BY <1>9, <1>10 DEF Scanning, Place0
<1>12. FitBelow(ar, size, MemEnd) = Fitting(ar, size) /\ SmallBelow(ar, size, MemEnd) = Small(ar, size)
  <2>1. \A a \in DOMAIN ar : a < MemEnd
    BY HeaderFacts
  <2>. QED BY <2>1 DEF FitBelow, SmallBelow, Fitting, Small
<1>. QED BY <1>3, <1>8, <1>11, <1>12 DEF Scanned

(* There is only one best block, and one largest size. *)
LEMMA BestUnique ==
  ASSUME NEW ar, Sound(ar), NEW F \in SUBSET DOMAIN ar, NEW stg \in Nat, NEW a, BestOf(ar, F, stg, a)
  PROVE  /\ a = 0 <=> F = {}
         /\ F # {} => a = CHOOSE b \in F : IsBest(ar, F, stg, b)
<1>1. \A b \in DOMAIN ar : b \in Nat /\ b # 0 /\ ar[b].size \in Nat
  BY HeaderFacts, ArenaAssumption
<1>2. a = 0 <=> F = {}
  BY <1>1 DEF BestOf
<1>3. ASSUME F # {} PROVE a = CHOOSE b \in F : IsBest(ar, F, stg, b)
  <2>1. a \in F /\ IsBest(ar, F, stg, a)
    BY <1>3 DEF BestOf
  <2>2. PICK b : b = CHOOSE d \in F : IsBest(ar, F, stg, d)
    OBVIOUS
  <2>3. b \in F /\ IsBest(ar, F, stg, b)
    BY <2>1, <2>2
  <2>4. AsGood(ar, stg, a, b) /\ AsGood(ar, stg, b, a)
    BY <2>1, <2>3, BestIsAsGood
  <2>5. a \in Nat /\ b \in Nat /\ ar[a].size \in Nat /\ ar[b].size \in Nat
    BY <1>1, <2>1, <2>3
  <2>6. stg = 0 \/ stg = 1 \/ stg >= 2
    OBVIOUS
  <2>7. a = b
    BY <2>4, <2>5, <2>6 DEF AsGood
  <2>. QED BY <2>2, <2>7
<1>. QED BY <1>2, <1>3

LEMMA LargestUnique ==
  ASSUME NEW ar, Sound(ar), NEW size, NEW m, LargestOf(ar, Small(ar, size), m)
  PROVE  m = LargestTooSmall(ar, size)
<1> DEFINE T == {0} \cup {ar[b].size : b \in Small(ar, size)}
<1>1. \A b \in DOMAIN ar : ar[b].size \in Nat /\ ar[b].size <= MemEnd
  <2>1. ASSUME NEW b \in DOMAIN ar PROVE ar[b].size \in Nat /\ ar[b].size <= MemEnd
    BY HeaderFacts, ArenaAssumption
  <2>. QED BY <2>1
<1>2. T \subseteq 0 .. MemEnd /\ T # {}
  <2>1. \A b \in Small(ar, size) : ar[b].size \in 0 .. MemEnd
    BY <1>1, ArenaAssumption DEF Small
  <2>2. 0 \in 0 .. MemEnd
    BY ArenaAssumption
  <2>. QED BY ONLY <2>1, <2>2
<1>3. LargestTooSmall(ar, size) = Max(T)
  BY DEF LargestTooSmall, Small
<1>4. m \in T /\ \A y \in T : y <= m
  <2>1. m \in T /\ \A b \in Small(ar, size) : ar[b].size <= m
    BY DEF LargestOf
  <2>2. 0 <= m
    BY <1>2, <2>1, ArenaAssumption
  <2>. QED BY ONLY <2>1, <2>2
<1> HIDE DEF T
<1>5. Max(T) \in T /\ \A y \in T : y <= Max(T)
  <2>1. PICK N \in Nat : T \subseteq 0 .. N /\ T # {}
    BY <1>2, ArenaAssumption
  <2>. QED BY ONLY <2>1, MaxProperty
<1>6. PICK x : x = Max(T)
  OBVIOUS
<1>7. \A y \in T : y \in Nat
  BY ONLY <1>2
<1>8. x \in Nat /\ m \in Nat /\ x <= m /\ m <= x
  BY ONLY <1>4, <1>5, <1>6, <1>7
<1>9. x = m
  BY ONLY <1>8
<1>. QED BY <1>3, <1>6, <1>9

LEMMA ScanAsWalked ==
  ASSUME NEW ar, Sound(ar), NEW size \in Nat, NEW stg \in Nat
  PROVE  /\ ScanWalk(ar, size, stg).max = LargestTooSmall(ar, size)
         /\ ScanWalk(ar, size, stg).best = 0 <=> Fitting(ar, size) = {}
         /\ Fitting(ar, size) # {} =>
              ScanWalk(ar, size, stg).best =
                  CHOOSE a \in Fitting(ar, size) : IsBest(ar, Fitting(ar, size), stg, a)
<1>1. PICK w, F : w = ScanWalk(ar, size, stg) /\ F = Fitting(ar, size)
  OBVIOUS
<1>2. BestOf(ar, F, stg, w.best) /\ LargestOf(ar, Small(ar, size), w.max)
  BY <1>1, ScanEnds
<1>3. F \in SUBSET DOMAIN ar
  BY <1>1 DEF Fitting
<1>4. w.max = LargestTooSmall(ar, size)
  BY <1>2, LargestUnique
<1>5. /\ w.best = 0 <=> F = {}
      /\ F # {} => w.best = CHOOSE b \in F : IsBest(ar, F, stg, b)
  BY <1>2, <1>3, BestUnique
<1>. QED BY <1>1, <1>4, <1>5

(* loader.c:465-516 and 591-603: the operators of Mcb compute what the     *)
(* loops of the allocator do block by block, on every arena that DOS calls *)
(* lead to, for each strategy and request.                                 *)
THEOREM LoopsAgree == Spec => []AsWalked
<1>1. ASSUME IInv PROVE AsWalked
  <2>1. Sound(arena)
    BY <1>1, IInvSound
  <2>2. GrowsAsWalked
    BY <2>1, GrowAsWalked DEF GrowsAsWalked
  <2>3. FreesAsWalked
    <3>1. \A a \in DOMAIN arena : arena[a].owner \in Nat
      BY <2>1, HeaderFacts
    <3>2. ASSUME NEW p \in {arena[a].owner : a \in DOMAIN arena} \ {0}
          PROVE  mem_free_owned(arena, p) = FreeOwnedWalk(arena, p)
      <4>1. p \in Nat \ {0}
        BY <3>1
      <4>. QED BY <2>1, <4>1, FreeAsWalked
    <3>. QED BY <3>2 DEF FreesAsWalked
  <2>4. ScansAsWalked
    <3>1. ASSUME NEW size \in Requests \cup {r - 1 : r \in Requests \ {0}}, NEW stg \in Strategies
          PROVE  size \in Nat /\ stg \in Nat
      BY SizesAssumption
    <3>. QED BY <2>1, <3>1, ScanAsWalked DEF ScansAsWalked
  <2>. QED BY <2>2, <2>3, <2>4 DEF AsWalked
<1>2. IInv => AsWalked
  BY <1>1
<1>. QED BY <1>2, Invariant, PTL

--------------------------------------------------------------------------------
(* The depth of a process is the number of live processes above it. *)
LEMMA RankedLine ==
  ASSUME IsFiniteSet(Live), NEW d \in [Live -> Nat], LineOf(d)
  PROVE  \E e \in [Live -> 0 .. Cardinality(Live) - 1] : LineOf(e)
<1> DEFINE Above(p) == {q \in Live : d[q] < d[p]}
           e == [p \in Live |-> Cardinality(Above(p))]
<1>1. PICK L, N : L = Live /\ N = Cardinality(Live)
  OBVIOUS
<1>2. /\ IsFiniteSet(L) /\ N \in Nat /\ d \in [L -> Nat] /\ current_PSP \in L
      /\ \A p \in L : /\ p # current_PSP => d[p] < d[current_PSP]
                      /\ psp[p].parent = NoParent \/
                           (psp[p].parent \in L /\ d[p] = d[psp[p].parent] + 1)
                      /\ \A q \in L : d[p] = d[q] => p = q
  BY <1>1, FS_CardinalityType DEF LineOf
<1>3. ASSUME NEW p \in L
      PROVE  /\ IsFiniteSet(Above(p)) /\ Cardinality(Above(p)) \in Nat
             /\ IsFiniteSet(Above(p) \cup {p})
             /\ Cardinality(Above(p) \cup {p}) = Cardinality(Above(p)) + 1
             /\ Cardinality(Above(p)) < N
  <2>1. PICK A : A = Above(p)
    OBVIOUS
  <2>2. A \in SUBSET L /\ A \cup {p} \in SUBSET L /\ p \notin A
    BY <1>1, <1>2, <2>1
  <2>3. IsFiniteSet(A) /\ Cardinality(A) \in Nat
    BY <1>2, <2>2, FS_Subset, FS_CardinalityType
  <2>4. /\ IsFiniteSet(A \cup {p}) /\ Cardinality(A \cup {p}) = Cardinality(A) + 1
        /\ Cardinality(A \cup {p}) <= N
    BY <1>1, <1>2, <2>2, <2>3, FS_AddElement, FS_Subset
  <2>. QED BY <1>2, <2>1, <2>3, <2>4
<1>4. ASSUME NEW p \in L, NEW q \in L, d[p] < d[q] PROVE e[p] < e[q]
  <2>1. PICK A, B : A = Above(p) /\ B = Above(q)
    OBVIOUS
  <2>2. A \cup {p} \in SUBSET B
    BY <1>1, <1>2, <1>4, <2>1
  <2>3. /\ IsFiniteSet(B) /\ Cardinality(A) \in Nat /\ Cardinality(B) \in Nat
        /\ Cardinality(A \cup {p}) = Cardinality(A) + 1
    BY <1>3, <2>1
  <2>4. Cardinality(A \cup {p}) <= Cardinality(B)
    BY <2>2, <2>3, FS_Subset
  <2>5. e[p] = Cardinality(A) /\ e[q] = Cardinality(B)
    BY <1>1, <2>1
  <2>. QED BY <2>3, <2>4, <2>5
<1>5. ASSUME NEW p \in L, NEW r \in L, d[p] = d[r] + 1 PROVE e[p] = e[r] + 1
  <2>1. \A q \in L : d[q] < d[p] <=> d[q] < d[r] \/ q = r
    BY <1>2, <1>5
  <2>2. Above(p) = Above(r) \cup {r}
    BY <1>1, <1>5, <2>1
  <2>. QED BY <1>1, <1>3, <2>2
<1>6. \A p \in L : e[p] \in 0 .. N - 1
  <2>1. ASSUME NEW p \in L PROVE e[p] \in 0 .. N - 1
    <3>1. PICK k \in Nat : k = Cardinality(Above(p)) /\ k < N
      BY <1>3
    <3>. QED BY <1>1, <1>2, <3>1
  <2>. QED BY <2>1
<1>7. e = [p \in L |-> e[p]]
  BY <1>1
<1> HIDE DEF e
<1>8. e \in [L -> 0 .. N - 1] /\ \A p \in L : e[p] \in Nat
  BY <1>2, <1>6, <1>7
<1>9. \A p, q \in L : e[p] = e[q] => p = q
  <2>1. ASSUME NEW p \in L, NEW q \in L, e[p] = e[q] PROVE p = q
    <3>1. d[p] \in Nat /\ d[q] \in Nat /\ ~ (d[p] < d[q]) /\ ~ (d[q] < d[p])
      BY <1>2, <1>4, <1>8, <2>1
    <3>. QED BY <1>2, <3>1
  <2>. QED BY <2>1
<1>10. \A i \in DOMAIN exec_psp_root :
         /\ exec_psp_root[i].psp \in L
         /\ exec_psp_root[i].parent \in L
         /\ psp[exec_psp_root[i].psp].parent = exec_psp_root[i].parent
         /\ \A j \in DOMAIN exec_psp_root :
              i < j => d[exec_psp_root[j].psp] < d[exec_psp_root[i].psp]
  BY <1>1 DEF LineOf
<1>11. LineOf(e)
  BY <1>1, <1>2, <1>4, <1>5, <1>9, <1>10 DEF LineOf
<1>. QED BY <1>1, <1>8, <1>11

(* The live processes are one line of descent, in which the EXECs on the   *)
(* stack are in order, however deep programs call each other               *)
(* (dos.c:3487-3645).                                                      *)
THEOREM OneLineOfDescent == Spec => []Lineage
<1>1. ASSUME IInv PROVE Lineage
  <2>1. Live \subseteq Nat /\ \A p \in Live : p <= MemEnd
    BY <1>1, LiveFacts
  <2>2. IsFiniteSet(Live)
    BY <2>1, FS_BoundedSetOfNaturals, ArenaAssumption
  <2>3. Nested(Nat)
    BY <1>1 DEF IInv
  <2>4. CASE status = "boot"
    BY <2>3, <2>4 DEF Lineage, Nested
  <2>5. CASE status # "boot"
    <3>1. PICK d \in [Live -> Nat] : LineOf(d)
      BY <2>3, <2>5 DEF Nested
    <3>2. \E e \in [Live -> 0 .. Cardinality(Live) - 1] : LineOf(e)
      BY <2>2, <3>1, RankedLine
    <3>. QED BY <2>5, <3>2 DEF Lineage, Nested
  <2>. QED BY <2>4, <2>5
<1>2. IInv => Lineage
  BY <1>1
<1>. QED BY <1>2, Invariant, PTL
================================================================================
