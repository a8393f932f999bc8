--------------------------- MODULE FileHandlesProofs ---------------------------
(***************************************************************************)
(* FileHandles: every count of the system file table is the number of      *)
(* handles that name the entry, host streams and entries in use agree, and *)
(* no process closes a file under another one's handle, for tables of any  *)
(* size and any number of processes and streams.                           *)
(*                                                                         *)
(* The proofs look at the handles as sets: r[s] is the set of all handles, *)
(* of whatever process, that name entry s.                                 *)
(***************************************************************************)
EXTENDS FileHandles, NumberLemmas, SequenceTheorems

Pairs == Procs \X Jft

Refs(j) == [s \in Sft |-> {x \in Pairs : j[x[1]][x[2]] = s}]

(* Entries whose count may be too high: entry 1, and all of them when      *)
(* AH=67h cuts off handles that are open.                                  *)
Loose(s) == s = 1 \/ CutsOpen

(* Entry e at place s of the table is right for the handles R that name it. *)
EntryOK(s, e, R) ==
    /\ IsFiniteSet(R)
    /\ IF Loose(s) THEN Cardinality(R) <= e.count ELSE e.count = Cardinality(R)
    /\ e.f = NULL => Cardinality(R) <= 1
    /\ e.shown => e.isfile /\ e.f # NULL
    /\ e.f \in Streams /\ e.isfile => e.shown
    /\ s < 3 /\ e.f = StdStream => e.isfile = (s \in Redirected)

(* The streams op are those of table ft, each held once. *)
HostOK(ft, op) ==
    /\ op = {ft[s].f : s \in Sft} \ {NULL, StdStream}
    /\ \A s, t \in Sft : ft[s].f = ft[t].f => s = t \/ ft[s].f \in {NULL, StdStream}

Good(ft, r, op) ==
    /\ ft \in [Sft -> Entry]
    /\ r \in [Sft -> SUBSET Pairs]
    /\ \A s \in Sft : EntryOK(s, ft[s], r[s])
    /\ HostOK(ft, op)

(* A handle that stays keeps its file. *)
Keeps(ft, r, ft2, r2) ==
    \A s \in Sft : ft[s].f # NULL /\ r[s] \cap r2[s] # {} => ft2[s].f = ft[s].f

--------------------------------------------------------------------------------
(* Entries. *)

(* The sets behind the constants. *)
LEMMA Constants ==
  /\ Sft \subseteq Nat /\ Jft \subseteq Nat
  /\ Unused \notin Sft
  /\ NULL \notin Streams /\ StdStream \notin Streams /\ NULL # StdStream
  /\ IsFiniteSet(Jft)
<1>1. IsFiniteSet(Jft)
  BY FS_Interval, HandlesAssumption DEF Jft
<1>2. Sft \subseteq Nat /\ Jft \subseteq Nat /\ Unused \notin Sft
  BY HandlesAssumption DEF Sft, Jft, Unused
<1>3. NULL \notin Streams /\ StdStream \notin Streams
  BY HandlesAssumption, Zenon
<1>4. NULL # StdStream
  BY DEF NULL, StdStream
<1>5. QED
  BY <1>1, <1>2, <1>3, <1>4

(* What is left of entry e after n of its handles were closed, with the    *)
(* streams closed for it; others says that there are more handles.         *)
Outcome(e, e2, closed, others) ==
    \/ e2.f = e.f /\ closed = {}
    \/ /\ e.f # NULL /\ ~ others
       /\ e2.f = NULL /\ closed = {e.f} \ {NULL, StdStream}

(* Closing the handles D of entry e leaves it right for the others; while  *)
(* there are others the stream stays.                                      *)
LEMMA ReleasedOK ==
  ASSUME NEW s \in Sft, NEW e \in Entry, NEW R, EntryOK(s, e, R),
         NEW D \in SUBSET R, D # {}, NEW n, n = Cardinality(D)
  PROVE  /\ Released(e, n) \in Entry
         /\ EntryOK(s, Released(e, n), R \ D)
         /\ Outcome(e, Released(e, n), Fclosed(e, n), R \ D # {})
<1> DEFINE m == Cardinality(R)
           e2 == Released(e, n)
<1>1. IsFiniteSet(R)
  BY DEF EntryOK
<1>2. IsFiniteSet(D) /\ n <= m /\ (m = n => R = D)
  BY <1>1, FS_Subset
<1>3. n \in Nat /\ m \in Nat /\ n # 0
  BY <1>1, <1>2, FS_CardinalityType, FS_EmptySet
<1>4. IsFiniteSet(R \ D) /\ Cardinality(R \ D) = m - n
  <2>1. R \cap D = D
    OBVIOUS
  <2>2. QED
    BY <1>1, <2>1, FS_Difference
<1>5. /\ e.f \in Streams \cup {NULL, StdStream} /\ e.count \in Nat
      /\ e.isfile \in BOOLEAN /\ e.shown \in BOOLEAN
  BY DEF Entry
<1>6. /\ IF Loose(s) THEN m <= e.count ELSE e.count = m
      /\ e.f = NULL => m <= 1
  BY DEF EntryOK
<1> HIDE DEF m
<1>7. CASE e.f = NULL
  <2>1. e2 = [e EXCEPT !.count = 0] /\ Fclosed(e, n) = {}
    BY <1>7 DEF Released, Fclosed
  <2>2. m = 1 /\ n = 1
    BY <1>2, <1>3, <1>6, <1>7
  <2>3. e2 \in Entry /\ e2.f = NULL /\ e2.count = 0 /\ e2.shown = e.shown
    BY <1>7, <2>1 DEF Entry
  <2>4. Cardinality(R \ D) = 0
    BY <1>4, <2>2
  <2>5. ~ e.shown
    BY <1>7 DEF EntryOK
  <2>6. EntryOK(s, e2, R \ D)
    <3> HIDE DEF e2
    <3> QED BY <1>4, <2>3, <2>4, <2>5, Constants DEF EntryOK
  <2>7. QED
    BY <1>7, <2>1, <2>3, <2>6 DEF Outcome
<1>8. CASE e.f # NULL /\ e.count > n
  <2>1. e2 = [e EXCEPT !.count = @ - n, !.shown = @ \/ e.isfile] /\ Fclosed(e, n) = {}
    BY <1>3, <1>5, <1>8 DEF Released, Fclosed
  <2>20. /\ e2 = [f |-> e.f, count |-> e.count - n, isfile |-> e.isfile,
                  shown |-> e.shown \/ e.isfile]
         /\ (e.shown \/ e.isfile) \in BOOLEAN
    BY <2>1 DEF Entry
  <2>21. e.count - n \in Nat
    BY <1>3, <1>5, <1>8
  <2>2. /\ e2 \in Entry /\ e2.f = e.f /\ e2.count = e.count - n
        /\ e2.isfile = e.isfile /\ e2.shown = (e.shown \/ e.isfile)
    <3> HIDE DEF e2
    <3> QED BY <1>5, <2>20, <2>21 DEF Entry
  <2>3. EntryOK(s, e2, R \ D)
    <3> HIDE DEF e2
    <3>1. IF Loose(s) THEN m - n <= e2.count ELSE e2.count = m - n
      BY <1>3, <1>5, <1>6, <2>2
    <3>2. /\ e2.shown => e2.isfile
          /\ e2.f \in Streams /\ e2.isfile => e2.shown
          /\ s < 3 /\ e2.f = StdStream => e2.isfile = (s \in Redirected)
      BY <1>5, <2>2 DEF EntryOK
    <3>3. QED
      BY <1>4, <1>8, <2>2, <3>1, <3>2 DEF EntryOK
  <2>4. QED
    BY <2>1, <2>2, <2>3 DEF Outcome
<1>9. CASE e.f # NULL /\ ~ e.count > n
  <2>1. /\ e2 = [FreeEntry EXCEPT !.shown = e.shown /\ ~ e.isfile]
        /\ Fclosed(e, n) = {e.f} \ {NULL, StdStream}
    BY <1>3, <1>5, <1>9 DEF Released, Fclosed
  <2>2. /\ e2 = [f |-> NULL, count |-> 0, isfile |-> TRUE,
                 shown |-> e.shown /\ ~ e.isfile]
        /\ (e.shown /\ ~ e.isfile) \in BOOLEAN
    BY <2>1 DEF FreeEntry
  <2>10. e2 \in Entry /\ e2.f = NULL /\ e2.count = 0 /\ e2.shown = (e.shown /\ ~ e.isfile)
    <3> HIDE DEF e2
    <3> QED BY <2>2 DEF Entry
  <2>3. ~ e2.shown
    BY <1>5, <2>10 DEF EntryOK
  <2>4. m = n
    BY <1>2, <1>3, <1>5, <1>6, <1>9
  <2>5. R \ D = {} /\ Cardinality(R \ D) = 0
    BY <1>2, <1>3, <1>4, <2>4
  <2>6. EntryOK(s, e2, R \ D)
    <3> HIDE DEF e2
    <3> QED BY <1>4, <2>10, <2>3, <2>5, Constants DEF EntryOK
  <2>7. QED
    BY <1>9, <2>1, <2>10, <2>5, <2>6 DEF Outcome
<1>10. QED
  BY <1>7, <1>8, <1>9

(* Entry e with k more handles. *)
Counted(e, k) == [e EXCEPT !.count = @ + k]

(* More handles D on entry e, which is open, leave it right. *)
LEMMA CountedOK ==
  ASSUME NEW s \in Sft, NEW e \in Entry, NEW R, EntryOK(s, e, R),
         NEW D, IsFiniteSet(D), R \cap D = {}, D # {} => e.f # NULL,
         NEW n, n = Cardinality(D)
  PROVE  /\ Counted(e, n) \in Entry
         /\ EntryOK(s, Counted(e, n), R \cup D)
         /\ Counted(e, n).f = e.f
<1> DEFINE m == Cardinality(R)
           e2 == Counted(e, n)
<1>1. IsFiniteSet(R)
  BY DEF EntryOK
<1>2. n \in Nat /\ m \in Nat
  BY <1>1, FS_CardinalityType
<1>3. IsFiniteSet(R \cup D) /\ Cardinality(R \cup D) = m + n
  <2>1. Cardinality(R \cap D) = 0
    BY FS_EmptySet
  <2>2. /\ IsFiniteSet(R \cup D)
        /\ Cardinality(R \cup D) = m + n - Cardinality(R \cap D)
    BY <1>1, FS_Union, Zenon
  <2>3. QED
    BY <1>2, <2>1, <2>2
<1>4. e.count \in Nat
  BY DEF Entry
<1>5. /\ e2 \in Entry /\ e2.f = e.f /\ e2.count = e.count + n
      /\ e2.isfile = e.isfile /\ e2.shown = e.shown
  BY <1>2, <1>4 DEF Entry, Counted
<1>6. D = {} => n = 0
  BY FS_EmptySet
<1>7. EntryOK(s, e2, R \cup D)
  <2> HIDE DEF e2, m
  <2>1. /\ IF Loose(s) THEN m <= e.count ELSE e.count = m
        /\ e.f = NULL => m <= 1
    BY DEF EntryOK, m
  <2>2. /\ IF Loose(s) THEN m + n <= e2.count ELSE e2.count = m + n
        /\ e2.f = NULL => m + n <= 1
    BY <1>2, <1>4, <1>5, <1>6, <2>1
  <2>3. /\ e2.shown => e2.isfile /\ e2.f # NULL
        /\ e2.f \in Streams /\ e2.isfile => e2.shown
        /\ s < 3 /\ e2.f = StdStream => e2.isfile = (s \in Redirected)
    BY <1>5 DEF EntryOK
  <2>4. QED
    BY <1>3, <2>2, <2>3 DEF EntryOK
<1>8. QED
  BY <1>5, <1>7

--------------------------------------------------------------------------------
(* Tables.  D[s] is the set of handles of entry s that are closed, or that *)
(* come to it.                                                             *)
Handsets == [Sft -> SUBSET Pairs]

ReleasedTable(ft, D) ==
    [s \in Sft |-> IF D[s] = {} THEN ft[s] ELSE Released(ft[s], Cardinality(D[s]))]
ReleasedStreams(ft, D) ==
    [s \in Sft |-> IF D[s] = {} THEN {} ELSE Fclosed(ft[s], Cardinality(D[s]))]
Without(r, D) == [s \in Sft |-> r[s] \ D[s]]

CountedTable(ft, D) == [s \in Sft |-> Counted(ft[s], Cardinality(D[s]))]
With(r, D) == [s \in Sft |-> r[s] \cup D[s]]

(* What happens to the streams when each entry has one of its outcomes. *)
LEMMA HostAfter ==
  ASSUME NEW ft, NEW op, HostOK(ft, op), NEW ft2, NEW closed, NEW others,
         \A s \in Sft : Outcome(ft[s], ft2[s], closed[s], others[s])
  PROVE  HostOK(ft2, op \ UNION {closed[s] : s \in Sft})
<1> DEFINE op2 == op \ UNION {closed[s] : s \in Sft}
<1>1. ASSUME NEW s \in Sft, ft2[s].f \notin {NULL, StdStream}
      PROVE  ft2[s].f = ft[s].f /\ closed[s] = {}
  BY <1>1 DEF Outcome
<1>2. ASSUME NEW s \in Sft
      PROVE  closed[s] \subseteq {ft[s].f} \ {NULL, StdStream}
  BY DEF Outcome
<1>3. ASSUME NEW x, x \in op2
      PROVE  x \in {ft2[s].f : s \in Sft} \ {NULL, StdStream}
  <2>1. PICK s \in Sft : x = ft[s].f /\ x \notin {NULL, StdStream}
    BY <1>3 DEF HostOK
  <2>2. x \notin closed[s]
    BY <1>3
  <2>3. ft2[s].f = x
    BY <2>1, <2>2 DEF Outcome
  <2>4. QED
    BY <2>1, <2>3
<1>4. ASSUME NEW x, x \in {ft2[s].f : s \in Sft} \ {NULL, StdStream}
      PROVE  x \in op2
  <2>1. PICK s \in Sft : x = ft2[s].f /\ x \notin {NULL, StdStream}
    BY <1>4
  <2>2. x = ft[s].f /\ closed[s] = {}
    BY <1>1, <2>1
  <2>3. x \in op
    BY <2>1, <2>2 DEF HostOK
  <2>4. ASSUME NEW t \in Sft, x \in closed[t] PROVE FALSE
    <3>1. ft[t].f = ft[s].f
      BY <1>2, <2>2, <2>4
    <3>2. s = t
      BY <2>1, <2>2, <3>1 DEF HostOK
    <3>3. QED
      BY <2>2, <2>4, <3>2
  <2>5. QED
    BY <2>3, <2>4
<1>5. op2 = {ft2[s].f : s \in Sft} \ {NULL, StdStream}
  <2> HIDE DEF op2
  <2> QED BY <1>3, <1>4
<1>6. ASSUME NEW s \in Sft, NEW t \in Sft, ft2[s].f = ft2[t].f
      PROVE  s = t \/ ft2[s].f \in {NULL, StdStream}
  BY <1>1, <1>6 DEF HostOK
<1>7. QED
  BY <1>5, <1>6 DEF HostOK

(* Closing handles of any number of entries. *)
Closing(ft, r, op, D, ft2, r2, op2) ==
    /\ D \in Handsets /\ \A s \in Sft : D[s] \subseteq r[s]
    /\ ft2 = ReleasedTable(ft, D)
    /\ r2 = Without(r, D)
    /\ op2 = op \ UNION {ReleasedStreams(ft, D)[s] : s \in Sft}

LEMMA ReleaseGood ==
  ASSUME NEW ft, NEW r, NEW op, Good(ft, r, op),
         NEW D, NEW ft2, NEW r2, NEW op2, Closing(ft, r, op, D, ft2, r2, op2)
  PROVE  Good(ft2, r2, op2) /\ Keeps(ft, r, ft2, r2)
<1> DEFINE closed == ReleasedStreams(ft, D)
           others == [s \in Sft |-> r[s] \ D[s] # {}]
<1> USE DEF Closing
<1>1. ASSUME NEW s \in Sft
      PROVE  /\ ft2[s] \in Entry /\ EntryOK(s, ft2[s], r2[s])
             /\ Outcome(ft[s], ft2[s], closed[s], others[s])
  <2>1. ft[s] \in Entry /\ EntryOK(s, ft[s], r[s]) /\ D[s] \in SUBSET r[s]
    BY DEF Good
  <2>2. r2[s] = r[s] \ D[s] /\ others[s] = (r[s] \ D[s] # {})
    BY DEF Without
  <2>3. CASE D[s] = {}
    <3>1. ft2[s] = ft[s] /\ closed[s] = {} /\ r2[s] = r[s]
      BY <2>2, <2>3 DEF ReleasedTable, ReleasedStreams
    <3>2. QED
      BY <2>1, <3>1 DEF Outcome
  <2>4. CASE D[s] # {}
    <3>1. /\ ft2[s] = Released(ft[s], Cardinality(D[s]))
          /\ closed[s] = Fclosed(ft[s], Cardinality(D[s]))
      BY <2>4 DEF ReleasedTable, ReleasedStreams
    <3> HIDE DEF closed, others
    <3>2. PICK n : n = Cardinality(D[s])
      OBVIOUS
    <3>3. PICK e, R, d : e = ft[s] /\ R = r[s] /\ d = D[s]
      OBVIOUS
    <3>4. e \in Entry /\ EntryOK(s, e, R) /\ d \in SUBSET R /\ d # {} /\ n = Cardinality(d)
      BY <2>1, <2>4, <3>2, <3>3
    <3>5. /\ Released(e, n) \in Entry
          /\ EntryOK(s, Released(e, n), R \ d)
          /\ Outcome(e, Released(e, n), Fclosed(e, n), R \ d # {})
      BY <3>4, ReleasedOK
    <3>6. QED
      BY <2>2, <3>1, <3>2, <3>3, <3>5
  <2>5. QED
    BY <2>3, <2>4
<1>2. ft2 \in [Sft -> Entry] /\ r2 \in Handsets
  <2>1. ft2 = [s \in Sft |-> ft2[s]] /\ r2 = [s \in Sft |-> r2[s]]
    BY DEF ReleasedTable, Without
  <2>2. \A s \in Sft : r2[s] \in SUBSET Pairs
    BY DEF Without, Good, Handsets
  <2>3. QED
    BY <1>1, <2>1, <2>2 DEF Handsets
<1>3. HostOK(ft2, op \ UNION {closed[s] : s \in Sft})
  <2>1. HostOK(ft, op)
    BY DEF Good
  <2> HIDE DEF closed, others
  <2>2. QED
    BY <1>1, <2>1, HostAfter
<1>4. Keeps(ft, r, ft2, r2)
  <2> SUFFICES ASSUME NEW s \in Sft, ft[s].f # NULL, r[s] \cap r2[s] # {}
               PROVE  ft2[s].f = ft[s].f
    BY DEF Keeps
  <2>1. others[s]
    BY DEF Without
  <2> HIDE DEF closed, others
  <2>2. QED
    BY <1>1, <2>1 DEF Outcome
<1>5. op2 = op \ UNION {closed[s] : s \in Sft}
  OBVIOUS
<1> HIDE DEF closed
<1>6. Good(ft2, r2, op2)
  BY <1>1, <1>2, <1>3, <1>5 DEF Good, Handsets
<1>7. QED
  BY <1>4, <1>6

(* Handing out more handles on open entries. *)
Counting(ft, r, D, ft2, r2) ==
    /\ D \in Handsets
    /\ \A s \in Sft : /\ IsFiniteSet(D[s]) /\ r[s] \cap D[s] = {}
                      /\ D[s] # {} => ft[s].f # NULL
    /\ ft2 = CountedTable(ft, D)
    /\ r2 = With(r, D)

LEMMA CountGood ==
  ASSUME NEW ft, NEW r, NEW op, Good(ft, r, op),
         NEW D, NEW ft2, NEW r2, Counting(ft, r, D, ft2, r2)
  PROVE  Good(ft2, r2, op) /\ Keeps(ft, r, ft2, r2)
<1> USE DEF Counting
<1>1. ASSUME NEW s \in Sft
      PROVE  ft2[s] \in Entry /\ EntryOK(s, ft2[s], r2[s]) /\ ft2[s].f = ft[s].f
  <2>1. ft[s] \in Entry /\ EntryOK(s, ft[s], r[s])
    BY DEF Good
  <2>2. PICK n : n = Cardinality(D[s])
    OBVIOUS
  <2>3. r2[s] = r[s] \cup D[s] /\ ft2[s] = Counted(ft[s], n)
    BY <2>2 DEF With, CountedTable
  <2>4. PICK e, R, d : e = ft[s] /\ R = r[s] /\ d = D[s]
    OBVIOUS
  <2>5. /\ e \in Entry /\ EntryOK(s, e, R) /\ IsFiniteSet(d) /\ R \cap d = {}
        /\ d # {} => e.f # NULL
        /\ n = Cardinality(d)
    BY <2>1, <2>2, <2>4
  <2>6. /\ Counted(e, n) \in Entry
        /\ EntryOK(s, Counted(e, n), R \cup d)
        /\ Counted(e, n).f = e.f
    BY <2>5, CountedOK
  <2>7. QED
    BY <2>3, <2>4, <2>6
<1>2. ft2 \in [Sft -> Entry] /\ r2 \in Handsets
  <2>1. ft2 = [s \in Sft |-> ft2[s]] /\ r2 = [s \in Sft |-> r2[s]]
    BY DEF CountedTable, With
  <2>2. \A s \in Sft : r2[s] \in SUBSET Pairs
    BY DEF With, Good, Handsets
  <2>3. QED
    BY <1>1, <2>1, <2>2 DEF Handsets
<1>3. HostOK(ft2, op)
  <2>1. {ft2[s].f : s \in Sft} = {ft[s].f : s \in Sft}
    BY <1>1
  <2>2. QED
    BY <1>1, <2>1 DEF HostOK, Good
<1>4. QED
  BY <1>1, <1>2, <1>3 DEF Good, Keeps, Handsets

(* A free entry is filled for one handle, x: with a stream that was not    *)
(* open, or with none by an open that fails later.                         *)
Filled(ft, s, f, isfile) ==
    [ft EXCEPT ![s] = [f |-> f, count |-> 1, isfile |-> isfile,
                       shown |-> IF f # NULL /\ isfile THEN TRUE ELSE @.shown]]

LEMMA FillGood ==
  ASSUME NEW ft, NEW r, NEW op, Good(ft, r, op), op \subseteq Streams,
         NEW s \in Sft, ft[s].count = 0, ft[s].f = NULL,
         NEW f, NEW isfile \in BOOLEAN,
         \/ f = NULL /\ isfile
         \/ f \in Streams \ op,
         NEW x \in Pairs,
         NEW ft2, ft2 = Filled(ft, s, f, isfile),
         NEW r2, r2 = [r EXCEPT ![s] = @ \cup {x}],
         NEW op2, op2 = op \cup ({f} \ {NULL})
  PROVE  Good(ft2, r2, op2) /\ Keeps(ft, r, ft2, r2)
<1>1. /\ ft \in [Sft -> Entry] /\ r \in [Sft -> SUBSET Pairs]
      /\ EntryOK(s, ft[s], r[s])
  BY DEF Good
<1>2. r[s] = {}
  <2>1. Cardinality(r[s]) <= 0 /\ IsFiniteSet(r[s])
    BY <1>1 DEF EntryOK
  <2>2. Cardinality(r[s]) \in Nat
    BY <2>1, FS_CardinalityType
  <2>3. Cardinality(r[s]) = 0
    BY <2>1, <2>2
  <2>4. QED
    BY <2>1, <2>3, FS_EmptySet
<1>3. r2 \in [Sft -> SUBSET Pairs] /\ r2[s] = {x} /\ \A t \in Sft \ {s} : r2[t] = r[t]
  BY <1>1, <1>2
<1>4. IsFiniteSet({x}) /\ Cardinality({x}) = 1
  BY FS_Singleton
<1>5. ~ ft[s].shown /\ f # StdStream
  BY <1>1, Constants DEF EntryOK
<1>6. PICK e : e = [f |-> f, count |-> 1, isfile |-> isfile, shown |-> f # NULL /\ isfile]
  OBVIOUS
<1>7. /\ e.f = f /\ e.count = 1 /\ e.isfile = isfile
      /\ e.shown = (f # NULL /\ isfile) /\ e \in Entry
  <2>1. f \in Streams \cup {NULL, StdStream} /\ (f # NULL /\ isfile) \in BOOLEAN
    OBVIOUS
  <2>2. QED
    BY <1>6, <2>1 DEF Entry
<1>8. ft2 = [ft EXCEPT ![s] = e]
  <2>1. ft[s].shown = FALSE
    BY <1>1, <1>5 DEF Entry
  <2>2. (IF f # NULL /\ isfile THEN TRUE ELSE ft[s].shown) = (f # NULL /\ isfile)
    BY <2>1
  <2>3. QED
    BY <1>1, <1>6, <2>2 DEF Filled
<1>9. /\ ft2 \in [Sft -> Entry] /\ ft2[s] = e
      /\ \A t \in Sft \ {s} : ft2[t] = ft[t]
  BY <1>1, <1>7, <1>8
<1>10. EntryOK(s, e, {x})
  <2>1. IF Loose(s) THEN Cardinality({x}) <= e.count ELSE e.count = Cardinality({x})
    BY <1>4, <1>7
  <2>2. e.shown => e.isfile /\ e.f # NULL
    BY <1>7
  <2>3. e.f \in Streams /\ e.isfile => e.shown
    BY <1>7, Constants
  <2>4. QED
    BY <1>4, <1>5, <1>7, <2>1, <2>2, <2>3 DEF EntryOK
<1>11. ASSUME NEW t \in Sft PROVE EntryOK(t, ft2[t], r2[t])
  BY <1>3, <1>9, <1>10 DEF Good
<1>12. HostOK(ft2, op2)
  <2>1. /\ op = {ft[t].f : t \in Sft} \ {NULL, StdStream}
        /\ \A t, u \in Sft : ft[t].f = ft[u].f => t = u \/ ft[t].f \in {NULL, StdStream}
    BY DEF Good, HostOK
  <2>2. op2 = {ft2[t].f : t \in Sft} \ {NULL, StdStream}
    <3>1. ASSUME NEW y \in op2 PROVE y \in {ft2[t].f : t \in Sft} \ {NULL, StdStream}
      <4>1. CASE y = f
        BY <1>5, <1>7, <1>9, <3>1, <4>1, Constants
      <4>2. CASE y # f
        <5>1. PICK t \in Sft : y = ft[t].f /\ y \notin {NULL, StdStream}
          BY <2>1, <3>1, <4>2
        <5>2. t # s
          BY <5>1
        <5>3. QED
          BY <1>9, <5>1, <5>2
      <4>3. QED
        BY <4>1, <4>2
    <3>2. ASSUME NEW t \in Sft, ft2[t].f \notin {NULL, StdStream} PROVE ft2[t].f \in op2
      <4>1. CASE t = s
        BY <1>7, <1>9, <3>2, <4>1
      <4>2. CASE t # s
        BY <1>9, <2>1, <3>2, <4>2
      <4>3. QED
        BY <4>1, <4>2
    <3>3. QED
      BY <3>1, <3>2
  <2>3. ASSUME NEW t \in Sft, NEW u \in Sft, ft2[t].f = ft2[u].f
        PROVE  t = u \/ ft2[t].f \in {NULL, StdStream}
    <3>1. ASSUME NEW v \in Sft \ {s}, ft[v].f = f PROVE f = NULL
      BY <1>5, <2>1, <3>1
    <3>2. QED
      BY <1>7, <1>9, <2>1, <2>3, <3>1
  <2>4. QED
    BY <2>2, <2>3 DEF HostOK
<1>13. Good(ft2, r2, op2)
  BY <1>3, <1>9, <1>11, <1>12 DEF Good
<1>14. Keeps(ft, r, ft2, r2)
  BY <1>9 DEF Keeps
<1>15. QED
  BY <1>13, <1>14

(* Reopening the standard entries. *)
LEMMA RestoreGood ==
  ASSUME NEW ft, NEW r, NEW op, Good(ft, r, op)
  PROVE  /\ Good(Restored(ft), r, op)
         /\ Keeps(ft, r, Restored(ft), r)
<1> DEFINE ft2 == Restored(ft)
<1>1. ASSUME NEW s \in Sft
      PROVE  /\ ft2[s] \in Entry /\ EntryOK(s, ft2[s], r[s])
             /\ ft2[s].f = ft[s].f \/ {ft[s].f, ft2[s].f} \subseteq {NULL, StdStream}
             /\ ft[s].f # NULL => ft2[s].f = ft[s].f
  <2>1. ft[s] \in Entry /\ EntryOK(s, ft[s], r[s])
    BY DEF Good
  <2>2. CASE ~ (s < Standard /\ ft[s].f \in {NULL, StdStream})
    <3>1. ft2[s] = ft[s]
      BY <2>2 DEF Restored
    <3>2. QED
      BY <2>1, <3>1
  <2>3. CASE s < Standard /\ ft[s].f \in {NULL, StdStream}
    <3>1. PICK e : e = ft[s]
      OBVIOUS
    <3>2. PICK isfile : isfile = IF s < 3 THEN s \in Redirected ELSE e.isfile
      OBVIOUS
    <3>3. isfile \in BOOLEAN
      <4>1. e.isfile \in BOOLEAN /\ (s \in Redirected) \in BOOLEAN
        BY <2>1, <3>1 DEF Entry
      <4>2. isfile = e.isfile \/ isfile = (s \in Redirected)
        BY <3>2
      <4>3. QED
        BY <4>1, <4>2
    <3>4. ft2[s] = [e EXCEPT !.f = StdStream, !.isfile = isfile]
      BY <2>3, <3>1, <3>2 DEF Restored
    <3>5. /\ ft2[s] \in Entry /\ ft2[s].f = StdStream /\ ft2[s].count = e.count
          /\ ft2[s].isfile = isfile /\ ft2[s].shown = e.shown
      <4> HIDE DEF ft2
      <4> QED BY <2>1, <3>1, <3>3, <3>4 DEF Entry
    <3> HIDE DEF ft2
    <3>6. e.shown => isfile
      BY <2>1, <2>3, <3>1, <3>2 DEF EntryOK
    <3>7. EntryOK(s, ft2[s], r[s])
      BY <2>1, <3>1, <3>2, <3>5, <3>6, Constants DEF EntryOK
    <3>8. QED
      BY <2>3, <3>1, <3>5, <3>7
  <2>4. QED
    BY <2>2, <2>3
<1>2. ft2 \in [Sft -> Entry]
  <2>1. ft2 = [s \in Sft |-> ft2[s]]
    BY DEF Restored
  <2> HIDE DEF ft2
  <2>2. QED
    BY <1>1, <2>1
<1> HIDE DEF ft2
<1>3. HostOK(ft2, op)
  <2>1. /\ op = {ft[t].f : t \in Sft} \ {NULL, StdStream}
        /\ \A t, u \in Sft : ft[t].f = ft[u].f => t = u \/ ft[t].f \in {NULL, StdStream}
    BY DEF Good, HostOK
  <2>2. \A x : x \notin {NULL, StdStream} =>
           \A s \in Sft : ft[s].f = x <=> ft2[s].f = x
    BY <1>1
  <2>3. {ft[t].f : t \in Sft} \ {NULL, StdStream} = {ft2[t].f : t \in Sft} \ {NULL, StdStream}
    BY <2>2
  <2>4. QED
    BY <2>1, <2>2, <2>3 DEF HostOK
<1>4. QED
  BY <1>1, <1>2, <1>3 DEF Good, Keeps, ft2

--------------------------------------------------------------------------------
(* The inductive invariant.  A process is in the line of descent once, and *)
(* not among the resident ones; the handles of processes that ended name   *)
(* nothing; table, handles and streams agree.                              *)
Distinct ==
    /\ \A i, j \in DOMAIN line : line[i] = line[j] => i = j
    /\ \A i \in DOMAIN line : line[i] \notin resident

Ended == \A p \in Procs \ Using, h \in Jft : jft[p][h] = Unused

IInv ==
    /\ TypeOK
    /\ Distinct
    /\ Ended
    /\ Good(filetable, Refs(jft), opened)

Tables == [Procs -> [Jft -> Sft \cup {Unused}]]

(* What every step but exit and the like has to show. *)
Step ==
    /\ IInv'
    /\ Keeps(filetable, Refs(jft), filetable', Refs(jft'))

(* The running process. *)
LEMMA CurrentFacts ==
  ASSUME TypeOK
  PROVE  /\ 1 \in DOMAIN line /\ current = line[1] /\ Len(line) \in Nat
         /\ DOMAIN line = 1 .. Len(line)
         /\ current \in Using /\ Using \subseteq Procs /\ current \in Procs
<1>1. line \in Seq(Procs) /\ line # <<>> /\ resident \subseteq Procs
  BY DEF TypeOK
<1>2. /\ Len(line) \in Nat /\ DOMAIN line = 1 .. Len(line)
      /\ \A i \in DOMAIN line : line[i] \in Procs
  BY <1>1
<1>3. 1 \in DOMAIN line
  BY <1>1, <1>2
<1>4. current = line[1]
  BY <1>1 DEF current
<1>5. QED
  BY <1>1, <1>2, <1>3, <1>4 DEF Using

(* Handle h of process p, the pair x, is given the value v. *)
SetTo(j, j2, p, h, v, x) ==
    /\ j \in Tables /\ p \in Procs /\ h \in Jft /\ v \in Sft \cup {Unused}
    /\ j2 = [j EXCEPT ![p][h] = v]
    /\ x = <<p, h>>

(* Giving one handle another value moves it between the sets. *)
LEMMA SetOneHandle ==
  ASSUME NEW j, NEW j2, NEW p, NEW h, NEW v, NEW x, SetTo(j, j2, p, h, v, x)
  PROVE  /\ j2 \in Tables
         /\ Refs(j) \in Handsets /\ Refs(j2) \in Handsets
         /\ x \in Pairs
         /\ \A s \in Sft : x \in Refs(j)[s] <=> s = j[p][h]
         /\ \A s \in Sft : Refs(j2)[s] =
               (Refs(j)[s] \ {x}) \cup (IF s = v THEN {x} ELSE {})
<1> USE DEF SetTo
<1>1. j2 \in Tables /\ j2[p][h] = v
  BY DEF Tables
<1>2. ASSUME NEW y \in Pairs, y # x PROVE j2[y[1]][y[2]] = j[y[1]][y[2]]
  <2>1. y[1] \in Procs /\ y[2] \in Jft /\ (y[1] # p \/ y[2] # h)
    BY <1>2 DEF Pairs
  <2>2. QED
    BY <2>1 DEF Tables
<1>3. x \in Pairs /\ x[1] = p /\ x[2] = h
  BY DEF Pairs
<1>4. Refs(j) \in Handsets /\ Refs(j2) \in Handsets
  BY DEF Refs, Handsets
<1>5. ASSUME NEW s \in Sft PROVE x \in Refs(j)[s] <=> s = j[p][h]
  BY <1>3 DEF Refs
<1>6. ASSUME NEW s \in Sft
      PROVE  Refs(j2)[s] = (Refs(j)[s] \ {x}) \cup (IF s = v THEN {x} ELSE {})
  <2>1. /\ Refs(j2)[s] = {y \in Pairs : j2[y[1]][y[2]] = s}
        /\ Refs(j)[s] = {y \in Pairs : j[y[1]][y[2]] = s}
    BY DEF Refs
  <2>2. x \in Refs(j2)[s] <=> s = v
    BY <1>1, <1>3, <2>1
  <2>3. \A y \in Pairs : y # x => (y \in Refs(j2)[s] <=> y \in Refs(j)[s])
    BY <1>2, <2>1
  <2>4. Refs(j2)[s] \subseteq Pairs /\ Refs(j)[s] \subseteq Pairs
    BY <2>1
  <2>5. QED
    BY <1>3, <2>2, <2>3, <2>4
<1>7. QED
  BY <1>1, <1>3, <1>4, <1>5, <1>6

(* One pair in the set of one entry. *)
Only(s, x) == [t \in Sft |-> IF t = s THEN {x} ELSE {}]

(* A handle that is free comes to name s, and one that names s is freed. *)
LEMMA TakeHandle ==
  ASSUME NEW j, NEW j2, NEW p, NEW h, NEW s \in Sft, NEW x,
         SetTo(j, j2, p, h, s, x), j[p][h] = Unused
  PROVE  Refs(j2) = [Refs(j) EXCEPT ![s] = @ \cup {x}]
<1>1. /\ Refs(j) \in Handsets /\ Refs(j2) \in Handsets
      /\ \A t \in Sft : x \in Refs(j)[t] <=> t = j[p][h]
      /\ \A t \in Sft : Refs(j2)[t] = (Refs(j)[t] \ {x}) \cup (IF t = s THEN {x} ELSE {})
  BY SetOneHandle
<1>2. \A t \in Sft : x \notin Refs(j)[t]
  BY <1>1, Constants
<1>3. ASSUME NEW t \in Sft
      PROVE  Refs(j2)[t] = IF t = s THEN Refs(j)[t] \cup {x} ELSE Refs(j)[t]
  <2>1. CASE t = s
    BY <1>1, <2>1
  <2>2. CASE t # s
    <3>1. Refs(j2)[t] = (Refs(j)[t] \ {x}) \cup {}
      BY <1>1, <2>2
    <3>2. QED
      BY <1>2, <2>2, <3>1
  <2>3. QED
    BY <2>1, <2>2
<1>4. PICK r, r2 : r = Refs(j) /\ r2 = Refs(j2)
  OBVIOUS
<1>5. r2 = [r EXCEPT ![s] = @ \cup {x}]
  BY <1>1, <1>3, <1>4 DEF Handsets
<1>6. QED
  BY <1>4, <1>5

LEMMA DropHandle ==
  ASSUME NEW j, NEW j2, NEW p, NEW h, NEW x,
         SetTo(j, j2, p, h, Unused, x), NEW s \in Sft, s = j[p][h]
  PROVE  /\ Refs(j2) = Without(Refs(j), Only(s, x))
         /\ x \in Refs(j)[s]
<1>1. /\ Refs(j) \in Handsets /\ Refs(j2) \in Handsets
      /\ \A t \in Sft : x \in Refs(j)[t] <=> t = j[p][h]
      /\ \A t \in Sft : Refs(j2)[t] = (Refs(j)[t] \ {x}) \cup (IF t = Unused THEN {x} ELSE {})
  BY SetOneHandle
<1>2. \A t \in Sft : Refs(j2)[t] = Refs(j)[t] \ Only(s, x)[t]
  BY <1>1, Constants DEF Only
<1>3. PICK r, r2 : r = Refs(j) /\ r2 = Refs(j2)
  OBVIOUS
<1>4. r2 = Without(r, Only(s, x))
  <2>1. r2 \in Handsets /\ \A t \in Sft : r2[t] = r[t] \ Only(s, x)[t]
    BY <1>1, <1>2, <1>3
  <2>2. QED
    BY <2>1 DEF Handsets, Without
<1>5. QED
  BY <1>1, <1>3, <1>4

(* The running process gives one of its handles another value. *)
LEMMA OneHandleStep ==
  ASSUME IInv, NEW h \in Jft, NEW v \in Sft \cup {Unused},
         jft' = [jft EXCEPT ![current][h] = v],
         UNCHANGED <<size, line, resident>>,
         opened' \subseteq Streams,
         Good(filetable', Refs(jft'), opened')
  PROVE  IInv'
<1>1. TypeOK /\ jft \in Tables
  BY DEF IInv, TypeOK, Tables
<1>2. current \in Procs /\ current \in Using
  BY <1>1, CurrentFacts
<1>3. /\ jft' \in Tables
      /\ \A p \in Procs \ {current} : jft'[p] = jft[p]
  <2>1. jft' \in Tables
    BY <1>1, <1>2 DEF Tables
  <2>2. QED
    BY <1>1, <2>1 DEF Tables
<1>4. Distinct' /\ Using' = Using
  BY DEF IInv, Distinct, Using
<1>5. Ended'
  <2>1. \A p \in Procs \ Using : p # current
    BY <1>2
  <2>2. QED
    BY <1>3, <1>4, <2>1 DEF IInv, Ended
<1>6. TypeOK'
  BY <1>1, <1>3 DEF TypeOK, Tables, Good
<1>7. QED
  BY <1>4, <1>5, <1>6 DEF IInv

(* Free handles and entries, and the first of them. *)
LEMMA FirstFree ==
  /\ FreeHandles # {} => Min(FreeHandles) \in FreeHandles
  /\ FreeSft # {} => Min(FreeSft) \in FreeSft
<1>1. FreeHandles \subseteq Nat /\ FreeSft \subseteq Nat
  BY Constants DEF FreeHandles, FreeSft, Naming
<1>2. QED
  BY <1>1, MinProperty

(* A handle that is opened, whether the host opens a stream or refuses.    *)
LEMMA AssignStep ==
  ASSUME IInv, NEW f, NEW isfile \in BOOLEAN, Assign(f, isfile),
         \/ f = NULL /\ isfile
         \/ f \in Streams \ opened,
         opened' = opened \cup ({f} \ {NULL})
  PROVE  Step
<1> DEFINE h == Min(FreeHandles)
           s == Min(FreeSft)
           r == Refs(jft)
<1>1. /\ h \in FreeHandles /\ s \in FreeSft
      /\ jft' = [jft EXCEPT ![current][h] = s]
      /\ filetable' = Filled(filetable, s, f, isfile)
      /\ UNCHANGED <<size, line, resident>>
  BY FirstFree DEF Assign, Filled
<1> HIDE DEF h, s
<1>2. /\ h \in Jft /\ jft[current][h] = Unused
      /\ s \in Sft /\ filetable[s].count = 0 /\ filetable[s].f = NULL
  BY <1>1 DEF FreeHandles, Naming, FreeSft
<1>3. TypeOK /\ jft \in Tables /\ opened \subseteq Streams
  BY DEF IInv, TypeOK, Tables
<1>4. current \in Procs
  BY <1>3, CurrentFacts
<1>5. PICK x : x = <<current, h>>
  OBVIOUS
<1>6. Refs(jft') = [r EXCEPT ![s] = @ \cup {x}] /\ x \in Pairs
  <2>1. PICK j, j2, p : j = jft /\ j2 = jft' /\ p = current
    OBVIOUS
  <2>2. SetTo(j, j2, p, h, s, x) /\ j[p][h] = Unused
    BY <1>1, <1>2, <1>3, <1>4, <1>5, <2>1 DEF SetTo
  <2>3. Refs(j2) = [Refs(j) EXCEPT ![s] = @ \cup {x}]
    BY <1>2, <2>2, TakeHandle
  <2>4. x \in Pairs
    BY <2>2 DEF Pairs, SetTo
  <2>5. QED
    BY <2>1, <2>3, <2>4
<1>7. /\ Good(filetable', Refs(jft'), opened')
      /\ Keeps(filetable, Refs(jft), filetable', Refs(jft'))
  <2>1. PICK ft, op, q, ft2, op2, q2 :
           /\ ft = filetable /\ op = opened /\ q = r
           /\ ft2 = filetable' /\ op2 = opened' /\ q2 = Refs(jft')
    OBVIOUS
  <2>2. /\ Good(ft, q, op) /\ op \subseteq Streams
        /\ ft[s].count = 0 /\ ft[s].f = NULL
        /\ (f = NULL /\ isfile) \/ f \in Streams \ op
        /\ ft2 = Filled(ft, s, f, isfile)
        /\ q2 = [q EXCEPT ![s] = @ \cup {x}]
        /\ op2 = op \cup ({f} \ {NULL})
    BY <1>1, <1>2, <1>3, <1>6, <2>1 DEF IInv
  <2>3. Good(ft2, q2, op2) /\ Keeps(ft, q, ft2, q2)
    BY <1>2, <1>6, <2>2, FillGood
  <2>4. QED
    BY <2>1, <2>3
<1>8. opened' \subseteq Streams
  BY <1>3
<1>9. IInv'
  BY <1>1, <1>2, <1>7, <1>8, OneHandleStep
<1>10. QED
  BY <1>7, <1>9 DEF Step

--------------------------------------------------------------------------------
(* Closing one handle. *)
ClosesOne(ft, r, op, s, x, ft2, r2, op2) ==
    /\ s \in Sft /\ x \in r[s]
    /\ ft2 = [ft EXCEPT ![s] = Released(@, 1)]
    /\ r2 = Without(r, Only(s, x))
    /\ op2 = op \ Fclosed(ft[s], 1)

LEMMA CloseOne ==
  ASSUME NEW ft, NEW r, NEW op, Good(ft, r, op), NEW s, NEW x,
         NEW ft2, NEW r2, NEW op2, ClosesOne(ft, r, op, s, x, ft2, r2, op2)
  PROVE  Good(ft2, r2, op2) /\ Keeps(ft, r, ft2, r2)
<1> USE DEF ClosesOne
<1> DEFINE D == Only(s, x)
           closed == ReleasedStreams(ft, D)
<1>1. ft \in [Sft -> Entry] /\ r \in Handsets
  BY DEF Good, Handsets
<1>2. D[s] = {x} /\ \A t \in Sft \ {s} : D[t] = {}
  BY DEF Only
<1>3. D \in Handsets /\ \A t \in Sft : D[t] \subseteq r[t]
  <2>1. x \in Pairs
    BY <1>1 DEF Handsets
  <2>2. \A t \in Sft : D[t] \in SUBSET Pairs
    BY <1>2, <2>1
  <2>3. D = [t \in Sft |-> D[t]]
    BY DEF Only
  <2> HIDE DEF D
  <2>4. QED
    BY <1>2, <2>2, <2>3 DEF Handsets
<1>4. Cardinality(D[s]) = 1
  BY <1>2, FS_Singleton
<1> HIDE DEF D
<1>5. ft2 = ReleasedTable(ft, D)
  BY <1>1, <1>2, <1>4 DEF ReleasedTable
<1>6. closed[s] = Fclosed(ft[s], 1) /\ \A t \in Sft \ {s} : closed[t] = {}
  BY <1>2, <1>4 DEF ReleasedStreams
<1> HIDE DEF closed
<1>7. UNION {closed[t] : t \in Sft} = Fclosed(ft[s], 1)
  BY <1>6
<1>8. Closing(ft, r, op, D, ft2, r2, op2)
  BY <1>3, <1>5, <1>7 DEF Closing, D, closed
<1>9. QED
  BY <1>8, ReleaseGood

(* One more handle on an open entry. *)
CountsOne(ft, r, s, x, ft2, r2) ==
    /\ s \in Sft /\ ft[s].f # NULL
    /\ x \in Pairs /\ x \notin r[s]
    /\ ft2 = [ft EXCEPT ![s].count = @ + 1]
    /\ r2 = [r EXCEPT ![s] = @ \cup {x}]

LEMMA CountOne ==
  ASSUME NEW ft, NEW r, NEW op, Good(ft, r, op), NEW s, NEW x,
         NEW ft2, NEW r2, CountsOne(ft, r, s, x, ft2, r2)
  PROVE  Good(ft2, r2, op) /\ Keeps(ft, r, ft2, r2)
<1> USE DEF CountsOne
<1> DEFINE D == Only(s, x)
<1>1. ft \in [Sft -> Entry] /\ r \in Handsets
  BY DEF Good, Handsets
<1>2. D[s] = {x} /\ \A t \in Sft \ {s} : D[t] = {}
  BY DEF Only
<1>3. D \in Handsets
  <2>1. \A t \in Sft : D[t] \in SUBSET Pairs
    BY <1>2
  <2>2. D = [t \in Sft |-> D[t]]
    BY DEF Only
  <2> HIDE DEF D
  <2>3. QED
    BY <2>1, <2>2 DEF Handsets
<1>4. /\ Cardinality(D[s]) = 1
      /\ \A t \in Sft \ {s} : Cardinality(D[t]) = 0
      /\ \A t \in Sft : IsFiniteSet(D[t])
  <2>1. IsFiniteSet({x}) /\ Cardinality({x}) = 1
    BY FS_Singleton
  <2>2. IsFiniteSet({}) /\ Cardinality({}) = 0
    BY FS_EmptySet
  <2>3. QED
    BY <1>2, <2>1, <2>2
<1> HIDE DEF D
<1>5. ft2 = CountedTable(ft, D)
  <2>1. ASSUME NEW e \in Entry PROVE Counted(e, 0) = e
    <3>1. e.count \in Nat
      BY DEF Entry
    <3>2. e.count + 0 = e.count
      BY <3>1
    <3>3. QED
      BY <3>2 DEF Counted, Entry
  <2>2. ASSUME NEW t \in Sft PROVE ft2[t] = Counted(ft[t], Cardinality(D[t]))
    BY <1>1, <1>4, <2>1 DEF Counted
  <2>3. ft2 = [t \in Sft |-> ft2[t]]
    BY <1>1
  <2>4. QED
    BY <2>2, <2>3 DEF CountedTable
<1>6. r2 = With(r, D)
  BY <1>1, <1>2 DEF With, Handsets
<1>7. Counting(ft, r, D, ft2, r2)
  BY <1>2, <1>3, <1>4, <1>5, <1>6 DEF Counting
<1>8. QED
  BY <1>7, CountGood

(* Handles that are lost leave a count too high, at an entry that may have *)
(* it so.                                                                  *)
LEMMA ForgetGood ==
  ASSUME NEW ft, NEW r, NEW op, Good(ft, r, op),
         NEW r2 \in Handsets,
         \A s \in Sft : r2[s] \subseteq r[s] /\ (Loose(s) \/ r2[s] = r[s])
  PROVE  Good(ft, r2, op)
<1>1. ft \in [Sft -> Entry] /\ r \in Handsets
  BY DEF Good, Handsets
<1>2. ASSUME NEW s \in Sft, Loose(s) PROVE EntryOK(s, ft[s], r2[s])
  <2>1. PICK R, R2, e : R = r[s] /\ R2 = r2[s] /\ e = ft[s]
    OBVIOUS
  <2>2. EntryOK(s, e, R) /\ e \in Entry
    BY <1>1, <2>1 DEF Good
  <2>3. IsFiniteSet(R) /\ R2 \in SUBSET R
    BY <2>1, <2>2 DEF EntryOK
  <2>4. /\ IsFiniteSet(R2) /\ Cardinality(R2) <= Cardinality(R)
        /\ Cardinality(R) \in Nat /\ Cardinality(R2) \in Nat
    BY <2>3, FS_Subset, FS_CardinalityType
  <2>5. e.count \in Nat /\ Cardinality(R) <= e.count
    BY <1>2, <2>2 DEF EntryOK, Entry
  <2>6. /\ Cardinality(R2) <= e.count
        /\ e.f = NULL => Cardinality(R2) <= 1
    BY <2>2, <2>4, <2>5 DEF EntryOK
  <2>7. QED
    BY <1>2, <2>1, <2>2, <2>4, <2>6 DEF EntryOK
<1>3. ASSUME NEW s \in Sft, ~ Loose(s) PROVE EntryOK(s, ft[s], r2[s])
  <2>1. r2[s] = r[s]
    BY <1>3
  <2>2. QED
    BY <2>1 DEF Good
<1>4. \A s \in Sft : EntryOK(s, ft[s], r2[s])
  BY <1>2, <1>3
<1>5. QED
  BY <1>1, <1>4 DEF Good, Handsets

(* The handle that is not closed when entry 1 is replaced. *)
LEMMA ForgetOne ==
  ASSUME NEW ft, NEW r, NEW op, Good(ft, r, op), 1 \in Sft, NEW x,
         NEW r2, r2 = Without(r, Only(1, x))
  PROVE  Good(ft, r2, op)
<1>1. ft \in [Sft -> Entry] /\ r \in Handsets
  BY DEF Good, Handsets
<1>2. \A t \in Sft : r2[t] = IF t = 1 THEN r[1] \ {x} ELSE r[t]
  BY DEF Without, Only
<1>3. r2 \in Handsets
  <2>1. r2 = [t \in Sft |-> r2[t]]
    BY DEF Without
  <2>2. QED
    BY <1>1, <1>2, <2>1 DEF Handsets
<1>4. \A s \in Sft : r2[s] \subseteq r[s] /\ (Loose(s) \/ r2[s] = r[s])
  BY <1>2 DEF Loose
<1>5. QED
  BY <1>3, <1>4, ForgetGood

(* dos_close_file. *)
LEMMA CloseStep == ASSUME IInv, NEW h \in Jft, dos_close_file(h) PROVE Step
<1> DEFINE s == jft[current][h]
<1>1. TypeOK /\ jft \in Tables /\ opened \subseteq Streams
  BY DEF IInv, TypeOK, Tables
<1>2. current \in Procs
  BY <1>1, CurrentFacts
<1>3. s \in Sft
  BY <1>1, <1>2 DEF dos_close_file, Tables
<1>4. PICK j, j2, p, x, ft, ft2, op, op2 :
         /\ j = jft /\ j2 = jft' /\ p = current /\ x = <<current, h>>
         /\ ft = filetable /\ ft2 = filetable' /\ op = opened /\ op2 = opened'
  OBVIOUS
<1>5. SetTo(j, j2, p, h, Unused, x) /\ s = j[p][h]
  BY <1>1, <1>2, <1>4 DEF dos_close_file, SetTo
<1>6. Refs(j2) = Without(Refs(j), Only(s, x)) /\ x \in Refs(j)[s]
  BY <1>3, <1>5, DropHandle
<1>7. /\ ft2 = [ft EXCEPT ![s] = Released(@, 1)]
      /\ op2 = op \ Fclosed(ft[s], 1)
      /\ Good(ft, Refs(j), op)
  BY <1>4 DEF dos_close_file, IInv
<1> HIDE DEF s
<1>8. Good(ft2, Refs(j2), op2) /\ Keeps(ft, Refs(j), ft2, Refs(j2))
  <2>1. ClosesOne(ft, Refs(j), op, s, x, ft2, Refs(j2), op2)
    BY <1>3, <1>6, <1>7 DEF ClosesOne
  <2>2. QED
    BY <1>7, <2>1, CloseOne
<1>9. IInv'
  <2>1. opened' \subseteq Streams
    BY <1>1, <1>4, <1>7
  <2>2. Good(filetable', Refs(jft'), opened')
    BY <1>4, <1>8
  <2>3. QED
    BY <2>1, <2>2, OneHandleStep DEF dos_close_file
<1>10. QED
  BY <1>4, <1>8, <1>9 DEF Step

(* set_handle in two steps, for a table, its handles and its streams: what *)
(* handle h named is given back, and then h names the entry of handle g.   *)
SetsHandle(j, ft, op, p, g, h, s, ftm, ft2, op2, j2) ==
    /\ j \in Tables /\ p \in Procs /\ g \in Jft /\ h \in Jft /\ g # h
    /\ s \in Sft /\ s = j[p][g] /\ ft[s].f # NULL
    /\ \/ j[p][h] \in {Unused, 1} /\ ftm = ft /\ op2 = op
       \/ /\ j[p][h] \notin {Unused, 1}
          /\ ftm = [ft EXCEPT ![j[p][h]] = Released(@, 1)]
          /\ op2 = op \ Fclosed(ft[j[p][h]], 1)
    /\ ft2 = [ftm EXCEPT ![s].count = @ + 1]
    /\ j2 = [j EXCEPT ![p][h] = s]

LEMMA SetHandleGood ==
  ASSUME NEW j, NEW ft, NEW op, Good(ft, Refs(j), op),
         NEW p, NEW g, NEW h, NEW s, NEW ftm, NEW ft2, NEW op2, NEW j2,
         SetsHandle(j, ft, op, p, g, h, s, ftm, ft2, op2, j2)
  PROVE  Good(ft2, Refs(j2), op2) /\ Keeps(ft, Refs(j), ft2, Refs(j2))
<1>a. /\ j \in Tables /\ p \in Procs /\ g \in Jft /\ h \in Jft /\ g # h
      /\ s \in Sft /\ s = j[p][g] /\ ft[s].f # NULL
      /\ \/ j[p][h] \in {Unused, 1} /\ ftm = ft /\ op2 = op
         \/ /\ j[p][h] \notin {Unused, 1}
            /\ ftm = [ft EXCEPT ![j[p][h]] = Released(@, 1)]
            /\ op2 = op \ Fclosed(ft[j[p][h]], 1)
      /\ ft2 = [ftm EXCEPT ![s].count = @ + 1]
      /\ j2 = [j EXCEPT ![p][h] = s]
  BY DEF SetsHandle
<1>1. PICK jm, x, y : /\ jm = [j EXCEPT ![p][h] = Unused]
                      /\ x = <<p, h>> /\ y = <<p, g>>
  OBVIOUS
<1>2. PICK prev : prev = j[p][h]
  OBVIOUS
<1>3. x # y /\ x \in Pairs /\ y \in Pairs
  BY <1>a, <1>1 DEF Pairs
<1>4. /\ jm \in Tables /\ jm[p][h] = Unused /\ prev \in Sft \cup {Unused}
      /\ j2 = [jm EXCEPT ![p][h] = s]
  BY <1>a, <1>1, <1>2 DEF Tables
<1>5. SetTo(j, jm, p, h, Unused, x) /\ SetTo(jm, j2, p, h, s, x)
  BY <1>a, <1>1, <1>4 DEF SetTo
<1>6. PICK r, rm, r2 : r = Refs(j) /\ rm = Refs(jm) /\ r2 = Refs(j2)
  OBVIOUS
<1>7. /\ r \in Handsets /\ rm \in Handsets
      /\ \A t \in Sft : x \in r[t] <=> t = prev
      /\ \A t \in Sft : rm[t] = r[t] \ {x}
  <2>1. \A t \in Sft : rm[t] = (r[t] \ {x}) \cup (IF t = Unused THEN {x} ELSE {})
    BY <1>5, <1>6, SetOneHandle
  <2>2. \A t \in Sft : t # Unused
    BY Constants
  <2>3. /\ r \in Handsets /\ rm \in Handsets
        /\ \A t \in Sft : x \in r[t] <=> t = prev
    BY <1>2, <1>5, <1>6, SetOneHandle
  <2>4. QED
    BY <2>1, <2>2, <2>3
<1>8. y \in r[s] /\ y \in rm[s]
  <2>1. r[s] = {z \in Pairs : j[z[1]][z[2]] = s}
    BY <1>a, <1>6 DEF Refs
  <2>2. y \in r[s]
    BY <1>a, <1>1, <1>3, <2>1
  <2>3. QED
    BY <1>a, <1>3, <1>7, <2>2
<1>9. Good(ftm, rm, op2) /\ Keeps(ft, r, ftm, rm)
  <2>1. CASE prev = Unused
    <3>1. \A t \in Sft : rm[t] = r[t]
      BY <1>7, <2>1, Constants
    <3>2. rm = r
      BY <1>7, <3>1 DEF Handsets
    <3>3. ftm = ft /\ op2 = op
      BY <1>a, <1>2, <2>1, Constants
    <3>4. QED
      BY <1>6, <3>2, <3>3 DEF Keeps
  <2>2. CASE prev \in Sft
    <3>1. rm = Without(r, Only(prev, x)) /\ x \in r[prev]
      <4>1. prev \in Sft /\ prev = j[p][h] /\ SetTo(j, jm, p, h, Unused, x)
        BY <1>2, <1>5, <2>2
      <4>2. Refs(jm) = Without(Refs(j), Only(prev, x)) /\ x \in Refs(j)[prev]
        BY ONLY <4>1, DropHandle
      <4>3. QED
        BY <1>6, <4>2
    <3>2. CASE prev = 1
      <4>1. ftm = ft /\ op2 = op
        BY <1>a, <1>2, <3>2
      <4>2. Good(ft, rm, op)
        BY <1>6, <2>2, <3>1, <3>2, ForgetOne
      <4>3. QED
        BY <4>1, <4>2 DEF Keeps
    <3>3. CASE prev # 1
      <4>1. ClosesOne(ft, r, op, prev, x, ftm, rm, op2)
        BY <1>a, <1>2, <2>2, <3>1, <3>3, Constants DEF ClosesOne
      <4>2. QED
        BY <1>6, <4>1, CloseOne
    <3>4. QED
      BY <3>2, <3>3
  <2>3. QED
    BY <1>4, <2>1, <2>2
<1>10. r2 = [rm EXCEPT ![s] = @ \cup {x}]
  <2>1. s \in Sft /\ SetTo(jm, j2, p, h, s, x) /\ jm[p][h] = Unused
    BY <1>a, <1>4, <1>5
  <2>2. Refs(j2) = [Refs(jm) EXCEPT ![s] = @ \cup {x}]
    BY ONLY <2>1, TakeHandle
  <2>3. QED
    BY <1>6, <2>2
<1>11. Good(ft2, r2, op2) /\ Keeps(ftm, rm, ft2, r2)
  <2>1. ftm[s].f # NULL
    BY <1>a, <1>8, <1>9 DEF Keeps
  <2>2. CountsOne(ftm, rm, s, x, ft2, r2)
    BY <1>a, <1>3, <1>7, <1>10, <2>1 DEF CountsOne
  <2>3. QED
    BY <1>9, <2>2, CountOne
<1>12. Keeps(ft, r, ft2, r2)
  <2> SUFFICES ASSUME NEW t \in Sft, ft[t].f # NULL, r[t] \cap r2[t] # {}
               PROVE  ft2[t].f = ft[t].f
    BY DEF Keeps
  <2>1. rm[t] \subseteq r[t] /\ rm[t] \subseteq r2[t]
    BY <1>7, <1>10 DEF Handsets
  <2>2. rm[t] # {}
    <3>1. CASE t = s
      BY <1>8, <3>1
    <3>2. CASE t # s
      <4>1. r2[t] = rm[t]
        BY <1>7, <1>10, <3>2 DEF Handsets
      <4>2. QED
        BY <4>1
    <3>3. QED
      BY <3>1, <3>2
  <2>3. ftm[t].f = ft[t].f
    BY <1>9, <2>1, <2>2 DEF Keeps
  <2>4. QED
    BY <1>11, <2>1, <2>2, <2>3 DEF Keeps
<1>13. QED
  BY <1>6, <1>11, <1>12

(* DUP and DUP2, through set_handle. *)
LEMMA SetHandleStep ==
  ASSUME IInv, NEW g \in Jft, NEW h \in Jft, g # h, IsOpen(g),
         set_handle(h, jft[current][g])
  PROVE  Step
<1>1. TypeOK /\ jft \in Tables /\ opened \subseteq Streams
  BY DEF IInv, TypeOK, Tables
<1>2. current \in Procs
  BY <1>1, CurrentFacts
<1>3. PICK j, j2, p, s, ft, ft2, op, op2 :
         /\ j = jft /\ j2 = jft' /\ p = current /\ s = jft[current][g]
         /\ ft = filetable /\ ft2 = filetable' /\ op = opened /\ op2 = opened'
  OBVIOUS
<1>4. PICK ftm : ftm = IF j[p][h] \notin {Unused, 1}
                       THEN [ft EXCEPT ![j[p][h]] = Released(@, 1)] ELSE ft
  OBVIOUS
<1>5. j \in Tables /\ p \in Procs /\ s = j[p][g] /\ s \in Sft /\ ft[s].f # NULL
  BY <1>1, <1>2, <1>3 DEF Tables, IsOpen
<1>6. /\ j2 = [j EXCEPT ![p][h] = s]
      /\ ft2 = [ftm EXCEPT ![s].count = @ + 1]
      /\ op2 = IF j[p][h] \notin {Unused, 1} THEN op \ Fclosed(ft[j[p][h]], 1) ELSE op
      /\ UNCHANGED <<size, line, resident>>
  BY <1>3, <1>4 DEF set_handle
<1>7. \/ j[p][h] \in {Unused, 1} /\ ftm = ft /\ op2 = op
      \/ /\ j[p][h] \notin {Unused, 1}
         /\ ftm = [ft EXCEPT ![j[p][h]] = Released(@, 1)]
         /\ op2 = op \ Fclosed(ft[j[p][h]], 1)
  BY <1>4, <1>6
<1>8. Good(ft, Refs(j), op)
  BY <1>3 DEF IInv
<1>9. Good(ft2, Refs(j2), op2) /\ Keeps(ft, Refs(j), ft2, Refs(j2))
  <2>1. SetsHandle(j, ft, op, p, g, h, s, ftm, ft2, op2, j2)
    BY <1>5, <1>6, <1>7 DEF SetsHandle
  <2>2. QED
    BY <1>8, <2>1, SetHandleGood
<1>10. IInv'
  <2>1. opened' \subseteq Streams
    BY <1>1, <1>3, <1>6
  <2>2. Good(filetable', Refs(jft'), opened') /\ jft' = [jft EXCEPT ![current][h] = s]
    BY <1>3, <1>6, <1>9
  <2>3. QED
    BY <1>5, <1>6, <2>1, <2>2, OneHandleStep
<1>11. QED
  BY <1>3, <1>9, <1>10 DEF Step

LEMMA DupStep == ASSUME IInv, NEW h \in Jft, DUP(h) PROVE Step
<1> DEFINE g == Min(FreeHandles)
<1>1. g \in FreeHandles /\ IsOpen(h) /\ set_handle(g, jft[current][h])
  BY FirstFree DEF DUP
<1> HIDE DEF g
<1>2. g \in Jft /\ jft[current][g] = Unused
  BY <1>1 DEF FreeHandles, Naming
<1>3. g # h
  BY <1>1, <1>2 DEF IsOpen
<1>4. QED
  BY <1>1, <1>2, <1>3, SetHandleStep

LEMMA Dup2Step == ASSUME IInv, NEW h \in Jft, NEW g \in Jft, DUP2(h, g) PROVE Step
  BY SetHandleStep DEF DUP2

(* A file is opened, or refused by the host. *)
LEMMA OpenStep ==
  ASSUME IInv, NEW x \in Streams, NEW isfile \in BOOLEAN, dos_open_file(x, isfile)
  PROVE  Step
<1>1. x # NULL /\ x \in Streams \ opened
  BY Constants DEF dos_open_file
<1>2. Assign(x, isfile) /\ opened' = opened \cup ({x} \ {NULL})
  BY <1>1 DEF dos_open_file
<1>3. QED
  BY <1>1, <1>2, AssignStep

LEMMA OpenRefusedStep == ASSUME IInv, OpenRefused PROVE Step
<1>1. Assign(NULL, TRUE) /\ opened' = opened \cup ({NULL} \ {NULL})
  BY DEF OpenRefused
<1>2. QED
  BY <1>1, AssignStep

--------------------------------------------------------------------------------
(* The handles of one process: row c of process p names the entries. *)
Row == [Jft -> Sft \cup {Unused}]
RowSets(p, c) == [s \in Sft |-> {p} \X {h \in Jft : c[h] = s}]

(* The row of p changes from c to c2. *)
RowChange(j, j2, p, c, c2) ==
    /\ j \in Tables /\ p \in Procs /\ c = j[p] /\ c2 \in Row
    /\ j2 = [j EXCEPT ![p] = c2]

LEMMA RowFacts ==
  ASSUME NEW j, NEW j2, NEW p, NEW c, NEW c2, RowChange(j, j2, p, c, c2)
  PROVE  /\ j2 \in Tables /\ c \in Row
         /\ \A q \in Procs \ {p} : j2[q] = j[q]
         /\ j2[p] = c2
         /\ Refs(j) \in Handsets /\ Refs(j2) \in Handsets
         /\ RowSets(p, c) \in Handsets /\ RowSets(p, c2) \in Handsets
         /\ \A s \in Sft : RowSets(p, c)[s] \subseteq Refs(j)[s]
         /\ \A s \in Sft : Refs(j2)[s] = (Refs(j)[s] \ RowSets(p, c)[s]) \cup RowSets(p, c2)[s]
         /\ \A s \in Sft : Refs(j)[s] \cap RowSets(p, c2)[s] \subseteq RowSets(p, c)[s]
<1>a. /\ j \in Tables /\ p \in Procs /\ c = j[p] /\ c2 \in Row
      /\ j2 = [j EXCEPT ![p] = c2]
  BY DEF RowChange
<1>1. j2 \in Tables /\ c \in Row /\ (\A q \in Procs \ {p} : j2[q] = j[q]) /\ j2[p] = c2
  BY <1>a DEF Tables, Row
<1>2. Refs(j) \in Handsets /\ Refs(j2) \in Handsets
  BY DEF Refs, Handsets
<1>3. RowSets(p, c) \in Handsets /\ RowSets(p, c2) \in Handsets
  BY <1>a DEF RowSets, Handsets, Pairs
<1>4. ASSUME NEW s \in Sft, NEW q \in Procs, NEW h \in Jft
      PROVE  /\ <<q, h>> \in Refs(j)[s] <=> j[q][h] = s
             /\ <<q, h>> \in Refs(j2)[s] <=> j2[q][h] = s
             /\ <<q, h>> \in RowSets(p, c)[s] <=> q = p /\ c[h] = s
             /\ <<q, h>> \in RowSets(p, c2)[s] <=> q = p /\ c2[h] = s
  <2>1. PICK x : x = <<q, h>>
    OBVIOUS
  <2>2. x \in Pairs /\ x[1] = q /\ x[2] = h
    BY <2>1 DEF Pairs
  <2>3. /\ x \in Refs(j)[s] <=> j[q][h] = s
        /\ x \in Refs(j2)[s] <=> j2[q][h] = s
    BY <2>2 DEF Refs
  <2>4. /\ x \in RowSets(p, c)[s] <=> q = p /\ c[h] = s
        /\ x \in RowSets(p, c2)[s] <=> q = p /\ c2[h] = s
    BY <2>1 DEF RowSets
  <2>5. QED
    BY <2>1, <2>3, <2>4
<1>5. ASSUME NEW s \in Sft, NEW x \in Pairs
      PROVE  /\ x \in RowSets(p, c)[s] => x \in Refs(j)[s]
             /\ x \in Refs(j2)[s] <=>
                   (x \in Refs(j)[s] /\ x \notin RowSets(p, c)[s]) \/ x \in RowSets(p, c2)[s]
             /\ x \in Refs(j)[s] /\ x \in RowSets(p, c2)[s] => x \in RowSets(p, c)[s]
  <2>1. PICK q \in Procs, h \in Jft : x = <<q, h>>
    BY DEF Pairs
  <2>2. CASE q = p
    <3>1. j[q] = c /\ j2[q] = c2
      BY <1>a, <1>1, <2>2
    <3>2. QED
      BY <1>4, <2>1, <2>2, <3>1
  <2>3. CASE q # p
    BY <1>1, <1>4, <2>1, <2>3
  <2>4. QED
    BY <2>2, <2>3
<1>6. ASSUME NEW s \in Sft
      PROVE  /\ RowSets(p, c)[s] \subseteq Refs(j)[s]
             /\ Refs(j2)[s] = (Refs(j)[s] \ RowSets(p, c)[s]) \cup RowSets(p, c2)[s]
             /\ Refs(j)[s] \cap RowSets(p, c2)[s] \subseteq RowSets(p, c)[s]
  <2>1. PICK a, b, d, e : /\ a = Refs(j)[s] /\ b = Refs(j2)[s]
                          /\ d = RowSets(p, c)[s] /\ e = RowSets(p, c2)[s]
    OBVIOUS
  <2>2. a \subseteq Pairs /\ b \subseteq Pairs /\ d \subseteq Pairs /\ e \subseteq Pairs
    BY <1>2, <1>3, <2>1 DEF Handsets
  <2>3. \A x \in Pairs : /\ x \in d => x \in a
                         /\ x \in b <=> (x \in a /\ x \notin d) \/ x \in e
                         /\ x \in a /\ x \in e => x \in d
    BY <1>5, <2>1
  <2>4. d \subseteq a /\ b = (a \ d) \cup e /\ a \cap e \subseteq d
    BY ONLY <2>2, <2>3
  <2>5. QED
    BY <2>1, <2>4
<1>7. QED
  BY <1>1, <1>2, <1>3, <1>6

(* A row names an entry with as many handles as it holds it. *)
LEMMA RowCount ==
  ASSUME NEW p, NEW c, NEW s \in Sft
  PROVE  /\ IsFiniteSet(RowSets(p, c)[s])
         /\ Cardinality(RowSets(p, c)[s]) = Cardinality({h \in Jft : c[h] = s})
<1>1. PICK S : S = {h \in Jft : c[h] = s}
  OBVIOUS
<1>2. IsFiniteSet(S)
  <2>1. S \in SUBSET Jft
    BY <1>1
  <2>2. QED
    BY <2>1, Constants, FS_Subset
<1>3. RowSets(p, c)[s] = {p} \X S
  BY <1>1 DEF RowSets
<1>4. IsFiniteSet({p} \X S) /\ Cardinality({p} \X S) = Cardinality(S)
  BY <1>2, PairsCount
<1>5. QED
  BY <1>1, <1>3, <1>4

(* A process that had no handles is given those of row c, all open. *)
SharesRow(j, ft, p, none, c, j2, ft2) ==
    /\ RowChange(j, j2, p, none, c)
    /\ \A h \in Jft : none[h] = Unused
    /\ \A h \in Jft : c[h] \in Sft => ft[c[h]].f # NULL
    /\ ft2 = CountedTable(ft, RowSets(p, c))

LEMMA ShareGood ==
  ASSUME NEW ft, NEW j, NEW op, Good(ft, Refs(j), op),
         NEW p, NEW none, NEW c, NEW j2, NEW ft2,
         SharesRow(j, ft, p, none, c, j2, ft2)
  PROVE  Good(ft2, Refs(j2), op) /\ Keeps(ft, Refs(j), ft2, Refs(j2))
<1>a. /\ RowChange(j, j2, p, none, c)
      /\ \A h \in Jft : none[h] = Unused
      /\ \A h \in Jft : c[h] \in Sft => ft[c[h]].f # NULL
      /\ ft2 = CountedTable(ft, RowSets(p, c))
  BY DEF SharesRow
<1>1. PICK r, r2, D, O : /\ r = Refs(j) /\ r2 = Refs(j2)
                         /\ D = RowSets(p, c) /\ O = RowSets(p, none)
  OBVIOUS
<1>2. /\ r \in Handsets /\ r2 \in Handsets /\ D \in Handsets
      /\ \A s \in Sft : r2[s] = (r[s] \ O[s]) \cup D[s]
      /\ \A s \in Sft : r[s] \cap D[s] \subseteq O[s]
  BY <1>1, <1>a, RowFacts
<1>3. \A s \in Sft : O[s] = {}
  BY <1>1, <1>a, Constants DEF RowSets
<1>4. r2 = With(r, D)
  <2>1. \A s \in Sft : r2[s] = r[s] \cup D[s]
    BY <1>2, <1>3
  <2>2. QED
    BY <1>2, <2>1 DEF Handsets, With
<1>5. ASSUME NEW s \in Sft
      PROVE  IsFiniteSet(D[s]) /\ r[s] \cap D[s] = {} /\ (D[s] # {} => ft[s].f # NULL)
  <2>1. IsFiniteSet(D[s])
    BY <1>1, RowCount
  <2>2. r[s] \cap D[s] = {}
    BY <1>2, <1>3
  <2>3. ASSUME D[s] # {} PROVE ft[s].f # NULL
    <3>1. PICK h \in Jft : c[h] = s
      BY <1>1, <2>3 DEF RowSets
    <3>2. QED
      BY <1>a, <3>1
  <2>4. QED
    BY <2>1, <2>2, <2>3
<1>6. Counting(ft, r, D, ft2, r2)
  BY <1>a, <1>1, <1>2, <1>4, <1>5 DEF Counting
<1>7. Good(ft, r, op)
  BY <1>1
<1>8. Good(ft2, r2, op) /\ Keeps(ft, r, ft2, r2)
  BY ONLY <1>6, <1>7, CountGood
<1>9. QED
  BY <1>1, <1>8

(* All the handles of a process, row c, are closed. *)
FreesRow(j, ft, op, p, c, none, j2, ft2, op2) ==
    /\ RowChange(j, j2, p, c, none)
    /\ \A h \in Jft : none[h] = Unused
    /\ ft2 = ReleasedTable(ft, RowSets(p, c))
    /\ op2 = op \ UNION {ReleasedStreams(ft, RowSets(p, c))[s] : s \in Sft}

LEMMA FreeGood ==
  ASSUME NEW ft, NEW j, NEW op, Good(ft, Refs(j), op),
         NEW p, NEW c, NEW none, NEW j2, NEW ft2, NEW op2,
         FreesRow(j, ft, op, p, c, none, j2, ft2, op2)
  PROVE  Good(ft2, Refs(j2), op2) /\ Keeps(ft, Refs(j), ft2, Refs(j2))
<1>a. /\ RowChange(j, j2, p, c, none)
      /\ \A h \in Jft : none[h] = Unused
      /\ ft2 = ReleasedTable(ft, RowSets(p, c))
      /\ op2 = op \ UNION {ReleasedStreams(ft, RowSets(p, c))[s] : s \in Sft}
  BY DEF FreesRow
<1>1. PICK r, r2, D, O : /\ r = Refs(j) /\ r2 = Refs(j2)
                         /\ D = RowSets(p, c) /\ O = RowSets(p, none)
  OBVIOUS
<1>2. /\ r \in Handsets /\ r2 \in Handsets /\ D \in Handsets
      /\ \A s \in Sft : D[s] \subseteq r[s]
      /\ \A s \in Sft : r2[s] = (r[s] \ D[s]) \cup O[s]
  BY <1>1, <1>a, RowFacts
<1>3. \A s \in Sft : O[s] = {}
  BY <1>1, <1>a, Constants DEF RowSets
<1>4. r2 = Without(r, D)
  <2>1. \A s \in Sft : r2[s] = r[s] \ D[s]
    BY <1>2, <1>3
  <2>2. QED
    BY <1>2, <2>1 DEF Handsets, Without
<1>5. Closing(ft, r, op, D, ft2, r2, op2)
  BY <1>a, <1>1, <1>2, <1>4 DEF Closing
<1>6. Good(ft, r, op)
  BY <1>1
<1>7. Good(ft2, r2, op2) /\ Keeps(ft, r, ft2, r2)
  BY ONLY <1>5, <1>6, ReleaseGood
<1>8. QED
  BY <1>1, <1>7

(* A table that is restored afterwards is as good, and keeps the files. *)
LEMMA ThenRestored ==
  ASSUME NEW ft, NEW r, NEW ft2, NEW r2, NEW op,
         Good(ft2, r2, op), Keeps(ft, r, ft2, r2)
  PROVE  /\ Good(Restored(ft2), r2, op)
         /\ Keeps(ft, r, Restored(ft2), r2)
<1>1. PICK ft3 : ft3 = Restored(ft2)
  OBVIOUS
<1>2. Good(ft3, r2, op) /\ Keeps(ft2, r2, ft3, r2)
  BY <1>1, RestoreGood
<1>3. Keeps(ft, r, ft3, r2)
  <2> SUFFICES ASSUME NEW s \in Sft, ft[s].f # NULL, r[s] \cap r2[s] # {}
               PROVE  ft3[s].f = ft[s].f
    BY DEF Keeps
  <2>1. ft2[s].f = ft[s].f
    BY DEF Keeps
  <2>2. r2[s] \cap r2[s] # {}
    OBVIOUS
  <2>3. QED
    BY <1>2, <2>1, <2>2 DEF Keeps
<1>4. QED
  BY <1>1, <1>2, <1>3

(* A child in front of the line. *)
LEMMA LineWithChild ==
  ASSUME TypeOK, Distinct, NEW p \in Procs \ Using, line' = <<p>> \o line,
         resident' = resident
  PROVE  /\ line' \in Seq(Procs) /\ line' # <<>>
         /\ Using' = Using \cup {p}
         /\ Distinct'
<1>1. line \in Seq(Procs) /\ line # <<>> /\ resident \subseteq Procs
  BY DEF TypeOK
<1>2. PICK n \in Nat : n = Len(line)
  BY <1>1
<1>3. DOMAIN line = 1 .. n /\ \A i \in 1 .. n : line[i] \in Procs
  BY <1>1, <1>2
<1>4. /\ line' \in Seq(Procs) /\ DOMAIN line' = 1 .. n + 1
      /\ line'[1] = p
      /\ \A i \in 2 .. n + 1 : line'[i] = line[i - 1]
  <2>1. <<p>> \in Seq(Procs) /\ Len(<<p>>) = 1
    OBVIOUS
  <2>2. line' \in Seq(Procs) /\ Len(line') = n + 1
    BY <1>1, <1>2, <2>1
  <2>3. QED
    BY <1>1, <1>2, <2>1, <2>2
<1>5. \A i \in 1 .. n : line[i] = line'[i + 1] /\ i + 1 \in 1 .. n + 1
  BY <1>2, <1>4
<1>6. line' # <<>>
  BY <1>2, <1>4
<1>7. Using' = Using \cup {p}
  <2>1. {line'[i] : i \in DOMAIN line'} = {line[i] : i \in DOMAIN line} \cup {p}
    <3>1. ASSUME NEW i \in 1 .. n + 1 PROVE line'[i] \in {line[k] : k \in 1 .. n} \cup {p}
      <4>1. CASE i = 1
        BY <1>4, <4>1
      <4>2. CASE i # 1
        <5>1. i \in 2 .. n + 1 /\ i - 1 \in 1 .. n
          BY <1>2, <4>2
        <5>2. QED
          BY <1>4, <5>1
      <4>3. QED
        BY <4>1, <4>2
    <3>2. p = line'[1] /\ 1 \in 1 .. n + 1
      BY <1>2, <1>4
    <3>3. {line'[i] : i \in 1 .. n + 1} = {line[k] : k \in 1 .. n} \cup {p}
      <4>1. \A i \in 1 .. n : line[i] \in {line'[j] : j \in 1 .. n + 1}
        BY <1>5
      <4>2. p \in {line'[j] : j \in 1 .. n + 1}
        BY <3>2
      <4>3. QED
        BY ONLY <3>1, <4>1, <4>2
    <3>4. QED
      BY <1>3, <1>4, <3>3
  <2>2. QED
    BY <2>1 DEF Using
<1>8. Distinct'
  <2>1. \A i \in 1 .. n : line[i] # p /\ line[i] \notin resident
    BY <1>3 DEF Using, Distinct
  <2>2. p \notin resident
    BY DEF Using
  <2>3. ASSUME NEW i \in 1 .. n + 1, NEW k \in 1 .. n + 1, line'[i] = line'[k]
        PROVE  i = k
    <3>1. CASE i = 1 \/ k = 1
      <4>1. \A m \in 2 .. n + 1 : m - 1 \in 1 .. n /\ line'[m] # p
        BY <1>2, <1>4, <2>1
      <4>2. QED
        BY <1>2, <1>4, <2>3, <3>1, <4>1
    <3>2. CASE i # 1 /\ k # 1
      <4>1. /\ i - 1 \in 1 .. n /\ k - 1 \in 1 .. n
            /\ line'[i] = line[i - 1] /\ line'[k] = line[k - 1]
        BY <1>2, <1>4, <3>2
      <4>2. i - 1 = k - 1
        BY <1>3, <2>3, <4>1 DEF Distinct
      <4>3. QED
        BY <1>2, <4>2
    <3>3. QED
      BY <3>1, <3>2
  <2>4. ASSUME NEW i \in 1 .. n + 1 PROVE line'[i] \notin resident
    <3>1. CASE i = 1
      BY <1>4, <2>2, <3>1
    <3>2. CASE i # 1
      <4>1. i - 1 \in 1 .. n /\ line'[i] = line[i - 1]
        BY <1>2, <1>4, <3>2
      <4>2. QED
        BY <2>1, <4>1
    <3>3. QED
      BY <3>1, <3>2
  <2>5. QED
    BY <1>4, <2>3, <2>4 DEF Distinct
<1>9. QED
  BY <1>4, <1>6, <1>7, <1>8

(* The first of the line leaves it. *)
LEMMA LineWithout ==
  ASSUME TypeOK, Distinct, Len(line) > 1, line' = Tail(line)
  PROVE  /\ line' \in Seq(Procs) /\ line' # <<>>
         /\ {line'[i] : i \in DOMAIN line'} = {line[i] : i \in DOMAIN line} \ {current}
         /\ \A i, k \in DOMAIN line' : line'[i] = line'[k] => i = k
<1>1. line \in Seq(Procs) /\ line # <<>>
  BY DEF TypeOK
<1>2. PICK n \in Nat : n = Len(line)
  BY <1>1
<1>3. DOMAIN line = 1 .. n /\ n > 1 /\ current = line[1]
  BY <1>1, <1>2, CurrentFacts
<1>4. /\ line' \in Seq(Procs) /\ DOMAIN line' = 1 .. n - 1
      /\ \A i \in 1 .. n - 1 : line'[i] = line[i + 1]
  <2>1. line' \in Seq(Procs) /\ Len(line') = n - 1
    BY <1>1, <1>2
  <2>2. QED
    BY <1>1, <1>2, <2>1
<1>5. line' # <<>>
  <2>1. 1 \in DOMAIN line'
    BY <1>2, <1>3, <1>4
  <2>2. QED
    BY <2>1
<1>6. \A i, k \in 1 .. n : line[i] = line[k] => i = k
  BY <1>3 DEF Distinct
<1>7. {line'[i] : i \in 1 .. n - 1} = {line[i] : i \in 1 .. n} \ {current}
  <2>1. ASSUME NEW i \in 1 .. n - 1 PROVE line'[i] \in {line[k] : k \in 1 .. n} \ {current}
    <3>1. i + 1 \in 1 .. n /\ i + 1 # 1 /\ 1 \in 1 .. n
      BY <1>2, <1>3
    <3>2. line[i + 1] # line[1]
      BY <1>6, <3>1
    <3>3. QED
      BY <1>3, <1>4, <3>1, <3>2
  <2>2. ASSUME NEW k \in 1 .. n, line[k] # current PROVE line[k] \in {line'[i] : i \in 1 .. n - 1}
    <3>1. k - 1 \in 1 .. n - 1 /\ (k - 1) + 1 = k
      BY <1>2, <1>3, <2>2
    <3>2. QED
      BY <1>4, <3>1
  <2>3. QED
    BY <2>1, <2>2
<1>8. ASSUME NEW i \in 1 .. n - 1, NEW k \in 1 .. n - 1, line'[i] = line'[k]
      PROVE  i = k
  <2>1. i + 1 \in 1 .. n /\ k + 1 \in 1 .. n /\ line[i + 1] = line[k + 1]
    BY <1>2, <1>4, <1>8
  <2>2. i + 1 = k + 1
    BY <1>6, <2>1
  <2>3. QED
    BY <1>2, <2>2
<1>9. QED
  BY <1>3, <1>4, <1>5, <1>7, <1>8

(* A row of the table changes, and with it the live processes. *)
LEMMA RowStep ==
  ASSUME IInv, NEW p \in Procs, NEW c2 \in Row, jft' = [jft EXCEPT ![p] = c2],
         size' \in [Procs -> {SmallTable, Handles}],
         line' \in Seq(Procs), line' # <<>>, resident' \subseteq Procs, Distinct',
         Using \ {p} \subseteq Using',
         p \notin Using' => \A h \in Jft : c2[h] = Unused,
         opened' \subseteq Streams,
         Good(filetable', Refs(jft'), opened')
  PROVE  IInv'
<1>1. jft \in Tables
  BY DEF IInv, TypeOK, Tables
<1>2. /\ jft' \in Tables /\ jft'[p] = c2
      /\ \A q \in Procs \ {p} : jft'[q] = jft[q]
  BY <1>1 DEF Tables, Row
<1>3. TypeOK'
  BY <1>2 DEF TypeOK, Tables, Good
<1>4. Ended'
  <2> SUFFICES ASSUME NEW q \in Procs, q \notin Using', NEW h \in Jft
               PROVE  jft'[q][h] = Unused
    BY DEF Ended
  <2>1. CASE q = p
    BY <1>2, <2>1
  <2>2. CASE q # p
    BY <1>2, <2>2 DEF IInv, Ended
  <2>3. QED
    BY <2>1, <2>2
<1>5. QED
  BY <1>3, <1>4 DEF IInv

(* EXEC and AH=55h. *)
LEMMA ChildStep ==
  ASSUME IInv, NEW p \in Procs \ Using, NEW n \in {SmallTable, Handles},
         BecomesChild(p, n),
         filetable' \in {Shared(n), Restored(Shared(n))}
  PROVE  Step
<1>1. TypeOK /\ jft \in Tables /\ opened \subseteq Streams
  BY DEF IInv, TypeOK, Tables
<1>2. current \in Procs /\ current \in Using /\ p # current
  BY <1>1, CurrentFacts
<1>3. PICK c, none, j, j2, ft, op, fta :
         /\ c = [h \in Jft |-> Inherited(h, n)] /\ none = jft[p]
         /\ j = jft /\ j2 = jft' /\ ft = filetable /\ op = opened
         /\ fta = Shared(n)
  OBVIOUS
<1>4. c \in Row
  BY <1>1, <1>2, <1>3 DEF Inherited, Tables, Row
<1>5. \A h \in Jft : c[h] \in Sft => ft[c[h]].f # NULL
  <2>1. \A h \in Jft : c[h] = Inherited(h, n)
    BY <1>3
  <2>2. QED
    BY <1>3, <2>1, Constants DEF Inherited, IsOpen
<1>6. \A h \in Jft : none[h] = Unused
  BY <1>3 DEF IInv, Ended
<1>7. RowChange(j, j2, p, none, c)
  BY <1>1, <1>3, <1>4 DEF RowChange, BecomesChild
<1>8. fta = CountedTable(ft, RowSets(p, c))
  <2>1. ASSUME NEW s \in Sft
        PROVE  Cardinality(RowSets(p, c)[s]) = Cardinality({h \in Jft : Inherited(h, n) = s})
    <3>1. {h \in Jft : Inherited(h, n) = s} = {h \in Jft : c[h] = s}
      BY <1>3
    <3>2. QED
      BY <3>1, RowCount
  <2>2. QED
    BY <1>3, <2>1 DEF Shared, CountedTable, Counted
<1>9. Good(fta, Refs(j2), op) /\ Keeps(ft, Refs(j), fta, Refs(j2))
  <2>1. SharesRow(j, ft, p, none, c, j2, fta)
    BY <1>5, <1>6, <1>7, <1>8 DEF SharesRow
  <2>2. Good(ft, Refs(j), op)
    BY <1>3 DEF IInv
  <2>3. QED
    BY ONLY <2>1, <2>2, ShareGood
<1>10. Good(Restored(fta), Refs(j2), op) /\ Keeps(ft, Refs(j), Restored(fta), Refs(j2))
  BY ONLY <1>9, ThenRestored
<1>11. /\ Good(filetable', Refs(jft'), opened)
       /\ Keeps(filetable, Refs(jft), filetable', Refs(jft'))
  <2>1. filetable' = fta \/ filetable' = Restored(fta)
    BY <1>3
  <2>2. QED
    BY <1>3, <1>9, <1>10, <2>1
<1>12. /\ line' \in Seq(Procs) /\ line' # <<>>
       /\ Using' = Using \cup {p} /\ Distinct'
  BY <1>1, LineWithChild DEF IInv, BecomesChild
<1>13. IInv'
  <2>1. /\ size' \in [Procs -> {SmallTable, Handles}]
        /\ opened' = opened /\ resident' \subseteq Procs
        /\ jft' = [jft EXCEPT ![p] = c]
    BY <1>1, <1>3 DEF BecomesChild, TypeOK
  <2>2. QED
    BY <1>1, <1>4, <1>11, <1>12, <2>1, RowStep
<1>14. QED
  BY <1>11, <1>13 DEF Step

LEMMA ExecStep == ASSUME IInv, NEW al \in {0, 1}, Exec(al) PROVE Step
<1>1. PICK p \in Procs \ Using :
         /\ BecomesChild(p, Handles)
         /\ filetable' \in {Shared(Handles), Restored(Shared(Handles))}
  BY DEF Exec
<1>2. QED
  BY <1>1, ChildStep

LEMMA CreateChildStep == ASSUME IInv, CreateChildPSP PROVE Step
<1>1. PICK p \in Procs \ Using :
         /\ BecomesChild(p, SmallTable)
         /\ filetable' \in {Shared(SmallTable), Restored(Shared(SmallTable))}
  BY DEF CreateChildPSP
<1>2. QED
  BY <1>1, ChildStep

(* The end of a process. *)
LEMMA ExitStep == ASSUME IInv, Exit PROVE Step
<1>1. TypeOK /\ jft \in Tables /\ opened \subseteq Streams
  BY DEF IInv, TypeOK, Tables
<1>2. current \in Procs /\ current \in Using
  BY <1>1, CurrentFacts
<1>3. PICK p, c, none, j, j2, ft, op, fta, op2 :
         /\ p = current /\ c = jft[current] /\ none = [h \in Jft |-> Unused]
         /\ j = jft /\ j2 = jft' /\ ft = filetable /\ op = opened
         /\ fta = AllReleased /\ op2 = opened'
  OBVIOUS
<1>4. none \in Row /\ \A h \in Jft : none[h] = Unused
  BY <1>3 DEF Row
<1>5. RowChange(j, j2, p, c, none)
  BY <1>1, <1>2, <1>3, <1>4 DEF RowChange, Exit
<1>6. PICK D : D = RowSets(p, c)
  OBVIOUS
<1>7. ASSUME NEW s \in Sft
      PROVE  /\ Cardinality(D[s]) = Cardinality(Naming(current, s))
             /\ D[s] = {} <=> Naming(current, s) = {}
             /\ D[s] = {} <=> Cardinality(Naming(current, s)) = 0
  <2>1. Naming(current, s) = {h \in Jft : c[h] = s}
    BY <1>3 DEF Naming
  <2>2. /\ IsFiniteSet(D[s])
        /\ Cardinality(D[s]) = Cardinality({h \in Jft : c[h] = s})
    <3>1. /\ IsFiniteSet(RowSets(p, c)[s])
          /\ Cardinality(RowSets(p, c)[s]) = Cardinality({h \in Jft : c[h] = s})
      BY RowCount
    <3>2. QED
      BY <1>6, <3>1
  <2>3. D[s] = {} <=> Cardinality(D[s]) = 0
    <3>1. PICK d : d = D[s]
      OBVIOUS
    <3>2. IsFiniteSet(d)
      BY <2>2, <3>1
    <3>3. Cardinality(d) = 0 <=> d = {}
      BY <3>2, FS_EmptySet
    <3>4. QED
      BY <3>1, <3>3
  <2>4. D[s] = {p} \X {h \in Jft : c[h] = s}
    BY <1>6 DEF RowSets
  <2>5. D[s] = {} <=> {h \in Jft : c[h] = s} = {}
    <3>1. PICK d, S : d = D[s] /\ S = {h \in Jft : c[h] = s}
      OBVIOUS
    <3>2. d = {p} \X S
      BY <2>4, <3>1
    <3>3. \A h \in S : <<p, h>> \in d
      BY <3>2
    <3>4. S = {} => d = {}
      BY <3>2
    <3>5. QED
      BY <3>1, <3>3, <3>4
  <2>6. QED
    BY <2>1, <2>2, <2>3, <2>5
<1>8. fta = ReleasedTable(ft, D)
  BY <1>3, <1>7 DEF AllReleased, ReleasedTable
<1>9. AllFclosed = UNION {ReleasedStreams(ft, D)[s] : s \in Sft}
  <2>1. \A s \in Sft : ReleasedStreams(ft, D)[s] =
           IF Naming(current, s) = {} THEN {}
           ELSE Fclosed(ft[s], Cardinality(Naming(current, s)))
    BY <1>7 DEF ReleasedStreams
  <2>2. QED
    BY <1>3, <2>1 DEF AllFclosed
<1>10. Good(fta, Refs(j2), op2) /\ Keeps(ft, Refs(j), fta, Refs(j2))
  <2>1. op2 = op \ UNION {ReleasedStreams(ft, D)[s] : s \in Sft}
    BY <1>3, <1>9 DEF Exit
  <2>2. FreesRow(j, ft, op, p, c, none, j2, fta, op2)
    BY <1>4, <1>5, <1>6, <1>8, <2>1 DEF FreesRow
  <2>3. Good(ft, Refs(j), op)
    BY <1>3 DEF IInv
  <2>4. QED
    BY ONLY <2>2, <2>3, FreeGood
<1>11. Good(Restored(fta), Refs(j2), op2) /\ Keeps(ft, Refs(j), Restored(fta), Refs(j2))
  BY ONLY <1>10, ThenRestored
<1>12. filetable' = Restored(fta)
  BY <1>3 DEF Exit
<1>13. /\ line' \in Seq(Procs) /\ line' # <<>>
       /\ {line'[i] : i \in DOMAIN line'} = {line[i] : i \in DOMAIN line} \ {current}
       /\ \A i, k \in DOMAIN line' : line'[i] = line'[k] => i = k
  BY <1>1, LineWithout DEF IInv, Exit
<1>14. Using \ {current} \subseteq Using'
  BY <1>13 DEF Using, Exit
<1>15. Distinct'
  <2>1. resident' = resident
    BY DEF Exit
  <2>2. \A i \in DOMAIN line' : \E k \in DOMAIN line : line'[i] = line[k]
    BY <1>13
  <2>3. QED
    BY <1>13, <2>1, <2>2 DEF IInv, Distinct
<1>16. IInv'
  <2>1. /\ size' \in [Procs -> {SmallTable, Handles}]
        /\ opened' \subseteq Streams /\ resident' \subseteq Procs
        /\ jft' = [jft EXCEPT ![current] = none]
    BY <1>1, <1>3 DEF Exit, TypeOK
  <2>2. Good(filetable', Refs(jft'), opened')
    BY <1>3, <1>11, <1>12
  <2>3. QED
    BY <1>2, <1>4, <1>13, <1>14, <1>15, <2>1, <2>2, RowStep
<1>17. Keeps(filetable, Refs(jft), filetable', Refs(jft'))
  BY <1>3, <1>11, <1>12
<1>18. QED
  BY <1>16, <1>17 DEF Step

LEMMA KeepResidentStep == ASSUME IInv, KeepResident PROVE Step
<1>1. TypeOK /\ current \in Procs
  BY CurrentFacts DEF IInv
<1>2. /\ Good(filetable', Refs(jft'), opened')
      /\ Keeps(filetable, Refs(jft), filetable', Refs(jft'))
  <2>1. PICK ft, r, op : ft = filetable /\ r = Refs(jft) /\ op = opened
    OBVIOUS
  <2>2. Good(ft, r, op)
    BY <2>1 DEF IInv
  <2>3. Good(Restored(ft), r, op) /\ Keeps(ft, r, Restored(ft), r)
    BY <2>2, RestoreGood
  <2>4. filetable' = Restored(ft) /\ jft' = jft /\ opened' = opened
    BY <2>1 DEF KeepResident
  <2>5. QED
    BY <2>1, <2>3, <2>4
<1>3. /\ line' \in Seq(Procs) /\ line' # <<>>
      /\ {line'[i] : i \in DOMAIN line'} = {line[i] : i \in DOMAIN line} \ {current}
      /\ \A i, k \in DOMAIN line' : line'[i] = line'[k] => i = k
  BY <1>1, LineWithout DEF IInv, KeepResident
<1>4. resident' = resident \cup {current} /\ UNCHANGED <<jft, size, opened>>
  BY DEF KeepResident
<1>5. Using' = Using
  <2>1. current \in {line[i] : i \in DOMAIN line}
    BY <1>1, CurrentFacts
  <2>2. QED
    BY <1>3, <1>4, <2>1 DEF Using
<1>6. Distinct'
  <2>1. \A i \in DOMAIN line' : line'[i] # current /\ \E k \in DOMAIN line : line'[i] = line[k]
    BY <1>3
  <2>2. \A i \in DOMAIN line' : line'[i] \notin resident'
    BY <1>4, <2>1 DEF IInv, Distinct
  <2>3. QED
    BY <1>3, <2>2 DEF Distinct
<1>7. Ended'
  BY <1>4, <1>5 DEF IInv, Ended
<1>8. TypeOK'
  BY <1>1, <1>2, <1>3, <1>4 DEF TypeOK, Good
<1>9. QED
  BY <1>2, <1>6, <1>7, <1>8 DEF IInv, Step

(* AH=67h cuts off no handle, or leaves the counts of its entries high. *)
LEMMA SetHandleCountStep ==
  ASSUME IInv, NEW n \in {SmallTable, Handles}, SetHandleCount(n)
  PROVE  Step
<1>1. TypeOK /\ jft \in Tables /\ current \in Procs /\ current \in Using
  BY CurrentFacts DEF IInv, TypeOK, Tables
<1>2. PICK c, c2, p, j, j2 :
         /\ c = jft[current] /\ c2 = [h \in Jft |-> IF h < n THEN c[h] ELSE Unused]
         /\ p = current /\ j = jft /\ j2 = jft'
  OBVIOUS
<1>3. /\ CutsOpen \/ \A h \in n .. Handles - 1 : c[h] = Unused
      /\ jft' = [jft EXCEPT ![current] = c2]
      /\ size' = [size EXCEPT ![current] = n]
      /\ UNCHANGED <<filetable, line, resident, opened>>
  BY <1>2 DEF SetHandleCount
<1>4. c \in Row /\ c2 \in Row
  BY <1>1, <1>2 DEF Tables, Row
<1>5. RowChange(j, j2, p, c, c2)
  BY <1>1, <1>2, <1>3, <1>4 DEF RowChange
<1>6. ASSUME NEW s \in Sft
      PROVE  /\ RowSets(p, c2)[s] \subseteq RowSets(p, c)[s]
             /\ CutsOpen \/ RowSets(p, c2)[s] = RowSets(p, c)[s]
  <2>1. n \in Nat /\ Handles \in Nat
    BY HandlesAssumption
  <2>2. ASSUME NEW h \in Jft PROVE /\ c2[h] = s => c[h] = s
                                   /\ CutsOpen \/ c2[h] = c[h]
    <3>1. c2[h] = IF h < n THEN c[h] ELSE Unused
      BY <1>2
    <3>2. ~ (h < n) => h \in n .. Handles - 1
      BY <2>1 DEF Jft
    <3>3. QED
      BY <1>3, <3>1, <3>2, Constants
  <2>3. /\ RowSets(p, c)[s] = {p} \X {h \in Jft : c[h] = s}
        /\ RowSets(p, c2)[s] = {p} \X {h \in Jft : c2[h] = s}
    BY DEF RowSets
  <2>4. PICK S, S2 : S = {h \in Jft : c[h] = s} /\ S2 = {h \in Jft : c2[h] = s}
    OBVIOUS
  <2>5. S2 \subseteq S /\ (CutsOpen \/ S2 = S)
    BY <2>2, <2>4
  <2>6. QED
    BY <2>3, <2>4, <2>5
<1>7. PICK r, r2, D, O : /\ r = Refs(j) /\ r2 = Refs(j2)
                         /\ D = RowSets(p, c2) /\ O = RowSets(p, c)
  OBVIOUS
<1>8. /\ r2 \in Handsets
      /\ \A s \in Sft : O[s] \subseteq r[s]
      /\ \A s \in Sft : r2[s] = (r[s] \ O[s]) \cup D[s]
  BY <1>5, <1>7, RowFacts
<1>9. \A s \in Sft : r2[s] \subseteq r[s] /\ (Loose(s) \/ r2[s] = r[s])
  <2>1. \A s \in Sft : D[s] \subseteq O[s] /\ (CutsOpen \/ D[s] = O[s])
    BY <1>6, <1>7
  <2>2. ASSUME NEW s \in Sft PROVE r2[s] \subseteq r[s] /\ (CutsOpen \/ r2[s] = r[s])
    <3>1. PICK a, b, d, o : a = r[s] /\ b = r2[s] /\ d = D[s] /\ o = O[s]
      OBVIOUS
    <3>2. d \subseteq o /\ o \subseteq a /\ b = (a \ o) \cup d /\ (CutsOpen \/ d = o)
      BY <1>8, <2>1, <3>1
    <3>3. b \subseteq a /\ (CutsOpen \/ b = a)
      BY <3>2
    <3>4. QED
      BY <3>1, <3>3
  <2>3. QED
    BY <2>2 DEF Loose
<1>10. Good(filetable', Refs(jft'), opened')
  <2>1. PICK ft, op : ft = filetable /\ op = opened
    OBVIOUS
  <2>2. Good(ft, r, op)
    BY <1>2, <1>7, <2>1 DEF IInv
  <2>3. Good(ft, r2, op)
    BY <1>8, <1>9, <2>2, ForgetGood
  <2>4. QED
    BY <1>2, <1>3, <1>7, <2>1, <2>3
<1>11. IInv'
  <2>1. /\ size' \in [Procs -> {SmallTable, Handles}]
        /\ line' \in Seq(Procs) /\ line' # <<>> /\ resident' \subseteq Procs
        /\ opened' \subseteq Streams
    BY <1>1, <1>3 DEF TypeOK
  <2>2. Distinct' /\ Using' = Using
    BY <1>3 DEF IInv, Distinct, Using
  <2>3. QED
    BY <1>1, <1>3, <1>4, <1>10, <2>1, <2>2, RowStep
<1>12. Keeps(filetable, Refs(jft), filetable', Refs(jft'))
  BY <1>3 DEF Keeps
<1>13. QED
  BY <1>11, <1>12 DEF Step

--------------------------------------------------------------------------------
(* The invariant holds at first. *)
LEMMA InitInv == ASSUME Init PROVE IInv
<1>1. PICK p \in Procs :
         /\ line = <<p>>
         /\ jft = [q \in Procs |-> [h \in Jft |->
                      IF q = p /\ h < Standard THEN h ELSE Unused]]
  BY DEF Init
<1>2. /\ filetable = [s \in Sft |->
            IF s < Standard
            THEN [f |-> StdStream, count |-> 1, isfile |-> OnFile(s), shown |-> FALSE]
            ELSE FreeEntry]
      /\ size = [q \in Procs |-> Handles]
      /\ resident = {} /\ opened = {}
  BY DEF Init
<1>3. /\ Standard \in Nat /\ Standard >= 2 /\ Standard <= Entries /\ Standard <= Handles
      /\ Entries \in Nat /\ Handles \in Nat
  BY HandlesAssumption
<1>4. \A h \in Jft : h < Standard => h \in Sft
  BY <1>3 DEF Jft, Sft
<1>5. \A s \in Sft : s < Standard => s \in Jft
  BY <1>3 DEF Jft, Sft
<1>6. jft \in Tables
  BY <1>1, <1>4 DEF Tables
<1>7. ASSUME NEW s \in Sft
      PROVE  filetable[s] \in Entry /\ EntryOK(s, filetable[s], Refs(jft)[s])
  <2>1. PICK e, R : e = filetable[s] /\ R = Refs(jft)[s]
    OBVIOUS
  <2>2. R = {x \in Pairs : jft[x[1]][x[2]] = s}
    BY <2>1 DEF Refs
  <2>3. ASSUME NEW x \in Pairs PROVE x \in R <=> s < Standard /\ x = <<p, s>>
    <3>1. PICK q \in Procs, h \in Jft : x = <<q, h>>
      BY DEF Pairs
    <3>2. jft[q][h] = IF q = p /\ h < Standard THEN h ELSE Unused
      BY <1>1
    <3>3. x \in R <=> jft[q][h] = s
      BY <2>2, <3>1
    <3>4. QED
      BY <3>1, <3>2, <3>3, Constants
  <2>4. CASE s < Standard
    <3>1. <<p, s>> \in Pairs
      BY <1>5, <2>4 DEF Pairs
    <3>2. R = {<<p, s>>}
      BY <2>2, <2>3, <2>4, <3>1
    <3>3. IsFiniteSet(R) /\ Cardinality(R) = 1
      BY <3>2, FS_Singleton
    <3>4. PICK isfile : isfile = OnFile(s)
      OBVIOUS
    <3>5. isfile \in BOOLEAN /\ (s < 3 => isfile = (s \in Redirected))
      <4>1. s \in Nat
        BY Constants
      <4>2. isfile = ((IF s > 2 THEN 2 ELSE s) \in Redirected)
        BY <3>4 DEF OnFile
      <4>3. isfile \in BOOLEAN
        BY <4>2
      <4>4. s < 3 => isfile = (s \in Redirected)
        BY <4>1, <4>2
      <4>5. QED
        BY <4>3, <4>4
    <3>6. e = [f |-> StdStream, count |-> 1, isfile |-> isfile, shown |-> FALSE]
      BY <1>2, <2>1, <2>4, <3>4
    <3>7. /\ e \in Entry /\ e.f = StdStream /\ e.count = 1 /\ e.isfile = isfile
          /\ e.shown = FALSE
      BY <3>5, <3>6 DEF Entry
    <3>8. EntryOK(s, e, R)
      BY <3>3, <3>5, <3>7, Constants DEF EntryOK
    <3>9. QED
      BY <2>1, <3>7, <3>8
  <2>5. CASE ~ (s < Standard)
    <3>1. R = {}
      BY <2>2, <2>3, <2>5
    <3>2. IsFiniteSet(R) /\ Cardinality(R) = 0
      BY <3>1, FS_EmptySet
    <3>3. e = [f |-> NULL, count |-> 0, isfile |-> TRUE, shown |-> FALSE]
      BY <1>2, <2>1, <2>5 DEF FreeEntry
    <3>4. e \in Entry /\ e.f = NULL /\ e.count = 0 /\ e.isfile = TRUE /\ e.shown = FALSE
      BY <3>3 DEF Entry
    <3>5. EntryOK(s, e, R)
      BY <3>2, <3>4, Constants DEF EntryOK
    <3>6. QED
      BY <2>1, <3>4, <3>5
  <2>6. QED
    BY <2>4, <2>5
<1>8. filetable \in [Sft -> Entry]
  <2>1. filetable = [s \in Sft |-> filetable[s]]
    BY <1>2
  <2>2. QED
    BY <1>7, <2>1
<1>9. HostOK(filetable, opened)
  <2>1. \A s \in Sft : filetable[s].f \in {NULL, StdStream}
    BY <1>2 DEF FreeEntry
  <2>2. QED
    BY <1>2, <2>1 DEF HostOK
<1>10. Good(filetable, Refs(jft), opened)
  BY <1>7, <1>8, <1>9 DEF Good, Refs
<1>11. line \in Seq(Procs) /\ line # <<>> /\ DOMAIN line = {1} /\ line[1] = p
  BY <1>1
<1>12. TypeOK
  BY <1>2, <1>6, <1>8, <1>11 DEF TypeOK, Tables
<1>13. Distinct
  BY <1>2, <1>11 DEF Distinct
<1>14. Ended
  <2>1. p \in Using
    BY <1>11 DEF Using
  <2>2. QED
    BY <1>1, <2>1 DEF Ended
<1>15. QED
  BY <1>10, <1>12, <1>13, <1>14 DEF IInv

(* Every step keeps it, and no handle that stays loses its file. *)
LEMMA NextStep == ASSUME IInv, [Next]_vars PROVE Step
<1>1. ASSUME NEW x \in Streams, NEW isfile \in BOOLEAN, dos_open_file(x, isfile) PROVE Step
  BY <1>1, OpenStep
<1>2. CASE OpenRefused
  BY <1>2, OpenRefusedStep
<1>3. ASSUME NEW h \in Jft, dos_close_file(h) PROVE Step
  BY <1>3, CloseStep
<1>4. ASSUME NEW h \in Jft, DUP(h) PROVE Step
  BY <1>4, DupStep
<1>5. ASSUME NEW h \in Jft, NEW g \in Jft, DUP2(h, g) PROVE Step
  BY <1>5, Dup2Step
<1>6. ASSUME NEW n \in {SmallTable, Handles}, SetHandleCount(n) PROVE Step
  BY <1>6, SetHandleCountStep
<1>7. ASSUME NEW al \in {0, 1}, Exec(al) PROVE Step
  BY <1>7, ExecStep
<1>8. CASE CreateChildPSP
  BY <1>8, CreateChildStep
<1>9. CASE Exit
  BY <1>9, ExitStep
<1>10. CASE KeepResident
  BY <1>10, KeepResidentStep
<1>11. CASE UNCHANGED vars
  <2>1. TypeOK' /\ Distinct' /\ Ended'
    BY <1>11 DEF vars, IInv, TypeOK, Distinct, Ended, Using
  <2>2. Good(filetable', Refs(jft'), opened')
    BY <1>11 DEF vars, IInv
  <2>3. QED
    BY <1>11, <2>1, <2>2 DEF vars, IInv, Step, Keeps
<1>12. QED
  BY <1>1, <1>2, <1>3, <1>4, <1>5, <1>6, <1>7, <1>8, <1>9, <1>10, <1>11 DEF Next

(* The handles of live processes are all the handles there are. *)
LEMMA AllReferences ==
  ASSUME IInv, NEW s \in Sft
  PROVE  References(s) = Refs(jft)[s]
<1>1. Using \subseteq Procs
  BY CurrentFacts DEF IInv
<1>2. ASSUME NEW x \in Pairs, jft[x[1]][x[2]] = s PROVE x \in Using \X Jft
  <2>1. PICK q \in Procs, h \in Jft : x = <<q, h>>
    BY DEF Pairs
  <2>2. q \in Using
    BY <1>2, <2>1, Constants DEF IInv, Ended
  <2>3. QED
    BY <2>1, <2>2
<1>3. Using \X Jft \subseteq Pairs
  BY <1>1 DEF Pairs
<1>4. Refs(jft)[s] = {x \in Pairs : jft[x[1]][x[2]] = s}
  BY DEF Refs
<1>5. QED
  BY <1>2, <1>3, <1>4 DEF References

--------------------------------------------------------------------------------
(* The invariant behind all that follows. *)
THEOREM Invariant == Spec => []IInv
<1>1. Init => IInv
  BY InitInv
<1>2. IInv /\ [Next]_vars => IInv'
  BY NextStep DEF Step
<1>3. QED
  BY <1>1, <1>2, PTL DEF Spec

(* Entries, handle tables, the line of processes and the streams have      *)
(* their types, whatever the programs open, close, duplicate and run.      *)
THEOREM TypeCorrect == Spec => []TypeOK
<1>1. IInv => TypeOK
  BY DEF IInv
<1>2. QED
  BY <1>1, Invariant, PTL

(* Unless AH=67h cuts off handles that are open, the count of every entry  *)
(* but entry 1 is the number of handles that name it.                      *)
THEOREM CountsAreRight == CutsOpen = FALSE => (Spec => []CountsMatch)
<1>1. ASSUME CutsOpen = FALSE, IInv PROVE CountsMatch
  <2>1. ASSUME NEW s \in Sft
        PROVE  IF s = 1 THEN filetable[s].count >= Cardinality(References(s))
                        ELSE filetable[s].count = Cardinality(References(s))
    <3>1. References(s) = Refs(jft)[s]
      BY <1>1, AllReferences
    <3>2. PICK e, R : e = filetable[s] /\ R = Refs(jft)[s]
      OBVIOUS
    <3>3. EntryOK(s, e, R) /\ e \in Entry
      BY <1>1, <3>2 DEF IInv, Good
    <3>4. Cardinality(R) \in Nat /\ e.count \in Nat
      BY <3>3, FS_CardinalityType DEF EntryOK, Entry
    <3>5. IF s = 1 THEN e.count >= Cardinality(R) ELSE e.count = Cardinality(R)
      BY <1>1, <3>3, <3>4 DEF EntryOK, Loose
    <3>6. QED
      BY <3>1, <3>2, <3>5
  <2>2. QED
    BY <2>1 DEF CountsMatch
<1>2. CutsOpen = FALSE /\ IInv => CountsMatch
  BY <1>1
<1>3. QED
  <2>1. SUFFICES ASSUME CutsOpen = FALSE PROVE Spec => []CountsMatch
    OBVIOUS
  <2>2. IInv => CountsMatch
    BY <1>2, <2>1
  <2>3. QED
    BY <2>2, Invariant, PTL

(* Open host streams and used entries are the same, one to one, whatever   *)
(* is closed, inherited or restored: no entry holds a dead stream.         *)
THEOREM StreamsAgree == Spec => []HostStreams
<1>1. IInv => HostStreams
  BY DEF IInv, Good, HostOK, HostStreams
<1>2. QED
  BY <1>1, Invariant, PTL

(* The copy in DOS memory shows the open files and no free entry. *)
THEOREM CopyIsRight == Spec => []CopyAgrees
<1>1. IInv => CopyAgrees
  BY DEF IInv, Good, EntryOK, CopyAgrees
<1>2. QED
  BY <1>1, Invariant, PTL

(* No step takes the file of a handle that stays, whichever process        *)
(* closes, duplicates, starts or ends.                                     *)
THEOREM FilesStay == Spec => HandleKeepsFile
<1>1. ASSUME IInv, Step, NEW p \in Using, NEW h \in Jft, NEW s,
             s = jft[p][h], s # Unused, p \in Using', jft'[p][h] = s,
             filetable[s].f # NULL
      PROVE  filetable'[s].f = filetable[s].f
  <2>1. p \in Procs /\ s \in Sft
    <3>1. Using \subseteq Procs /\ jft \in Tables
      BY <1>1, CurrentFacts DEF IInv, TypeOK, Tables
    <3>2. QED
      BY <1>1, <3>1 DEF Tables
  <2>2. PICK x : x = <<p, h>>
    OBVIOUS
  <2>3. x \in Pairs /\ x[1] = p /\ x[2] = h
    BY <2>1, <2>2 DEF Pairs
  <2>4. x \in Refs(jft)[s] /\ x \in Refs(jft')[s]
    BY <1>1, <2>1, <2>3 DEF Refs
  <2>5. Refs(jft)[s] \cap Refs(jft')[s] # {}
    BY <2>4
  <2>6. QED
    BY <1>1, <2>1, <2>5 DEF Step, Keeps
<1>2. IInv /\ [Next]_vars =>
         [\A p \in Using, h \in Jft :
             LET s == jft[p][h]
             IN  s # Unused /\ p \in Using' /\ jft'[p][h] = s /\ filetable[s].f # NULL
                    => filetable'[s].f = filetable[s].f]_vars
  BY <1>1, NextStep
<1>3. QED
  BY <1>2, Invariant, PTL DEF Spec, HandleKeepsFile
================================================================================
