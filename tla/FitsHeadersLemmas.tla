------------------------- MODULE FitsHeadersLemmas -------------------------
(***************************************************************************)
(* What the operators of FitsHeaders compute, for lists of every length:   *)
(* the index of a new file, the update of a list, and the part of it that  *)
(* reaches a file.                                                         *)
(***************************************************************************)
EXTENDS FitsHeaders, FoldLemmas, SequenceTheorems

-----------------------------------------------------------------------------
(* The index of a new file.                                                *)

\* make_fits_filename() counts entry by entry.
LEMMA CountSteps ==
  ASSUME NEW entries \in Seq(Nat)
  PROVE  \E c \in [0..Len(entries) -> Nat] :
           /\ c[0] = 1
           /\ \A i \in 1..Len(entries) : c[i] = CountFile(entries[i], c[i - 1])
           /\ FoldLeft(LAMBDA img_count, n : CountFile(n, img_count), 1, entries)
                = c[Len(entries)]
<1> DEFINE n == Len(entries)
           counts == [i \in 1..n |-> [v \in Nat |-> CountFile(entries[i], v)]]
           Iterates(f) ==
             f = [s \in SUBSET (1..n) |->
                    IF s = {} THEN 1
                    ELSE CountFile(entries[Max(s)], f[s \ {Max(s)}])]
           it == CHOOSE f : Iterates(f)
<1>1. n \in Nat /\ DOMAIN entries = 1..n /\ \A i \in 1..n : entries[i] \in Nat
  OBVIOUS
<1>2. counts \in [1..n -> [Nat -> Nat]]
  BY <1>1 DEF CountFile
<1>3. FoldLeft(LAMBDA img_count, k : CountFile(k, img_count), 1, entries) = it[1..n]
  BY <1>1 DEF FoldLeft, MapThenFoldSet
<1> HIDE DEF n
<1>4. \A s \in SUBSET (1..n) : s # {} => Max(s) \in 1..n /\ Max(s) \in s
  BY <1>1, MaxOfInterval
<1>5. Iterates(it)
  <2>1. PICK f : f \in [SUBSET (1..n) -> Nat] /\ IsFold(f, n, Nat, 1, counts)
    <3> HIDE DEF counts
    <3>1. 1 \in Nat
      OBVIOUS
    <3> QED
      BY <1>1, <1>2, <3>1, FoldExists, Zenon
  <2>2. ASSUME NEW s \in SUBSET (1..n), s # {}
        PROVE  f[s] = CountFile(entries[Max(s)], f[s \ {Max(s)}])
    <3>1. f[s \ {Max(s)}] \in Nat
      BY <2>1
    <3> QED
      BY <1>4, <2>1, <2>2, <3>1 DEF IsFold
  <2>3. f[{}] = 1
    BY <2>1 DEF IsFold
  <2>4. Iterates(f)
    BY <2>1, <2>2, <2>3
  <2> HIDE DEF Iterates
  <2> QED
    BY <2>4
<1> HIDE DEF it
<1>6. IsFold(it, n, Nat, 1, counts)
  <2>1. it[{}] = 1
    BY <1>5
  <2>2. ASSUME NEW s \in SUBSET (1..n), s # {}, it[s \ {Max(s)}] \in Nat
        PROVE  it[s] = counts[Max(s)][it[s \ {Max(s)}]]
    <3>1. it[s] = CountFile(entries[Max(s)], it[s \ {Max(s)}])
      BY <1>5, <2>2
    <3>2. Max(s) \in 1..n
      BY <1>4, <2>2
    <3> HIDE DEF Iterates
    <3> QED
      BY <2>2, <3>1, <3>2
  <2> HIDE DEF Iterates, counts
  <2> QED
    BY <2>1, <2>2 DEF IsFold
<1> DEFINE c == Along(it, n)
<1>7. Passes(c, n, Nat, 1, counts)
  <2> HIDE DEF counts, Iterates
  <2>1. 1 \in Nat
    OBVIOUS
  <2> QED
    BY <1>1, <1>2, <1>6, <2>1, FoldValues, Zenon
<1> HIDE DEF Iterates, c
<1>8. c \in [0..n -> Nat] /\ c[0] = 1
  BY <1>7 DEF Passes
<1>9. ASSUME NEW i \in 1..n PROVE c[i] = CountFile(entries[i], c[i - 1])
  <2>1. i - 1 \in 0..n
    BY <1>1
  <2>2. c[i - 1] \in Nat
    BY <1>8, <2>1
  <2> QED
    BY <1>7, <2>2 DEF Passes
<1>10. it[1..n] = c[n]
  BY <1>1 DEF Along, c
<1> QED
  BY <1>3, <1>8, <1>9, <1>10 DEF n

\* The count ends above every entry, in whatever order they come.
LEMMA CountIsAbove ==
  ASSUME NEW entries \in Seq(Nat)
  PROVE  LET count_of == FoldLeft(LAMBDA img_count, n : CountFile(n, img_count),
                                  1, entries)
         IN  /\ count_of \in Nat \ {0}
             /\ \A i \in 1..Len(entries) : entries[i] < count_of
<1> DEFINE n == Len(entries)
           count_of == FoldLeft(LAMBDA img_count, k : CountFile(k, img_count),
                                1, entries)
<1>1. n \in Nat /\ \A i \in 1..n : entries[i] \in Nat
  OBVIOUS
<1>2. PICK c \in [0..n -> Nat] :
        /\ c[0] = 1
        /\ \A i \in 1..n : c[i] = CountFile(entries[i], c[i - 1])
        /\ count_of = c[n]
  BY CountSteps
<1> HIDE DEF n, count_of
<1> DEFINE Above(k) ==
             k <= n => c[k] >= 1 /\ \A i \in 1..k : entries[i] < c[k]
<1>3. Above(0)
  <2>1. \A i \in 1..0 : FALSE
    OBVIOUS
  <2> QED
    BY <1>2, <2>1
<1>4. ASSUME NEW k \in Nat, Above(k) PROVE Above(k + 1)
  <2> SUFFICES ASSUME k + 1 <= n
               PROVE  c[k + 1] >= 1 /\ \A i \in 1..(k + 1) : entries[i] < c[k + 1]
    OBVIOUS
  <2>1. c[k + 1] = CountFile(entries[k + 1], c[k])
    <3>1. k + 1 \in 1..n /\ (k + 1) - 1 = k
      BY <1>1
    <3>2. \A i \in 1..n : c[i] = CountFile(entries[i], c[i - 1])
      BY <1>2
    <3> QED
      BY <3>1, <3>2
  <2>2. c[k] \in Nat /\ c[k] >= 1 /\ \A i \in 1..k : entries[i] < c[k]
    <3>1. k <= n /\ k \in 0..n
      BY <1>1
    <3> QED
      BY <1>4, <3>1
  <2>3. entries[k + 1] \in Nat /\ \A i \in 1..k : entries[i] \in Nat
    BY <1>1
  <2>4. c[k + 1] >= c[k] /\ entries[k + 1] < c[k + 1]
    BY <2>1, <2>2, <2>3 DEF CountFile
  <2>5. c[k + 1] \in Nat
    BY <1>1
  <2> HIDE DEF Above
  <2>6. ASSUME NEW i \in 1..(k + 1) PROVE entries[i] < c[k + 1]
    <3>1. CASE i = k + 1
      BY <2>4, <3>1
    <3>2. CASE i \in 1..k
      <4>1. entries[i] \in Nat /\ entries[i] < c[k]
        BY <2>2, <2>3, <3>2
      <4> QED
        BY <2>2, <2>4, <2>5, <4>1
    <3> QED
      BY <3>1, <3>2
  <2> QED
    BY <2>2, <2>4, <2>5, <2>6
<1>5. Above(n)
  <2> HIDE DEF Above
  <2> DEFINE S == {k \in Nat : Above(k)}
  <2>1. 0 \in S /\ \A k \in Nat : k \in S => k + 1 \in S
    BY <1>3, <1>4
  <2>2. Nat \subseteq S
    <3> HIDE DEF S
    <3> QED
      BY <2>1, SetInduction
  <2> QED
    BY <1>1, <2>2
<1>6. c[n] \in Nat \ {0} /\ \A i \in 1..n : entries[i] < c[n]
  <2>1. c[n] \in Nat
    BY <1>1
  <2>2. n <= n
    BY <1>1
  <2> QED
    BY <1>5, <2>1, <2>2
<1> QED
  BY <1>2, <1>6 DEF n, count_of

\* SetToSeq() lists every element of a finite set.
LEMMA SetToSeqLists ==
  ASSUME NEW S, IsFiniteSet(S)
  PROVE  /\ SetToSeq(S) \in Seq(S)
         /\ \A x \in S : \E i \in 1..Len(SetToSeq(S)) : SetToSeq(S)[i] = x
<1> DEFINE n == Cardinality(S)
           Lists(f) == f \in [1..n -> S] /\ IsInjective(f)
<1>1. n \in Nat /\ ExistsBijection(1..n, S)
  BY FS_CardinalityType
<1>2. PICK f \in Bijection(1..n, S) : TRUE
  BY <1>1 DEF ExistsBijection
<1>3. Lists(f)
  BY <1>2 DEF Bijection, Injection, IsInjective
<1>4. Lists(SetToSeq(S))
  BY <1>3 DEF SetToSeq
<1>5. SetToSeq(S) \in Injection(1..n, S)
  BY <1>4 DEF Injection, IsInjective
<1>6. Cardinality(1..n) = n
  BY <1>1, FS_Interval
<1>7. SetToSeq(S) \in Surjection(1..n, S)
  BY <1>5, <1>6, FS_Injection
<1>8. SetToSeq(S) \in Seq(S) /\ Len(SetToSeq(S)) = n
  BY <1>1, <1>4
<1> QED
  BY <1>7, <1>8 DEF Surjection

\* The index that make_fits_filename() gives is above all that are in use.
LEMMA NextIndexIsAbove ==
  ASSUME dir \subseteq Names, NEW base
  PROVE  /\ NextIndex(base) \in Nat \ {0}
         /\ \A entry \in dir : entry[1] = base => entry[2] < NextIndex(base)
<1> DEFINE used == {entry[2] : entry \in {e \in dir : e[1] = base}}
<1>1. used \subseteq 1..IndexCap
  BY DEF Names
<1>2. IsFiniteSet(used)
  <2>1. IsFiniteSet(1..IndexCap)
    <3>1. 1 \in Int /\ IndexCap \in Int
      BY FitsAssumption
    <3> QED
      BY <3>1, FS_Interval, Zenon
  <2>2. used \in SUBSET (1..IndexCap)
    BY <1>1, Zenon
  <2> HIDE DEF used
  <2> QED
    BY <2>1, <2>2, FS_Subset, Zenon
<1>3. /\ SetToSeq(used) \in Seq(used)
      /\ \A x \in used : \E i \in 1..Len(SetToSeq(used)) : SetToSeq(used)[i] = x
  <2> HIDE DEF used
  <2> QED
    BY <1>2, SetToSeqLists
<1>4. SetToSeq(used) \in Seq(Nat)
  <2>1. used \subseteq Nat
    BY <1>1, FitsAssumption
  <2> HIDE DEF used
  <2> QED
    BY <1>3, <2>1, SeqMonotonic
<1>5. /\ NextIndex(base) \in Nat \ {0}
      /\ \A i \in 1..Len(SetToSeq(used)) : SetToSeq(used)[i] < NextIndex(base)
  BY <1>4, CountIsAbove DEF NextIndex
<1>6. ASSUME NEW entry \in dir, entry[1] = base PROVE entry[2] \in used
  BY <1>6
<1> HIDE DEF used
<1> QED
  BY <1>3, <1>5, <1>6
-----------------------------------------------------------------------------
(* The update of a list.                                                   *)

\* What an update makes of a list: at most one header longer, and where it is
\* as long as before only a header of the same key and type was replaced.
Updated(list, hdr, new) ==
  /\ new \in Seq(Headers)
  /\ \/ /\ \A i \in 1..Len(list) : ~SameKey(list[i], hdr)
        /\ Len(new) = Len(list) + 1
        /\ new[Len(new)] = hdr
        /\ \A i \in 1..Len(list) : new[i] = list[i]
     \/ /\ Len(new) = Len(list)
        /\ \E at \in 1..Len(list) :
             /\ SameKey(list[at], hdr)
             /\ new[at] = IF list[at].type = hdr.type THEN hdr ELSE list[at]
             /\ \A i \in 1..Len(list) : i # at => new[i] = list[i]

\* FitsHeaders::update() does.
LEMMA UpdateOne ==
  ASSUME NEW list \in Seq(Headers), NEW hdr \in Headers
  PROVE  Updated(list, hdr, Update(hdr)[list])
<1> DEFINE same == {i \in DOMAIN list : SameKey(list[i], hdr)}
           at == CHOOSE i \in same : \A j \in same : i <= j
           new == Update(hdr)[list]
<1>1. /\ Len(list) \in Nat /\ DOMAIN list = 1..Len(list)
      /\ \A i \in 1..Len(list) : list[i] \in Headers
  OBVIOUS
<1>2. new = IF same = {} THEN Append(list, hdr)
            ELSE IF list[at].type = hdr.type THEN [list EXCEPT ![at] = hdr]
            ELSE list
  BY DEF Update
<1> HIDE DEF new
<1>3. ASSUME same = {} PROVE Updated(list, hdr, new)
  <2>1. new = Append(list, hdr)
    BY <1>2, <1>3
  <2>2. \A i \in 1..Len(list) : ~SameKey(list[i], hdr)
    BY <1>1, <1>3
  <2>3. /\ new \in Seq(Headers) /\ Len(new) = Len(list) + 1
        /\ new[Len(new)] = hdr
        /\ \A i \in 1..Len(list) : new[i] = list[i]
    BY <2>1, AppendProperties
  <2> QED
    BY <2>2, <2>3, Zenon DEF Updated
<1>4. ASSUME same # {} PROVE Updated(list, hdr, new)
  <2>1. at \in same
    <3>1. same \in SUBSET Nat
      BY <1>1
    <3>2. \E i \in same : \A j \in same : i <= j
      <4> HIDE DEF same
      <4> QED
        BY <1>4, <3>1, LeastNatural
    <3> QED
      BY <3>2
  <2>2. at \in 1..Len(list) /\ SameKey(list[at], hdr)
    BY <1>1, <2>1
  <2> HIDE DEF same, at
  <2>3. new = IF list[at].type = hdr.type THEN [list EXCEPT ![at] = hdr]
              ELSE list
    BY <1>2, <1>4
  <2>4. /\ new \in Seq(Headers) /\ Len(new) = Len(list)
        /\ new[at] = IF list[at].type = hdr.type THEN hdr ELSE list[at]
        /\ \A i \in 1..Len(list) : i # at => new[i] = list[i]
    <3>1. CASE list[at].type = hdr.type
      <4>1. new = [list EXCEPT ![at] = hdr]
        BY <2>3, <3>1
      <4> HIDE DEF new
      <4> QED
        BY <1>1, <2>2, <3>1, <4>1, ExceptSeq
    <3>2. CASE list[at].type # hdr.type
      BY <1>1, <2>3, <3>2
    <3> QED
      BY <3>1, <3>2
  <2> QED
    BY <2>2, <2>4, Zenon DEF Updated
<1> QED
  BY <1>3, <1>4 DEF new

\* The lists that UpdateAll() passes through.
Updates(c, list, hdrs) ==
  /\ c \in [0..Len(hdrs) -> Seq(Headers)]
  /\ c[0] = list
  /\ \A i \in 1..Len(hdrs) : Updated(c[i - 1], hdrs[i], c[i])

\* UpdateAll() updates header by header.
LEMMA UpdateSteps ==
  ASSUME NEW list \in Seq(Headers), NEW hdrs \in Seq(Headers)
  PROVE  \E c : Updates(c, list, hdrs) /\ UpdateAll(list, hdrs) = c[Len(hdrs)]
<1> DEFINE n == Len(hdrs)
           V == Seq(Headers)
           updates == [i \in 1..n |-> Update(hdrs[i])]
           Iterates(f) ==
             f = [s \in SUBSET (1..n) |->
                    IF s = {} THEN list
                    ELSE Update(hdrs[Max(s)])[f[s \ {Max(s)}]]]
           it == CHOOSE f : Iterates(f)
<1>1. n \in Nat /\ DOMAIN hdrs = 1..n /\ \A i \in 1..n : hdrs[i] \in Headers
  OBVIOUS
<1>2. UpdateAll(list, hdrs) = it[1..n]
  BY <1>1 DEF UpdateAll, FoldLeft, MapThenFoldSet
<1>3. updates \in [1..n -> [V -> V]]
  <2>1. ASSUME NEW i \in 1..n PROVE Update(hdrs[i]) \in [V -> V]
    <3>1. hdrs[i] \in Headers
      BY <1>1
    <3>2. \A l \in V : Update(hdrs[i])[l] \in V
      BY <3>1, UpdateOne DEF Updated
    <3> QED
      BY <3>2 DEF Update
  <2> QED
    BY <2>1
<1> HIDE DEF n, V
<1>4. \A s \in SUBSET (1..n) : s # {} => Max(s) \in 1..n /\ Max(s) \in s
  BY <1>1, MaxOfInterval
<1>5. list \in V
  BY DEF V
<1>6. Iterates(it)
  <2>1. PICK f : f \in [SUBSET (1..n) -> V] /\ IsFold(f, n, V, list, updates)
    <3> HIDE DEF updates
    <3> QED
      BY <1>1, <1>3, <1>5, FoldExists, Zenon
  <2>2. ASSUME NEW s \in SUBSET (1..n), s # {}
        PROVE  f[s] = Update(hdrs[Max(s)])[f[s \ {Max(s)}]]
    <3>1. f[s \ {Max(s)}] \in V
      BY <2>1
    <3>2. updates[Max(s)] = Update(hdrs[Max(s)])
      BY <1>4, <2>2
    <3> HIDE DEF updates
    <3> QED
      BY <2>1, <2>2, <3>1, <3>2 DEF IsFold
  <2>3. f[{}] = list
    BY <2>1 DEF IsFold
  <2>4. Iterates(f)
    BY <2>1, <2>2, <2>3
  <2> HIDE DEF Iterates
  <2> QED
    BY <2>4
<1> HIDE DEF it
<1>7. IsFold(it, n, V, list, updates)
  <2>1. it[{}] = list
    BY <1>6
  <2>2. ASSUME NEW s \in SUBSET (1..n), s # {}, it[s \ {Max(s)}] \in V
        PROVE  it[s] = updates[Max(s)][it[s \ {Max(s)}]]
    <3>1. it[s] = Update(hdrs[Max(s)])[it[s \ {Max(s)}]]
      BY <1>6, <2>2
    <3>2. updates[Max(s)] = Update(hdrs[Max(s)])
      BY <1>4, <2>2
    <3> HIDE DEF Iterates, updates
    <3> QED
      BY <3>1, <3>2
  <2> HIDE DEF Iterates, updates
  <2> QED
    BY <2>1, <2>2 DEF IsFold
<1> DEFINE c == Along(it, n)
<1>8. Passes(c, n, V, list, updates)
  <2> HIDE DEF updates, Iterates
  <2> QED
    BY <1>1, <1>3, <1>5, <1>7, FoldValues, Zenon
<1> HIDE DEF Iterates, c
<1>9. c \in [0..n -> V] /\ c[0] = list
  BY <1>8 DEF Passes
<1>10. ASSUME NEW i \in 1..n PROVE Updated(c[i - 1], hdrs[i], c[i])
  <2>1. i - 1 \in 0..n
    BY <1>1
  <2>2. c[i - 1] \in V /\ hdrs[i] \in Headers
    BY <1>1, <1>9, <2>1
  <2>3. c[i] = Update(hdrs[i])[c[i - 1]]
    BY <1>8 DEF Passes
  <2> QED
    BY <2>2, <2>3, UpdateOne DEF V
<1>11. it[1..n] = c[n]
  BY <1>1 DEF Along, c
<1>12. Updates(c, list, hdrs)
  BY <1>9, <1>10 DEF Updates, n, V
<1> QED
  BY <1>2, <1>11, <1>12 DEF n

\* What every update preserves, the whole of UpdateAll() does: P[i] is the set
\* of the lists there may be after i headers.
LEMMA UpdateInduction ==
  ASSUME NEW list \in Seq(Headers), NEW hdrs \in Seq(Headers), NEW P,
         list \in P[0],
         \A i \in 1..Len(hdrs) : \A old, new \in Seq(Headers) :
           old \in P[i - 1] /\ Updated(old, hdrs[i], new) => new \in P[i]
  PROVE  UpdateAll(list, hdrs) \in Seq(Headers) /\ UpdateAll(list, hdrs) \in P[Len(hdrs)]
<1> DEFINE n == Len(hdrs)
<1>1. n \in Nat
  OBVIOUS
<1>2. PICK c : Updates(c, list, hdrs) /\ UpdateAll(list, hdrs) = c[n]
  BY UpdateSteps
<1>3. /\ c \in [0..n -> Seq(Headers)] /\ c[0] = list
      /\ \A i \in 1..n : Updated(c[i - 1], hdrs[i], c[i])
  BY <1>2 DEF Updates
<1>4. \A i \in 1..n : \A old, new \in Seq(Headers) :
        old \in P[i - 1] /\ Updated(old, hdrs[i], new) => new \in P[i]
  OBVIOUS
<1> DEFINE S == {i \in Nat : i <= n => c[i] \in P[i]}
<1> HIDE DEF n
<1>5. 0 \in S
  BY <1>3
<1>6. ASSUME NEW i \in Nat, i \in S PROVE i + 1 \in S
  <2> SUFFICES ASSUME i + 1 <= n PROVE c[i + 1] \in P[i + 1]
    OBVIOUS
  <2>1. i + 1 \in 1..n /\ (i + 1) - 1 = i /\ i \in 0..n /\ i + 1 \in 0..n
    BY <1>1
  <2>2. c[i] \in P[i] /\ c[i] \in Seq(Headers) /\ c[i + 1] \in Seq(Headers)
    BY <1>3, <1>6, <2>1
  <2>3. Updated(c[i], hdrs[i + 1], c[i + 1])
    BY <1>3, <2>1
  <2>4. \A old, new \in Seq(Headers) :
          old \in P[i] /\ Updated(old, hdrs[i + 1], new) => new \in P[i + 1]
    BY <1>4, <2>1
  <2> QED
    BY <2>2, <2>3, <2>4, Zenon
<1>7. Nat \subseteq S
  <2> HIDE DEF S
  <2> QED
    BY <1>5, <1>6, SetInduction
<1>8. c[n] \in P[n] /\ c[n] \in Seq(Headers)
  BY <1>1, <1>3, <1>7
<1> QED
  BY <1>2, <1>8 DEF n

-----------------------------------------------------------------------------
(* The headers of setup_acquisition().                                     *)

\* The headers of the daemon: their keys differ, only TIMECORR is a long, and
\* of those that may stand for one of Aristarchos only it is not a char.
LEMMA OwnFacts ==
  /\ Len(OwnHeaders) = 13 /\ OwnHeaders \in Seq(ToSet(OwnHeaders))
  /\ \A i, j \in 1..13 : OwnHeaders[i] = OwnHeaders[j] => i = j
  /\ \A i \in 1..13 : TypeOf(OwnHeaders[i]) = "long" => i = 12
  /\ \A i \in 1..13 : OwnHeaders[i] \in FillEight /\ i # 12 =>
                        TypeOf(OwnHeaders[i]) = "char"
<1>1. Len(OwnHeaders) = 13 /\ OwnHeaders \in Seq(ToSet(OwnHeaders))
  <2>1. Len(OwnHeaders) = 13 /\ DOMAIN OwnHeaders = 1..13
    BY DEF OwnHeaders
  <2>2. OwnHeaders = [i \in 1..13 |-> OwnHeaders[i]]
    BY DEF OwnHeaders
  <2>3. \A i \in 1..13 : OwnHeaders[i] \in ToSet(OwnHeaders)
    BY <2>1 DEF ToSet
  <2>4. OwnHeaders \in Seq(ToSet(OwnHeaders))
    BY <2>2, <2>3, IsASeq
  <2> QED
    BY <2>1, <2>4
<1>2. \A i, j \in 1..13 : OwnHeaders[i] = OwnHeaders[j] => i = j
  <2> DEFINE place == [HSSPEED |-> 1, VSSPEED |-> 2, GAIN |-> 3, OBSERVER |-> 4,
                       EXPOSED |-> 5, EXPTIME |-> 6, VBIN |-> 7, HBIN |-> 8,
                       INSTRUME |-> 9, OBJECT |-> 10, FILTER |-> 11,
                       TIMECORR |-> 12, CCDTEMP |-> 13]
  <2>1. \A i \in 1..13 : place[OwnHeaders[i]] = i
    BY DEF OwnHeaders
  <2> HIDE DEF place
  <2> QED
    BY <2>1
<1>3. \A i \in 1..13 : TypeOf(OwnHeaders[i]) = "long" => i = 12
  BY DEF OwnHeaders, TypeOf
<1>4. \A i \in 1..13 : OwnHeaders[i] \in FillEight /\ i # 12 =>
                         TypeOf(OwnHeaders[i]) = "char"
  BY DEF OwnHeaders, TypeOf, FillEight
<1> QED
  BY <1>1, <1>2, <1>3, <1>4

\* What is collected are headers.
LEMMA OwnAreHeaders ==
  ASSUME NEW stable \in BOOLEAN
  PROVE  /\ Own(stable) \in Seq(Headers)
         /\ Len(Own(stable)) \in 12..13
         /\ \A i \in 1..Len(Own(stable)) :
              Own(stable)[i] = OwnHeader(OwnHeaders[i])
<1> DEFINE keys == IF stable THEN OwnHeaders
                   ELSE SubSeq(OwnHeaders, 1, Len(OwnHeaders) - 1)
<1>1. Own(stable) = [i \in DOMAIN keys |-> OwnHeader(keys[i])]
  BY DEF Own
<1>2. \A i \in 1..13 : OwnHeaders[i] \in ToSet(OwnHeaders)
  BY OwnFacts, ElementOfSeq
<1>3. /\ keys \in Seq(ToSet(OwnHeaders)) /\ Len(keys) \in 12..13
      /\ \A i \in 1..Len(keys) : keys[i] = OwnHeaders[i]
  <2>1. CASE stable
    BY <2>1, OwnFacts
  <2>2. CASE ~stable
    <3>1. keys = SubSeq(OwnHeaders, 1, 12)
      BY <2>2, OwnFacts
    <3>2. \A i \in 1..12 : OwnHeaders[i] \in ToSet(OwnHeaders)
      BY <1>2
    <3>3. /\ SubSeq(OwnHeaders, 1, 12) \in Seq(ToSet(OwnHeaders))
          /\ Len(SubSeq(OwnHeaders, 1, 12)) = 12
          /\ \A i \in 1..12 : SubSeq(OwnHeaders, 1, 12)[i] = OwnHeaders[i]
      BY <3>2, SubSeqProperties
    <3> HIDE DEF keys
    <3> QED
      BY <3>1, <3>3
  <2> QED
    BY <2>1, <2>2
<1> HIDE DEF keys
<1>4. DOMAIN keys = 1..Len(keys) /\ Len(keys) \in Nat
  BY <1>3
<1>5. \A i \in 1..Len(keys) : OwnHeader(keys[i]) \in Headers
  <2>1. \A key : TypeOf(key) \in Types
    BY DEF TypeOf, Types
  <2> QED
    BY <1>2, <1>3, <2>1 DEF OwnHeader, Headers, Keys
<1>6. Own(stable) \in Seq(Headers)
  BY <1>1, <1>4, <1>5, IsASeq
<1>7. Len(Own(stable)) = Len(keys)
  BY <1>1, <1>4
<1> QED
  BY <1>1, <1>3, <1>4, <1>6, <1>7

\* The lines of Aristarchos: some of those it sends.
ExtractedInv ==
  /\ extracted \in Seq(ToSet(FccHeaders))
  /\ Len(extracted) <= Len(FccHeaders)

LEMMA FccAreHeaders ==
  ASSUME ExtractedInv
  PROVE  /\ extracted \in Seq(ToSet(FccHeaders))
         /\ Fcc \in Seq(Headers) /\ Len(Fcc) = Len(extracted)
         /\ \A i \in 1..Len(extracted) : Fcc[i] = FccHeader(extracted[i])
<1>1. extracted \in Seq(ToSet(FccHeaders))
  BY DEF ExtractedInv
<1>2. DOMAIN extracted = 1..Len(extracted) /\ Len(extracted) \in Nat
  BY <1>1
<1>3. \A i \in 1..Len(extracted) : FccHeader(extracted[i]) \in Headers
  BY <1>1 DEF FccHeader, Headers, Keys, Types
<1>4. Fcc = [i \in 1..Len(extracted) |-> FccHeader(extracted[i])]
  BY <1>2 DEF Fcc
<1>5. Fcc \in Seq(Headers)
  BY <1>2, <1>3, <1>4, IsASeq
<1> QED
  BY <1>1, <1>2, <1>4, <1>5

-----------------------------------------------------------------------------
(* What is true of the list while it is collected.                         *)

\* No header up to place p ends the writing of the list.
Unhidden(list, p) == \A q \in 1..p : list[q].type # "long"

\* The header of the daemon is the last of its key, and reaches the file.
Told(list, key) ==
  \E p \in 1..Len(list) :
    /\ list[p] = OwnHeader(key)
    /\ \A q \in 1..Len(list) : list[q].key = key => q <= p
    /\ Unhidden(list, p)

\* Some header of this keyword reaches the file.
Kept(list, key) ==
  \E p \in 1..Len(list) : list[p].key = key /\ Unhidden(list, p)

\* The list holds one header of a key at most, of Aristarchos or one of the
\* first n of setup_acquisition().
Collected(list, n) ==
  /\ \A p \in 1..Len(list) : \/ list[p] = FccHeader(list[p].key)
                             \/ \E k \in 1..n : list[p] = OwnHeader(OwnHeaders[k])
  /\ \A p, q \in 1..Len(list) : SameKey(list[p], list[q]) => p = q

\* After the headers of Aristarchos and n of its own.
AfterOwn(list, n) ==
  /\ Collected(list, n)
  /\ \A k \in 1..n : k <= 11 => Told(list, OwnHeaders[k])
  /\ \A key \in ToSet(extracted) : Kept(list, key)

\* What a file needs of the list.
Complete(list) ==
  /\ \A key \in Reached : Told(list, key)
  /\ \A key \in ToSet(extracted) : Kept(list, key)

\* One line of Aristarchos after the other: each of them is in the list.
LEMMA FccUpdate ==
  ASSUME NEW old \in Seq(Headers), NEW new \in Seq(Headers), NEW line,
         Collected(old, 0), Updated(old, FccHeader(line), new)
  PROVE  /\ Collected(new, 0)
         /\ \E p \in 1..Len(new) : new[p].key = line
         /\ \A p \in 1..Len(old) : p \in 1..Len(new) /\ new[p].key = old[p].key
<1>1. Len(old) \in Nat /\ Len(new) \in Nat
  OBVIOUS
<1>2. \A p \in 1..Len(old) : old[p] = FccHeader(old[p].key)
  BY DEF Collected
<1>3. FccHeader(line).key = line
  BY DEF FccHeader
<1>4. \A p \in 1..Len(old) : SameKey(old[p], FccHeader(line)) =>
                               old[p] = FccHeader(line)
  BY <1>2, <1>3 DEF SameKey
<1>5. CASE /\ \A i \in 1..Len(old) : ~SameKey(old[i], FccHeader(line))
           /\ Len(new) = Len(old) + 1
           /\ new[Len(new)] = FccHeader(line)
           /\ \A i \in 1..Len(old) : new[i] = old[i]
  <2>1. \A p \in 1..Len(new) : p \in 1..Len(old) \/ p = Len(new)
    BY <1>1, <1>5
  <2>2. \A p \in 1..Len(old) : p \in 1..Len(new) /\ p # Len(new)
    BY <1>1, <1>5
  <2>3. Len(new) \in 1..Len(new)
    BY <1>1, <1>5
  <2>4. \A p \in 1..Len(new) : new[p] = FccHeader(new[p].key)
    BY <1>2, <1>3, <1>5, <2>1
  <2>5. ASSUME NEW p \in 1..Len(new), NEW q \in 1..Len(new),
               SameKey(new[p], new[q])
        PROVE  p = q
    <3>1. \A i \in 1..Len(old) : ~SameKey(FccHeader(line), old[i])
      BY <1>5 DEF SameKey
    <3> QED
      BY <1>5, <2>1, <2>5, <3>1 DEF Collected
  <2> QED
    BY <1>3, <1>5, <2>2, <2>3, <2>4, <2>5 DEF Collected
<1>6. CASE /\ Len(new) = Len(old)
           /\ \E at \in 1..Len(old) :
                /\ SameKey(old[at], FccHeader(line))
                /\ new[at] = IF old[at].type = FccHeader(line).type
                             THEN FccHeader(line) ELSE old[at]
                /\ \A i \in 1..Len(old) : i # at => new[i] = old[i]
  <2>1. PICK at \in 1..Len(old) :
          /\ old[at] = FccHeader(line)
          /\ new[at] = old[at]
          /\ \A i \in 1..Len(old) : i # at => new[i] = old[i]
    BY <1>4, <1>6
  <2>2. \A i \in 1..Len(old) : new[i] = old[i]
    BY <2>1
  <2> QED
    BY <1>3, <1>6, <2>1, <2>2 DEF Collected
<1> QED
  BY <1>5, <1>6, Zenon DEF Updated

\* The merged list: nothing in it ends the writing.
LEMMA MergedList ==
  ASSUME ExtractedInv
  PROVE  Merge(<<>>, Fcc) \in Seq(Headers) /\ AfterOwn(Merge(<<>>, Fcc), 0)
<1> DEFINE n == Len(extracted)
           merged == Merge(<<>>, Fcc)
           Holds(list, i) ==
             \A k \in 1..i : \E p \in 1..Len(list) : list[p].key = extracted[k]
           P == [i \in 0..n |-> {list \in Seq(Headers) :
                                   Collected(list, 0) /\ Holds(list, i)}]
<1>1. /\ n \in Nat /\ extracted \in Seq(ToSet(FccHeaders))
      /\ Fcc \in Seq(Headers) /\ Len(Fcc) = n
      /\ \A i \in 1..n : Fcc[i] = FccHeader(extracted[i])
  BY FccAreHeaders
<1>2. merged = UpdateAll(<<>>, Fcc)
  BY DEF Merge
<1>3. <<>> \in Seq(Headers) /\ Len(<<>>) = 0
  OBVIOUS
<1> HIDE DEF n
<1>4. <<>> \in P[0]
  <2>1. Collected(<<>>, 0)
    BY <1>3 DEF Collected
  <2>2. Holds(<<>>, 0)
    OBVIOUS
  <2>3. 0 \in 0..n
    BY <1>1
  <2> QED
    BY <1>3, <2>1, <2>2, <2>3
<1>5. ASSUME NEW i \in 1..n, NEW old \in Seq(Headers), NEW new \in Seq(Headers),
             old \in P[i - 1], Updated(old, Fcc[i], new)
      PROVE  new \in P[i]
  <2>1. i \in 0..n /\ i - 1 \in 0..n
    BY <1>1
  <2>2. Collected(old, 0) /\ Holds(old, i - 1)
    BY <1>5, <2>1
  <2>3. Updated(old, FccHeader(extracted[i]), new)
    BY <1>1, <1>5
  <2>4. /\ Collected(new, 0)
        /\ \E p \in 1..Len(new) : new[p].key = extracted[i]
        /\ \A p \in 1..Len(old) : p \in 1..Len(new) /\ new[p].key = old[p].key
    BY <2>2, <2>3, FccUpdate
  <2>5. ASSUME NEW k \in 1..i
        PROVE  \E p \in 1..Len(new) : new[p].key = extracted[k]
    <3>1. k = i \/ k \in 1..(i - 1)
      BY <1>1
    <3> QED
      BY <2>2, <2>4, <3>1
  <2> HIDE DEF Holds
  <2>6. Holds(new, i)
    BY <2>5 DEF Holds
  <2> QED
    BY <2>1, <2>4, <2>6
<1>6. merged \in Seq(Headers) /\ merged \in P[n]
  <2> HIDE DEF P, merged
  <2>1. \A i \in 1..Len(Fcc) : \A old, new \in Seq(Headers) :
          old \in P[i - 1] /\ Updated(old, Fcc[i], new) => new \in P[i]
    BY <1>1, <1>5
  <2> QED
    BY <1>1, <1>2, <1>3, <1>4, <2>1, UpdateInduction
<1>7. Collected(merged, 0) /\ Holds(merged, n)
  <2>1. n \in 0..n
    BY <1>1
  <2> HIDE DEF merged, Holds
  <2> QED
    BY <1>6, <2>1
<1> HIDE DEF merged
<1>8. \A p \in 1..Len(merged) : merged[p].type # "long"
  <2>1. \A key : FccHeader(key).type = "char"
    BY DEF FccHeader
  <2>2. \A p \in 1..Len(merged) : merged[p] = FccHeader(merged[p].key)
    BY <1>7 DEF Collected
  <2> QED
    BY <2>1, <2>2
<1>9. ASSUME NEW key \in ToSet(extracted) PROVE Kept(merged, key)
  <2>1. PICK k \in 1..n : key = extracted[k]
    BY <1>1 DEF ToSet, n
  <2>2. PICK p \in 1..Len(merged) : merged[p].key = key
    BY <1>7, <2>1
  <2>3. \A q \in 1..p : q \in 1..Len(merged)
    BY <1>6, <2>2
  <2> QED
    BY <1>8, <2>2, <2>3 DEF Kept, Unhidden
<1> QED
  BY <1>6, <1>7, <1>9 DEF AfterOwn, merged

\* What a header of setup_acquisition() finds: where its key is taken, by one
\* of Aristarchos; and no long header before TIMECORR.
LEMMA OwnFinds ==
  ASSUME NEW old \in Seq(Headers), NEW j \in 1..13, Collected(old, j - 1)
  PROVE  /\ \A p \in 1..Len(old) :
              old[p].key = OwnHeaders[j] => old[p] = FccHeader(OwnHeaders[j])
         /\ \A p \in 1..Len(old) :
              SameKey(old[p], OwnHeader(OwnHeaders[j])) =>
                old[p] = FccHeader(OwnHeaders[j]) /\ OwnHeaders[j] \in FillEight
         /\ j <= 12 => \A p \in 1..Len(old) : old[p].type # "long"
<1>1. \A key : /\ OwnHeader(key).key = key /\ OwnHeader(key).blanks = FALSE
               /\ OwnHeader(key).type = TypeOf(key)
  BY DEF OwnHeader
<1>2. \A key : /\ FccHeader(key).blanks = (key \notin FillEight)
               /\ FccHeader(key).type = "char"
  BY DEF FccHeader
<1>3. ASSUME NEW p \in 1..Len(old), old[p].key = OwnHeaders[j]
      PROVE  old[p] = FccHeader(OwnHeaders[j])
  <2>1. CASE old[p] = FccHeader(old[p].key)
    BY <1>3, <2>1
  <2>2. ASSUME NEW k \in 1..(j - 1), old[p] = OwnHeader(OwnHeaders[k]) PROVE FALSE
    <3>1. OwnHeaders[k] = OwnHeaders[j]
      BY <1>1, <1>3, <2>2
    <3>2. k \in 1..13 /\ k # j
      OBVIOUS
    <3> QED
      BY <3>1, <3>2, OwnFacts
  <2> QED
    BY <2>1, <2>2 DEF Collected
<1>4. ASSUME NEW p \in 1..Len(old), SameKey(old[p], OwnHeader(OwnHeaders[j]))
      PROVE  old[p] = FccHeader(OwnHeaders[j]) /\ OwnHeaders[j] \in FillEight
  <2>1. old[p].key = OwnHeaders[j] /\ old[p].blanks = FALSE
    BY <1>1, <1>4 DEF SameKey
  <2>2. old[p] = FccHeader(OwnHeaders[j])
    BY <1>3, <2>1
  <2>3. (OwnHeaders[j] \notin FillEight) = FALSE
    BY <1>2, <2>1, <2>2
  <2> QED
    BY <2>2, <2>3
<1>5. ASSUME j <= 12, NEW p \in 1..Len(old) PROVE old[p].type # "long"
  <2>1. ASSUME NEW k \in 1..(j - 1), old[p] = OwnHeader(OwnHeaders[k])
        PROVE  old[p].type # "long"
    <3>1. k \in 1..13 /\ k # 12
      BY <1>5
    <3>2. TypeOf(OwnHeaders[k]) # "long"
      BY <3>1, OwnFacts
    <3> QED
      BY <1>1, <2>1, <3>2
  <2>2. ASSUME old[p] = FccHeader(old[p].key) PROVE old[p].type # "long"
    <3>1. FccHeader(old[p].key).type = "char"
      BY <1>2
    <3> QED
      BY <2>2, <3>1
  <2> QED
    BY <2>1, <2>2 DEF Collected
<1> QED
  BY <1>3, <1>4, <1>5

\* Its key is new: it is appended.
LEMMA OwnAppends ==
  ASSUME NEW old \in Seq(Headers), NEW new \in Seq(Headers), NEW j \in 1..13,
         AfterOwn(old, j - 1),
         \A i \in 1..Len(old) : ~SameKey(old[i], OwnHeader(OwnHeaders[j])),
         Len(new) = Len(old) + 1,
         new[Len(new)] = OwnHeader(OwnHeaders[j]),
         \A i \in 1..Len(old) : new[i] = old[i]
  PROVE  AfterOwn(new, j)
<1> DEFINE hdr == OwnHeader(OwnHeaders[j])
<1>1. Len(old) \in Nat /\ Len(new) \in Nat /\ Len(new) \in 1..Len(new)
  OBVIOUS
<1>2. \A p \in 1..Len(new) : p \in 1..Len(old) \/ p = Len(new)
  BY <1>1
<1>3. \A p \in 1..Len(old) : p \in 1..Len(new) /\ p < Len(new)
  BY <1>1
<1>4. hdr.key = OwnHeaders[j] /\ hdr.type = TypeOf(OwnHeaders[j])
  BY DEF OwnHeader
<1>5. Collected(old, j - 1)
  BY DEF AfterOwn
<1> HIDE DEF hdr
<1>6. Collected(new, j)
  <2>1. ASSUME NEW p \in 1..Len(new)
        PROVE  \/ new[p] = FccHeader(new[p].key)
               \/ \E k \in 1..j : new[p] = OwnHeader(OwnHeaders[k])
    <3>1. j \in 1..j /\ \A k \in 1..(j - 1) : k \in 1..j
      OBVIOUS
    <3>2. CASE p = Len(new)
      BY <3>1, <3>2
    <3>3. CASE p \in 1..Len(old)
      BY <1>5, <3>1, <3>3 DEF Collected
    <3> QED
      BY <1>2, <3>2, <3>3
  <2>2. ASSUME NEW p \in 1..Len(new), NEW q \in 1..Len(new),
               SameKey(new[p], new[q])
        PROVE  p = q
    <3>1. \A i \in 1..Len(old) : ~SameKey(hdr, old[i]) /\ ~SameKey(old[i], hdr)
      BY DEF SameKey, hdr
    <3>2. new[Len(new)] = hdr /\ \A i \in 1..Len(old) : new[i] = old[i]
      BY DEF hdr
    <3>3. \A a, b \in 1..Len(old) : SameKey(old[a], old[b]) => a = b
      BY <1>5 DEF Collected
    <3> QED
      BY <1>2, <2>2, <3>1, <3>2, <3>3
  <2> QED
    BY <2>1, <2>2 DEF Collected
<1>7. \A p \in 1..Len(old) : Unhidden(old, p) => Unhidden(new, p)
  <2>1. \A p \in 1..Len(old) : \A q \in 1..p : q \in 1..Len(old)
    BY <1>1
  <2> QED
    BY <2>1 DEF Unhidden
<1>8. ASSUME NEW k \in 1..j, k <= 11 PROVE Told(new, OwnHeaders[k])
  <2>1. CASE k \in 1..(j - 1)
    <3>1. PICK p \in 1..Len(old) :
            /\ old[p] = OwnHeader(OwnHeaders[k])
            /\ \A q \in 1..Len(old) : old[q].key = OwnHeaders[k] => q <= p
            /\ Unhidden(old, p)
      BY <1>8, <2>1 DEF AfterOwn, Told
    <3>2. OwnHeaders[j] # OwnHeaders[k]
      <4>1. k \in 1..13 /\ k # j
        BY <2>1
      <4> QED
        BY <4>1, OwnFacts
    <3>3. new[Len(new)].key # OwnHeaders[k]
      BY <1>4, <3>2 DEF hdr
    <3>4. \A q \in 1..Len(new) : new[q].key = OwnHeaders[k] => q <= p
      BY <1>2, <3>1, <3>3
    <3>5. p \in 1..Len(new) /\ new[p] = OwnHeader(OwnHeaders[k]) /\ Unhidden(new, p)
      BY <1>3, <1>7, <3>1
    <3> QED
      BY <3>4, <3>5 DEF Told
  <2>2. CASE k = j
    <3>1. \A q \in 1..Len(old) : old[q].type # "long"
      BY <1>5, <1>8, <2>2, OwnFinds
    <3>2. hdr.type # "long"
      BY <1>4, <1>8, <2>2, OwnFacts
    <3>3. Unhidden(new, Len(new))
      BY <1>2, <3>1, <3>2 DEF Unhidden, hdr
    <3>4. \A q \in 1..Len(new) : q <= Len(new)
      OBVIOUS
    <3> QED
      BY <1>1, <2>2, <3>3, <3>4 DEF Told
  <2> QED
    BY <2>1, <2>2
<1>9. ASSUME NEW key \in ToSet(extracted) PROVE Kept(new, key)
  <2>1. PICK p \in 1..Len(old) : old[p].key = key /\ Unhidden(old, p)
    BY DEF AfterOwn, Kept
  <2>2. p \in 1..Len(new) /\ new[p].key = key /\ Unhidden(new, p)
    BY <1>3, <1>7, <2>1
  <2> QED
    BY <2>2 DEF Kept
<1> QED
  BY <1>6, <1>8, <1>9 DEF AfterOwn

\* Its key is taken: the header of Aristarchos is replaced where it stands, or
\* stays because its type is another one, which is the case of TIMECORR.
LEMMA OwnReplaces ==
  ASSUME NEW old \in Seq(Headers), NEW new \in Seq(Headers), NEW j \in 1..13,
         AfterOwn(old, j - 1), NEW at \in 1..Len(old),
         SameKey(old[at], OwnHeader(OwnHeaders[j])),
         Len(new) = Len(old),
         new[at] = IF old[at].type = OwnHeader(OwnHeaders[j]).type
                   THEN OwnHeader(OwnHeaders[j]) ELSE old[at],
         \A i \in 1..Len(old) : i # at => new[i] = old[i]
  PROVE  AfterOwn(new, j)
<1> DEFINE hdr == OwnHeader(OwnHeaders[j])
<1>1. Len(old) \in Nat
  OBVIOUS
<1>2. /\ hdr.key = OwnHeaders[j] /\ hdr.type = TypeOf(OwnHeaders[j])
      /\ \A key : OwnHeader(key).from = "daemon" /\ FccHeader(key).from = "fcc"
      /\ \A key : FccHeader(key).type = "char"
  BY DEF OwnHeader, FccHeader
<1>3. Collected(old, j - 1)
  BY DEF AfterOwn
<1>4. old[at] = FccHeader(OwnHeaders[j]) /\ OwnHeaders[j] \in FillEight
  BY <1>3, OwnFinds
<1>5. old[at].key = hdr.key /\ old[at].blanks = hdr.blanks
  BY DEF SameKey
<1>6. new[at] = hdr \/ new[at] = old[at]
  OBVIOUS
<1>7. old[at].type = hdr.type \/ new[at] = old[at]
  OBVIOUS
<1> HIDE DEF hdr
<1>8. \A p \in 1..Len(old) : /\ new[p].key = old[p].key
                             /\ new[p].blanks = old[p].blanks
                             /\ new[p].type = old[p].type
  <2>1. /\ new[at].key = old[at].key /\ new[at].blanks = old[at].blanks
        /\ new[at].type = old[at].type
    BY <1>5, <1>6, <1>7
  <2> QED
    BY <2>1
<1>9. Collected(new, j)
  <2>1. ASSUME NEW p \in 1..Len(new)
        PROVE  \/ new[p] = FccHeader(new[p].key)
               \/ \E k \in 1..j : new[p] = OwnHeader(OwnHeaders[k])
    <3>1. j \in 1..j /\ \A k \in 1..(j - 1) : k \in 1..j
      OBVIOUS
    <3>2. CASE new[p] = hdr
      BY <3>1, <3>2 DEF hdr
    <3>3. CASE new[p] = old[p]
      BY <1>3, <3>1, <3>3 DEF Collected
    <3> QED
      BY <1>6, <3>2, <3>3
  <2>2. ASSUME NEW p \in 1..Len(new), NEW q \in 1..Len(new),
               SameKey(new[p], new[q])
        PROVE  p = q
    <3>1. SameKey(old[p], old[q])
      BY <1>8, <2>2 DEF SameKey
    <3> QED
      BY <1>3, <3>1 DEF Collected
  <2> QED
    BY <2>1, <2>2 DEF Collected
<1>10. \A p \in 1..Len(old) : Unhidden(old, p) => Unhidden(new, p)
  <2>1. \A p \in 1..Len(old) : \A q \in 1..p : q \in 1..Len(old)
    BY <1>1
  <2> QED
    BY <1>8, <2>1 DEF Unhidden
<1>11. ASSUME NEW k \in 1..j, k <= 11 PROVE Told(new, OwnHeaders[k])
  <2>1. CASE k \in 1..(j - 1)
    <3>1. PICK p \in 1..Len(old) :
            /\ old[p] = OwnHeader(OwnHeaders[k])
            /\ \A q \in 1..Len(old) : old[q].key = OwnHeaders[k] => q <= p
            /\ Unhidden(old, p)
      BY <1>11, <2>1 DEF AfterOwn, Told
    <3>2. old[p].from = "daemon" /\ old[at].from = "fcc"
      BY <1>2, <1>4, <3>1
    <3>3. p # at
      BY <3>2
    <3>4. new[p] = OwnHeader(OwnHeaders[k]) /\ Unhidden(new, p)
      BY <1>10, <3>1, <3>3
    <3>5. \A q \in 1..Len(new) : new[q].key = OwnHeaders[k] => q <= p
      BY <1>8, <3>1
    <3> QED
      BY <3>4, <3>5 DEF Told
  <2>2. CASE k = j
    <3>1. TypeOf(OwnHeaders[j]) = "char"
      BY <1>4, <1>11, <2>2, OwnFacts
    <3>2. new[at] = hdr
      <4>1. old[at].type = hdr.type
        BY <1>2, <1>4, <3>1
      <4> QED
        BY <4>1 DEF hdr
    <3>3. ASSUME NEW q \in 1..Len(new), new[q].key = OwnHeaders[j] PROVE q <= at
      <4>1. old[q].key = OwnHeaders[j]
        BY <1>8, <3>3
      <4>2. old[q] = FccHeader(OwnHeaders[j])
        BY <1>3, <4>1, OwnFinds
      <4>3. SameKey(old[q], old[at])
        BY <1>4, <4>2 DEF SameKey
      <4>4. q = at
        BY <1>3, <4>3 DEF Collected
      <4> QED
        BY <4>4
    <3>4. \A q \in 1..Len(old) : old[q].type # "long"
      BY <1>3, <1>11, <2>2, OwnFinds
    <3>5. Unhidden(new, at)
      <4>1. \A q \in 1..at : q \in 1..Len(old)
        BY <1>1
      <4> QED
        BY <1>8, <3>4, <4>1 DEF Unhidden
    <3> QED
      BY <2>2, <3>2, <3>3, <3>5 DEF Told, hdr
  <2> QED
    BY <2>1, <2>2
<1>12. ASSUME NEW key \in ToSet(extracted) PROVE Kept(new, key)
  <2>1. PICK p \in 1..Len(old) : old[p].key = key /\ Unhidden(old, p)
    BY DEF AfterOwn, Kept
  <2>2. new[p].key = key /\ Unhidden(new, p)
    BY <1>8, <1>10, <2>1
  <2> QED
    BY <2>2 DEF Kept
<1> QED
  BY <1>9, <1>11, <1>12 DEF AfterOwn

LEMMA OwnUpdate ==
  ASSUME NEW old \in Seq(Headers), NEW new \in Seq(Headers), NEW j \in 1..13,
         AfterOwn(old, j - 1), Updated(old, OwnHeader(OwnHeaders[j]), new)
  PROVE  AfterOwn(new, j)
<1> DEFINE hdr == OwnHeader(OwnHeaders[j])
<1>1. CASE /\ \A i \in 1..Len(old) : ~SameKey(old[i], hdr)
           /\ Len(new) = Len(old) + 1
           /\ new[Len(new)] = hdr
           /\ \A i \in 1..Len(old) : new[i] = old[i]
  BY <1>1, OwnAppends, Zenon
<1>2. CASE /\ Len(new) = Len(old)
           /\ \E at \in 1..Len(old) :
                /\ SameKey(old[at], hdr)
                /\ new[at] = IF old[at].type = hdr.type THEN hdr ELSE old[at]
                /\ \A i \in 1..Len(old) : i # at => new[i] = old[i]
  <2>1. PICK at \in 1..Len(old) :
          /\ SameKey(old[at], hdr)
          /\ new[at] = IF old[at].type = hdr.type THEN hdr ELSE old[at]
          /\ \A i \in 1..Len(old) : i # at => new[i] = old[i]
    BY <1>2
  <2> QED
    BY <1>2, <2>1, OwnReplaces
<1> QED
  BY <1>1, <1>2, Zenon DEF Updated

\* With the headers of setup_acquisition() the list is what a file needs.
LEMMA OwnComplete ==
  ASSUME NEW list \in Seq(Headers), AfterOwn(list, 0), NEW stable \in BOOLEAN
  PROVE  /\ UpdateAll(list, Own(stable)) \in Seq(Headers)
         /\ Complete(UpdateAll(list, Own(stable)))
<1> DEFINE n == Len(Own(stable))
           full == UpdateAll(list, Own(stable))
           P == [i \in 0..n |-> {l \in Seq(Headers) : AfterOwn(l, i)}]
<1>1. /\ n \in 12..13 /\ Own(stable) \in Seq(Headers)
      /\ \A i \in 1..n : Own(stable)[i] = OwnHeader(OwnHeaders[i])
  BY OwnAreHeaders
<1> HIDE DEF n
<1>2. list \in P[0]
  BY <1>1
<1>3. ASSUME NEW i \in 1..n, NEW old \in Seq(Headers), NEW new \in Seq(Headers),
             old \in P[i - 1], Updated(old, Own(stable)[i], new)
      PROVE  new \in P[i]
  <2>1. i \in 1..13 /\ i \in 0..n /\ i - 1 \in 0..n
    BY <1>1
  <2>2. AfterOwn(old, i - 1)
    BY <1>3, <2>1
  <2>3. Updated(old, OwnHeader(OwnHeaders[i]), new)
    BY <1>1, <1>3
  <2>4. AfterOwn(new, i)
    BY <2>1, <2>2, <2>3, OwnUpdate
  <2> QED
    BY <2>1, <2>4
<1>4. full \in Seq(Headers) /\ full \in P[n]
  <2> HIDE DEF P
  <2>1. \A i \in 1..Len(Own(stable)) : \A old, new \in Seq(Headers) :
          old \in P[i - 1] /\ Updated(old, Own(stable)[i], new) => new \in P[i]
    BY <1>3 DEF n
  <2> QED
    BY <1>1, <1>2, <2>1, UpdateInduction DEF n
<1> HIDE DEF full
<1>5. AfterOwn(full, n)
  <2>1. n \in 0..n
    BY <1>1
  <2> QED
    BY <1>4, <2>1
<1>6. ASSUME NEW key \in Reached PROVE Told(full, key)
  <2>1. PICK k \in 1..11 : key = OwnHeaders[k]
    BY OwnFacts DEF Reached
  <2>2. k \in 1..n
    BY <1>1
  <2> QED
    BY <1>5, <2>1, <2>2 DEF AfterOwn
<1>7. \A key \in ToSet(extracted) : Kept(full, key)
  BY <1>5 DEF AfterOwn
<1> QED
  BY <1>4, <1>6, <1>7 DEF Complete, full

-----------------------------------------------------------------------------
(* What reaches the file.                                                  *)

\* apply_headers() writes the first headers of the list, all that no long one
\* stands in the way of.
LEMMA AppliedIsPrefix ==
  ASSUME NEW list \in Seq(Headers)
  PROVE  /\ Applied(list) \in Seq(Headers) /\ Len(Applied(list)) <= Len(list)
         /\ \A i \in 1..Len(Applied(list)) : Applied(list)[i] = list[i]
         /\ \A i \in 1..Len(list) : Unhidden(list, i) => i <= Len(Applied(list))
<1> DEFINE longs == {i \in DOMAIN list : list[i].type = "long"}
           stop == IF longs = {} THEN Len(list) + 1
                   ELSE CHOOSE i \in longs : \A j \in longs : i <= j
<1>1. /\ Len(list) \in Nat /\ DOMAIN list = 1..Len(list)
      /\ \A i \in 1..Len(list) : list[i] \in Headers
  OBVIOUS
<1>2. Applied(list) = SubSeq(list, 1, stop - 1)
  BY DEF Applied
<1>3. /\ stop \in 1..(Len(list) + 1)
      /\ \A i \in 1..Len(list) : Unhidden(list, i) => i < stop
  <2>1. CASE longs = {}
    BY <1>1, <2>1
  <2>2. CASE longs # {}
    <3>1. longs \in SUBSET Nat
      BY <1>1
    <3>2. \E i \in longs : \A j \in longs : i <= j
      <4> HIDE DEF longs
      <4> QED
        BY <2>2, <3>1, LeastNatural
    <3>3. stop \in longs
      <4> HIDE DEF longs
      <4> QED
        BY <2>2, <3>2
    <3>4. stop \in 1..Len(list) /\ list[stop].type = "long"
      BY <1>1, <3>3
    <3> HIDE DEF longs, stop
    <3>5. ASSUME NEW i \in 1..Len(list), Unhidden(list, i) PROVE i < stop
      <4>1. stop \notin 1..i
        BY <3>4, <3>5 DEF Unhidden
      <4> QED
        BY <3>4, <4>1
    <3> QED
      BY <1>1, <3>4, <3>5
  <2> QED
    BY <2>1, <2>2
<1> HIDE DEF longs, stop
<1>4. /\ SubSeq(list, 1, stop - 1) \in Seq(Headers)
      /\ Len(SubSeq(list, 1, stop - 1)) = stop - 1
      /\ \A i \in 1..(stop - 1) : SubSeq(list, 1, stop - 1)[i] = list[i]
  <2>1. \A i \in 1..(stop - 1) : list[i] \in Headers
    BY <1>1, <1>3
  <2>2. 1 \in Int /\ stop - 1 \in Int
    BY <1>3
  <2>3. /\ SubSeq(list, 1, stop - 1) \in Seq(Headers)
        /\ Len(SubSeq(list, 1, stop - 1)) =
             IF 1 <= stop - 1 THEN (stop - 1) - 1 + 1 ELSE 0
        /\ \A i \in 1..((stop - 1) - 1 + 1) :
             SubSeq(list, 1, stop - 1)[i] = list[1 + i - 1]
    BY <2>1, <2>2, SubSeqProperties
  <2> QED
    BY <1>3, <2>3
<1> QED
  BY <1>1, <1>2, <1>3, <1>4

\* The keywords of the file and whose value each has, as apply_headers() leaves
\* them.
Written(list) ==
  [key \in {Applied(list)[i].key : i \in DOMAIN Applied(list)} |->
     ValueIn(Applied(list), key)]

\* Every keyword of the file has the value of some header.
LEMMA WrittenValues ==
  ASSUME NEW list \in Seq(Headers)
  PROVE  /\ DOMAIN Written(list) \subseteq Keys
         /\ \A key \in DOMAIN Written(list) :
              Written(list)[key] \in {"daemon", "fcc"}
<1> DEFINE applied == Applied(list)
<1>1. /\ Len(applied) \in Nat /\ DOMAIN applied = 1..Len(applied)
      /\ \A i \in 1..Len(applied) : applied[i] \in Headers
  BY AppliedIsPrefix
<1> HIDE DEF applied
<1>2. \A i \in 1..Len(applied) : /\ applied[i].key \in Keys
                                 /\ applied[i].from \in {"daemon", "fcc"}
  BY <1>1 DEF Headers
<1>3. ASSUME NEW key, NEW i \in 1..Len(applied), applied[i].key = key
      PROVE  ValueIn(applied, key) \in {"daemon", "fcc"}
  <2> DEFINE S == {j \in 1..Len(applied) : applied[j].key = key}
             last(j) == /\ applied[j].key = key
                        /\ \A k \in 1..Len(applied) : applied[k].key = key => k <= j
  <2>1. S \in SUBSET (1..Len(applied)) /\ S # {}
    BY <1>3
  <2>2. Max(S) \in S /\ \A x \in S : x <= Max(S)
    <3> HIDE DEF S
    <3> QED
      BY <1>1, <2>1, MaxOfInterval
  <2>3. Max(S) \in 1..Len(applied) /\ last(Max(S))
    BY <2>2
  <2>4. (CHOOSE j \in 1..Len(applied) : last(j)) \in 1..Len(applied)
    <3> HIDE DEF last, S
    <3> QED
      BY <2>3
  <2>5. ValueIn(applied, key) = applied[CHOOSE j \in 1..Len(applied) : last(j)].from
    BY <1>1 DEF ValueIn
  <2> HIDE DEF last
  <2> QED
    BY <1>2, <2>4, <2>5
<1>4. Written(list) = [key \in {applied[i].key : i \in 1..Len(applied)} |->
                         ValueIn(applied, key)]
  BY <1>1 DEF Written, applied
<1> QED
  BY <1>2, <1>3, <1>4

\* Of a list that is complete the file tells everything.
LEMMA WrittenTells ==
  ASSUME NEW list \in Seq(Headers), Complete(list)
  PROVE  /\ \A key \in Reached : key \in DOMAIN Written(list)
                                 /\ Written(list)[key] = "daemon"
         /\ ToSet(extracted) \subseteq DOMAIN Written(list)
<1> DEFINE applied == Applied(list)
<1>1. /\ Len(list) \in Nat /\ Len(applied) \in Nat /\ DOMAIN applied = 1..Len(applied)
      /\ Len(applied) <= Len(list)
      /\ \A i \in 1..Len(applied) : applied[i] = list[i]
      /\ \A i \in 1..Len(list) : Unhidden(list, i) => i <= Len(applied)
  BY AppliedIsPrefix
<1> HIDE DEF applied
<1>2. Written(list) = [key \in {applied[i].key : i \in 1..Len(applied)} |->
                         ValueIn(applied, key)]
  BY <1>1 DEF Written, applied
<1>3. ASSUME NEW key \in Reached
      PROVE  key \in DOMAIN Written(list) /\ Written(list)[key] = "daemon"
  <2>1. PICK p \in 1..Len(list) :
          /\ list[p] = OwnHeader(key)
          /\ \A q \in 1..Len(list) : list[q].key = key => q <= p
          /\ Unhidden(list, p)
    BY DEF Complete, Told
  <2>2. p \in 1..Len(applied) /\ applied[p] = OwnHeader(key)
    BY <1>1, <2>1
  <2>3. applied[p].key = key /\ applied[p].from = "daemon"
    BY <2>2 DEF OwnHeader
  <2> DEFINE last(j) == /\ applied[j].key = key
                        /\ \A k \in 1..Len(applied) : applied[k].key = key => k <= j
  <2>4. \A q \in 1..Len(applied) : applied[q].key = key => q <= p
    BY <1>1, <2>1
  <2>5. \A j \in 1..Len(applied) : last(j) => j = p
    BY <1>1, <2>2, <2>3, <2>4
  <2>6. last(p)
    BY <2>3, <2>4
  <2>7. (CHOOSE j \in 1..Len(applied) : last(j)) = p
    <3> HIDE DEF last
    <3> QED
      BY <2>2, <2>5, <2>6
  <2>8. ValueIn(applied, key) = applied[CHOOSE j \in 1..Len(applied) : last(j)].from
    BY <1>1 DEF ValueIn
  <2>9. ValueIn(applied, key) = "daemon"
    <3> HIDE DEF last
    <3> QED
      BY <2>3, <2>7, <2>8
  <2>10. key \in {applied[i].key : i \in 1..Len(applied)}
    BY <2>2, <2>3
  <2> QED
    BY <1>2, <2>9, <2>10
<1>4. ASSUME NEW key \in ToSet(extracted) PROVE key \in DOMAIN Written(list)
  <2>1. PICK p \in 1..Len(list) : list[p].key = key /\ Unhidden(list, p)
    BY DEF Complete, Kept
  <2>2. p \in 1..Len(applied) /\ applied[p].key = key
    BY <1>1, <2>1
  <2> QED
    BY <1>2, <2>2
<1> QED
  BY <1>3, <1>4
=============================================================================
