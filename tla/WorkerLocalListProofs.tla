------------------------ MODULE WorkerLocalListProofs ------------------------
(***************************************************************************)
(* The doubly linked lists of slabs, for every number of workers, lists,   *)
(* slabs and deaths: the links spell each list in both directions, an      *)
(* iteration returns what was on its list although the body moves slabs,   *)
(* and the lists implement LocalLists.                                     *)
(***************************************************************************)
EXTENDS WorkerLocalList, Integers, SequenceTheorems, FunctionTheorems, FiniteSetTheorems,
        WellFoundedInduction, TLAPS

\* The slab at position i of a list, and null before its first and after its last.
At(seq, i) == IF i \in DOMAIN seq THEN seq[i] ELSE NULL_U32

NoDup(seq) == \A i, j \in DOMAIN seq : seq[i] = seq[j] => i = j

\* The links in nx lead from s along the list to its end; those in pv lead back.
Follows(seq, s, nx) == s = At(seq, 1) /\ \A i \in DOMAIN seq : nx[seq[i]] = At(seq, i + 1)
Linked(seq, s, pv, nx) ==
    Follows(seq, s, nx) /\ \A i \in DOMAIN seq : pv[seq[i]] = At(seq, i - 1)

-----------------------------------------------------------------------------
(* Sequences without repetition. *)

\* A list and its positions.
LEMMA SeqFacts ==
  ASSUME NEW seq \in Seq(Slabs)
  PROVE  /\ Len(seq) \in Nat /\ DOMAIN seq = 1 .. Len(seq)
         /\ (seq = <<>> <=> Len(seq) = 0)
         /\ \A i \in DOMAIN seq : seq[i] \in Slabs /\ seq[i] # NULL_U32
         /\ \A i \in Int : At(seq, i) \in Links /\ (At(seq, i) = NULL_U32 <=> i \notin DOMAIN seq)
         /\ On(seq) \subseteq Slabs
<1>1. Len(seq) \in Nat /\ DOMAIN seq = 1 .. Len(seq)
  BY LenProperties
<1>2. seq = <<>> <=> Len(seq) = 0
  BY EmptySeq
<1>3. \A i \in DOMAIN seq : seq[i] \in Slabs /\ seq[i] # NULL_U32
  BY <1>1, ElementOfSeq, NullAssumption
<1>4. On(seq) \subseteq Slabs
  BY <1>3 DEF On
<1> QED BY <1>1, <1>2, <1>3, <1>4 DEF At, Links

\* The empty list begins with null, and only it.
LEMMA EmptyFollows ==
  ASSUME NEW seq \in Seq(Slabs), NEW s, NEW nx, Follows(seq, s, nx)
  PROVE  s = NULL_U32 <=> seq = <<>>
<1>1. /\ DOMAIN seq = 1 .. Len(seq) /\ Len(seq) \in Nat
      /\ (seq = <<>> <=> Len(seq) = 0)
  BY SeqFacts
<1>2. \A i \in Int : At(seq, i) = NULL_U32 <=> i \notin DOMAIN seq
  BY SeqFacts
<1>3. 1 \in DOMAIN seq <=> seq # <<>>
  BY <1>1
<1> QED BY <1>2, <1>3 DEF Follows

\* Pushing puts a slab before the others.
LEMMA PushFacts ==
  ASSUME NEW seq \in Seq(Slabs), NEW x \in Slabs, NEW q, q = <<x>> \o seq
  PROVE  /\ q \in Seq(Slabs) /\ Len(q) = Len(seq) + 1 /\ q[1] = x
         /\ \A i \in DOMAIN seq : i + 1 \in DOMAIN q /\ q[i + 1] = seq[i]
         /\ \A i \in DOMAIN q : i # 1 => i - 1 \in DOMAIN seq /\ q[i] = seq[i - 1]
         /\ On(q) = On(seq) \cup {x}
<1>1. <<x>> \in Seq(Slabs) /\ Len(<<x>>) = 1 /\ <<x>>[1] = x
  OBVIOUS
<1>2. Len(seq) \in Nat /\ DOMAIN seq = 1 .. Len(seq)
  BY LenProperties
<1>3. /\ q \in Seq(Slabs) /\ Len(q) = 1 + Len(seq)
      /\ \A i \in 1 .. 1 + Len(seq) : q[i] = IF i <= 1 THEN <<x>>[i] ELSE seq[i - 1]
  BY <1>1, ConcatProperties
<1>4. DOMAIN q = 1 .. Len(seq) + 1
  BY <1>2, <1>3, LenProperties
<1>5. q[1] = x
  BY <1>1, <1>2, <1>3
<1>6. \A i \in DOMAIN seq : i + 1 \in DOMAIN q /\ q[i + 1] = seq[i]
  BY <1>2, <1>3, <1>4
<1>7. ASSUME NEW i \in DOMAIN q, i # 1 PROVE i - 1 \in DOMAIN seq /\ q[i] = seq[i - 1]
  <2>1. i - 1 \in 1 .. Len(seq) /\ (i - 1) + 1 = i
    BY <1>2, <1>4, <1>7
  <2> QED BY <2>1, <1>2, <1>6
<1>8. On(q) = On(seq) \cup {x}
  <2>1. x \in On(q) /\ 1 \in DOMAIN q
    BY <1>2, <1>4, <1>5 DEF On
  <2>2. On(q) \subseteq On(seq) \cup {x}
    BY <1>5, <1>7 DEF On
  <2>3. On(seq) \subseteq On(q)
    BY <1>6 DEF On
  <2> QED BY <2>1, <2>2, <2>3
<1> QED BY <1>2, <1>3, <1>5, <1>6, <1>7, <1>8

\* Pushing a new slab repeats none.
LEMMA PushNoDup ==
  ASSUME NEW seq \in Seq(Slabs), NEW x \in Slabs, x \notin On(seq), NoDup(seq),
         NEW q, q = <<x>> \o seq
  PROVE  NoDup(q)
<1>1. /\ q[1] = x
      /\ \A i \in DOMAIN q : i # 1 => i - 1 \in DOMAIN seq /\ q[i] = seq[i - 1]
  BY PushFacts
<1>2. DOMAIN q \subseteq Int
  BY PushFacts, SeqFacts
<1> SUFFICES ASSUME NEW i \in DOMAIN q, NEW j \in DOMAIN q, q[i] = q[j] PROVE i = j
  BY DEF NoDup
<1>3. CASE i = 1 \/ j = 1
  BY <1>1, <1>3 DEF On
<1>4. CASE i # 1 /\ j # 1
  <2>1. i - 1 = j - 1
    BY <1>1, <1>4 DEF NoDup
  <2> QED BY <2>1, <1>2
<1> QED BY <1>3, <1>4

\* Popping takes the first slab away.
LEMMA TailFacts ==
  ASSUME NEW seq \in Seq(Slabs), seq # <<>>, NoDup(seq)
  PROVE  /\ Tail(seq) \in Seq(Slabs) /\ Len(Tail(seq)) = Len(seq) - 1
         /\ \A i \in DOMAIN Tail(seq) : i + 1 \in DOMAIN seq /\ Tail(seq)[i] = seq[i + 1]
         /\ NoDup(Tail(seq))
         /\ On(Tail(seq)) \subseteq On(seq) \ {seq[1]}
<1>1. /\ Tail(seq) \in Seq(Slabs) /\ Len(Tail(seq)) = Len(seq) - 1
      /\ \A i \in 1 .. Len(Tail(seq)) : Tail(seq)[i] = seq[i + 1]
  BY HeadTailProperties
<1>2. /\ Len(seq) \in Nat \ {0} /\ DOMAIN seq = 1 .. Len(seq)
      /\ DOMAIN Tail(seq) = 1 .. Len(seq) - 1
  BY <1>1, EmptySeq, LenProperties
<1>3. \A i \in DOMAIN Tail(seq) :
         i + 1 \in DOMAIN seq /\ i + 1 # 1 /\ Tail(seq)[i] = seq[i + 1]
  BY <1>1, <1>2
<1>4. 1 \in DOMAIN seq
  BY <1>2
<1>5. On(Tail(seq)) \subseteq On(seq) \ {seq[1]}
  BY <1>3, <1>4 DEF On, NoDup
<1>6. NoDup(Tail(seq))
  <2> SUFFICES ASSUME NEW i \in DOMAIN Tail(seq), NEW j \in DOMAIN Tail(seq),
                      Tail(seq)[i] = Tail(seq)[j]
               PROVE  i = j
    BY DEF NoDup
  <2>1. i + 1 = j + 1
    BY <1>3 DEF NoDup
  <2> QED BY <2>1, <1>2
<1> QED BY <1>1, <1>3, <1>5, <1>6

\* Removing closes the gap.
LEMMA WithoutPositions ==
  ASSUME NEW list \in Seq(Slabs), NoDup(list), NEW i \in DOMAIN list
  PROVE  /\ Abstract!Without(list, list[i]) \in Seq(Slabs)
         /\ DOMAIN Abstract!Without(list, list[i]) = 1 .. Len(list) - 1
         /\ \A k \in 1 .. Len(list) - 1 :
               Abstract!Without(list, list[i])[k] = IF k < i THEN list[k] ELSE list[k + 1]
<1> DEFINE front == SubSeq(list, 1, i - 1)
           back  == SubSeq(list, i + 1, Len(list))
           short == front \o back
<1>1. Len(list) \in Nat /\ DOMAIN list = 1 .. Len(list) /\ i \in 1 .. Len(list)
  BY LenProperties
<1>2. (CHOOSE j \in DOMAIN list : list[j] = list[i]) = i
  BY DEF NoDup
<1>3. Abstract!Without(list, list[i]) = short
  BY <1>2 DEF Abstract!Without
<1>4. \A j \in 1 .. Len(list) : list[j] \in Slabs
  BY ElementOfSeq
<1>5. /\ front \in Seq(Slabs) /\ Len(front) = i - 1
      /\ \A k \in 1 .. i - 1 : front[k] = list[k]
  <2>1. \A j \in 1 .. i - 1 : list[j] \in Slabs
    BY <1>1, <1>4
  <2>2. /\ front \in Seq(Slabs)
        /\ Len(front) = IF 1 <= i - 1 THEN (i - 1) - 1 + 1 ELSE 0
        /\ \A k \in 1 .. (i - 1) - 1 + 1 : front[k] = list[1 + k - 1]
    BY <1>1, <2>1, SubSeqProperties
  <2> QED BY <1>1, <2>2
<1>6. /\ back \in Seq(Slabs) /\ Len(back) = Len(list) - i
      /\ \A k \in 1 .. Len(list) - i : back[k] = list[i + k]
  <2>1. \A j \in i + 1 .. Len(list) : list[j] \in Slabs
    BY <1>1, <1>4
  <2>2. /\ back \in Seq(Slabs)
        /\ Len(back) = IF i + 1 <= Len(list) THEN Len(list) - (i + 1) + 1 ELSE 0
        /\ \A k \in 1 .. Len(list) - (i + 1) + 1 : back[k] = list[(i + 1) + k - 1]
    BY <1>1, <2>1, SubSeqProperties
  <2> QED BY <1>1, <2>2
<1> HIDE DEF front, back
<1>7. /\ short \in Seq(Slabs) /\ Len(short) = Len(list) - 1
      /\ \A k \in 1 .. Len(list) - 1 :
            short[k] = IF k <= i - 1 THEN front[k] ELSE back[k - (i - 1)]
  <2>1. /\ short \in Seq(Slabs) /\ Len(short) = Len(front) + Len(back)
        /\ \A k \in 1 .. Len(front) + Len(back) :
              short[k] = IF k <= Len(front) THEN front[k] ELSE back[k - Len(front)]
    BY <1>5, <1>6, ConcatProperties
  <2> QED BY <2>1, <1>1, <1>5, <1>6
<1>8. ASSUME NEW k \in 1 .. Len(list) - 1
      PROVE  short[k] = IF k < i THEN list[k] ELSE list[k + 1]
  <2>1. CASE k < i
    BY <2>1, <1>1, <1>5, <1>7
  <2>2. CASE ~(k < i)
    <3>1. k - (i - 1) \in 1 .. Len(list) - i /\ i + (k - (i - 1)) = k + 1
      BY <2>2, <1>1
    <3> QED BY <2>2, <3>1, <1>1, <1>6, <1>7
  <2> QED BY <2>1, <2>2
<1> QED BY <1>3, <1>7, <1>8, LenProperties

\* A list of different slabs is no longer than there are slabs.
LEMMA LenBound ==
  ASSUME NEW seq \in Seq(Slabs), NoDup(seq)
  PROVE  Cardinality(Slabs) \in Nat /\ Len(seq) <= Cardinality(Slabs)
<1>1. Len(seq) \in Nat /\ DOMAIN seq = 1 .. Len(seq) /\ seq \in [1 .. Len(seq) -> Slabs]
  BY LenProperties
<1>2. seq \in Injection(1 .. Len(seq), Slabs)
  BY <1>1, Fun_IsInj DEF NoDup
<1>3. Cardinality(1 .. Len(seq)) <= Cardinality(Slabs)
  BY <1>2, SlabsAssumption, FS_Injection
<1>4. Cardinality(1 .. Len(seq)) = Len(seq)
  <2>1. 1 \in Int /\ Len(seq) \in Int
    BY <1>1
  <2>2. Cardinality(1 .. Len(seq)) = IF 1 > Len(seq) THEN 0 ELSE Len(seq) - 1 + 1
    BY <2>1, FS_Interval
  <2> QED BY <1>1, <2>2
<1> QED BY <1>3, <1>4, SlabsAssumption, FS_CardinalityType

-----------------------------------------------------------------------------
(* What the links spell.  Spelled is recursive: that it exists, and what it is, is by *)
(* induction, which follows from the order of the naturals being well-founded.        *)

\* Induction on the elements of a set.
LEMMA SetInduction ==
  ASSUME NEW P, 0 \in P, \A n \in Nat : n \in P => n + 1 \in P
  PROVE  Nat \subseteq P
<1> DEFINE T == Nat \ P
           R == {ss \in Nat \X Nat : ss[1] < ss[2]}
<1> SUFFICES ASSUME T # {} PROVE FALSE
  OBVIOUS
<1>1. IsWellFoundedOn(R, Nat)
  BY NatLessThanWellFounded DEF OpToRel
<1>2. PICK n \in T : \A m \in T : ~(<<m, n>> \in R)
  BY <1>1, WFMin
<1>3. n \in Nat /\ n \notin P
  OBVIOUS
<1>4. n # 0 /\ n - 1 \in Nat /\ (n - 1) + 1 = n
  BY <1>3
<1>5. n - 1 \in P
  <2> SUFFICES ASSUME n - 1 \notin P PROVE FALSE
    OBVIOUS
  <2>1. <<n - 1, n>> \in R
    <3>1. n - 1 < n
      BY <1>3
    <3> QED BY <1>3, <1>4, <3>1
  <2> QED BY <1>2, <1>4, <2>1
<1> QED BY <1>3, <1>4, <1>5

\* There is a function that follows links for a given number of steps.
LEMMA SpelledExists ==
  ASSUME NEW nx \in [Slabs -> Links], NEW top \in Nat
  PROVE  \E g : g = [n \in 0 .. top |-> [s \in Links |->
                       IF s = NULL_U32 \/ n = 0 THEN <<>> ELSE <<s>> \o g[n - 1][nx[s]]]]
<1> DEFINE Row(g, n) == [s \in Links |->
               IF s = NULL_U32 \/ n = 0 THEN <<>> ELSE <<s>> \o g[n - 1][nx[s]]]
           Fun(m) == \E g : g = [n \in 0 .. m |-> Row(g, n)]
           P == {m \in Nat : Fun(m)}
<1>1. Fun(0)
  <2>1. PICK g : g = [n \in 0 .. 0 |-> [s \in Links |-> <<>>]]
    OBVIOUS
  <2>2. g = [n \in 0 .. 0 |-> Row(g, n)]
    BY <2>1
  <2> QED BY <2>2
<1>2. ASSUME NEW m \in Nat, Fun(m) PROVE Fun(m + 1)
  <2> HIDE DEF Row
  <2>1. PICK f : f = [n \in 0 .. m |-> Row(f, n)]
    BY <1>2
  <2>2. PICK g : g = [n \in 0 .. m + 1 |-> Row(f, n)]
    OBVIOUS
  <2>3. ASSUME NEW n \in 0 .. m PROVE g[n] = f[n]
    <3>1. f[n] = Row(f, n)
      BY <2>1
    <3>2. n \in 0 .. m + 1
      OBVIOUS
    <3> QED BY <2>2, <3>1, <3>2
  <2>4. ASSUME NEW n \in 0 .. m + 1 PROVE Row(f, n) = Row(g, n)
    <3>1. n # 0 => n - 1 \in 0 .. m
      OBVIOUS
    <3>2. n # 0 => g[n - 1] = f[n - 1]
      BY <3>1, <2>3
    <3>3. CASE n = 0
      BY <3>3 DEF Row
    <3>4. CASE n # 0
      BY <3>2, <3>4 DEF Row
    <3> QED BY <3>3, <3>4
  <2>5. g = [n \in 0 .. m + 1 |-> Row(g, n)]
    BY <2>2, <2>4
  <2> QED BY <2>5
<1> HIDE DEF Fun
<1>3. 0 \in P /\ \A m \in Nat : m \in P => m + 1 \in P
  BY <1>1, <1>2
<1>4. P \subseteq Nat /\ \A m \in P : Fun(m)
  OBVIOUS
<1> HIDE DEF P
<1>5. Fun(top)
  BY <1>3, <1>4, SetInduction
<1> QED BY <1>5 DEF Fun

\* What is spelled from the first slab of a list is the list.
LEMMA SpelledList ==
  ASSUME NEW nx \in [Slabs -> Links], NEW f,
         f = CHOOSE g : g = [n \in 0 .. Cardinality(Slabs) + 1 |-> [s \in Links |->
                IF s = NULL_U32 \/ n = 0 THEN <<>> ELSE <<s>> \o g[n - 1][nx[s]]]],
         NEW seq \in Seq(Slabs), NoDup(seq), NEW h, Follows(seq, h, nx)
  PROVE  f[Cardinality(Slabs) + 1][h] = seq
<1>1. PICK top \in Nat : top = Cardinality(Slabs) + 1 /\ Len(seq) < top
  BY LenBound, SeqFacts
<1>2. f = [n \in 0 .. top |-> [s \in Links |->
              IF s = NULL_U32 \/ n = 0 THEN <<>> ELSE <<s>> \o f[n - 1][nx[s]]]]
  BY <1>1, SpelledExists
<1>3. /\ \A n \in 0 .. top : f[n][NULL_U32] = <<>>
      /\ \A n \in 0 .. top - 1, s \in Slabs : f[n + 1][s] = <<s>> \o f[n][nx[s]]
  <2>1. ASSUME NEW n \in 0 .. top PROVE f[n][NULL_U32] = <<>>
    <3>1. f[n] = [t \in Links |->
              IF t = NULL_U32 \/ n = 0 THEN <<>> ELSE <<t>> \o f[n - 1][nx[t]]]
      BY <1>2
    <3>2. NULL_U32 \in Links
      BY DEF Links
    <3> QED BY <3>1, <3>2
  <2>2. ASSUME NEW n \in 0 .. top - 1, NEW s \in Slabs PROVE f[n + 1][s] = <<s>> \o f[n][nx[s]]
    <3>1. n + 1 \in 0 .. top /\ n + 1 # 0 /\ (n + 1) - 1 = n
      BY <1>1
    <3>2. s \in Links /\ s # NULL_U32
      BY NullAssumption DEF Links
    <3>3. f[n + 1] = [t \in Links |->
              IF t = NULL_U32 \/ n + 1 = 0 THEN <<>> ELSE <<t>> \o f[(n + 1) - 1][nx[t]]]
      BY <1>2, <3>1
    <3> QED BY <3>1, <3>2, <3>3
  <2> QED BY <2>1, <2>2
<1> DEFINE Reads(n) == \A q \in Seq(Slabs), s \in Links :
               NoDup(q) /\ Follows(q, s, nx) /\ Len(q) <= n => f[n][s] = q
           P == {n \in Nat : n <= top => Reads(n)}
<1>4. Reads(0)
  <2> SUFFICES ASSUME NEW q \in Seq(Slabs), NEW s \in Links, Follows(q, s, nx), Len(q) <= 0
               PROVE  f[0][s] = q
    OBVIOUS
  <2>1. q = <<>>
    BY SeqFacts
  <2>2. s = NULL_U32
    <3>1. s = NULL_U32 <=> q = <<>>
      BY EmptyFollows
    <3> QED BY <2>1, <3>1
  <2>3. 0 \in 0 .. top
    BY <1>1
  <2> QED BY <1>3, <2>1, <2>2, <2>3
<1>5. ASSUME NEW n \in Nat, n + 1 <= top, Reads(n) PROVE Reads(n + 1)
  <2> SUFFICES ASSUME NEW q \in Seq(Slabs), NEW s \in Links,
                      NoDup(q), Follows(q, s, nx), Len(q) <= n + 1
               PROVE  f[n + 1][s] = q
    OBVIOUS
  <2>1. CASE q = <<>>
    <3>1. s = NULL_U32
      <4>1. s = NULL_U32 <=> q = <<>>
        BY EmptyFollows
      <4> QED BY <2>1, <4>1
    <3>2. n + 1 \in 0 .. top
      BY <1>1, <1>5
    <3> QED BY <1>3, <2>1, <3>1, <3>2
  <2>2. CASE q # <<>>
    <3>1. /\ Len(q) \in Nat \ {0} /\ DOMAIN q = 1 .. Len(q) /\ 1 \in DOMAIN q
          /\ s = q[1] /\ s \in Slabs
      BY <2>2, SeqFacts DEF Follows, At
    <3>2. PICK r : r = Tail(q)
      OBVIOUS
    <3>3. /\ r \in Seq(Slabs) /\ NoDup(r) /\ Len(r) = Len(q) - 1
          /\ DOMAIN r = 1 .. Len(r)
          /\ \A i \in DOMAIN r : i + 1 \in DOMAIN q /\ r[i] = q[i + 1]
      BY <2>2, <3>2, TailFacts, SeqFacts
    <3>4. ASSUME NEW i \in Nat \ {0} PROVE At(r, i) = At(q, i + 1)
      <4>1. i \in DOMAIN r <=> i + 1 \in DOMAIN q
        BY <3>1, <3>3
      <4> QED BY <4>1, <3>3 DEF At
    <3>5. Follows(r, nx[s], nx)
      <4>1. nx[s] = At(r, 1)
        <5>1. 1 \in DOMAIN q /\ 1 \in Nat \ {0} /\ s = q[1]
          BY <3>1
        <5>2. nx[q[1]] = At(q, 1 + 1)
          BY <5>1 DEF Follows
        <5> QED BY <5>1, <5>2, <3>4
      <4>2. ASSUME NEW i \in DOMAIN r PROVE nx[r[i]] = At(r, i + 1)
        <5>1. i \in Nat \ {0} /\ i + 1 \in Nat \ {0} /\ i + 1 \in DOMAIN q /\ r[i] = q[i + 1]
          BY <3>1, <3>3
        <5>2. nx[q[i + 1]] = At(q, (i + 1) + 1)
          BY <5>1 DEF Follows
        <5> QED BY <5>1, <5>2, <3>4
      <4> QED BY <4>1, <4>2 DEF Follows
    <3>6. f[n][nx[s]] = r
      <4>1. nx[s] \in Links /\ Len(r) <= n
        BY <3>1, <3>3
      <4> QED BY <1>5, <3>3, <3>5, <4>1
    <3>7. f[n + 1][s] = <<s>> \o r
      <4>1. n \in 0 .. top - 1
        BY <1>1, <1>5
      <4> QED BY <1>3, <3>1, <3>6, <4>1
    <3>8. q = <<s>> \o r
      <4>1. PICK p : p = <<s>> \o r
        OBVIOUS
      <4>2. /\ p \in Seq(Slabs) /\ Len(p) = Len(r) + 1 /\ p[1] = s
            /\ \A i \in DOMAIN p : i # 1 => i - 1 \in DOMAIN r /\ p[i] = r[i - 1]
        <5>1. r \in Seq(Slabs) /\ s \in Slabs
          BY <3>1, <3>3
        <5> QED BY <4>1, <5>1, PushFacts
      <4>3. Len(p) = Len(q) /\ DOMAIN p = 1 .. Len(q)
        BY <3>1, <3>3, <4>2, SeqFacts
      <4>4. ASSUME NEW i \in 1 .. Len(q) PROVE q[i] = p[i]
        <5>1. CASE i = 1
          BY <3>1, <4>2, <5>1
        <5>2. CASE i # 1
          <6>1. i - 1 \in DOMAIN r /\ p[i] = r[i - 1] /\ (i - 1) + 1 = i
            BY <4>2, <4>3, <5>2
          <6> QED BY <3>3, <6>1
        <5> QED BY <5>1, <5>2
      <4> QED BY <4>1, <4>2, <4>3, <4>4, SeqEqual
    <3> QED BY <3>7, <3>8
  <2> QED BY <2>1, <2>2
<1> HIDE DEF Reads
<1>6. 0 \in P /\ \A n \in Nat : n \in P => n + 1 \in P
  BY <1>4, <1>5, <1>1
<1>7. P \subseteq Nat /\ \A n \in P : n <= top => Reads(n)
  OBVIOUS
<1> HIDE DEF P
<1>8. Reads(top)
  BY <1>1, <1>6, <1>7, SetInduction
<1>9. h \in Links /\ Len(seq) <= top
  BY <1>1, SeqFacts DEF Follows
<1> QED BY <1>1, <1>8, <1>9 DEF Reads

\* The links of every list that nobody works on spell it, now ...
LEMMA FromList ==
  ASSUME next \in [Slabs -> Links], NEW seq \in Seq(Slabs), NoDup(seq),
         NEW h, Follows(seq, h, next)
  PROVE  From(h) = seq
<1>1. PICK nx : nx = next
  OBVIOUS
<1> QED BY <1>1, SpelledList DEF From, Spelled

\* ... and after a step.
LEMMA FromListNext ==
  ASSUME next' \in [Slabs -> Links], NEW seq \in Seq(Slabs), NoDup(seq),
         NEW h, NEW l, h = head'[l], Follows(seq, h, next')
  PROVE  From(head[l])' = seq
<1>1. PICK nx : nx = next'
  OBVIOUS
<1> QED BY <1>1, SpelledList DEF From, Spelled


-----------------------------------------------------------------------------
(* The invariant.  L is what the lists are: Held spells it out of the links. *)

Pushing == {"push_prev", "push_next", "push_link", "push_head"}
Removing == {"remove_next", "remove_left", "remove_right"}

Held == [l \in Lists |-> IF Busy(l) THEN before[l[1]] ELSE From(head[l])]

\* A list has the slabs that were put on it, each once.
Kept(w, L) ==
    \A k \in Kinds :
        /\ NoDup(L[<<w, k>>])
        /\ \A s \in Slabs : s \in On(L[<<w, k>>]) <=> place[s] = <<w, k>>

\* While nobody works on it, its links lead forth and back.
Mirrored(w, L) ==
    \A k \in Kinds : kind[w] # k => Linked(L[<<w, k>>], head[<<w, k>>], prev, next)

\* A push in progress: the list is linked as before, but for the back link of its first
\* slab, and the new slab as far as its links are stored.
PushOK(w, seq) ==
    pc[w] \in Pushing =>
        /\ place[slab[w]] = InHand(w)
        /\ left[w] = head[List(w)] /\ Follows(seq, left[w], next)
        /\ \A i \in DOMAIN seq :
              prev[seq[i]] = IF pc[w] = "push_head" /\ i = 1 THEN slab[w] ELSE At(seq, i - 1)
        /\ pc[w] # "push_prev" => prev[slab[w]] = NULL_U32
        /\ pc[w] \in {"push_link", "push_head"} => next[slab[w]] = left[w]

\* A remove in progress: the slab is at position j, and its links are as far as they
\* were changed already.
CutAt(w, seq, j) ==
    /\ seq[j] = slab[w] /\ left[w] = At(seq, j - 1) /\ prev[slab[w]] = NULL_U32
    /\ IF pc[w] = "remove_next" THEN next[slab[w]] = At(seq, j + 1)
       ELSE next[slab[w]] = NULL_U32 /\ right[w] = At(seq, j + 1)
    /\ head[List(w)] = IF pc[w] = "remove_right" /\ j = 1 THEN At(seq, 2) ELSE At(seq, 1)
    /\ \A i \in DOMAIN seq : i # j =>
          /\ prev[seq[i]] = At(seq, i - 1)
          /\ next[seq[i]] = IF pc[w] = "remove_right" /\ i = j - 1 THEN At(seq, j + 1)
                            ELSE At(seq, i + 1)
RemoveOK(w, seq) == pc[w] \in Removing => \E j \in DOMAIN seq : CutAt(w, seq, j)

Operation(w, L) ==
    /\ pc[w] \in Operating => kind[w] \in Kinds /\ slab[w] \in Slabs
    /\ Ready(w) => kind[w] = NULL_U32
    /\ kind[w] # NULL_U32 => before[w] = L[List(w)]
    /\ PushOK(w, L[List(w)])
    /\ RemoveOK(w, L[List(w)])

\* An iteration has still to return slabs of its list, which its body never touches:
\* neither the slab it was given nor the one before it on the list is among them.
Iteration(w) ==
    pc[w] # "dead" =>
        /\ NoDup(todo[w]) /\ Follows(todo[w], cursor[w], next)
        /\ \A t \in On(todo[w]) : place[t] = <<w, walk[w]>> /\ t # given[w]
        /\ walk[w] = NULL_U32 => todo[w] = <<>> /\ given[w] = NULL_U32
        /\ pc[w] = "idle" => walk[w] = NULL_U32
        /\ pc[w] = "body" => walk[w] # NULL_U32
        /\ pc[w] \in Operating /\ walk[w] # NULL_U32 => slab[w] = given[w]
        /\ pc[w] \in Pushing => kind[w] # walk[w]
        /\ pc[w] \in Removing => left[w] \notin On(todo[w])

Good(w, L) == Kept(w, L) /\ Mirrored(w, L) /\ Operation(w, L) /\ Iteration(w)

ListInv == TypeOK /\ \E L \in [Lists -> Seq(Slabs)] : \A w \in Workers : Good(w, L)


-----------------------------------------------------------------------------
(* What one worker does leaves the lists, the operation and the iteration of every      *)
(* other worker alone, though they share the nodes.                                      *)

Near(w, p) == p = NULL_U32 \/ \E k \in Kinds \cup {NULL_U32} : p = <<w, k>>

SameCall(v) ==
    /\ pc'[v] = pc[v] /\ kind'[v] = kind[v] /\ slab'[v] = slab[v]
    /\ left'[v] = left[v] /\ right'[v] = right[v] /\ before'[v] = before[v]
    /\ walk'[v] = walk[v] /\ cursor'[v] = cursor[v] /\ given'[v] = given[v]
    /\ todo'[v] = todo[v]

OnlyMine(w) ==
    /\ \A v \in Workers : v # w => SameCall(v)
    /\ \A v \in Workers, k \in Kinds : v # w => head'[<<v, k>>] = head[<<v, k>>]
    /\ \A t \in Slabs :
          \/ Near(w, place[t]) /\ Near(w, place'[t])
          \/ place'[t] = place[t] /\ prev'[t] = prev[t] /\ next'[t] = next[t]

\* Places of different workers are different, and none is the pool.
LEMMA NotNear ==
  ASSUME NEW v \in Workers, NEW w \in Workers, v # w, NEW k \in Kinds \cup {NULL_U32}
  PROVE  ~Near(w, <<v, k>>)
<1>1. <<v, k>> # NULL_U32
  <2>1. <<v, k>> \in Workers \X (Kinds \cup {NULL_U32})
    OBVIOUS
  <2> QED BY <2>1, NullAssumption
<1> QED BY <1>1 DEF Near

\* The other workers stay as they were.
LEMMA OthersStay ==
  ASSUME TypeOK, NEW L \in [Lists -> Seq(Slabs)], NEW M,
         NEW v \in Workers, NEW w \in Workers, v # w, OnlyMine(w), Good(v, L),
         \A k \in Kinds : M[<<v, k>>] = L[<<v, k>>]
  PROVE  Good(v, M)'
<1>1. \A k \in Kinds \cup {NULL_U32}, t \in Slabs :
         place[t] = <<v, k>> \/ place'[t] = <<v, k>> =>
            place'[t] = place[t] /\ prev'[t] = prev[t] /\ next'[t] = next[t]
  BY NotNear DEF OnlyMine
<1>2. SameCall(v) /\ \A k \in Kinds : head'[<<v, k>>] = head[<<v, k>>]
  BY DEF OnlyMine
<1>3. \A k \in Kinds : /\ L[<<v, k>>] \in Seq(Slabs)
                       /\ \A i \in DOMAIN L[<<v, k>>] :
                             /\ L[<<v, k>>][i] \in Slabs
                             /\ place[L[<<v, k>>][i]] = <<v, k>>
  <2> SUFFICES ASSUME NEW k \in Kinds
               PROVE  /\ L[<<v, k>>] \in Seq(Slabs)
                      /\ \A i \in DOMAIN L[<<v, k>>] :
                             /\ L[<<v, k>>][i] \in Slabs
                             /\ place[L[<<v, k>>][i]] = <<v, k>>
    OBVIOUS
  <2>1. L[<<v, k>>] \in Seq(Slabs)
    BY DEF Lists
  <2>2. \A i \in DOMAIN L[<<v, k>>] : L[<<v, k>>][i] \in Slabs /\ L[<<v, k>>][i] \in On(L[<<v, k>>])
    BY <2>1, SeqFacts DEF On
  <2> QED BY <2>1, <2>2 DEF Good, Kept
<1>4. Kept(v, M)'
  <2> SUFFICES ASSUME NEW k \in Kinds
               PROVE  /\ NoDup(M[<<v, k>>])
                      /\ \A s \in Slabs : s \in On(M[<<v, k>>]) <=> place'[s] = <<v, k>>
    BY DEF Kept
  <2>1. M[<<v, k>>] = L[<<v, k>>]
    OBVIOUS
  <2>2. \A s \in Slabs : place'[s] = <<v, k>> <=> place[s] = <<v, k>>
    BY <1>1
  <2> QED BY <2>1, <2>2 DEF Good, Kept
<1>5. Mirrored(v, M)'
  <2> SUFFICES ASSUME NEW k \in Kinds, kind'[v] # k
               PROVE  Linked(M[<<v, k>>], head'[<<v, k>>], prev', next')
    BY DEF Mirrored
  <2>1. M[<<v, k>>] = L[<<v, k>>] /\ head'[<<v, k>>] = head[<<v, k>>]
    BY <1>2
  <2>2. Linked(L[<<v, k>>], head[<<v, k>>], prev, next)
    BY <1>2 DEF Good, Mirrored, SameCall
  <2>3. \A i \in DOMAIN L[<<v, k>>] : /\ prev'[L[<<v, k>>][i]] = prev[L[<<v, k>>][i]]
                                      /\ next'[L[<<v, k>>][i]] = next[L[<<v, k>>][i]]
    BY <1>1, <1>3
  <2> QED BY <2>1, <2>2, <2>3 DEF Linked, Follows
<1>6. Operation(v, M)'
  <2>1. /\ pc[v] \in Operating => kind[v] \in Kinds /\ slab[v] \in Slabs
        /\ Ready(v) => kind[v] = NULL_U32
        /\ kind[v] # NULL_U32 => before[v] = L[List(v)]
        /\ PushOK(v, L[List(v)]) /\ RemoveOK(v, L[List(v)])
    BY DEF Good, Operation
  <2>2. kind[v] \in Kinds => /\ List(v) = <<v, kind[v]>> /\ M[List(v)] = L[List(v)]
                             /\ head'[List(v)] = head[List(v)]
    BY <1>2 DEF List
  <2>3. List(v)' = List(v) /\ InHand(v)' = InHand(v)
    BY <1>2 DEF SameCall, List, InHand
  <2>4. kind[v] \in Kinds \cup {NULL_U32}
    BY DEF TypeOK
  <2>5. PushOK(v, M[List(v)])'
    <3> SUFFICES ASSUME pc[v] \in Pushing PROVE PushOK(v, L[List(v)])'
      BY <1>2, <2>1, <2>2, <2>3 DEF PushOK, SameCall, Pushing, Operating
    <3>1. kind[v] \in Kinds /\ slab[v] \in Slabs
      BY <2>1 DEF Pushing, Operating
    <3>2. PICK seq : seq = L[List(v)]
      OBVIOUS
    <3>3. \A i \in DOMAIN seq : prev'[seq[i]] = prev[seq[i]] /\ next'[seq[i]] = next[seq[i]]
      <4>1. seq = L[<<v, kind[v]>>]
        BY <2>2, <3>1, <3>2
      <4>2. \A i \in DOMAIN seq : seq[i] \in Slabs /\ place[seq[i]] = <<v, kind[v]>>
        BY <1>3, <3>1, <4>1
      <4> QED BY <1>1, <3>1, <4>2
    <3>4. /\ place[slab[v]] = <<v, NULL_U32>>
          /\ place'[slab[v]] = place[slab[v]] /\ prev'[slab[v]] = prev[slab[v]]
          /\ next'[slab[v]] = next[slab[v]]
      BY <1>1, <2>1, <3>1 DEF PushOK, InHand
    <3>5. PushOK(v, seq)
      BY <2>1, <3>2
    <3>6. /\ pc'[v] = pc[v] /\ slab'[v] = slab[v] /\ left'[v] = left[v]
          /\ head'[List(v)'] = head[List(v)]
      BY <1>2, <2>2, <2>3, <3>1 DEF SameCall
    <3>7. Follows(seq, left[v], next)'
      BY <3>3, <3>5, <3>6 DEF PushOK, Follows
    <3>8. PushOK(v, seq)'
      BY <2>3, <3>3, <3>4, <3>5, <3>6, <3>7 DEF PushOK
    <3> QED BY <2>3, <3>2, <3>8 DEF PushOK
  <2>6. RemoveOK(v, M[List(v)])'
    <3> SUFFICES ASSUME pc[v] \in Removing PROVE RemoveOK(v, L[List(v)])'
      BY <1>2, <2>1, <2>2, <2>3 DEF RemoveOK, SameCall, Removing, Operating
    <3>1. kind[v] \in Kinds /\ slab[v] \in Slabs
      BY <2>1 DEF Removing, Operating
    <3>2. PICK seq : seq = L[List(v)]
      OBVIOUS
    <3>3. \A i \in DOMAIN seq : prev'[seq[i]] = prev[seq[i]] /\ next'[seq[i]] = next[seq[i]]
      <4>1. seq = L[<<v, kind[v]>>]
        BY <2>2, <3>1, <3>2
      <4>2. \A i \in DOMAIN seq : seq[i] \in Slabs /\ place[seq[i]] = <<v, kind[v]>>
        BY <1>3, <3>1, <4>1
      <4> QED BY <1>1, <3>1, <4>2
    <3>4. PICK j \in DOMAIN seq : CutAt(v, seq, j)
      BY <2>1, <3>2 DEF RemoveOK
    <3>5. /\ pc'[v] = pc[v] /\ slab'[v] = slab[v] /\ left'[v] = left[v]
          /\ right'[v] = right[v] /\ head'[List(v)'] = head[List(v)]
      BY <1>2, <2>2, <2>3, <3>1 DEF SameCall
    <3>6. CutAt(v, seq, j)'
      BY <2>3, <3>3, <3>4, <3>5 DEF CutAt
    <3> QED BY <2>3, <3>2, <3>4, <3>6 DEF RemoveOK
  <2>7. (kind[v] # NULL_U32 => before[v] = M[List(v)])'
    BY <1>2, <2>1, <2>2, <2>3, <2>4 DEF SameCall
  <2>8. (pc[v] \in Operating => kind[v] \in Kinds /\ slab[v] \in Slabs)'
    BY <1>2, <2>1 DEF SameCall
  <2>9. (Ready(v) => kind[v] = NULL_U32)'
    BY <1>2, <2>1 DEF SameCall, Ready
  <2> QED BY <2>5, <2>6, <2>7, <2>8, <2>9 DEF Operation
<1>7. Iteration(v)'
  <2> SUFFICES ASSUME pc[v] # "dead" PROVE Iteration(v)'
    BY <1>2 DEF Iteration, SameCall
  <2>1. \A t \in On(todo[v]) : /\ t \in Slabs /\ place[t] = <<v, walk[v]>>
                               /\ place'[t] = place[t] /\ next'[t] = next[t]
    <3>1. todo[v] \in Seq(Slabs) /\ walk[v] \in Kinds \cup {NULL_U32}
      BY DEF TypeOK
    <3>2. On(todo[v]) \subseteq Slabs
      BY <3>1, SeqFacts
    <3> QED BY <1>1, <3>1, <3>2 DEF Good, Iteration
  <2>2. Follows(todo[v], cursor[v], next)'
    <3>1. Follows(todo[v], cursor[v], next)
      BY DEF Good, Iteration
    <3>2. \A i \in DOMAIN todo[v] : next'[todo[v][i]] = next[todo[v][i]]
      BY <2>1 DEF On
    <3> QED BY <1>2, <3>1, <3>2 DEF Follows, SameCall
  <2> QED BY <1>2, <2>1, <2>2 DEF Good, Iteration, SameCall
<1> QED BY <1>4, <1>5, <1>6, <1>7 DEF Good


-----------------------------------------------------------------------------
(* Steps inside a push or a remove. *)

\* The list under work, and the slab.
LEMMA OwnFacts ==
  ASSUME TypeOK, NEW L \in [Lists -> Seq(Slabs)], NEW w \in Workers, Good(w, L),
         pc[w] \in Operating
  PROVE  /\ kind[w] \in Kinds /\ slab[w] \in Slabs
         /\ List(w) \in Lists /\ List(w) = <<w, kind[w]>> /\ InHand(w) = <<w, NULL_U32>>
         /\ L[List(w)] \in Seq(Slabs) /\ NoDup(L[List(w)])
         /\ \A s \in Slabs : s \in On(L[List(w)]) <=> place[s] = List(w)
         /\ \A i \in DOMAIN L[List(w)] :
               L[List(w)][i] \in Slabs /\ place[L[List(w)][i]] = List(w)
<1>1. kind[w] \in Kinds /\ slab[w] \in Slabs
  BY DEF Good, Operation
<1>2. List(w) \in Lists /\ List(w) = <<w, kind[w]>> /\ InHand(w) = <<w, NULL_U32>>
  BY <1>1 DEF List, Lists, InHand
<1>3. PICK seq \in Seq(Slabs) : seq = L[List(w)]
  BY <1>2
<1>4. NoDup(seq) /\ \A s \in Slabs : s \in On(seq) <=> place[s] = List(w)
  BY <1>1, <1>2, <1>3 DEF Good, Kept
<1>5. \A i \in DOMAIN seq : seq[i] \in Slabs /\ seq[i] \in On(seq)
  BY SeqFacts DEF On
<1> QED BY <1>1, <1>2, <1>3, <1>4, <1>5

\* What an iteration has still to return is neither the slab under work nor, in a
\* remove, the one before it.
LEMMA NotTodo ==
  ASSUME TypeOK, NEW L \in [Lists -> Seq(Slabs)], NEW w \in Workers, Good(w, L),
         pc[w] \in Operating
  PROVE  /\ slab[w] \notin On(todo[w])
         /\ pc[w] \in Removing => left[w] \notin On(todo[w])
         /\ On(todo[w]) \subseteq Slabs
<1>1. pc[w] # "dead"
  BY DEF Operating
<1>2. walk[w] = NULL_U32 => On(todo[w]) = {}
  BY <1>1 DEF Good, Iteration, On
<1>3. walk[w] # NULL_U32 => slab[w] \notin On(todo[w])
  BY <1>1 DEF Good, Iteration
<1>4. On(todo[w]) \subseteq Slabs
  BY SeqFacts DEF TypeOK
<1> QED BY <1>1, <1>2, <1>3, <1>4 DEF Good, Iteration

\* The lists of the worker that are not under work stay linked.
LEMMA OtherLists ==
  ASSUME TypeOK, NEW L \in [Lists -> Seq(Slabs)], NEW w \in Workers, Good(w, L),
         NEW k \in Kinds, kind[w] # k, head'[<<w, k>>] = head[<<w, k>>],
         \A t \in Slabs : place[t] \notin {InHand(w), List(w)} =>
            prev'[t] = prev[t] /\ next'[t] = next[t]
  PROVE  Linked(L[<<w, k>>], head[<<w, k>>], prev, next)'
<1>1. PICK seq \in Seq(Slabs) : seq = L[<<w, k>>]
  BY DEF Lists
<1>2. Linked(seq, head[<<w, k>>], prev, next)
  BY <1>1 DEF Good, Mirrored
<1>3. \A i \in DOMAIN seq : seq[i] \in Slabs /\ place[seq[i]] = <<w, k>>
  <2>1. \A i \in DOMAIN seq : seq[i] \in Slabs /\ seq[i] \in On(seq)
    BY SeqFacts DEF On
  <2> QED BY <1>1, <2>1 DEF Good, Kept
<1>4. <<w, k>> \notin {InHand(w), List(w)}
  BY NullAssumption DEF InHand, List
<1>5. \A i \in DOMAIN seq : prev'[seq[i]] = prev[seq[i]] /\ next'[seq[i]] = next[seq[i]]
  BY <1>3, <1>4
<1>6. Linked(seq, head[<<w, k>>], prev, next)'
  BY <1>2, <1>5 DEF Linked, Follows
<1> QED BY <1>1, <1>6

\* A step that moves no slab keeps all but the operation itself.
LEMMA MiddleStep ==
  ASSUME TypeOK, NEW L \in [Lists -> Seq(Slabs)], NEW w \in Workers, Good(w, L),
         pc[w] \in Operating, NEW lab \in Operating, pc' = [pc EXCEPT ![w] = lab],
         pc[w] \in Pushing <=> lab \in Pushing, pc[w] \in Removing <=> lab \in Removing,
         UNCHANGED <<place, kind, slab, left, before, iteration>>,
         \A v \in Workers : v # w => right'[v] = right[v],
         \A l \in Lists : l # List(w) => head'[l] = head[l],
         \A t \in Slabs : place[t] \notin {InHand(w), List(w)} =>
            prev'[t] = prev[t] /\ next'[t] = next[t],
         \A t \in On(todo[w]) : next'[t] = next[t],
         PushOK(w, L[List(w)])', RemoveOK(w, L[List(w)])'
  PROVE  OnlyMine(w) /\ Good(w, L)'
<1>1. /\ kind[w] \in Kinds /\ slab[w] \in Slabs /\ List(w) = <<w, kind[w]>>
      /\ InHand(w) = <<w, NULL_U32>>
  BY OwnFacts
<1>2. /\ place' = place /\ kind' = kind /\ slab' = slab /\ left' = left /\ before' = before
      /\ walk' = walk /\ cursor' = cursor /\ given' = given /\ todo' = todo
  BY DEF iteration
<1>3. pc'[w] = lab /\ \A v \in Workers : v # w => pc'[v] = pc[v]
  BY DEF TypeOK
<1>4. lab # "dead" /\ lab \notin {"idle", "body"} /\ pc[w] # "dead"
  BY DEF Operating
<1>5. OnlyMine(w)
  <2>1. \A v \in Workers : v # w => SameCall(v)
    BY <1>2, <1>3 DEF SameCall
  <2>2. \A v \in Workers, k \in Kinds : v # w => head'[<<v, k>>] = head[<<v, k>>]
    <3> SUFFICES ASSUME NEW v \in Workers, NEW k \in Kinds, v # w
                 PROVE  head'[<<v, k>>] = head[<<v, k>>]
      OBVIOUS
    <3>1. <<v, k>> \in Lists /\ <<v, k>> # List(w)
      BY <1>1 DEF Lists
    <3> QED BY <3>1
  <2>3. Near(w, InHand(w)) /\ Near(w, List(w))
    BY <1>1 DEF Near
  <2> QED BY <1>2, <2>1, <2>2, <2>3 DEF OnlyMine
<1>6. Kept(w, L)'
  BY <1>2 DEF Good, Kept
<1>7. Mirrored(w, L)'
  <2> SUFFICES ASSUME NEW k \in Kinds, kind[w] # k
               PROVE  Linked(L[<<w, k>>], head[<<w, k>>], prev, next)'
    BY <1>2 DEF Mirrored
  <2>1. <<w, k>> \in Lists /\ <<w, k>> # List(w)
    BY <1>1 DEF Lists
  <2> QED BY <2>1, OtherLists
<1>8. Operation(w, L)'
  <2>1. List(w)' = List(w)
    BY <1>2 DEF List
  <2>2. before[w] = L[List(w)]
    BY <1>1, NullAssumption DEF Good, Operation
  <2> QED BY <1>1, <1>2, <1>3, <1>4, <2>1, <2>2 DEF Operation, Ready
<1>9. Iteration(w)'
  <2>1. Follows(todo[w], cursor[w], next)'
    <3>1. Follows(todo[w], cursor[w], next)
      BY <1>4 DEF Good, Iteration
    <3>2. \A i \in DOMAIN todo[w] : next'[todo[w][i]] = next[todo[w][i]]
      BY DEF On
    <3> QED BY <1>2, <3>1, <3>2 DEF Follows
  <2> QED BY <1>2, <1>3, <1>4, <2>1 DEF Good, Iteration
<1> QED BY <1>5, <1>6, <1>7, <1>8, <1>9 DEF Good

\* Operations keep their phase.
LEMMA Phases ==
  /\ Pushing \subseteq Operating /\ Removing \subseteq Operating
  /\ Pushing \cap Removing = {}
  BY DEF Pushing, Removing, Operating

\* In a push the slab is in the worker's hands, and so on no list.
LEMMA PushFactsOf ==
  ASSUME TypeOK, NEW L \in [Lists -> Seq(Slabs)], NEW w \in Workers, Good(w, L),
         pc[w] \in Pushing
  PROVE  /\ PushOK(w, L[List(w)]) /\ place[slab[w]] = InHand(w) /\ InHand(w) # List(w)
<1>1. PushOK(w, L[List(w)]) /\ place[slab[w]] = InHand(w)
  BY DEF Good, Operation, PushOK
<1>2. kind[w] # NULL_U32
  BY Phases, OwnFacts, NullAssumption
<1> QED BY <1>1, <1>2 DEF InHand, List

\* The new node's back link is cleared.
LEMMA PushPrevStep ==
  ASSUME TypeOK, NEW L \in [Lists -> Seq(Slabs)], NEW w \in Workers, Good(w, L),
         PushPrev(w)
  PROVE  TypeOK' /\ OnlyMine(w) /\ Good(w, L)'
<1>1. /\ pc[w] = "push_prev" /\ pc' = [pc EXCEPT ![w] = "push_next"]
      /\ prev' = [prev EXCEPT ![slab[w]] = NULL_U32]
      /\ UNCHANGED <<head, next, place, kind, slab, left, right, before, iteration>>
  BY DEF PushPrev, Goto, op
<1>2. pc[w] \in Operating /\ "push_next" \in Operating /\ pc[w] \in Pushing
      /\ "push_next" \in Pushing /\ pc[w] \notin Removing /\ "push_next" \notin Removing
  BY <1>1 DEF Operating, Pushing, Removing
<1>3. TypeOK'
  BY <1>1, <1>2, NullAssumption DEF TypeOK, iteration, Links, InHand
<1>4. PICK seq : seq = L[List(w)]
  OBVIOUS
<1>5. /\ slab[w] \in Slabs /\ PushOK(w, seq) /\ place[slab[w]] = InHand(w)
      /\ InHand(w) # List(w) /\ \A i \in DOMAIN seq : place[seq[i]] = List(w)
  BY <1>2, <1>4, OwnFacts, PushFactsOf
<1>6. /\ prev'[slab[w]] = NULL_U32
      /\ \A t \in Slabs : t # slab[w] => prev'[t] = prev[t]
  BY <1>1, <1>5 DEF TypeOK
<1>7. PushOK(w, seq)'
  <2>1. pc'[w] = "push_next" /\ List(w)' = List(w) /\ InHand(w)' = InHand(w)
    BY <1>1 DEF TypeOK, List, InHand
  <2>2. \A i \in DOMAIN seq : prev'[seq[i]] = prev[seq[i]]
    BY <1>2, <1>4, <1>5, <1>6, OwnFacts
  <2>3. Follows(seq, left[w], next)'
    BY <1>1, <1>2, <1>5 DEF PushOK, Follows
  <2> QED BY <1>1, <1>2, <1>5, <1>6, <2>1, <2>2, <2>3 DEF PushOK
<1>8. PushOK(w, L[List(w)])' /\ RemoveOK(w, L[List(w)])'
  <2>1. pc'[w] = "push_next" /\ List(w)' = List(w)
    BY <1>1 DEF TypeOK, List
  <2> QED BY <1>2, <1>4, <1>7, <2>1 DEF PushOK, RemoveOK
<1> QED BY <1>1, <1>2, <1>3, <1>5, <1>6, <1>8, MiddleStep


\* The new node is linked to the old head.
LEMMA PushNextStep ==
  ASSUME TypeOK, NEW L \in [Lists -> Seq(Slabs)], NEW w \in Workers, Good(w, L),
         PushNext(w)
  PROVE  TypeOK' /\ OnlyMine(w) /\ Good(w, L)'
<1>1. /\ pc[w] = "push_next" /\ pc' = [pc EXCEPT ![w] = "push_link"]
      /\ next' = [next EXCEPT ![slab[w]] = left[w]]
      /\ UNCHANGED <<head, prev, place, kind, slab, left, right, before, iteration>>
  BY DEF PushNext, Goto, op
<1>2. pc[w] \in Operating /\ "push_link" \in Operating /\ pc[w] \in Pushing
      /\ "push_link" \in Pushing /\ pc[w] \notin Removing /\ "push_link" \notin Removing
  BY <1>1 DEF Operating, Pushing, Removing
<1>3. PICK seq \in Seq(Slabs) : seq = L[List(w)]
  BY <1>2, OwnFacts
<1>4. /\ slab[w] \in Slabs /\ PushOK(w, seq) /\ place[slab[w]] = InHand(w)
      /\ InHand(w) # List(w)
      /\ \A i \in DOMAIN seq : seq[i] \in Slabs /\ place[seq[i]] = List(w)
  BY <1>2, <1>3, OwnFacts, PushFactsOf
<1>5. left[w] # slab[w]
  <2>1. left[w] = At(seq, 1)
    BY <1>2, <1>4 DEF PushOK, Follows
  <2> QED BY <1>4, <2>1, NullAssumption DEF At
<1>6. /\ next'[slab[w]] = left[w]
      /\ \A t \in Slabs : t # slab[w] => next'[t] = next[t]
  BY <1>1, <1>4 DEF TypeOK
<1>7. TypeOK'
  BY <1>1, <1>2, <1>5 DEF TypeOK, iteration, Links, InHand
<1>8. pc'[w] = "push_link" /\ List(w)' = List(w) /\ InHand(w)' = InHand(w)
  BY <1>1 DEF TypeOK, List, InHand
<1>9. PushOK(w, seq)'
  <2>1. \A i \in DOMAIN seq : next'[seq[i]] = next[seq[i]]
    BY <1>4, <1>6
  <2>2. Follows(seq, left[w], next)'
    BY <1>1, <1>2, <1>4, <2>1 DEF PushOK, Follows
  <2> QED BY <1>1, <1>2, <1>4, <1>6, <1>8, <2>2 DEF PushOK
<1>10. PushOK(w, L[List(w)])' /\ RemoveOK(w, L[List(w)])'
  BY <1>2, <1>3, <1>8, <1>9 DEF PushOK, RemoveOK
<1>11. \A t \in On(todo[w]) : next'[t] = next[t]
  BY <1>2, <1>6, NotTodo
<1> QED BY <1>1, <1>2, <1>4, <1>6, <1>7, <1>10, <1>11, MiddleStep

\* The old head is linked back to the new node.
LEMMA PushLinkStep ==
  ASSUME TypeOK, NEW L \in [Lists -> Seq(Slabs)], NEW w \in Workers, Good(w, L),
         PushLink(w)
  PROVE  TypeOK' /\ OnlyMine(w) /\ Good(w, L)'
<1>1. /\ pc[w] = "push_link" /\ pc' = [pc EXCEPT ![w] = "push_head"]
      /\ prev' = IF left[w] # NULL_U32 THEN [prev EXCEPT ![left[w]] = slab[w]] ELSE prev
      /\ UNCHANGED <<head, next, place, kind, slab, left, right, before, iteration>>
  BY DEF PushLink, LinkBack, Goto, op
<1>2. pc[w] \in Operating /\ "push_head" \in Operating /\ pc[w] \in Pushing
      /\ "push_head" \in Pushing /\ pc[w] \notin Removing /\ "push_head" \notin Removing
  BY <1>1 DEF Operating, Pushing, Removing
<1>3. PICK seq \in Seq(Slabs) : seq = L[List(w)]
  BY <1>2, OwnFacts
<1>4. /\ slab[w] \in Slabs /\ PushOK(w, seq) /\ place[slab[w]] = InHand(w)
      /\ InHand(w) # List(w) /\ NoDup(seq)
      /\ \A i \in DOMAIN seq : seq[i] \in Slabs /\ place[seq[i]] = List(w)
  BY <1>2, <1>3, OwnFacts, PushFactsOf
<1>5. left[w] = At(seq, 1) /\ left[w] # slab[w]
  <2>1. left[w] = At(seq, 1)
    BY <1>2, <1>4 DEF PushOK, Follows
  <2> QED BY <1>4, <2>1, NullAssumption DEF At
<1>6. /\ left[w] # NULL_U32 => left[w] \in Slabs /\ place[left[w]] = List(w)
                               /\ prev'[left[w]] = slab[w]
      /\ \A t \in Slabs : t # left[w] => prev'[t] = prev[t]
  BY <1>1, <1>4, <1>5 DEF TypeOK, Links, At
<1>7. TypeOK'
  BY <1>1, <1>2, <1>4, <1>5 DEF TypeOK, iteration, Links, InHand
<1>8. pc'[w] = "push_head" /\ List(w)' = List(w) /\ InHand(w)' = InHand(w)
  BY <1>1 DEF TypeOK, List, InHand
<1>9. PushOK(w, seq)'
  <2>1. Follows(seq, left[w], next)'
    BY <1>1, <1>2, <1>4 DEF PushOK, Follows
  <2>2. \A i \in DOMAIN seq : prev'[seq[i]] = IF i = 1 THEN slab[w] ELSE At(seq, i - 1)
    <3> SUFFICES ASSUME NEW i \in DOMAIN seq
                 PROVE  prev'[seq[i]] = IF i = 1 THEN slab[w] ELSE At(seq, i - 1)
      OBVIOUS
    <3>1. CASE i = 1
      BY <1>4, <1>5, <1>6, <3>1, NullAssumption DEF At
    <3>2. CASE i # 1
      <4>1. seq[i] # left[w]
        BY <1>4, <1>5, <3>2, NullAssumption DEF At, NoDup
      <4>2. prev[seq[i]] = At(seq, i - 1)
        BY <1>1, <1>2, <1>4 DEF PushOK
      <4> QED BY <1>4, <1>6, <3>2, <4>1, <4>2
    <3> QED BY <3>1, <3>2
  <2>3. prev'[slab[w]] = NULL_U32 /\ next'[slab[w]] = left[w]
    BY <1>1, <1>2, <1>4, <1>5, <1>6 DEF PushOK
  <2> QED BY <1>1, <1>2, <1>4, <1>8, <2>1, <2>2, <2>3 DEF PushOK
<1>10. PushOK(w, L[List(w)])' /\ RemoveOK(w, L[List(w)])'
  BY <1>2, <1>3, <1>8, <1>9 DEF PushOK, RemoveOK
<1>11. \A t \in Slabs : place[t] \notin {InHand(w), List(w)} =>
            prev'[t] = prev[t] /\ next'[t] = next[t]
  BY <1>1, <1>6, NullAssumption
<1> QED BY <1>1, <1>2, <1>7, <1>10, <1>11, MiddleStep


\* A remove is at one position of its list, and has not reached any other list.
LEMMA CutFacts ==
  ASSUME TypeOK, NEW L \in [Lists -> Seq(Slabs)], NEW w \in Workers, Good(w, L),
         pc[w] \in Removing
  PROVE  \E seq \in Seq(Slabs) : \E j \in DOMAIN seq :
            /\ seq = L[List(w)] /\ NoDup(seq) /\ CutAt(w, seq, j) /\ j \in Nat
            /\ \A i \in DOMAIN seq : i \in Nat /\ seq[i] \in Slabs /\ place[seq[i]] = List(w)
            /\ \A i \in Int : At(seq, i) # NULL_U32 =>
                  i \in DOMAIN seq /\ At(seq, i) = seq[i]
            /\ slab[w] \in Slabs /\ place[slab[w]] = List(w)
<1>1. PICK seq \in Seq(Slabs) : seq = L[List(w)]
  BY Phases, OwnFacts
<1>2. /\ slab[w] \in Slabs /\ NoDup(seq)
      /\ \A i \in DOMAIN seq : seq[i] \in Slabs /\ place[seq[i]] = List(w)
  BY <1>1, Phases, OwnFacts
<1>3. PICK j \in DOMAIN seq : CutAt(w, seq, j)
  BY <1>1 DEF Good, Operation, RemoveOK
<1>4. \A i \in DOMAIN seq : i \in Nat
  BY SeqFacts
<1>5. place[slab[w]] = List(w)
  BY <1>2, <1>3 DEF CutAt
<1>6. \A i \in Int : At(seq, i) # NULL_U32 => i \in DOMAIN seq /\ At(seq, i) = seq[i]
  BY DEF At
<1> QED BY <1>1, <1>2, <1>3, <1>4, <1>5, <1>6

\* The slab's forward link is taken out.
LEMMA RemoveNextStep ==
  ASSUME TypeOK, NEW L \in [Lists -> Seq(Slabs)], NEW w \in Workers, Good(w, L),
         RemoveNext(w)
  PROVE  TypeOK' /\ OnlyMine(w) /\ Good(w, L)'
<1>1. /\ pc[w] = "remove_next" /\ pc' = [pc EXCEPT ![w] = "remove_left"]
      /\ right' = [right EXCEPT ![w] = next[slab[w]]]
      /\ next' = [next EXCEPT ![slab[w]] = NULL_U32]
      /\ UNCHANGED <<head, prev, place, kind, slab, left, before, iteration>>
  BY DEF RemoveNext, Goto
<1>2. pc[w] \in Operating /\ "remove_left" \in Operating /\ pc[w] \in Removing
      /\ "remove_left" \in Removing /\ pc[w] \notin Pushing /\ "remove_left" \notin Pushing
  BY <1>1 DEF Operating, Pushing, Removing
<1>3. PICK seq \in Seq(Slabs) : \E j \in DOMAIN seq :
         /\ seq = L[List(w)] /\ NoDup(seq) /\ CutAt(w, seq, j)
         /\ \A i \in DOMAIN seq : i \in Nat /\ seq[i] \in Slabs /\ place[seq[i]] = List(w)
         /\ slab[w] \in Slabs /\ place[slab[w]] = List(w)
  BY <1>2, CutFacts
<1>4. PICK j \in DOMAIN seq :
         /\ seq = L[List(w)] /\ NoDup(seq) /\ CutAt(w, seq, j)
         /\ \A i \in DOMAIN seq : i \in Nat /\ seq[i] \in Slabs /\ place[seq[i]] = List(w)
         /\ slab[w] \in Slabs /\ place[slab[w]] = List(w)
  BY <1>3
<1>5. /\ next'[slab[w]] = NULL_U32 /\ right'[w] = next[slab[w]]
      /\ \A t \in Slabs : t # slab[w] => next'[t] = next[t]
  BY <1>1, <1>4 DEF TypeOK
<1>6. TypeOK'
  BY <1>1, <1>2, <1>4, NullAssumption DEF TypeOK, iteration, Links, InHand
<1>7. pc'[w] = "remove_left" /\ List(w)' = List(w)
  BY <1>1 DEF TypeOK, List
<1>8. CutAt(w, seq, j)'
  <2>1. \A i \in DOMAIN seq : i # j => next'[seq[i]] = next[seq[i]]
    BY <1>4, <1>5 DEF CutAt, NoDup
  <2> QED BY <1>1, <1>4, <1>5, <1>7, <2>1 DEF CutAt
<1>9. PushOK(w, L[List(w)])' /\ RemoveOK(w, L[List(w)])'
  BY <1>2, <1>4, <1>7, <1>8 DEF PushOK, RemoveOK
<1>10. \A t \in On(todo[w]) : next'[t] = next[t]
  BY <1>2, <1>5, NotTodo
<1>11. \A v \in Workers : v # w => right'[v] = right[v]
  BY <1>1 DEF TypeOK
<1>12. \A t \in Slabs : place[t] \notin {InHand(w), List(w)} =>
            prev'[t] = prev[t] /\ next'[t] = next[t]
  BY <1>1, <1>4, <1>5
<1> QED BY <1>1, <1>2, <1>6, <1>9, <1>10, <1>11, <1>12, MiddleStep

\* The slab before, or the head, is joined to the one after.
LEMMA RemoveLeftStep ==
  ASSUME TypeOK, NEW L \in [Lists -> Seq(Slabs)], NEW w \in Workers, Good(w, L),
         RemoveLeft(w)
  PROVE  TypeOK' /\ OnlyMine(w) /\ Good(w, L)'
<1>1. /\ pc[w] = "remove_left" /\ pc' = [pc EXCEPT ![w] = "remove_right"]
      /\ JoinLeft(w)
      /\ UNCHANGED <<prev, place, kind, slab, left, right, before, iteration>>
  BY DEF RemoveLeft, Goto, op
<1>2. pc[w] \in Operating /\ "remove_right" \in Operating /\ pc[w] \in Removing
      /\ "remove_right" \in Removing /\ pc[w] \notin Pushing /\ "remove_right" \notin Pushing
  BY <1>1 DEF Operating, Pushing, Removing
<1>3. PICK seq \in Seq(Slabs) : \E j \in DOMAIN seq :
         /\ seq = L[List(w)] /\ NoDup(seq) /\ CutAt(w, seq, j)
         /\ \A i \in DOMAIN seq : i \in Nat /\ seq[i] \in Slabs /\ place[seq[i]] = List(w)
         /\ slab[w] \in Slabs /\ place[slab[w]] = List(w)
  BY <1>2, CutFacts
<1>4. PICK j \in DOMAIN seq :
         /\ seq = L[List(w)] /\ NoDup(seq) /\ CutAt(w, seq, j)
         /\ \A i \in DOMAIN seq : i \in Nat /\ seq[i] \in Slabs /\ place[seq[i]] = List(w)
         /\ slab[w] \in Slabs /\ place[slab[w]] = List(w)
  BY <1>3
<1>5. /\ left[w] = At(seq, j - 1) /\ right[w] = At(seq, j + 1) /\ next[slab[w]] = NULL_U32
      /\ head[List(w)] = At(seq, 1) /\ seq[j] = slab[w] /\ prev[slab[w]] = NULL_U32
      /\ \A i \in DOMAIN seq : i # j =>
            prev[seq[i]] = At(seq, i - 1) /\ next[seq[i]] = At(seq, i + 1)
  BY <1>1, <1>4 DEF CutAt
<1>6. DOMAIN seq = 1 .. Len(seq) /\ Len(seq) \in Nat /\ j \in 1 .. Len(seq)
  BY SeqFacts
<1>7. List(w) \in Lists /\ List(w)' = List(w) /\ pc'[w] = "remove_right"
  BY <1>1, <1>2, OwnFacts DEF TypeOK, List
<1>8. CASE left[w] # NULL_U32
  <2>1. j - 1 \in DOMAIN seq /\ left[w] = seq[j - 1] /\ j # 1
    BY <1>5, <1>6, <1>8 DEF At
  <2>2. next' = [next EXCEPT ![left[w]] = right[w]] /\ head' = head
    BY <1>1, <1>8 DEF JoinLeft
  <2>3. left[w] \in Slabs /\ place[left[w]] = List(w)
    BY <1>4, <2>1
  <2>4. /\ next'[left[w]] = right[w]
        /\ \A t \in Slabs : t # left[w] => next'[t] = next[t]
    BY <2>2, <2>3 DEF TypeOK
  <2>5. right[w] # left[w]
    <3>1. CASE j + 1 \in DOMAIN seq
      BY <1>4, <1>5, <1>6, <2>1, <3>1 DEF At, NoDup
    <3>2. CASE j + 1 \notin DOMAIN seq
      BY <1>5, <1>8, <3>2 DEF At
    <3> QED BY <3>1, <3>2
  <2>6. TypeOK'
    BY <1>1, <1>2, <2>2, <2>3, <2>5 DEF TypeOK, iteration, Links, InHand
  <2>7. CutAt(w, seq, j)'
    <3>1. \A i \in DOMAIN seq : i # j - 1 => next'[seq[i]] = next[seq[i]]
      BY <1>4, <2>1, <2>4 DEF NoDup
    <3>2. next'[seq[j - 1]] = At(seq, j + 1)
      BY <1>5, <2>1, <2>4
    <3>3. j # j - 1 /\ next'[seq[j]] = NULL_U32
      BY <1>5, <1>6, <3>1
    <3> QED BY <1>1, <1>5, <1>7, <2>1, <2>2, <3>1, <3>2, <3>3 DEF CutAt
  <2>8. PushOK(w, L[List(w)])' /\ RemoveOK(w, L[List(w)])'
    BY <1>2, <1>4, <1>7, <2>7 DEF PushOK, RemoveOK
  <2>9. \A t \in On(todo[w]) : next'[t] = next[t]
    BY <1>2, <2>4, NotTodo
  <2>10. \A t \in Slabs : place[t] \notin {InHand(w), List(w)} =>
            prev'[t] = prev[t] /\ next'[t] = next[t]
    BY <1>1, <2>3, <2>4
  <2> QED BY <1>1, <1>2, <2>2, <2>6, <2>8, <2>9, <2>10, MiddleStep
<1>9. CASE left[w] = NULL_U32
  <2>1. j = 1
    <3>1. j - 1 \notin DOMAIN seq
      BY <1>4, <1>5, <1>9, NullAssumption DEF At
    <3> QED BY <1>6, <3>1
  <2>2. head' = [head EXCEPT ![List(w)] = right[w]] /\ next' = next
    BY <1>1, <1>9 DEF JoinLeft
  <2>3. /\ head'[List(w)] = right[w]
        /\ \A l \in Lists : l # List(w) => head'[l] = head[l]
    BY <1>7, <2>2 DEF TypeOK
  <2>4. TypeOK'
    BY <1>1, <1>2, <1>7, <2>2 DEF TypeOK, iteration, Links, InHand
  <2>5. CutAt(w, seq, j)'
    <3>1. \A i \in DOMAIN seq : i # j - 1
      BY <1>6, <2>1
    <3>2. head'[List(w)] = At(seq, 2)
      BY <1>5, <2>1, <2>3
    <3> QED BY <1>1, <1>5, <1>7, <2>1, <2>2, <3>1, <3>2 DEF CutAt
  <2>6. PushOK(w, L[List(w)])' /\ RemoveOK(w, L[List(w)])'
    BY <1>2, <1>4, <1>7, <2>5 DEF PushOK, RemoveOK
  <2> QED BY <1>1, <1>2, <2>2, <2>3, <2>4, <2>6, MiddleStep
<1> QED BY <1>8, <1>9


-----------------------------------------------------------------------------
(* Steps that begin or end an operation or an iteration. *)

\* A list that nobody works on is what its links spell.
LEMMA HeldNow ==
  ASSUME TypeOK, NEW L \in [Lists -> Seq(Slabs)], NEW w \in Workers, Good(w, L),
         NEW k \in Kinds, kind[w] # k
  PROVE  /\ From(head[<<w, k>>]) = L[<<w, k>>] /\ L[<<w, k>>] \in Seq(Slabs)
         /\ NoDup(L[<<w, k>>]) /\ Linked(L[<<w, k>>], head[<<w, k>>], prev, next)
<1>1. L[<<w, k>>] \in Seq(Slabs) /\ NoDup(L[<<w, k>>])
  BY DEF Good, Kept, Lists
<1>2. Linked(L[<<w, k>>], head[<<w, k>>], prev, next)
  BY DEF Good, Mirrored
<1>3. PICK seq, h : seq \in Seq(Slabs) /\ seq = L[<<w, k>>] /\ h = head[<<w, k>>]
  BY <1>1
<1>4. /\ seq \in Seq(Slabs) /\ NoDup(seq)
      /\ Follows(seq, h, next) /\ next \in [Slabs -> Links]
  BY <1>1, <1>2, <1>3 DEF Linked, TypeOK
<1>5. From(h) = seq
  BY <1>4, FromList
<1> QED BY <1>1, <1>2, <1>3, <1>5

\* A worker between operations works on no list, and on slabs that its iteration has
\* done with.
LEMMA ReadyFacts ==
  ASSUME TypeOK, NEW L \in [Lists -> Seq(Slabs)], NEW w \in Workers, Good(w, L), Ready(w)
  PROVE  /\ kind[w] = NULL_U32 /\ pc[w] \notin Operating /\ pc[w] # "dead"
         /\ \A k \in Kinds : kind[w] # k
         /\ On(todo[w]) \subseteq Slabs
         /\ \A s \in Reach(w) : s \notin On(todo[w]) /\ (walk[w] # NULL_U32 => s = given[w])
<1>1. kind[w] = NULL_U32 /\ \A k \in Kinds : kind[w] # k
  BY NullAssumption DEF Good, Operation
<1>2. pc[w] \notin Operating /\ pc[w] # "dead"
  BY DEF Ready, Operating
<1>3. On(todo[w]) \subseteq Slabs
  BY SeqFacts DEF TypeOK
<1>4. pc[w] = "idle" => walk[w] = NULL_U32 /\ On(todo[w]) = {}
  BY <1>2 DEF Good, Iteration, On
<1>5. pc[w] = "body" => \A s \in Reach(w) : s = given[w] /\ s \notin On(todo[w])
  BY <1>2 DEF Good, Iteration, Reach
<1> QED BY <1>1, <1>2, <1>3, <1>4, <1>5 DEF Ready

\* A push begins: the worker takes the slab, unless it is in its hands already.
LEMMA PushCallStep ==
  ASSUME TypeOK, NEW L \in [Lists -> Seq(Slabs)], NEW w \in Workers, Good(w, L),
         NEW k \in Kinds, NEW s \in Slabs, PushCall(w, k, s)
  PROVE  TypeOK' /\ OnlyMine(w) /\ Good(w, L)'
<1>1. /\ Ready(w) /\ s \in Reach(w) /\ place[s] \in {NULL_U32, InHand(w)} /\ walk[w] # k
      /\ kind' = [kind EXCEPT ![w] = k] /\ slab' = [slab EXCEPT ![w] = s]
      /\ before' = [before EXCEPT ![w] = From(head[<<w, k>>])]
      /\ pc' = [pc EXCEPT ![w] = "push_prev"]
      /\ left' = [left EXCEPT ![w] = head[<<w, k>>]]
      /\ place' = [place EXCEPT ![s] = InHand(w)]
      /\ UNCHANGED <<head, prev, next, right, walk, cursor, given, todo>>
  BY DEF PushCall, Begin, Goto, nodes, iteration
<1>2. /\ kind[w] = NULL_U32 /\ pc[w] # "dead" /\ kind[w] # k /\ On(todo[w]) \subseteq Slabs
      /\ s \notin On(todo[w]) /\ (walk[w] # NULL_U32 => s = given[w])
  BY <1>1, ReadyFacts
<1>3. PICK seq \in Seq(Slabs) : seq = L[<<w, k>>]
  BY DEF Lists
<1>4. From(head[<<w, k>>]) = seq /\ Linked(seq, head[<<w, k>>], prev, next)
  BY <1>2, <1>3, HeldNow
<1>5. /\ kind'[w] = k /\ slab'[w] = s /\ before'[w] = seq /\ pc'[w] = "push_prev"
      /\ left'[w] = head[<<w, k>>] /\ place'[s] = <<w, NULL_U32>>
      /\ \A t \in Slabs : t # s => place'[t] = place[t]
      /\ \A v \in Workers : v # w => SameCall(v)
  BY <1>1, <1>4 DEF TypeOK, SameCall, InHand
<1>6. TypeOK'
  <2>1. /\ head[<<w, k>>] \in Links /\ "push_prev" \in Operating
        /\ InHand(w) \in {InHand(v) : v \in Workers}
    BY DEF TypeOK, Lists, Operating
  <2>2. place' \in [Slabs -> Lists \cup {InHand(v) : v \in Workers} \cup {NULL_U32}]
    BY <1>1, <2>1 DEF TypeOK
  <2>3. slab' \in [Workers -> Links] /\ left' \in [Workers -> Links]
    BY <1>1, <2>1 DEF TypeOK, Links
  <2>4. before' \in [Workers -> Seq(Slabs)] /\ kind' \in [Workers -> Kinds \cup {NULL_U32}]
        /\ pc' \in [Workers -> {"idle", "body", "dead"} \cup Operating]
    BY <1>1, <1>4, <2>1 DEF TypeOK
  <2> QED BY <1>1, <2>2, <2>3, <2>4 DEF TypeOK, InHand
<1>7. OnlyMine(w)
  BY <1>1, <1>5 DEF OnlyMine, Near, InHand
<1>8. \A m \in Kinds : place[s] # <<w, m>> /\ <<w, NULL_U32>> # <<w, m>>
  <2>1. ASSUME NEW m \in Kinds PROVE NULL_U32 # <<w, m>> /\ NULL_U32 # m
    <3>1. <<w, m>> \in Workers \X (Kinds \cup {NULL_U32})
      OBVIOUS
    <3> QED BY <3>1, NullAssumption
  <2>2. \A m \in Kinds : <<w, NULL_U32>> # <<w, m>>
    BY <2>1
  <2>3. place[s] = NULL_U32 \/ place[s] = <<w, NULL_U32>>
    BY <1>1 DEF InHand
  <2> QED BY <2>1, <2>2, <2>3
<1>9. Kept(w, L)'
  BY <1>5, <1>8 DEF Good, Kept
<1>10. Mirrored(w, L)'
  BY <1>1, <1>2, ReadyFacts DEF Good, Mirrored
<1>11. Operation(w, L)'
  <2>1. List(w)' = <<w, k>> /\ InHand(w)' = <<w, NULL_U32>>
    BY <1>5 DEF List, InHand
  <2>2. PushOK(w, seq)'
    BY <1>1, <1>4, <1>5, <2>1 DEF PushOK, Linked, Follows
  <2>3. pc'[w] \in Operating /\ pc'[w] \notin Removing /\ pc'[w] \notin {"idle", "body"}
    BY <1>5 DEF Operating, Removing
  <2> QED BY <1>3, <1>5, <2>1, <2>2, <2>3 DEF Operation, RemoveOK, PushOK, Ready
<1>12. Iteration(w)'
  <2>1. pc'[w] \notin Removing /\ pc'[w] \notin {"idle", "body"}
    BY <1>5 DEF Removing
  <2>2. Follows(todo[w], cursor[w], next)'
    BY <1>1, <1>2 DEF Good, Iteration, Follows
  <2> QED BY <1>1, <1>2, <1>5, <2>1, <2>2 DEF Good, Iteration
<1> QED BY <1>6, <1>7, <1>9, <1>10, <1>11, <1>12 DEF Good

\* A remove begins: its first store takes the back link out.
LEMMA RemoveCallStep ==
  ASSUME TypeOK, NEW L \in [Lists -> Seq(Slabs)], NEW w \in Workers, Good(w, L),
         NEW k \in Kinds, NEW s \in Slabs, RemoveCall(w, k, s)
  PROVE  TypeOK' /\ OnlyMine(w) /\ Good(w, L)'
<1>1. /\ Ready(w) /\ s \in Reach(w) /\ place[s] = <<w, k>>
      /\ kind' = [kind EXCEPT ![w] = k] /\ slab' = [slab EXCEPT ![w] = s]
      /\ before' = [before EXCEPT ![w] = From(head[<<w, k>>])]
      /\ pc' = [pc EXCEPT ![w] = "remove_next"]
      /\ left' = [left EXCEPT ![w] = prev[s]] /\ prev' = [prev EXCEPT ![s] = NULL_U32]
      /\ UNCHANGED <<head, next, place, right, walk, cursor, given, todo>>
  BY DEF RemoveCall, Begin, Goto, iteration
<1>2. /\ kind[w] = NULL_U32 /\ pc[w] # "dead" /\ kind[w] # k /\ On(todo[w]) \subseteq Slabs
      /\ s \notin On(todo[w]) /\ (walk[w] # NULL_U32 => s = given[w])
  BY <1>1, ReadyFacts
<1>3. PICK seq \in Seq(Slabs) : seq = L[<<w, k>>]
  BY DEF Lists
<1>4. /\ From(head[<<w, k>>]) = seq /\ Linked(seq, head[<<w, k>>], prev, next) /\ NoDup(seq)
  BY <1>2, <1>3, HeldNow
<1>5. /\ kind'[w] = k /\ slab'[w] = s /\ before'[w] = seq /\ pc'[w] = "remove_next"
      /\ left'[w] = prev[s] /\ prev'[s] = NULL_U32
      /\ \A t \in Slabs : t # s => prev'[t] = prev[t]
      /\ \A v \in Workers : v # w => SameCall(v)
  BY <1>1, <1>4 DEF TypeOK, SameCall
<1>6. TypeOK'
  BY <1>1, <1>4, NullAssumption DEF TypeOK, Operating, Lists, Links
<1>7. OnlyMine(w)
  BY <1>1, <1>5 DEF OnlyMine, Near
<1>8. PICK j \in DOMAIN seq : seq[j] = s
  BY <1>1, <1>3 DEF Good, Kept, On
<1>9. /\ \A i \in DOMAIN seq : i \in Nat /\ seq[i] \in Slabs /\ place[seq[i]] = <<w, k>>
      /\ \A i \in DOMAIN seq : next[seq[i]] = At(seq, i + 1) /\ prev[seq[i]] = At(seq, i - 1)
      /\ head[<<w, k>>] = At(seq, 1)
  <2>1. \A i \in DOMAIN seq : i \in Nat /\ seq[i] \in Slabs /\ seq[i] \in On(seq)
    BY SeqFacts DEF On
  <2> QED BY <1>3, <1>4, <2>1 DEF Good, Kept, Linked, Follows
<1>10. Kept(w, L)'
  BY <1>1 DEF Good, Kept
<1>11. Mirrored(w, L)'
  <2> SUFFICES ASSUME NEW m \in Kinds, kind'[w] # m
               PROVE  Linked(L[<<w, m>>], head[<<w, m>>], prev, next)'
    BY DEF Mirrored
  <2>1. PICK q \in Seq(Slabs) : q = L[<<w, m>>]
    BY DEF Lists
  <2>2. Linked(q, head[<<w, m>>], prev, next)
    BY <1>1, <2>1, ReadyFacts DEF Good, Mirrored
  <2>3. \A i \in DOMAIN q : q[i] \in Slabs /\ place[q[i]] = <<w, m>>
    <3>1. \A i \in DOMAIN q : q[i] \in Slabs /\ q[i] \in On(q)
      BY SeqFacts DEF On
    <3> QED BY <2>1, <3>1 DEF Good, Kept
  <2>4. \A i \in DOMAIN q : prev'[q[i]] = prev[q[i]]
    BY <1>1, <1>5, <2>3
  <2> QED BY <1>1, <2>1, <2>2, <2>4 DEF Linked, Follows
<1>12. Operation(w, L)'
  <2>1. List(w)' = <<w, k>>
    BY <1>5 DEF List
  <2>2. CutAt(w, seq, j)'
    <3>1. \A i \in DOMAIN seq : i # j => prev'[seq[i]] = prev[seq[i]]
      BY <1>4, <1>5, <1>8, <1>9 DEF NoDup
    <3> QED BY <1>1, <1>5, <1>8, <1>9, <2>1, <3>1 DEF CutAt
  <2>3. pc'[w] \in Operating /\ pc'[w] \notin Pushing /\ pc'[w] \notin {"idle", "body"}
    BY <1>5 DEF Operating, Pushing
  <2> QED BY <1>3, <1>5, <2>1, <2>2, <2>3 DEF Operation, RemoveOK, PushOK, Ready
<1>13. prev[s] \notin On(todo[w])
  <2> SUFFICES ASSUME prev[s] \in On(todo[w]) PROVE FALSE
    OBVIOUS
  <2>1. PICK i \in DOMAIN todo[w] : todo[w][i] = prev[s]
    BY DEF On
  <2>2. prev[s] \in Slabs /\ walk[w] # NULL_U32 /\ prev[s] # NULL_U32
    BY <1>2, NullAssumption DEF Good, Iteration, On
  <2>3. next[prev[s]] = s
    <3>1. prev[s] = At(seq, j - 1)
      BY <1>8, <1>9
    <3>2. j - 1 \in DOMAIN seq /\ prev[s] = seq[j - 1]
      BY <2>2, <3>1 DEF At
    <3>3. (j - 1) + 1 = j
      BY <1>9
    <3> QED BY <1>8, <1>9, <3>2, <3>3 DEF At
  <2>4. next[prev[s]] = At(todo[w], i + 1)
    BY <1>2, <2>1 DEF Good, Iteration, Follows
  <2>5. At(todo[w], i + 1) \in On(todo[w]) \cup {NULL_U32}
    BY DEF At, On
  <2> QED BY <1>2, <2>3, <2>4, <2>5, NullAssumption
<1>14. Iteration(w)'
  <2>1. pc'[w] \notin Pushing /\ pc'[w] \notin {"idle", "body"}
    BY <1>5 DEF Pushing
  <2>2. Follows(todo[w], cursor[w], next)'
    BY <1>1, <1>2 DEF Good, Iteration, Follows
  <2> QED BY <1>1, <1>2, <1>5, <1>13, <2>1, <2>2 DEF Good, Iteration
<1> QED BY <1>6, <1>7, <1>10, <1>11, <1>12, <1>14 DEF Good


\* A list with a slab pushed is linked, once the links of the slab and the back link of
\* the old head are stored.
LEMMA LinkedPush ==
  ASSUME NEW seq \in Seq(Slabs), NEW s \in Slabs, NEW q, q = <<s>> \o seq,
         NEW h, NEW pv, NEW nx, Follows(seq, h, nx), nx[s] = h, pv[s] = NULL_U32,
         \A i \in DOMAIN seq : pv[seq[i]] = IF i = 1 THEN s ELSE At(seq, i - 1)
  PROVE  Linked(q, s, pv, nx)
<1>1. /\ q \in Seq(Slabs) /\ Len(q) = Len(seq) + 1 /\ q[1] = s
      /\ \A i \in DOMAIN seq : i + 1 \in DOMAIN q /\ q[i + 1] = seq[i]
      /\ \A i \in DOMAIN q : i # 1 => i - 1 \in DOMAIN seq /\ q[i] = seq[i - 1]
  BY PushFacts
<1>2. /\ DOMAIN q = 1 .. Len(seq) + 1 /\ DOMAIN seq = 1 .. Len(seq) /\ Len(seq) \in Nat
  BY <1>1, SeqFacts
<1>3. \A i \in Nat \ {0} : At(q, i + 1) = At(seq, i)
  BY <1>1, <1>2 DEF At
<1>4. At(q, 1) = s /\ At(q, 0) = NULL_U32
  BY <1>1, <1>2 DEF At
<1>5. ASSUME NEW i \in DOMAIN q PROVE nx[q[i]] = At(q, i + 1) /\ pv[q[i]] = At(q, i - 1)
  <2>1. CASE i = 1
    <3>1. At(q, 1 + 1) = At(seq, 1)
      <4>1. 1 \in Nat \ {0}
        OBVIOUS
      <4> QED BY <1>3, <4>1
    <3>2. nx[s] = At(seq, 1)
      BY DEF Follows
    <3> QED BY <1>1, <1>4, <2>1, <3>1, <3>2
  <2>2. CASE i # 1
    <3>1. PICK m \in DOMAIN seq : m + 1 = i /\ q[i] = seq[m]
      <4>1. i - 1 \in DOMAIN seq /\ (i - 1) + 1 = i /\ q[i] = seq[i - 1]
        BY <1>1, <1>2, <2>2
      <4> QED BY <4>1
    <3>2. m \in Nat \ {0} /\ m + 1 \in Nat \ {0} /\ i - 1 = m
      BY <1>2, <3>1
    <3>3. nx[seq[m]] = At(seq, m + 1)
      BY DEF Follows
    <3>4. nx[q[i]] = At(q, i + 1)
      BY <1>3, <3>1, <3>2, <3>3
    <3>5. CASE m = 1
      <4>1. pv[q[i]] = s /\ At(q, i - 1) = s
        BY <1>4, <3>1, <3>2, <3>5
      <4> QED BY <3>4, <4>1
    <3>6. CASE m # 1
      <4>1. m - 1 \in Nat \ {0} /\ (m - 1) + 1 = m
        BY <3>2, <3>6
      <4>2. At(q, m) = At(seq, m - 1)
        BY <1>3, <4>1
      <4> QED BY <3>1, <3>2, <3>4, <3>6, <4>2
    <3> QED BY <3>4, <3>5, <3>6
  <2> QED BY <2>1, <2>2
<1> QED BY <1>4, <1>5 DEF Linked, Follows

\* The links skip the slab at position j.
Skips(seq, j, h, pv, nx) ==
    /\ h = IF j = 1 THEN At(seq, 2) ELSE At(seq, 1)
    /\ \A i \in DOMAIN seq : i # j =>
          /\ nx[seq[i]] = IF i = j - 1 THEN At(seq, j + 1) ELSE At(seq, i + 1)
          /\ pv[seq[i]] = IF i = j + 1 THEN At(seq, j - 1) ELSE At(seq, i - 1)

\* A list with a slab taken out is linked, once its neighbours are joined.
LEMMA LinkedCut ==
  ASSUME NEW seq \in Seq(Slabs), NoDup(seq), NEW j \in DOMAIN seq,
         NEW q, q = Abstract!Without(seq, seq[j]), NEW h, NEW pv, NEW nx,
         Skips(seq, j, h, pv, nx)
  PROVE  /\ q \in Seq(Slabs) /\ NoDup(q) /\ On(q) = On(seq) \ {seq[j]}
         /\ Linked(q, h, pv, nx)
<1>1. /\ q \in Seq(Slabs) /\ DOMAIN q = 1 .. Len(seq) - 1
      /\ \A k \in 1 .. Len(seq) - 1 : q[k] = IF k < j THEN seq[k] ELSE seq[k + 1]
  BY WithoutPositions
<1>2. DOMAIN seq = 1 .. Len(seq) /\ Len(seq) \in Nat
  BY SeqFacts
<1> DEFINE From1(k) == IF k < j THEN k ELSE k + 1
<1>3. ASSUME NEW k \in DOMAIN q
      PROVE  /\ From1(k) \in DOMAIN seq /\ From1(k) # j /\ q[k] = seq[From1(k)]
             /\ k \in Nat \ {0}
  BY <1>1, <1>2
<1>4. ASSUME NEW k \in Nat PROVE At(q, k) = At(seq, From1(k))
  <2>1. k \in DOMAIN q <=> From1(k) \in DOMAIN seq
    BY <1>1, <1>2
  <2>2. CASE k \in DOMAIN q
    BY <1>3, <2>1, <2>2 DEF At
  <2>3. CASE k \notin DOMAIN q
    BY <2>1, <2>3 DEF At
  <2> QED BY <2>2, <2>3
<1>5. NoDup(q)
  <2> SUFFICES ASSUME NEW k \in DOMAIN q, NEW m \in DOMAIN q, q[k] = q[m] PROVE k = m
    BY DEF NoDup
  <2>1. From1(k) = From1(m)
    BY <1>3 DEF NoDup
  <2> QED BY <2>1, <1>1, <1>2
<1>6. On(q) = On(seq) \ {seq[j]}
  <2>1. On(q) \subseteq On(seq) \ {seq[j]}
    BY <1>3 DEF On, NoDup
  <2>2. ASSUME NEW i \in DOMAIN seq, i # j PROVE seq[i] \in On(q)
    <3>1. CASE i < j
      <4>1. i \in DOMAIN q /\ q[i] = seq[i]
        BY <1>1, <1>2, <3>1
      <4> QED BY <4>1 DEF On
    <3>2. CASE ~(i < j)
      <4>1. i - 1 \in DOMAIN q /\ ~(i - 1 < j) /\ (i - 1) + 1 = i
        BY <1>1, <1>2, <2>2, <3>2
      <4>2. q[i - 1] = seq[i]
        BY <1>1, <4>1
      <4> QED BY <4>1, <4>2 DEF On
    <3> QED BY <3>1, <3>2
  <2>3. On(seq) \ {seq[j]} \subseteq On(q)
    <3> SUFFICES ASSUME NEW x \in On(seq), x # seq[j] PROVE x \in On(q)
      OBVIOUS
    <3>1. PICK i \in DOMAIN seq : seq[i] = x
      BY DEF On
    <3> QED BY <2>2, <3>1
  <2> QED BY <2>1, <2>3
<1>7. h = At(q, 1)
  <2>1. At(q, 1) = At(seq, From1(1))
    BY <1>4
  <2>2. From1(1) = IF j = 1 THEN 2 ELSE 1
    BY <1>2
  <2> QED BY <2>1, <2>2 DEF Skips
<1>8. ASSUME NEW k \in DOMAIN q PROVE nx[q[k]] = At(q, k + 1) /\ pv[q[k]] = At(q, k - 1)
  <2>1. k \in Nat \ {0} /\ k + 1 \in Nat /\ k - 1 \in Nat /\ From1(k) \in DOMAIN seq /\ From1(k) # j
        /\ q[k] = seq[From1(k)]
    BY <1>3
  <2>2. At(q, k + 1) = At(seq, From1(k + 1)) /\ At(q, k - 1) = At(seq, From1(k - 1))
    BY <1>4, <2>1
  <2>3. /\ From1(k + 1) = IF From1(k) = j - 1 THEN j + 1 ELSE From1(k) + 1
        /\ From1(k - 1) = IF From1(k) = j + 1 THEN j - 1 ELSE From1(k) - 1
    BY <1>2, <2>1
  <2> HIDE DEF From1
  <2> QED BY <2>1, <2>2, <2>3 DEF Skips
<1> QED BY <1>1, <1>5, <1>6, <1>7, <1>8 DEF Linked, Follows

\* A push ends: the slab is on the list.
LEMMA PushHeadStep ==
  ASSUME TypeOK, NEW L \in [Lists -> Seq(Slabs)], NEW w \in Workers, Good(w, L),
         PushHead(w), NEW M, M = [L EXCEPT ![List(w)] = <<slab[w]>> \o L[List(w)]]
  PROVE  /\ TypeOK' /\ OnlyMine(w) /\ Good(w, M)'
         /\ M \in [Lists -> Seq(Slabs)] /\ place[slab[w]] = InHand(w)
         /\ List(w) \in Lists /\ slab[w] \in Slabs
<1>1. /\ pc[w] = "push_head" /\ head' = [head EXCEPT ![List(w)] = slab[w]]
      /\ place' = [place EXCEPT ![slab[w]] = List(w)]
      /\ pc' = [pc EXCEPT ![w] = IF walk[w] = NULL_U32 THEN "idle" ELSE "body"]
      /\ kind' = [kind EXCEPT ![w] = NULL_U32] /\ slab' = [slab EXCEPT ![w] = NULL_U32]
      /\ left' = [left EXCEPT ![w] = NULL_U32] /\ right' = [right EXCEPT ![w] = NULL_U32]
      /\ before' = [before EXCEPT ![w] = <<>>]
      /\ UNCHANGED <<prev, next, walk, cursor, given, todo>>
  BY DEF PushHead, End, Goto, nodes, iteration
<1>2. pc[w] \in Operating /\ pc[w] \in Pushing /\ pc[w] # "dead"
  BY <1>1 DEF Operating, Pushing
<1>3. PICK seq \in Seq(Slabs) : seq = L[List(w)]
  BY <1>2, OwnFacts
<1>4. PICK s \in Slabs : s = slab[w]
  BY <1>2, OwnFacts
<1>5. PICK k \in Kinds : k = kind[w]
  BY <1>2, OwnFacts
<1>6. /\ List(w) = <<w, k>> /\ List(w) \in Lists /\ InHand(w) = <<w, NULL_U32>>
      /\ PushOK(w, seq) /\ place[s] = <<w, NULL_U32>> /\ NoDup(seq)
      /\ <<w, NULL_U32>> # <<w, k>>
      /\ \A t \in Slabs : t \in On(seq) <=> place[t] = <<w, k>>
  <2>1. /\ List(w) = <<w, k>> /\ List(w) \in Lists /\ InHand(w) = <<w, NULL_U32>>
        /\ NoDup(seq) /\ \A t \in Slabs : t \in On(seq) <=> place[t] = <<w, k>>
    BY <1>2, <1>3, <1>5, OwnFacts
  <2>2. PushOK(w, seq) /\ place[s] = InHand(w) /\ InHand(w) # List(w)
    BY <1>2, <1>3, <1>4, PushFactsOf
  <2> QED BY <2>1, <2>2
<1>7. PICK q \in Seq(Slabs) : q = <<s>> \o seq
  BY PushFacts
<1>8. NoDup(q) /\ On(q) = On(seq) \cup {s}
  <2>1. s \notin On(seq) /\ NoDup(seq)
    BY <1>6
  <2>2. NoDup(q)
    BY <1>7, <2>1, PushNoDup
  <2>3. On(q) = On(seq) \cup {s}
    BY <1>7, PushFacts
  <2> QED BY <2>2, <2>3
<1>9. Linked(q, s, prev, next)
  <2>1. /\ Follows(seq, left[w], next) /\ next[s] = left[w] /\ prev[s] = NULL_U32
        /\ \A i \in DOMAIN seq : prev[seq[i]] = IF i = 1 THEN s ELSE At(seq, i - 1)
    BY <1>1, <1>2, <1>4, <1>6 DEF PushOK
  <2> QED BY <1>7, <2>1, LinkedPush
<1>10. /\ M \in [Lists -> Seq(Slabs)] /\ M[<<w, k>>] = q
       /\ \A l \in Lists : l # <<w, k>> => M[l] = L[l]
  BY <1>3, <1>4, <1>6, <1>7
<1>11. /\ kind'[w] = NULL_U32 /\ head'[<<w, k>>] = s /\ place'[s] = <<w, k>>
       /\ pc'[w] = (IF walk[w] = NULL_U32 THEN "idle" ELSE "body")
       /\ \A t \in Slabs : t # s => place'[t] = place[t]
       /\ \A l \in Lists : l # <<w, k>> => head'[l] = head[l]
       /\ \A v \in Workers : v # w => SameCall(v)
  BY <1>1, <1>4, <1>6 DEF TypeOK, SameCall
<1>12. TypeOK'
  <2>1. head' \in [Lists -> Links] /\ slab' \in [Workers -> Links]
        /\ left' \in [Workers -> Links] /\ right' \in [Workers -> Links]
    BY <1>1, <1>4 DEF TypeOK, Links
  <2>2. place' \in [Slabs -> Lists \cup {InHand(v) : v \in Workers} \cup {NULL_U32}]
    BY <1>1, <1>6 DEF TypeOK
  <2>3. before' \in [Workers -> Seq(Slabs)] /\ kind' \in [Workers -> Kinds \cup {NULL_U32}]
        /\ pc' \in [Workers -> {"idle", "body", "dead"} \cup Operating]
    BY <1>1, EmptySeq DEF TypeOK
  <2> QED BY <1>1, <2>1, <2>2, <2>3 DEF TypeOK, InHand
<1>13. OnlyMine(w)
  <2>1. \A v \in Workers, m \in Kinds : v # w => <<v, m>> \in Lists /\ <<v, m>> # <<w, k>>
    BY DEF Lists
  <2>2. Near(w, <<w, NULL_U32>>) /\ Near(w, <<w, k>>)
    BY DEF Near
  <2> QED BY <1>1, <1>6, <1>11, <2>1, <2>2 DEF OnlyMine
<1>14. Kept(w, M)'
  <2> SUFFICES ASSUME NEW m \in Kinds
               PROVE  /\ NoDup(M[<<w, m>>])
                      /\ \A t \in Slabs : t \in On(M[<<w, m>>]) <=> place'[t] = <<w, m>>
    BY DEF Kept
  <2>1. CASE m = k
    BY <1>6, <1>8, <1>10, <1>11, <2>1
  <2>2. CASE m # k
    <3>1. <<w, m>> \in Lists /\ <<w, m>> # <<w, k>> /\ <<w, m>> # <<w, NULL_U32>>
      BY <2>2, NullAssumption DEF Lists
    <3>2. M[<<w, m>>] = L[<<w, m>>]
      BY <1>10, <3>1
    <3>3. \A t \in Slabs : place'[t] = <<w, m>> <=> place[t] = <<w, m>>
      BY <1>6, <1>11, <3>1
    <3> QED BY <3>2, <3>3 DEF Good, Kept
  <2> QED BY <2>1, <2>2
<1>15. Mirrored(w, M)'
  <2> SUFFICES ASSUME NEW m \in Kinds
               PROVE  Linked(M[<<w, m>>], head[<<w, m>>], prev, next)'
    BY DEF Mirrored
  <2>1. CASE m = k
    BY <1>1, <1>9, <1>10, <1>11, <2>1
  <2>2. CASE m # k
    <3>1. <<w, m>> \in Lists /\ <<w, m>> # <<w, k>>
      BY <2>2 DEF Lists
    <3>2. Linked(L[<<w, m>>], head[<<w, m>>], prev, next)'
      BY <1>1, <1>5, <1>11, <2>2, <3>1, OtherLists
    <3> QED BY <1>10, <3>1, <3>2
  <2> QED BY <2>1, <2>2
<1>16. Operation(w, M)'
  <2>1. pc'[w] \notin Operating /\ pc'[w] \notin Pushing /\ pc'[w] \notin Removing
    BY <1>11 DEF Operating, Pushing, Removing
  <2> QED BY <1>11, <2>1 DEF Operation, PushOK, RemoveOK
<1>17. Iteration(w)'
  <2>1. pc'[w] \notin Operating /\ pc'[w] \notin Pushing /\ pc'[w] \notin Removing
    BY <1>11 DEF Operating, Pushing, Removing
  <2>2. Follows(todo[w], cursor[w], next)'
    BY <1>1, <1>2 DEF Good, Iteration, Follows
  <2>3. s \notin On(todo[w]) /\ On(todo[w]) \subseteq Slabs
    BY <1>2, <1>4, NotTodo
  <2> QED BY <1>1, <1>2, <1>11, <2>1, <2>2, <2>3 DEF Good, Iteration
<1> QED BY <1>4, <1>6, <1>10, <1>12, <1>13, <1>14, <1>15, <1>16, <1>17 DEF Good



\* A remove ends: the slab is on no list.
LEMMA RemoveRightStep ==
  ASSUME TypeOK, NEW L \in [Lists -> Seq(Slabs)], NEW w \in Workers, Good(w, L),
         RemoveRight(w), NEW M,
         M = [L EXCEPT ![List(w)] = Abstract!Without(L[List(w)], slab[w])]
  PROVE  /\ TypeOK' /\ OnlyMine(w) /\ Good(w, M)'
         /\ M \in [Lists -> Seq(Slabs)] /\ slab[w] \in On(L[List(w)])
         /\ List(w) \in Lists /\ slab[w] \in Slabs
<1>1. /\ pc[w] = "remove_right"
      /\ prev' = IF right[w] # NULL_U32 THEN [prev EXCEPT ![right[w]] = left[w]] ELSE prev
      /\ place' = [place EXCEPT ![slab[w]] = InHand(w)]
      /\ pc' = [pc EXCEPT ![w] = IF walk[w] = NULL_U32 THEN "idle" ELSE "body"]
      /\ kind' = [kind EXCEPT ![w] = NULL_U32] /\ slab' = [slab EXCEPT ![w] = NULL_U32]
      /\ left' = [left EXCEPT ![w] = NULL_U32] /\ right' = [right EXCEPT ![w] = NULL_U32]
      /\ before' = [before EXCEPT ![w] = <<>>]
      /\ UNCHANGED <<head, next, walk, cursor, given, todo>>
  BY DEF RemoveRight, End, Goto, iteration
<1>2. pc[w] \in Operating /\ pc[w] \in Removing /\ pc[w] # "dead"
  BY <1>1 DEF Operating, Removing
<1>3. PICK seq \in Seq(Slabs) : \E j \in DOMAIN seq :
         /\ seq = L[List(w)] /\ NoDup(seq) /\ CutAt(w, seq, j)
         /\ \A i \in DOMAIN seq : i \in Nat /\ seq[i] \in Slabs /\ place[seq[i]] = List(w)
         /\ slab[w] \in Slabs /\ place[slab[w]] = List(w)
  BY <1>2, CutFacts
<1>4. PICK j \in DOMAIN seq :
         /\ seq = L[List(w)] /\ NoDup(seq) /\ CutAt(w, seq, j)
         /\ \A i \in DOMAIN seq : i \in Nat /\ seq[i] \in Slabs /\ place[seq[i]] = List(w)
         /\ slab[w] \in Slabs /\ place[slab[w]] = List(w)
  BY <1>3
<1>5. PICK s \in Slabs, k \in Kinds : s = slab[w] /\ k = kind[w]
  BY <1>2, OwnFacts
<1>6. /\ List(w) = <<w, k>> /\ List(w) \in Lists /\ InHand(w) = <<w, NULL_U32>>
      /\ <<w, NULL_U32>> # <<w, k>>
      /\ \A t \in Slabs : t \in On(seq) <=> place[t] = <<w, k>>
  <2>1. /\ List(w) = <<w, k>> /\ List(w) \in Lists /\ InHand(w) = <<w, NULL_U32>>
        /\ \A t \in Slabs : t \in On(seq) <=> place[t] = <<w, k>>
    BY <1>2, <1>4, <1>5, OwnFacts
  <2> QED BY <2>1, NullAssumption
<1>7. /\ left[w] = At(seq, j - 1) /\ right[w] = At(seq, j + 1) /\ seq[j] = s
      /\ head[<<w, k>>] = IF j = 1 THEN At(seq, 2) ELSE At(seq, 1)
      /\ \A i \in DOMAIN seq : i # j =>
            /\ prev[seq[i]] = At(seq, i - 1)
            /\ next[seq[i]] = IF i = j - 1 THEN At(seq, j + 1) ELSE At(seq, i + 1)
  BY <1>1, <1>4, <1>5, <1>6 DEF CutAt
<1>8. /\ right[w] # NULL_U32 =>
            /\ j + 1 \in DOMAIN seq /\ right[w] = seq[j + 1] /\ right[w] \in Slabs
            /\ place[right[w]] = <<w, k>> /\ prev'[right[w]] = At(seq, j - 1)
      /\ right[w] = NULL_U32 => j + 1 \notin DOMAIN seq
      /\ \A t \in Slabs : t # right[w] => prev'[t] = prev[t]
  <2>1. right[w] # NULL_U32 => j + 1 \in DOMAIN seq /\ right[w] = seq[j + 1]
    BY <1>7 DEF At
  <2>2. right[w] = NULL_U32 => j + 1 \notin DOMAIN seq
    BY <1>4, <1>7, NullAssumption DEF At
  <2> QED BY <1>1, <1>4, <1>6, <1>7, <2>1, <2>2 DEF TypeOK
<1>9. ASSUME NEW i \in DOMAIN seq, i # j
      PROVE  prev'[seq[i]] = IF i = j + 1 THEN At(seq, j - 1) ELSE At(seq, i - 1)
  <2>1. CASE i = j + 1
    <3>1. right[w] # NULL_U32
      BY <1>8, <2>1
    <3> QED BY <1>8, <2>1, <3>1
  <2>2. CASE i # j + 1
    <3>1. seq[i] # right[w]
      BY <1>4, <1>8, <2>2, NullAssumption DEF NoDup
    <3>2. prev'[seq[i]] = prev[seq[i]]
      BY <1>4, <1>8, <3>1
    <3> QED BY <1>7, <1>9, <2>2, <3>2
  <2> QED BY <2>1, <2>2
<1>10. PICK q : q = Abstract!Without(seq, s)
  OBVIOUS
<1>11. q \in Seq(Slabs) /\ NoDup(q) /\ On(q) = On(seq) \ {s}
       /\ Linked(q, head'[<<w, k>>], prev', next')
  <2>1. PICK pv, nx, h : pv = prev' /\ nx = next' /\ h = head'[<<w, k>>]
    OBVIOUS
  <2>2. h = IF j = 1 THEN At(seq, 2) ELSE At(seq, 1)
    BY <1>1, <1>7, <2>1
  <2>3. Skips(seq, j, h, pv, nx)
    BY <1>1, <1>7, <1>9, <2>1, <2>2 DEF Skips
  <2>4. NoDup(seq) /\ q = Abstract!Without(seq, seq[j])
    BY <1>4, <1>7, <1>10
  <2>5. /\ q \in Seq(Slabs) /\ NoDup(q) /\ On(q) = On(seq) \ {seq[j]}
        /\ Linked(q, h, pv, nx)
    BY <2>3, <2>4, LinkedCut
  <2> QED BY <1>7, <2>1, <2>5
<1>12. /\ M \in [Lists -> Seq(Slabs)] /\ M[<<w, k>>] = q
       /\ \A l \in Lists : l # <<w, k>> => M[l] = L[l]
  BY <1>4, <1>5, <1>6, <1>10, <1>11
<1>13. /\ kind'[w] = NULL_U32 /\ place'[s] = <<w, NULL_U32>>
       /\ pc'[w] = (IF walk[w] = NULL_U32 THEN "idle" ELSE "body")
       /\ \A t \in Slabs : t # s => place'[t] = place[t]
       /\ \A v \in Workers : v # w => SameCall(v)
  BY <1>1, <1>5, <1>6 DEF TypeOK, SameCall
<1>14. s \in On(seq) /\ place[s] = <<w, k>>
  BY <1>4, <1>5, <1>6
<1>15. TypeOK'
  <2>1. slab' \in [Workers -> Links] /\ left' \in [Workers -> Links]
        /\ right' \in [Workers -> Links]
    BY <1>1 DEF TypeOK, Links
  <2>2. place' \in [Slabs -> Lists \cup {InHand(v) : v \in Workers} \cup {NULL_U32}]
    BY <1>1 DEF TypeOK
  <2>3. before' \in [Workers -> Seq(Slabs)] /\ kind' \in [Workers -> Kinds \cup {NULL_U32}]
        /\ pc' \in [Workers -> {"idle", "body", "dead"} \cup Operating]
    BY <1>1, EmptySeq DEF TypeOK
  <2>4. prev' \in [Slabs -> Links]
    BY <1>1 DEF TypeOK, Links
  <2>5. ASSUME NEW t \in Slabs PROVE prev'[t] # t
    <3>1. CASE t = right[w]
      <4>1. t # NULL_U32
        BY NullAssumption
      <4>2. j + 1 \in DOMAIN seq /\ t = seq[j + 1] /\ prev'[t] = At(seq, j - 1)
        BY <1>8, <3>1, <4>1
      <4>3. j - 1 # j + 1
        BY <1>4
      <4> QED BY <1>4, <4>1, <4>2, <4>3 DEF At, NoDup
    <3>2. CASE t # right[w]
      BY <1>8, <3>2 DEF TypeOK
    <3> QED BY <3>1, <3>2
  <2> QED BY <1>1, <2>1, <2>2, <2>3, <2>4, <2>5 DEF TypeOK, InHand
<1>16. OnlyMine(w)
  <2>1. Near(w, <<w, NULL_U32>>) /\ Near(w, <<w, k>>)
    BY DEF Near
  <2>2. ASSUME NEW t \in Slabs
        PROVE  \/ Near(w, place[t]) /\ Near(w, place'[t])
               \/ place'[t] = place[t] /\ prev'[t] = prev[t] /\ next'[t] = next[t]
    <3>1. CASE t = s
      BY <1>13, <1>14, <2>1, <3>1
    <3>2. CASE t # s /\ t = right[w]
      BY <1>8, <1>13, <2>1, <3>2, NullAssumption
    <3>3. CASE t # s /\ t # right[w]
      BY <1>1, <1>8, <1>13, <3>3
    <3> QED BY <3>1, <3>2, <3>3
  <2> QED BY <1>1, <1>13, <2>2 DEF OnlyMine
<1>17. Kept(w, M)'
  <2> SUFFICES ASSUME NEW m \in Kinds
               PROVE  /\ NoDup(M[<<w, m>>])
                      /\ \A t \in Slabs : t \in On(M[<<w, m>>]) <=> place'[t] = <<w, m>>
    BY DEF Kept
  <2>1. CASE m = k
    BY <1>6, <1>11, <1>12, <1>13, <2>1
  <2>2. CASE m # k
    <3>1. <<w, m>> \in Lists /\ <<w, m>> # <<w, k>> /\ <<w, m>> # <<w, NULL_U32>>
      BY <2>2, NullAssumption DEF Lists
    <3>2. M[<<w, m>>] = L[<<w, m>>]
      BY <1>12, <3>1
    <3>3. \A t \in Slabs : place'[t] = <<w, m>> <=> place[t] = <<w, m>>
      BY <1>13, <1>14, <3>1
    <3> QED BY <3>2, <3>3 DEF Good, Kept
  <2> QED BY <2>1, <2>2
<1>18. Mirrored(w, M)'
  <2> SUFFICES ASSUME NEW m \in Kinds
               PROVE  Linked(M[<<w, m>>], head[<<w, m>>], prev, next)'
    BY DEF Mirrored
  <2>1. CASE m = k
    BY <1>11, <1>12, <2>1
  <2>2. CASE m # k
    <3>1. <<w, m>> \in Lists /\ <<w, m>> # <<w, k>>
      BY <2>2 DEF Lists
    <3>2. \A t \in Slabs : place[t] \notin {InHand(w), List(w)} =>
            prev'[t] = prev[t] /\ next'[t] = next[t]
      BY <1>1, <1>6, <1>8, NullAssumption
    <3>3. Linked(L[<<w, m>>], head[<<w, m>>], prev, next)'
      BY <1>1, <1>5, <2>2, <3>2, OtherLists
    <3> QED BY <1>12, <3>1, <3>3
  <2> QED BY <2>1, <2>2
<1>19. Operation(w, M)'
  <2>1. pc'[w] \notin Operating /\ pc'[w] \notin Pushing /\ pc'[w] \notin Removing
    BY <1>13 DEF Operating, Pushing, Removing
  <2> QED BY <1>13, <2>1 DEF Operation, PushOK, RemoveOK
<1>20. Iteration(w)'
  <2>1. pc'[w] \notin Operating /\ pc'[w] \notin Pushing /\ pc'[w] \notin Removing
    BY <1>13 DEF Operating, Pushing, Removing
  <2>2. Follows(todo[w], cursor[w], next)'
    BY <1>1, <1>2 DEF Good, Iteration, Follows
  <2>3. s \notin On(todo[w]) /\ On(todo[w]) \subseteq Slabs
    BY <1>2, <1>5, NotTodo
  <2> QED BY <1>1, <1>2, <1>13, <2>1, <2>2, <2>3 DEF Good, Iteration
<1> QED BY <1>4, <1>5, <1>6, <1>12, <1>14, <1>15, <1>16, <1>17, <1>18, <1>19, <1>20 DEF Good

\* A slab given back was on no list.
LEMMA GiveBackStep ==
  ASSUME TypeOK, NEW L \in [Lists -> Seq(Slabs)], NEW w \in Workers, Good(w, L),
         NEW s \in Slabs, GiveBack(w, s)
  PROVE  TypeOK' /\ OnlyMine(w) /\ Good(w, L)'
<1>1. /\ Ready(w) /\ s \in Reach(w) /\ place[s] = <<w, NULL_U32>>
      /\ place' = [place EXCEPT ![s] = NULL_U32]
      /\ UNCHANGED <<head, prev, next, pc, kind, slab, left, right, before,
                     walk, cursor, given, todo>>
  BY DEF GiveBack, InHand, nodes, op, iteration
<1>2. place'[s] = NULL_U32 /\ \A t \in Slabs : t # s => place'[t] = place[t]
  BY <1>1 DEF TypeOK
<1>3. TypeOK'
  BY <1>1 DEF TypeOK, InHand
<1>4. OnlyMine(w)
  BY <1>1, <1>2 DEF OnlyMine, Near, SameCall
<1>5. Kept(w, L)'
  <2>1. ASSUME NEW k \in Kinds
        PROVE  <<w, k>> # NULL_U32 /\ <<w, k>> # <<w, NULL_U32>>
    <3>1. <<w, k>> \in Workers \X (Kinds \cup {NULL_U32})
      OBVIOUS
    <3> QED BY <3>1, NullAssumption
  <2> QED BY <1>1, <1>2, <2>1 DEF Good, Kept
<1>6. Mirrored(w, L)'
  BY <1>1 DEF Good, Mirrored
<1>7. Operation(w, L)'
  <2>1. pc[w] \notin Operating /\ pc[w] \notin Pushing /\ pc[w] \notin Removing
    BY <1>1, ReadyFacts, Phases
  <2> QED BY <1>1, <2>1 DEF Good, Operation, PushOK, RemoveOK, List, Ready
<1>8. Iteration(w)'
  <2>1. s \notin On(todo[w]) /\ On(todo[w]) \subseteq Slabs
    BY <1>1, ReadyFacts
  <2>2. Follows(todo[w], cursor[w], next)' \/ pc[w] = "dead"
    BY <1>1 DEF Good, Iteration, Follows
  <2> QED BY <1>1, <1>2, <2>1, <2>2 DEF Good, Iteration
<1> QED BY <1>3, <1>4, <1>5, <1>6, <1>7, <1>8 DEF Good


\* A step that touches no node and no operation leaves the lists and the operation.
LEMMA ListsStay ==
  ASSUME TypeOK, NEW L \in [Lists -> Seq(Slabs)], NEW w \in Workers, Good(w, L),
         UNCHANGED <<head, nodes, place, op>>,
         Ready(w)' => kind[w] = NULL_U32,
         pc'[w] \notin Operating
  PROVE  Kept(w, L)' /\ Mirrored(w, L)' /\ Operation(w, L)'
<1>1. /\ head' = head /\ prev' = prev /\ next' = next /\ place' = place /\ kind' = kind
      /\ slab' = slab /\ left' = left /\ right' = right /\ before' = before
  BY DEF nodes, op
<1>2. Kept(w, L)' /\ Mirrored(w, L)'
  BY <1>1 DEF Good, Kept, Mirrored
<1>3. pc'[w] \notin Pushing /\ pc'[w] \notin Removing
  BY Phases
<1>4. Operation(w, L)'
  BY <1>1, <1>3 DEF Good, Operation, PushOK, RemoveOK, List
<1> QED BY <1>2, <1>4

\* An iteration begins with all that is on the list.
LEMMA IterateCallStep ==
  ASSUME TypeOK, NEW L \in [Lists -> Seq(Slabs)], NEW w \in Workers, Good(w, L),
         NEW k \in Kinds, IterateCall(w, k)
  PROVE  TypeOK' /\ OnlyMine(w) /\ Good(w, L)'
<1>1. /\ pc[w] = "idle" /\ walk' = [walk EXCEPT ![w] = k]
      /\ cursor' = [cursor EXCEPT ![w] = head[<<w, k>>]]
      /\ todo' = [todo EXCEPT ![w] = From(head[<<w, k>>])]
      /\ pc' = [pc EXCEPT ![w] = "body"]
      /\ UNCHANGED <<head, prev, next, place, kind, slab, left, right, before, given>>
  BY DEF IterateCall, Goto, nodes, op
<1>2. Ready(w) /\ kind[w] = NULL_U32 /\ kind[w] # k /\ k # NULL_U32
  BY <1>1, ReadyFacts, NullAssumption DEF Ready
<1>3. PICK seq \in Seq(Slabs) : seq = L[<<w, k>>]
  BY DEF Lists
<1>4. /\ From(head[<<w, k>>]) = seq /\ NoDup(seq) /\ Follows(seq, head[<<w, k>>], next)
  BY <1>2, <1>3, HeldNow DEF Linked
<1>5. /\ walk'[w] = k /\ cursor'[w] = head[<<w, k>>] /\ todo'[w] = seq /\ pc'[w] = "body"
      /\ given'[w] = NULL_U32
      /\ \A v \in Workers : v # w => SameCall(v)
  BY <1>1, <1>4 DEF TypeOK, SameCall, Good, Iteration
<1>6. TypeOK'
  BY <1>1, <1>4 DEF TypeOK, Lists
<1>7. OnlyMine(w)
  BY <1>1, <1>5 DEF OnlyMine
<1>8. Kept(w, L)' /\ Mirrored(w, L)' /\ Operation(w, L)'
  BY <1>1, <1>2, <1>5, ListsStay DEF nodes, op, Operating
<1>9. \A t \in On(seq) : place[t] = <<w, k>> /\ t # NULL_U32
  <2>1. On(seq) \subseteq Slabs
    BY SeqFacts
  <2> QED BY <1>3, <2>1, NullAssumption DEF Good, Kept
<1>10. Iteration(w)'
  <2>1. pc'[w] \notin Operating /\ pc'[w] \notin Pushing /\ pc'[w] \notin Removing
    BY <1>5 DEF Operating, Pushing, Removing
  <2>2. Follows(todo[w], cursor[w], next)'
    BY <1>1, <1>4, <1>5 DEF Follows
  <2> QED BY <1>1, <1>2, <1>4, <1>5, <1>9, <2>1, <2>2 DEF Iteration
<1> QED BY <1>6, <1>7, <1>8, <1>10 DEF Good

\* The iterator returns the first slab that is left.
LEMMA IterateNextStep ==
  ASSUME TypeOK, NEW L \in [Lists -> Seq(Slabs)], NEW w \in Workers, Good(w, L),
         IterateNext(w)
  PROVE  TypeOK' /\ OnlyMine(w) /\ Good(w, L)'
<1>1. /\ pc[w] = "body" /\ cursor[w] # NULL_U32
      /\ given' = [given EXCEPT ![w] = cursor[w]]
      /\ cursor' = [cursor EXCEPT ![w] = next[cursor[w]]]
      /\ todo' = [todo EXCEPT ![w] = IF todo[w] = <<>> THEN todo[w] ELSE Tail(todo[w])]
      /\ UNCHANGED <<head, prev, next, place, pc, kind, slab, left, right, before, walk>>
  BY DEF IterateNext, Advance, nodes, op
<1>2. PICK seq, h : seq \in Seq(Slabs) /\ seq = todo[w] /\ h = cursor[w]
  BY DEF TypeOK
<1>3. /\ seq \in Seq(Slabs) /\ NoDup(seq) /\ Follows(seq, h, next)
      /\ walk[w] # NULL_U32 /\ \A t \in On(seq) : place[t] = <<w, walk[w]>>
  BY <1>1, <1>2 DEF Good, Iteration
<1>4. seq # <<>>
  <2>1. h = NULL_U32 <=> seq = <<>>
    BY <1>3, EmptyFollows
  <2> QED BY <1>1, <1>2, <2>1
<1>5. /\ Len(seq) \in Nat \ {0} /\ DOMAIN seq = 1 .. Len(seq) /\ 1 \in DOMAIN seq
      /\ h = seq[1] /\ h \in Slabs
  BY <1>3, <1>4, SeqFacts DEF Follows, At
<1>6. PICK r \in Seq(Slabs) : r = Tail(seq)
  BY <1>3, <1>4, TailFacts
<1>7. /\ NoDup(r) /\ Len(r) = Len(seq) - 1 /\ On(r) \subseteq On(seq) \ {h}
      /\ DOMAIN r = 1 .. Len(r)
      /\ \A i \in DOMAIN r : i + 1 \in DOMAIN seq /\ r[i] = seq[i + 1]
  BY <1>3, <1>4, <1>5, <1>6, TailFacts, SeqFacts
<1>8. \A i \in Nat \ {0} : At(r, i) = At(seq, i + 1)
  <2> SUFFICES ASSUME NEW i \in Nat \ {0} PROVE At(r, i) = At(seq, i + 1)
    OBVIOUS
  <2>1. i \in DOMAIN r <=> i + 1 \in DOMAIN seq
    BY <1>5, <1>7
  <2> QED BY <2>1, <1>7 DEF At
<1>9. Follows(r, next[h], next)
  <2>1. next[h] = At(r, 1)
    <3>1. 1 \in Nat \ {0} /\ next[seq[1]] = At(seq, 1 + 1)
      BY <1>3, <1>5 DEF Follows
    <3> QED BY <1>5, <1>8, <3>1
  <2>2. ASSUME NEW i \in DOMAIN r PROVE next[r[i]] = At(r, i + 1)
    <3>1. i + 1 \in Nat \ {0} /\ i + 1 \in DOMAIN seq /\ r[i] = seq[i + 1]
      BY <1>5, <1>7
    <3>2. next[seq[i + 1]] = At(seq, (i + 1) + 1)
      BY <1>3, <3>1 DEF Follows
    <3> QED BY <1>8, <3>1, <3>2
  <2> QED BY <2>1, <2>2 DEF Follows
<1>10. /\ given'[w] = h /\ cursor'[w] = next[h] /\ todo'[w] = r /\ pc'[w] = "body"
       /\ \A v \in Workers : v # w => SameCall(v)
  BY <1>1, <1>2, <1>4, <1>6 DEF TypeOK, SameCall
<1>11. TypeOK'
  <2>1. given' \in [Workers -> Links] /\ cursor' \in [Workers -> Links]
    BY <1>1, <1>2, <1>5 DEF TypeOK, Links
  <2>2. todo' \in [Workers -> Seq(Slabs)]
    BY <1>1, <1>2, <1>4, <1>6 DEF TypeOK
  <2> QED BY <1>1, <2>1, <2>2 DEF TypeOK
<1>12. OnlyMine(w)
  BY <1>1, <1>10 DEF OnlyMine
<1>13. Kept(w, L)' /\ Mirrored(w, L)' /\ Operation(w, L)'
  <2>1. Ready(w) /\ kind[w] = NULL_U32
    BY <1>1, ReadyFacts DEF Ready
  <2> QED BY <1>1, <2>1, ListsStay DEF nodes, op, Operating
<1>14. Iteration(w)'
  <2>1. pc'[w] \notin Operating /\ pc'[w] \notin Pushing /\ pc'[w] \notin Removing
    BY <1>10 DEF Operating, Pushing, Removing
  <2>2. Follows(todo[w], cursor[w], next)'
    BY <1>1, <1>9, <1>10 DEF Follows
  <2> QED BY <1>1, <1>3, <1>7, <1>10, <2>1, <2>2 DEF Iteration
<1> QED BY <1>11, <1>12, <1>13, <1>14 DEF Good

\* An iteration ends when nothing is left.
LEMMA IterateEndStep ==
  ASSUME TypeOK, NEW L \in [Lists -> Seq(Slabs)], NEW w \in Workers, Good(w, L),
         IterateEnd(w)
  PROVE  TypeOK' /\ OnlyMine(w) /\ Good(w, L)'
<1>1. /\ pc[w] = "body" /\ cursor[w] = NULL_U32
      /\ walk' = [walk EXCEPT ![w] = NULL_U32] /\ given' = [given EXCEPT ![w] = NULL_U32]
      /\ todo' = [todo EXCEPT ![w] = <<>>] /\ pc' = [pc EXCEPT ![w] = "idle"]
      /\ UNCHANGED <<head, prev, next, place, kind, slab, left, right, before, cursor>>
  BY DEF IterateEnd, Goto, nodes, op
<1>2. PICK none \in Seq(Slabs) : none = <<>>
  BY EmptySeq
<1>3. DOMAIN none = {} /\ On(none) = {}
  <2>1. Len(none) = 0 /\ DOMAIN none = 1 .. Len(none)
    BY <1>2, SeqFacts
  <2> QED BY <2>1 DEF On
<1>4. /\ walk'[w] = NULL_U32 /\ given'[w] = NULL_U32 /\ todo'[w] = none /\ pc'[w] = "idle"
      /\ cursor'[w] = NULL_U32 /\ \A v \in Workers : v # w => SameCall(v)
  BY <1>1, <1>2 DEF TypeOK, SameCall
<1>5. TypeOK'
  <2>1. todo' \in [Workers -> Seq(Slabs)]
    BY <1>1, <1>2 DEF TypeOK
  <2> QED BY <1>1, <2>1 DEF TypeOK, Links
<1>6. OnlyMine(w)
  BY <1>1, <1>4 DEF OnlyMine
<1>7. Kept(w, L)' /\ Mirrored(w, L)' /\ Operation(w, L)'
  <2>1. Ready(w) /\ kind[w] = NULL_U32
    BY <1>1, ReadyFacts DEF Ready
  <2> QED BY <1>1, <1>4, <2>1, ListsStay DEF nodes, op, Operating
<1>8. Iteration(w)'
  <2>1. pc'[w] \notin Operating /\ pc'[w] \notin Pushing /\ pc'[w] \notin Removing
    BY <1>4 DEF Operating, Pushing, Removing
  <2>2. Follows(none, NULL_U32, next)' /\ NoDup(none)
    BY <1>3 DEF Follows, NoDup, At
  <2>3. Follows(todo[w], cursor[w], next)'
    BY <1>4, <2>2 DEF Follows
  <2> QED BY <1>2, <1>3, <1>4, <2>1, <2>2, <2>3 DEF Iteration
<1> QED BY <1>5, <1>6, <1>7, <1>8 DEF Good

\* A dead worker's lists stay as they are, the one it worked on as it left it.
LEMMA CrashStep ==
  ASSUME TypeOK, NEW L \in [Lists -> Seq(Slabs)], NEW w \in Workers, Good(w, L),
         Crash(w)
  PROVE  TypeOK' /\ OnlyMine(w) /\ Good(w, L)'
<1>1. /\ pc' = [pc EXCEPT ![w] = "dead"]
      /\ UNCHANGED <<head, prev, next, place, kind, slab, left, right, before,
                     walk, cursor, given, todo>>
  BY DEF Crash, Goto, nodes, op, iteration
<1>2. pc'[w] = "dead" /\ \A v \in Workers : v # w => SameCall(v)
  BY <1>1 DEF TypeOK, SameCall
<1>3. TypeOK'
  BY <1>1 DEF TypeOK
<1>4. OnlyMine(w)
  BY <1>1, <1>2 DEF OnlyMine
<1>5. Kept(w, L)' /\ Mirrored(w, L)' /\ Operation(w, L)'
  BY <1>1, <1>2, ListsStay DEF nodes, op, Operating, Ready
<1>6. Iteration(w)'
  BY <1>2 DEF Iteration
<1> QED BY <1>3, <1>4, <1>5, <1>6 DEF Good

-----------------------------------------------------------------------------
(* The invariant holds, and a step pushes, removes or moves nothing. *)

\* What a step makes of the lists.
Pushes(L, M) == \E l \in Lists, s \in Slabs :
    /\ \A m \in Lists : s \notin On(L[m])
    /\ M = [L EXCEPT ![l] = <<s>> \o L[l]]
Removes(L, M) == \E l \in Lists, s \in Slabs :
    s \in On(L[l]) /\ M = [L EXCEPT ![l] = Abstract!Without(L[l], s)]

\* No list has a slab that is in a worker's hands.
LEMMA HandsApart ==
  ASSUME NEW L \in [Lists -> Seq(Slabs)], \A w \in Workers : Good(w, L),
         NEW s \in Slabs, NEW w \in Workers, place[s] = InHand(w)
  PROVE  \A l \in Lists : s \notin On(L[l])
<1> SUFFICES ASSUME NEW v \in Workers, NEW k \in Kinds PROVE s \notin On(L[<<v, k>>])
  BY DEF Lists
<1>1. place[s] # <<v, k>>
  BY NullAssumption DEF InHand
<1> QED BY <1>1 DEF Good, Kept

\* Every step of a worker keeps the invariant of all workers.
LEMMA WorkerStep ==
  ASSUME TypeOK, NEW L \in [Lists -> Seq(Slabs)], \A w \in Workers : Good(w, L),
         NEW w \in Workers, NEW M \in [Lists -> Seq(Slabs)], OnlyMine(w), Good(w, M)',
         \A v \in Workers, k \in Kinds : v # w => M[<<v, k>>] = L[<<v, k>>]
  PROVE  \A v \in Workers : Good(v, M)'
<1> SUFFICES ASSUME NEW v \in Workers, v # w PROVE Good(v, M)'
  OBVIOUS
<1>1. Good(v, L) /\ \A k \in Kinds : M[<<v, k>>] = L[<<v, k>>]
  OBVIOUS
<1> QED BY <1>1, OthersStay


\* At first every list is empty.
LEMMA InitGood ==
  ASSUME Init
  PROVE  TypeOK /\ \E L \in [Lists -> Seq(Slabs)] :
            (\A l \in Lists : L[l] = <<>>) /\ \A w \in Workers : Good(w, L)
<1>1. TypeOK
  BY EmptySeq, NullAssumption DEF Init, TypeOK, Links
<1>2. PICK none \in Seq(Slabs) : none = <<>>
  BY EmptySeq
<1>3. DOMAIN none = {} /\ On(none) = {}
  <2>1. Len(none) = 0 /\ DOMAIN none = 1 .. Len(none)
    BY <1>2, SeqFacts
  <2> QED BY <2>1 DEF On
<1>4. PICK L \in [Lists -> Seq(Slabs)] : L = [l \in Lists |-> none]
  OBVIOUS
<1>5. NoDup(none) /\ Linked(none, NULL_U32, prev, next) /\ Follows(none, NULL_U32, next)
  BY <1>3 DEF NoDup, Linked, Follows, At
<1>6. ASSUME NEW w \in Workers PROVE Good(w, L)
  <2>1. /\ pc[w] = "idle" /\ kind[w] = NULL_U32 /\ walk[w] = NULL_U32 /\ given[w] = NULL_U32
        /\ cursor[w] = NULL_U32 /\ todo[w] = none
    BY <1>2 DEF Init
  <2>2. pc[w] \notin Operating /\ pc[w] \notin Pushing /\ pc[w] \notin Removing
    BY <2>1 DEF Operating, Pushing, Removing
  <2>3. Kept(w, L)
    <3>1. ASSUME NEW k \in Kinds PROVE L[<<w, k>>] = none /\ <<w, k>> # NULL_U32
      <4>1. <<w, k>> \in Workers \X (Kinds \cup {NULL_U32}) /\ <<w, k>> \in Lists
        BY DEF Lists
      <4> QED BY <4>1, <1>4, NullAssumption
    <3> QED BY <1>3, <1>5, <3>1 DEF Kept, Init
  <2>4. Mirrored(w, L)
    <3>1. ASSUME NEW k \in Kinds PROVE L[<<w, k>>] = none /\ head[<<w, k>>] = NULL_U32
      <4>1. <<w, k>> \in Lists
        BY DEF Lists
      <4> QED BY <4>1, <1>4 DEF Init
    <3> QED BY <1>5, <3>1 DEF Mirrored
  <2>5. Operation(w, L)
    BY <2>1, <2>2 DEF Operation, PushOK, RemoveOK
  <2>6. Iteration(w)
    BY <1>2, <1>3, <1>5, <2>1, <2>2 DEF Iteration
  <2> QED BY <2>3, <2>4, <2>5, <2>6 DEF Good
<1> QED BY <1>1, <1>2, <1>4, <1>6

\* Every step keeps the invariant, and pushes a slab on one list, removes one from one
\* list, or leaves all lists as they are.
LEMMA NextGood ==
  ASSUME TypeOK, NEW L \in [Lists -> Seq(Slabs)], \A w \in Workers : Good(w, L),
         [Next]_vars
  PROVE  TypeOK' /\ \E M \in [Lists -> Seq(Slabs)] :
            /\ \A w \in Workers : Good(w, M)'
            /\ M = L \/ Pushes(L, M) \/ Removes(L, M)
<1> DEFINE Moves(M) == M = L \/ Pushes(L, M) \/ Removes(L, M)
           Goal == TypeOK' /\ \E M \in [Lists -> Seq(Slabs)] :
                      (\A w \in Workers : Good(w, M)') /\ Moves(M)
<1> HIDE DEF Moves, Goal
<1>1. ASSUME NEW w \in Workers, TypeOK', OnlyMine(w), Good(w, L)' PROVE Goal
  <2>1. \A v \in Workers : Good(v, L)'
    BY <1>1, WorkerStep
  <2> QED BY <1>1, <2>1 DEF Goal, Moves
<1>2. ASSUME NEW w \in Workers, NEW M \in [Lists -> Seq(Slabs)], TypeOK', OnlyMine(w),
             Good(w, M)', Moves(M), NEW l \in Lists, l[1] = w,
             \A m \in Lists : m # l => M[m] = L[m]
      PROVE  Goal
  <2>1. \A v \in Workers, k \in Kinds : v # w => M[<<v, k>>] = L[<<v, k>>]
    <3> SUFFICES ASSUME NEW v \in Workers, NEW k \in Kinds, v # w
                 PROVE  M[<<v, k>>] = L[<<v, k>>]
      OBVIOUS
    <3>1. <<v, k>> \in Lists /\ <<v, k>> # l
      BY <1>2 DEF Lists
    <3> QED BY <1>2, <3>1
  <2>2. \A v \in Workers : Good(v, M)'
    BY <1>2, <2>1, WorkerStep
  <2> QED BY <1>2, <2>2 DEF Goal
<1>3. CASE UNCHANGED vars
  <2>1. /\ head' = head /\ prev' = prev /\ next' = next /\ place' = place /\ pc' = pc
        /\ kind' = kind /\ slab' = slab /\ left' = left /\ right' = right
        /\ before' = before /\ walk' = walk /\ cursor' = cursor /\ given' = given
        /\ todo' = todo
    BY <1>3 DEF vars, nodes, op, iteration
  <2>2. TypeOK'
    BY <2>1 DEF TypeOK
  <2>3. ASSUME NEW w \in Workers PROVE Good(w, L)'
    <3>1. Kept(w, L)' /\ Mirrored(w, L)'
      BY <2>1 DEF Good, Kept, Mirrored
    <3>2. Operation(w, L)'
      <4>1. PushOK(w, L[List(w)])'
        BY <2>1 DEF Good, Operation, PushOK, List, InHand, Follows
      <4>2. RemoveOK(w, L[List(w)])'
        <5>1. PICK seq : seq = L[List(w)]
          OBVIOUS
        <5>2. List(w)' = List(w) /\ RemoveOK(w, seq)
          BY <2>1, <5>1 DEF Good, Operation, List
        <5>3. ASSUME NEW j \in DOMAIN seq, CutAt(w, seq, j) PROVE CutAt(w, seq, j)'
          BY <2>1, <5>2, <5>3 DEF CutAt
        <5>4. RemoveOK(w, seq)'
          BY <2>1, <5>2, <5>3 DEF RemoveOK
        <5> QED BY <2>1, <5>1, <5>2, <5>4 DEF RemoveOK
      <4> QED BY <2>1, <4>1, <4>2 DEF Good, Operation, List, Ready
    <3>3. Iteration(w)'
      BY <2>1 DEF Good, Iteration, Follows
    <3> QED BY <3>1, <3>2, <3>3 DEF Good
  <2> QED BY <2>2, <2>3 DEF Goal, Moves
<1>4. ASSUME NEW w \in Workers, Step(w) PROVE Goal
  <2>1. Good(w, L)
    OBVIOUS
  <2>2. CASE PushPrev(w)
    BY <1>1, <2>1, <2>2, PushPrevStep
  <2>3. CASE PushNext(w)
    BY <1>1, <2>1, <2>3, PushNextStep
  <2>4. CASE PushLink(w)
    BY <1>1, <2>1, <2>4, PushLinkStep
  <2>5. CASE PushHead(w)
    <3>1. PICK M : M = [L EXCEPT ![List(w)] = <<slab[w]>> \o L[List(w)]]
      OBVIOUS
    <3>2. /\ TypeOK' /\ OnlyMine(w) /\ Good(w, M)'
          /\ M \in [Lists -> Seq(Slabs)] /\ place[slab[w]] = InHand(w)
          /\ List(w) \in Lists /\ slab[w] \in Slabs
      BY <2>1, <2>5, <3>1, PushHeadStep
    <3>3. \A m \in Lists : slab[w] \notin On(L[m])
      BY <3>2, HandsApart
    <3>4. Moves(M)
      BY <3>1, <3>2, <3>3 DEF Moves, Pushes
    <3>5. List(w)[1] = w /\ \A m \in Lists : m # List(w) => M[m] = L[m]
      BY <3>1 DEF List
    <3> QED BY <1>2, <3>2, <3>4, <3>5
  <2>6. CASE RemoveNext(w)
    BY <1>1, <2>1, <2>6, RemoveNextStep
  <2>7. CASE RemoveLeft(w)
    BY <1>1, <2>1, <2>7, RemoveLeftStep
  <2>8. CASE RemoveRight(w)
    <3>1. PICK M : M = [L EXCEPT ![List(w)] = Abstract!Without(L[List(w)], slab[w])]
      OBVIOUS
    <3>2. /\ TypeOK' /\ OnlyMine(w) /\ Good(w, M)'
          /\ M \in [Lists -> Seq(Slabs)] /\ slab[w] \in On(L[List(w)])
          /\ List(w) \in Lists /\ slab[w] \in Slabs
      BY <2>1, <2>8, <3>1, RemoveRightStep
    <3>3. Moves(M)
      BY <3>1, <3>2 DEF Moves, Removes
    <3>4. List(w)[1] = w /\ \A m \in Lists : m # List(w) => M[m] = L[m]
      BY <3>1 DEF List
    <3> QED BY <1>2, <3>2, <3>3, <3>4
  <2>9. CASE IterateNext(w)
    BY <1>1, <2>1, <2>9, IterateNextStep
  <2>10. CASE IterateEnd(w)
    BY <1>1, <2>1, <2>10, IterateEndStep
  <2> QED BY <1>4, <2>2, <2>3, <2>4, <2>5, <2>6, <2>7, <2>8, <2>9, <2>10 DEF Step
<1>5. ASSUME NEW w \in Workers, Crash(w) PROVE Goal
  BY <1>1, <1>5, CrashStep
<1>6. ASSUME NEW w \in Workers, NEW k \in Kinds, IterateCall(w, k) PROVE Goal
  BY <1>1, <1>6, IterateCallStep
<1>7. ASSUME NEW w \in Workers, NEW s \in Slabs, GiveBack(w, s) PROVE Goal
  BY <1>1, <1>7, GiveBackStep
<1>8. ASSUME NEW w \in Workers, NEW s \in Slabs, NEW k \in Kinds, PushCall(w, k, s) PROVE Goal
  BY <1>1, <1>8, PushCallStep
<1>9. ASSUME NEW w \in Workers, NEW s \in Slabs, NEW k \in Kinds, RemoveCall(w, k, s)
      PROVE  Goal
  BY <1>1, <1>9, RemoveCallStep
<1> QED BY <1>3, <1>4, <1>5, <1>6, <1>7, <1>8, <1>9 DEF Next, Goal, Moves

\* The lists as LocalLists sees them are those of the invariant, now ...
LEMMA HeldIs ==
  ASSUME TypeOK, NEW L \in [Lists -> Seq(Slabs)], \A w \in Workers : Good(w, L)
  PROVE  Held = L
<1> SUFFICES ASSUME NEW w \in Workers, NEW k \in Kinds
             PROVE  (IF kind[w] = k THEN before[w] ELSE From(head[<<w, k>>])) = L[<<w, k>>]
  BY DEF Held, Busy, Lists
<1>1. CASE kind[w] = k
  BY <1>1, NullAssumption DEF Good, Operation, List
<1>2. CASE kind[w] # k
  BY <1>2, HeldNow
<1> QED BY <1>1, <1>2

\* ... and after a step.
LEMMA HeldIsNext ==
  ASSUME TypeOK', NEW M \in [Lists -> Seq(Slabs)], \A w \in Workers : Good(w, M)'
  PROVE  Held' = M
<1> SUFFICES ASSUME NEW w \in Workers, NEW k \in Kinds
             PROVE  (IF kind'[w] = k THEN before'[w] ELSE From(head[<<w, k>>])') = M[<<w, k>>]
  BY DEF Held, Busy, Lists
<1>1. CASE kind'[w] = k
  BY <1>1, NullAssumption DEF Good, Operation, List
<1>2. CASE kind'[w] # k
  <2>1. PICK seq, h, l :
        seq \in Seq(Slabs) /\ seq = M[<<w, k>>] /\ l = <<w, k>> /\ h = head'[l]
    BY DEF Lists
  <2>2. NoDup(seq)
    BY <2>1 DEF Good, Kept
  <2>3. Follows(seq, h, next')
    BY <1>2, <2>1 DEF Good, Mirrored, Linked
  <2>4. next' \in [Slabs -> Links]
    BY DEF TypeOK
  <2>5. From(head[l])' = seq
    BY <2>1, <2>2, <2>3, <2>4, FromListNext
  <2> QED BY <1>2, <2>1, <2>5
<1> QED BY <1>1, <1>2


-----------------------------------------------------------------------------
(* The theorems. *)

\* In every reachable state the lists can be told from the links and the operations in
\* progress, of living and of dead workers.
THEOREM Invariance == Spec => []ListInv
<1>1. Init => ListInv
  BY InitGood DEF ListInv
<1>2. ListInv /\ [Next]_vars => ListInv'
  BY NextGood DEF ListInv
<1> QED BY <1>1, <1>2, PTL DEF Spec

\* Types are kept, and no slab is ever linked to itself.
THEOREM TypeCorrect == Spec => []TypeOK
<1>1. ListInv => TypeOK
  BY DEF ListInv
<1> QED BY <1>1, Invariance, PTL

\* Every list on which nobody is at work holds the slabs that were put on it, each once,
\* linked back as forth: remove leaves no slab linked that it took out, and push
\* none out, whatever other workers do to the shared nodes or died doing.
THEOREM ListsMirrored == Spec => []LinksMirrored
<1>1. ListInv => LinksMirrored
  <2> SUFFICES ASSUME ListInv, NEW w \in Workers, NEW k \in Kinds, ~Busy(<<w, k>>)
               PROVE  LET seq == From(head[<<w, k>>])
                      IN  /\ Len(seq) <= Cardinality(Slabs)
                          /\ On(seq) = {s \in Slabs : place[s] = <<w, k>>}
                          /\ \A i \in DOMAIN seq :
                                prev[seq[i]] = IF i = 1 THEN NULL_U32 ELSE seq[i - 1]
    BY DEF LinksMirrored, Lists
  <2>1. PICK L \in [Lists -> Seq(Slabs)] : TypeOK /\ \A v \in Workers : Good(v, L)
    BY DEF ListInv
  <2>2. kind[w] # k
    BY DEF Busy
  <2>3. PICK seq \in Seq(Slabs) : seq = From(head[<<w, k>>])
    BY <2>1, <2>2, HeldNow
  <2>4. seq = L[<<w, k>>] /\ NoDup(seq) /\ Linked(seq, head[<<w, k>>], prev, next)
    BY <2>1, <2>2, <2>3, HeldNow
  <2>5. Len(seq) <= Cardinality(Slabs)
    BY <2>4, LenBound
  <2>6. On(seq) = {s \in Slabs : place[s] = <<w, k>>}
    <3>1. On(seq) \subseteq Slabs
      BY SeqFacts
    <3> QED BY <2>1, <2>4, <3>1 DEF Good, Kept
  <2>7. ASSUME NEW i \in DOMAIN seq
        PROVE  prev[seq[i]] = IF i = 1 THEN NULL_U32 ELSE seq[i - 1]
    <3>1. DOMAIN seq = 1 .. Len(seq) /\ Len(seq) \in Nat
      BY SeqFacts
    <3>2. i - 1 \in DOMAIN seq <=> i # 1
      BY <3>1
    <3> QED BY <2>4, <3>2 DEF Linked, At
  <2> QED BY <2>3, <2>5, <2>6, <2>7
<1> QED BY <1>1, Invariance, PTL

\* An iteration returns exactly what was on its list when it began: its cursor stays on
\* what it has still to return, whatever its body does with the slab it was given.
THEOREM IterationTrue == Spec => []IterationExact
<1>1. ListInv => IterationExact
  <2> SUFFICES ASSUME ListInv, NEW w \in Workers, pc[w] \in {"body"} \cup Operating
               PROVE  From(cursor[w]) = todo[w]
    BY DEF IterationExact
  <2>1. pc[w] # "dead" /\ TypeOK /\ Iteration(w)
    BY DEF ListInv, Good, Operating
  <2>2. PICK seq, h : seq \in Seq(Slabs) /\ seq = todo[w] /\ h = cursor[w]
    BY <2>1 DEF TypeOK
  <2>3. /\ seq \in Seq(Slabs) /\ NoDup(seq)
        /\ Follows(seq, h, next) /\ next \in [Slabs -> Links]
    BY <2>1, <2>2 DEF Iteration, TypeOK
  <2>4. From(h) = seq
    BY <2>3, FromList
  <2> QED BY <2>2, <2>4
<1> QED BY <1>1, Invariance, PTL

\* push and remove, of which every load and store is a step, are atomic on the sequences
\* that the lists are.
THEOREM Refinement == Spec => RefinesLocalLists
<1>1. Init => Abstract!ListsInit
  <2> SUFFICES ASSUME Init PROVE Held = [l \in Lists |-> <<>>]
    BY DEF Abstract!ListsInit, Held
  <2>1. PICK L \in [Lists -> Seq(Slabs)] :
           (\A l \in Lists : L[l] = <<>>) /\ \A w \in Workers : Good(w, L)
    BY InitGood
  <2>2. TypeOK
    BY InitGood
  <2>3. Held = L
    BY <2>1, <2>2, HeldIs
  <2> QED BY <2>1, <2>3
<1>2. ListInv /\ [Next]_vars =>
         [\E l \in Lists, s \in Slabs : Abstract!PushOn(l, s) \/ Abstract!RemoveFrom(l, s)]_Held
  <2> SUFFICES ASSUME ListInv, [Next]_vars
               PROVE  \/ \E l \in Lists, s \in Slabs :
                            Abstract!PushOn(l, s) \/ Abstract!RemoveFrom(l, s)
                      \/ Held' = Held
    OBVIOUS
  <2>1. PICK L \in [Lists -> Seq(Slabs)] : TypeOK /\ \A w \in Workers : Good(w, L)
    BY DEF ListInv
  <2>2. PICK M \in [Lists -> Seq(Slabs)] :
           /\ TypeOK' /\ \A w \in Workers : Good(w, M)'
           /\ M = L \/ Pushes(L, M) \/ Removes(L, M)
    BY <2>1, NextGood
  <2>3. Held = L
    BY <2>1, HeldIs
  <2>4. Held' = M
    BY <2>2, HeldIsNext
  <2>5. CASE M = L
    BY <2>3, <2>4, <2>5
  <2>6. CASE Pushes(L, M)
    <3>1. PICK l \in Lists, s \in Slabs : /\ \A m \in Lists : s \notin On(L[m])
                                          /\ M = [L EXCEPT ![l] = <<s>> \o L[l]]
      BY <2>6 DEF Pushes
    <3>2. \A m \in Lists : s \notin On(Held[m])
      BY <2>3, <3>1
    <3>3. Held' = [Held EXCEPT ![l] = <<s>> \o Held[l]]
      BY <2>3, <2>4, <3>1
    <3>4. Abstract!PushOn(l, s)
      BY <3>2, <3>3 DEF Abstract!PushOn, Abstract!SlabsOn, Held, On
    <3> QED BY <3>4
  <2>7. CASE Removes(L, M)
    <3>1. PICK l \in Lists, s \in Slabs :
             s \in On(L[l]) /\ M = [L EXCEPT ![l] = Abstract!Without(L[l], s)]
      BY <2>7 DEF Removes
    <3>2. s \in On(Held[l])
      BY <2>3, <3>1
    <3>3. Held' = [Held EXCEPT ![l] = Abstract!Without(Held[l], s)]
      BY <2>3, <2>4, <3>1
    <3>4. Abstract!RemoveFrom(l, s)
      BY <3>2, <3>3 DEF Abstract!RemoveFrom, Abstract!SlabsOn, Held, On
    <3> QED BY <3>4
  <2> QED BY <2>2, <2>5, <2>6, <2>7
<1> QED BY <1>1, <1>2, Invariance, PTL DEF Spec, RefinesLocalLists, Abstract!ListsSpec, Held

====
