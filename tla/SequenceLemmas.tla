--------------------------- MODULE SequenceLemmas ---------------------------
(***************************************************************************)
(* Lemmas on numbers, on flattened sequences and on sequences whose        *)
(* elements may be anything, on which several of the proofs rest.  The     *)
(* library's induction theorems take an operator, which no prover at hand  *)
(* can instantiate; NatSteps is induction over a set.                      *)
(***************************************************************************)
EXTENDS Integers, Sequences, SequencesExt, SequenceTheorems, WellFoundedInduction, TLAPS

\* A set of natural numbers that is not empty has a least element.
LEMMA Least ==
  ASSUME NEW T, T \subseteq Nat, T # {}
  PROVE  \E n \in T : \A m \in T : n <= m
  <1>1. IsWellFoundedOn({mn \in Nat \X Nat : mn[1] < mn[2]}, Nat)
    BY NatLessThanWellFounded DEF OpToRel
  <1>2. PICK n \in T : \A m \in T : ~(<<m, n>> \in {mn \in Nat \X Nat : mn[1] < mn[2]})
    BY <1>1, WFMin
  <1>3. \A m \in T : ~(m < n)
    BY <1>2
  <1>4. QED
    BY <1>3

LEMMA NatSteps ==
  ASSUME NEW T, T \subseteq Nat, NEW size \in Nat, 0 \in T,
         \A n \in 1..size : n - 1 \in T => n \in T
  PROVE  size \in T
  <1> DEFINE Not == {n \in 0..size : n \notin T}
  <1>1. Not \subseteq Nat
    OBVIOUS
  <1>2. Not = {}
    <2> SUFFICES ASSUME Not # {} PROVE FALSE
      OBVIOUS
    <2> HIDE DEF Not
    <2>1. PICK n \in Not : \A m \in Not : n <= m
      BY <1>1, Least
    <2> USE DEF Not
    <2>2. n \in 1..size /\ n - 1 \notin Not /\ n - 1 \in 0..size
      BY <2>1
    <2>3. QED
      BY <2>1, <2>2
  <1>3. QED
    BY <1>2

\* g[i] joins the first i of the sequences.
Flattens(seqs, size, g) ==
    g = [i \in 1..size |-> IF i = 1 THEN seqs[i] ELSE g[i - 1] \o seqs[i]]

LEMMA FlattensExists ==
  ASSUME NEW seqs, NEW size \in Nat
  PROVE  \E g : Flattens(seqs, size, g)
  <1> DEFINE T == {n \in Nat : \E g : Flattens(seqs, n, g)}
  <1>1. 0 \in T
    <2> DEFINE g == [i \in 1..0 |-> seqs]
    <2>1. g = [i \in 1..0 |-> IF i = 1 THEN seqs[i] ELSE g[i - 1] \o seqs[i]]
      OBVIOUS
    <2> HIDE DEF g
    <2>2. Flattens(seqs, 0, g)
      BY <2>1 DEF Flattens
    <2>3. QED
      BY <2>2
  <1>2. ASSUME NEW n \in 1..size, n - 1 \in T PROVE n \in T
    <2>1. PICK g : Flattens(seqs, n - 1, g)
      BY <1>2
    <2> DEFINE h == [i \in 1..n |-> IF i < n THEN g[i] ELSE IF n = 1 THEN seqs[n] ELSE g[n - 1] \o seqs[n]]
    <2>2. g = [i \in 1..(n - 1) |-> IF i = 1 THEN seqs[i] ELSE g[i - 1] \o seqs[i]]
      BY <2>1 DEF Flattens
    <2>3. ASSUME NEW i \in 1..n PROVE h[i] = IF i = 1 THEN seqs[i] ELSE h[i - 1] \o seqs[i]
      <3>1. CASE i < n
        <4>1. g[i] = IF i = 1 THEN seqs[i] ELSE g[i - 1] \o seqs[i]
          <5>1. i \in 1..(n - 1)
            BY <3>1
          <5>2. QED
            BY <2>2, <5>1, Zenon
        <4>2. h[i] = g[i] /\ (i # 1 => h[i - 1] = g[i - 1])
          BY <3>1
        <4> HIDE DEF h
        <4>3. QED
          BY <4>1, <4>2
      <3>2. CASE i = n
        <4>1. h[i] = (IF n = 1 THEN seqs[n] ELSE g[n - 1] \o seqs[n]) /\ (i # 1 => h[i - 1] = g[i - 1])
          BY <3>2
        <4> HIDE DEF h
        <4>2. QED
          BY <3>2, <4>1
      <3>3. QED
        BY <3>1, <3>2
    <2>4. h = [i \in 1..n |-> IF i = 1 THEN seqs[i] ELSE h[i - 1] \o seqs[i]]
      BY <2>3
    <2> HIDE DEF h
    <2>5. Flattens(seqs, n, h)
      BY <2>4 DEF Flattens
    <2>6. QED
      BY <2>5
  <1>3. size \in T
    <2> HIDE DEF T
    <2>1. T \subseteq Nat
      BY DEF T
    <2>2. QED
      BY <1>1, <1>2, <2>1, NatSteps
  <1>4. QED
    BY <1>3

\* What FlattenSeq comes to: the value of such a function.
LEMMA FlattenIsValue ==
  ASSUME NEW seqs, Len(seqs) \in Nat \ {0}
  PROVE  \E g : Flattens(seqs, Len(seqs), g) /\ FlattenSeq(seqs) = g[Len(seqs)]
  <1> DEFINE g == CHOOSE g : Flattens(seqs, Len(seqs), g)
  <1>1. Flattens(seqs, Len(seqs), g)
    BY FlattensExists
  <1>2. FlattenSeq(seqs) = g[Len(seqs)]
    BY DEF FlattenSeq, Flattens
  <1> HIDE DEF g
  <1>3. QED
    BY <1>1, <1>2

LEMMA FlattensUnfold ==
  ASSUME NEW seqs, NEW size \in Nat, NEW g, Flattens(seqs, size, g), NEW i \in 1..size
  PROVE  (i = 1 => g[i] = seqs[i]) /\ (i # 1 => g[i] = g[i - 1] \o seqs[i])
  BY DEF Flattens

LEMMA FlattenAppend ==
  ASSUME NEW S, NEW seqs \in Seq(Seq(S)), NEW s \in Seq(S)
  PROVE  FlattenSeq(Append(seqs, s)) = FlattenSeq(seqs) \o s /\ FlattenSeq(seqs) \in Seq(S)
  <1> DEFINE more == Append(seqs, s)
             k == Len(seqs)
  <1>1. /\ k \in Nat /\ Len(more) = k + 1
        /\ \A i \in 1..k : more[i] = seqs[i] /\ seqs[i] \in Seq(S)
        /\ more[k + 1] = s
    BY AppendProperties, LenProperties, ElementOfSeq
  <1> HIDE DEF more
  <1>2. PICK h : Flattens(more, k + 1, h) /\ FlattenSeq(more) = h[k + 1]
    <2>1. k + 1 \in Nat \ {0}
      BY <1>1
    <2>2. Len(more) \in Nat \ {0}
      BY <1>1, <2>1
    <2>3. \E h : Flattens(more, Len(more), h) /\ FlattenSeq(more) = h[Len(more)]
      BY <2>2, FlattenIsValue
    <2>4. Len(more) = k + 1
      BY <1>1
    <2> HIDE DEF k
    <2>5. QED
      BY <2>3, <2>4
  <1>3. CASE k = 0
    <2>1. seqs = <<>>
      BY <1>3, EmptySeq
    <2>2. FlattenSeq(seqs) = seqs
      BY <1>3 DEF FlattenSeq
    <2>3. h[1] = s
      <3>1. 1 \in 1..(k + 1) /\ k + 1 \in Nat /\ more[1] = s
        <4>1. k + 1 = 1
          BY <1>3
        <4>2. more[1] = s
          BY <1>1, <4>1
        <4>3. QED
          BY <4>1, <4>2
      <3>2. h = [i \in 1..(k + 1) |-> IF i = 1 THEN more[i] ELSE h[i - 1] \o more[i]]
        BY <1>2 DEF Flattens
      <3>3. h[1] = more[1]
        BY <3>1, <3>2, Zenon
      <3>4. QED
        BY <3>1, <3>3
    <2>4. <<>> \o s = s /\ <<>> \in Seq(S)
      BY ConcatEmptySeq
    <2>5. k + 1 = 1
      BY <1>3
    <2>6. FlattenSeq(more) = s
      BY <1>2, <2>3, <2>5
    <2>7. FlattenSeq(seqs) = <<>>
      BY <2>1, <2>2
    <2>8. QED
      BY <2>4, <2>6, <2>7 DEF more
  <1>4. CASE k # 0
    <2>1. PICK g : Flattens(seqs, k, g) /\ FlattenSeq(seqs) = g[k]
      BY <1>1, <1>4, FlattenIsValue
    <2> DEFINE T == {n \in Nat : n \in 1..k => g[n] = h[n] /\ g[n] \in Seq(S)}
    <2>2. 0 \in T
      OBVIOUS
    <2>3. ASSUME NEW n \in 1..k, n - 1 \in T PROVE n \in T
      <3>1. (n = 1 => g[n] = seqs[n]) /\ (n # 1 => g[n] = g[n - 1] \o seqs[n])
        BY <1>1, <2>1, FlattensUnfold
      <3>2. (n = 1 => h[n] = more[n]) /\ (n # 1 => h[n] = h[n - 1] \o more[n])
        <4>1. n \in 1..(k + 1) /\ k + 1 \in Nat
          BY <1>1
        <4>2. QED
          BY <1>2, <4>1, FlattensUnfold
      <3>3. more[n] = seqs[n] /\ seqs[n] \in Seq(S)
        BY <1>1
      <3>4. n # 1 => g[n - 1] = h[n - 1] /\ g[n - 1] \in Seq(S)
        BY <1>1, <2>3
      <3>5. g[n] = h[n]
        BY <3>1, <3>2, <3>3, <3>4
      <3>6. g[n] \in Seq(S)
        BY <3>1, <3>3, <3>4, ConcatProperties
      <3>7. QED
        BY <3>5, <3>6
    <2>4. k \in T
      <3> HIDE DEF T
      <3>1. T \subseteq Nat
        BY DEF T
      <3>2. QED
        BY <1>1, <2>2, <2>3, <3>1, NatSteps
    <2>5. g[k] = h[k] /\ g[k] \in Seq(S)
      BY <1>1, <1>4, <2>4
    <2>6. h[k + 1] = h[k] \o more[k + 1]
      <3>1. k + 1 \in 1..(k + 1) /\ k + 1 \in Nat /\ k + 1 # 1 /\ (k + 1) - 1 = k
        BY <1>1, <1>4
      <3>2. h[k + 1] = h[(k + 1) - 1] \o more[k + 1]
        BY <1>2, <3>1, FlattensUnfold
      <3>3. QED
        BY <3>1, <3>2
    <2>7. QED
      BY <1>1, <1>2, <2>1, <2>5, <2>6 DEF more
  <1>5. QED
    BY <1>3, <1>4

\* The way of a thread's batches.
LEMMA JoinedParts ==
  ASSUME NEW S, NEW r \in Seq(S), NEW s \in Seq(S)
  PROVE  /\ Len(r) \in Nat /\ Len(s) \in Nat /\ Len(r \o s) = Len(r) + Len(s)
         /\ \A i \in 1..Len(r \o s) :
                \/ i \in 1..Len(r) /\ (r \o s)[i] = r[i]
                \/ i - Len(r) \in 1..Len(s) /\ (r \o s)[i] = s[i - Len(r)]
         /\ \A i \in 1..Len(r) : i \in 1..Len(r \o s) /\ (r \o s)[i] = r[i]
         /\ \A i \in 1..Len(s) : Len(r) + i \in 1..Len(r \o s) /\ (r \o s)[Len(r) + i] = s[i]
  <1>1. PICK both : both = r \o s
    OBVIOUS
  <1>2. Len(r) \in Nat /\ Len(s) \in Nat
    BY LenProperties
  <1>3. Len(both) = Len(r) + Len(s)
    BY <1>1, ConcatProperties
  <1>4. \A i \in 1..Len(r) + Len(s) : both[i] = IF i <= Len(r) THEN r[i] ELSE s[i - Len(r)]
    BY <1>1, ConcatProperties
  <1>5. ASSUME NEW i \in 1..Len(both)
        PROVE  \/ i \in 1..Len(r) /\ both[i] = r[i]
               \/ i - Len(r) \in 1..Len(s) /\ both[i] = s[i - Len(r)]
    BY <1>2, <1>3, <1>4
  <1>6. ASSUME NEW i \in 1..Len(r) PROVE i \in 1..Len(both) /\ both[i] = r[i]
    BY <1>2, <1>3, <1>4
  <1>7. ASSUME NEW i \in 1..Len(s) PROVE Len(r) + i \in 1..Len(both) /\ both[Len(r) + i] = s[i]
    BY <1>2, <1>3, <1>4
  <1>8. QED
    BY <1>1, <1>2, <1>3, <1>5, <1>6, <1>7

Shows(s, e) == \E i \in 1..Len(s) : s[i] = e

LEMMA ShowsMore ==
  ASSUME NEW S, NEW r \in Seq(S), NEW s \in Seq(S), NEW e, Shows(r, e) \/ Shows(s, e)
  PROVE  Shows(r \o s, e)
  <1>1. /\ Len(r) \in Nat /\ Len(s) \in Nat /\ Len(r \o s) = Len(r) + Len(s)
        /\ \A i \in 1..Len(r) + Len(s) : (r \o s)[i] = IF i <= Len(r) THEN r[i] ELSE s[i - Len(r)]
    <2>1. Len(r) \in Nat /\ Len(s) \in Nat
      BY LenProperties
    <2>2. Len(r \o s) = Len(r) + Len(s)
      BY ConcatProperties
    <2>3. \A i \in 1..Len(r) + Len(s) : (r \o s)[i] = IF i <= Len(r) THEN r[i] ELSE s[i - Len(r)]
      BY ConcatProperties
    <2>4. QED
      BY <2>1, <2>2, <2>3
  <1>2. PICK both : both = r \o s
    OBVIOUS
  <1>3. CASE Shows(r, e)
    <2>1. PICK i \in 1..Len(r) : r[i] = e
      BY <1>3 DEF Shows
    <2>2. i \in 1..Len(both) /\ both[i] = e
      BY <1>1, <1>2, <2>1
    <2>3. QED
      BY <1>2, <2>2 DEF Shows
  <1>4. CASE Shows(s, e)
    <2>1. PICK i \in 1..Len(s) : s[i] = e
      BY <1>4 DEF Shows
    <2>2. PICK j : j = Len(r) + i
      OBVIOUS
    <2>3. j \in 1..Len(both) /\ both[j] = e
      BY <1>1, <1>2, <2>1, <2>2
    <2>4. QED
      BY <1>2, <2>3 DEF Shows
  <1>5. QED
    BY <1>3, <1>4

LEMMA ShowsJoined ==
  ASSUME NEW S, NEW r \in Seq(S), NEW s \in Seq(S), NEW e
  PROVE  Shows(r \o s, e) <=> Shows(r, e) \/ Shows(s, e)
  <1>1. PICK both : both = r \o s
    OBVIOUS
  <1>2. \A i \in 1..Len(both) :
            \/ i \in 1..Len(r) /\ both[i] = r[i]
            \/ i - Len(r) \in 1..Len(s) /\ both[i] = s[i - Len(r)]
    BY <1>1, JoinedParts
  <1>3. Shows(both, e) => Shows(r, e) \/ Shows(s, e)
    BY <1>2 DEF Shows
  <1>4. Shows(r, e) \/ Shows(s, e) => Shows(both, e)
    BY <1>1, ShowsMore
  <1>5. QED
    BY <1>1, <1>3, <1>4

\* What stands in a flattened sequence, and in which order.
FromOneOf(seqs, x) == \E j \in 1..Len(seqs) : \E l \in 1..Len(seqs[j]) : x = seqs[j][l]

FromBefore(seqs, i, k, x) ==
    \E j \in 1..Len(seqs) : \E l \in 1..Len(seqs[j]) :
        x = seqs[j][l] /\ (j < i \/ (j = i /\ l < k))

ShownInOrder(seqs, flat) ==
    /\ \A q \in 1..Len(flat) : FromOneOf(seqs, flat[q])
    /\ \A i \in 1..Len(seqs) : \A k \in 1..Len(seqs[i]) :
           \E p \in 1..Len(flat) :
               flat[p] = seqs[i][k] /\ \A q \in 1..(p - 1) : FromBefore(seqs, i, k, flat[q])

LEMMA OneMoreInOrder ==
  ASSUME NEW S, NEW seqs \in Seq(Seq(S)), NEW s \in Seq(S), NEW flat \in Seq(S),
         ShownInOrder(seqs, flat)
  PROVE  ShownInOrder(Append(seqs, s), flat \o s)
  <1>1. PICK more : more = Append(seqs, s)
    OBVIOUS
  <1>2. PICK longer : longer = flat \o s
    OBVIOUS
  <1>3. /\ Len(seqs) \in Nat /\ Len(more) = Len(seqs) + 1
        /\ \A i \in 1..Len(seqs) : more[i] = seqs[i]
        /\ more[Len(seqs) + 1] = s
    BY <1>1, AppendProperties, LenProperties
  <1>4. /\ Len(flat) \in Nat /\ Len(s) \in Nat /\ Len(longer) = Len(flat) + Len(s)
        /\ \A q \in 1..Len(longer) : longer[q] = IF q <= Len(flat) THEN flat[q] ELSE s[q - Len(flat)]
    <2>1. Len(flat) \in Nat /\ Len(s) \in Nat
      BY LenProperties
    <2>2. Len(longer) = Len(flat) + Len(s)
      BY <1>2, ConcatProperties
    <2>3. \A q \in 1..Len(flat) + Len(s) : longer[q] = IF q <= Len(flat) THEN flat[q] ELSE s[q - Len(flat)]
      BY <1>2, ConcatProperties
    <2>4. QED
      BY <2>1, <2>2, <2>3
  <1>5. ASSUME NEW x, FromOneOf(seqs, x) PROVE FromOneOf(more, x) /\ FromBefore(more, Len(seqs) + 1, 1, x)
    <2>1. PICK j \in 1..Len(seqs) : \E l \in 1..Len(seqs[j]) : x = seqs[j][l]
      BY <1>5 DEF FromOneOf
    <2>2. j \in 1..Len(more) /\ more[j] = seqs[j] /\ j < Len(seqs) + 1
      BY <1>3, <2>1
    <2>3. QED
      BY <2>1, <2>2 DEF FromOneOf, FromBefore
  <1>6. ASSUME NEW i, NEW k, NEW x, FromBefore(seqs, i, k, x) PROVE FromBefore(more, i, k, x)
    <2>1. PICK j \in 1..Len(seqs) : \E l \in 1..Len(seqs[j]) :
                 x = seqs[j][l] /\ (j < i \/ (j = i /\ l < k))
      BY <1>6 DEF FromBefore
    <2>2. j \in 1..Len(more) /\ more[j] = seqs[j]
      BY <1>3, <2>1
    <2>3. QED
      BY <2>1, <2>2 DEF FromBefore
  <1>7. ASSUME NEW q \in 1..Len(longer) PROVE FromOneOf(more, longer[q])
    <2>1. CASE q <= Len(flat)
      <3>1. longer[q] = flat[q] /\ q \in 1..Len(flat)
        BY <1>4, <2>1
      <3>2. FromOneOf(seqs, flat[q])
        BY <3>1 DEF ShownInOrder
      <3>3. QED
        BY <1>5, <3>1, <3>2
    <2>2. CASE ~(q <= Len(flat))
      <3>1. longer[q] = s[q - Len(flat)] /\ q - Len(flat) \in 1..Len(s)
        BY <1>4, <2>2
      <3>2. Len(seqs) + 1 \in 1..Len(more)
        BY <1>3
      <3>3. QED
        BY <1>3, <3>1, <3>2 DEF FromOneOf
    <2>3. QED
      BY <2>1, <2>2
  <1>8. ASSUME NEW i \in 1..Len(more), NEW k \in 1..Len(more[i])
        PROVE  \E p \in 1..Len(longer) :
                   longer[p] = more[i][k] /\ \A q \in 1..(p - 1) : FromBefore(more, i, k, longer[q])
    <2>1. CASE i \in 1..Len(seqs)
      <3>1. more[i] = seqs[i]
        BY <1>3, <2>1
      <3>2. PICK p \in 1..Len(flat) :
                flat[p] = seqs[i][k] /\ \A q \in 1..(p - 1) : FromBefore(seqs, i, k, flat[q])
        BY <2>1, <3>1 DEF ShownInOrder
      <3>3. p \in 1..Len(longer) /\ longer[p] = flat[p]
        BY <1>4, <3>2
      <3>4. ASSUME NEW q \in 1..(p - 1) PROVE FromBefore(more, i, k, longer[q])
        <4>1. q \in 1..Len(flat) /\ q <= Len(flat) /\ q \in 1..Len(longer)
          BY <1>4, <3>2
        <4>2. longer[q] = flat[q]
          BY <1>4, <4>1
        <4>3. QED
          BY <1>6, <3>2, <4>2
      <3>5. QED
        BY <3>1, <3>2, <3>3, <3>4
    <2>2. CASE i = Len(seqs) + 1
      <3>1. more[i] = s /\ k \in 1..Len(s)
        BY <1>3, <2>2
      <3>2. PICK p : p = Len(flat) + k
        OBVIOUS
      <3>3. p \in 1..Len(longer) /\ longer[p] = s[k]
        <4>1. k \in Nat /\ 1 <= k /\ k <= Len(s)
          BY <1>4, <3>1
        <4>2. p \in 1..Len(longer) /\ ~(p <= Len(flat)) /\ p - Len(flat) = k
          BY <1>4, <3>2, <4>1
        <4>3. QED
          BY <1>4, <4>2
      <3>4. ASSUME NEW q \in 1..(p - 1) PROVE FromBefore(more, i, k, longer[q])
        <4>1. CASE q <= Len(flat)
          <5>1. q \in 1..Len(flat)
            BY <1>4, <4>1
          <5>2. longer[q] = flat[q]
            BY <1>4, <5>1
          <5>3. FromOneOf(seqs, flat[q])
            BY <5>1 DEF ShownInOrder
          <5>4. PICK j \in 1..Len(seqs) : \E l \in 1..Len(seqs[j]) : flat[q] = seqs[j][l]
            BY <5>3 DEF FromOneOf
          <5>5. j \in 1..Len(more) /\ more[j] = seqs[j] /\ j < i
            BY <1>3, <2>2, <5>4
          <5>6. QED
            BY <5>1, <5>2, <5>4, <5>5 DEF FromBefore
        <4>2. CASE ~(q <= Len(flat))
          <5>1. longer[q] = s[q - Len(flat)] /\ q - Len(flat) \in 1..Len(s) /\ q - Len(flat) < k
            BY <1>4, <3>1, <3>2, <4>2
          <5>2. QED
            BY <3>1, <5>1 DEF FromBefore
        <4>3. QED
          BY <4>1, <4>2
      <3>5. QED
        BY <3>1, <3>3, <3>4
    <2>3. QED
      BY <1>3, <2>1, <2>2
  <1>9. QED
    BY <1>1, <1>2, <1>7, <1>8 DEF ShownInOrder

\* Flattening keeps everything, each after what stands before it.
LEMMA FlattenInOrder ==
  ASSUME NEW S, NEW seqs \in Seq(Seq(S))
  PROVE  FlattenSeq(seqs) \in Seq(S) /\ ShownInOrder(seqs, FlattenSeq(seqs))
  <1> DEFINE T == {n \in Nat : \A m \in Seq(Seq(S)) :
                       Len(m) = n => FlattenSeq(m) \in Seq(S) /\ ShownInOrder(m, FlattenSeq(m))}
  <1>1. 0 \in T
    <2> SUFFICES ASSUME NEW m \in Seq(Seq(S)), Len(m) = 0
                 PROVE  FlattenSeq(m) \in Seq(S) /\ ShownInOrder(m, FlattenSeq(m))
      OBVIOUS
    <2>1. m = <<>>
      BY EmptySeq
    <2>2. FlattenSeq(m) = m
      BY DEF FlattenSeq
    <2>3. Len(<<>>) = 0 /\ <<>> \in Seq(S)
      BY EmptySeq
    <2>4. 1..0 = {}
      OBVIOUS
    <2>5. QED
      BY <2>1, <2>2, <2>3, <2>4 DEF ShownInOrder
  <1>2. ASSUME NEW n \in 1..Len(seqs), n - 1 \in T PROVE n \in T
    <2> SUFFICES ASSUME NEW m \in Seq(Seq(S)), Len(m) = n
                 PROVE  FlattenSeq(m) \in Seq(S) /\ ShownInOrder(m, FlattenSeq(m))
      OBVIOUS
    <2>1. m # <<>>
      BY EmptySeq
    <2>2. PICK front \in Seq(Seq(S)), s \in Seq(S) : m = Append(front, s)
      BY <2>1, SequenceEmptyOrAppend
    <2>3. Len(front) = n - 1
      BY <2>2, AppendProperties, LenProperties
    <2>4. FlattenSeq(front) \in Seq(S) /\ ShownInOrder(front, FlattenSeq(front))
      BY <1>2, <2>3
    <2>5. FlattenSeq(m) = FlattenSeq(front) \o s
      BY <2>2, FlattenAppend
    <2>6. FlattenSeq(m) \in Seq(S)
      BY <2>4, <2>5, ConcatProperties
    <2>7. QED
      BY <2>2, <2>4, <2>5, <2>6, OneMoreInOrder
  <1>3. Len(seqs) \in T
    <2> HIDE DEF T
    <2>1. T \subseteq Nat
      BY DEF T
    <2>2. Len(seqs) \in Nat
      BY LenProperties
    <2>3. QED
      BY <1>1, <1>2, <2>1, <2>2, NatSteps
  <1>4. QED
    BY <1>3

\* No two places with the same.
Apart(s) == \A i, j \in 1..Len(s) : s[i] = s[j] => i = j

LEMMA JoinedApart ==
  ASSUME NEW S, NEW r \in Seq(S), NEW s \in Seq(S), Apart(r), Apart(s),
         \A i \in 1..Len(r), j \in 1..Len(s) : r[i] # s[j]
  PROVE  Apart(r \o s)
  <1>1. PICK both : both = r \o s
    OBVIOUS
  <1>2. /\ Len(r) \in Nat /\ Len(s) \in Nat /\ Len(both) = Len(r) + Len(s)
        /\ \A i \in 1..Len(both) :
               \/ i \in 1..Len(r) /\ both[i] = r[i]
               \/ i - Len(r) \in 1..Len(s) /\ both[i] = s[i - Len(r)]
    BY <1>1, JoinedParts
  <1>3. ASSUME NEW i \in 1..Len(both), NEW j \in 1..Len(both), both[i] = both[j] PROVE i = j
    <2>1. CASE i \in 1..Len(r) /\ both[i] = r[i]
      <3>1. j \in 1..Len(r) /\ both[j] = r[j]
        BY <1>2, <1>3, <2>1
      <3>2. QED
        BY <1>3, <2>1, <3>1 DEF Apart
    <2>2. CASE i - Len(r) \in 1..Len(s) /\ both[i] = s[i - Len(r)]
      <3>1. j - Len(r) \in 1..Len(s) /\ both[j] = s[j - Len(r)]
        BY <1>2, <1>3, <2>2
      <3>2. i - Len(r) = j - Len(r)
        BY <1>3, <2>2, <3>1 DEF Apart
      <3>3. QED
        BY <1>2, <3>2
    <2>3. QED
      BY <1>2, <2>1, <2>2
  <1>4. QED
    BY <1>1, <1>3 DEF Apart

\* All that stand one before the other are in a relation R.
AllBefore(seqs, R) ==
    \A i, j \in 1..Len(seqs) : \A k \in 1..Len(seqs[i]), l \in 1..Len(seqs[j]) :
        i < j \/ (i = j /\ k < l) => <<seqs[i][k], seqs[j][l]>> \in R

Ordered(s, R) == \A p, q \in 1..Len(s) : p < q => <<s[p], s[q]>> \in R

LEMMA JoinedOfParts ==
  ASSUME NEW S, NEW r \in Seq(S), NEW s \in Seq(S), NEW both, both = r \o s
  PROVE  /\ Len(r) \in Nat /\ Len(s) \in Nat /\ Len(both) = Len(r) + Len(s)
         /\ \A i \in 1..Len(both) :
                \/ i \in 1..Len(r) /\ both[i] = r[i]
                \/ i - Len(r) \in 1..Len(s) /\ both[i] = s[i - Len(r)]
  BY JoinedParts

\* Flattening keeps the order.
LEMMA FlattenOrdered ==
  ASSUME NEW S, NEW seqs \in Seq(Seq(S)), NEW R, AllBefore(seqs, R)
  PROVE  Ordered(FlattenSeq(seqs), R)
  <1> DEFINE T == {n \in Nat : \A m \in Seq(Seq(S)) :
                       Len(m) = n /\ AllBefore(m, R) => Ordered(FlattenSeq(m), R)}
  <1>1. 0 \in T
    <2> SUFFICES ASSUME NEW m \in Seq(Seq(S)), Len(m) = 0 PROVE Ordered(FlattenSeq(m), R)
      OBVIOUS
    <2>1. m = <<>>
      BY EmptySeq
    <2>2. FlattenSeq(m) = m
      BY <2>1 DEF FlattenSeq
    <2>3. QED
      BY <2>1, <2>2 DEF Ordered
  <1>2. ASSUME NEW n \in 1..Len(seqs), n - 1 \in T PROVE n \in T
    <2> SUFFICES ASSUME NEW m \in Seq(Seq(S)), Len(m) = n, AllBefore(m, R)
                 PROVE  Ordered(FlattenSeq(m), R)
      OBVIOUS
    <2>1. m # <<>>
      BY EmptySeq
    <2>2. PICK front \in Seq(Seq(S)), s \in Seq(S) : m = Append(front, s)
      BY <2>1, SequenceEmptyOrAppend
    <2>3. Len(front) = n - 1 /\ m[n] = s /\ \A i \in 1..Len(front) : m[i] = front[i]
      BY <2>2, AppendProperties, LenProperties
    <2>4. \A i \in 1..Len(front) : i \in 1..Len(m) /\ i < n
      BY <2>3
    <2>5. AllBefore(front, R)
      BY <2>3, <2>4 DEF AllBefore
    <2>6. PICK flat : flat = FlattenSeq(front)
      OBVIOUS
    <2>7. flat \in Seq(S) /\ ShownInOrder(front, flat) /\ Ordered(flat, R)
      <3>1. Len(front) \in Nat /\ Len(front) = n - 1
        BY <2>3, LenProperties
      <3>2. Ordered(flat, R)
        BY <1>2, <2>5, <2>6, <3>1
      <3>3. QED
        BY <2>6, <3>2, FlattenInOrder
    <2> HIDE DEF T
    <2>8. PICK both : both = flat \o s
      OBVIOUS
    <2>9. FlattenSeq(m) = both
      BY <2>2, <2>6, <2>8, FlattenAppend
    <2>10. /\ Len(flat) \in Nat /\ Len(s) \in Nat /\ Len(both) = Len(flat) + Len(s)
           /\ \A i \in 1..Len(both) :
                  \/ i \in 1..Len(flat) /\ both[i] = flat[i]
                  \/ i - Len(flat) \in 1..Len(s) /\ both[i] = s[i - Len(flat)]
      <3>1. flat \in Seq(S) /\ s \in Seq(S)
        BY <2>2, <2>7
      <3>2. QED
        BY <2>8, <3>1, JoinedOfParts
    <2>11. n \in 1..Len(m)
      OBVIOUS
    <2>12. ASSUME NEW p \in 1..Len(both), NEW q \in 1..Len(both), p < q PROVE <<both[p], both[q]>> \in R
      <3>1. CASE q \in 1..Len(flat) /\ both[q] = flat[q]
        <4>1. p \in 1..Len(flat) /\ both[p] = flat[p]
          BY <2>10, <2>12, <3>1
        <4>2. QED
          BY <2>7, <2>12, <3>1, <4>1 DEF Ordered
      <3>2. CASE q - Len(flat) \in 1..Len(s) /\ both[q] = s[q - Len(flat)]
        <4>1. CASE p \in 1..Len(flat) /\ both[p] = flat[p]
          <5>1. PICK j \in 1..Len(front) : \E l \in 1..Len(front[j]) : flat[p] = front[j][l]
            BY <2>7, <4>1 DEF ShownInOrder, FromOneOf
          <5>2. j \in 1..Len(m) /\ m[j] = front[j] /\ j < n
            BY <2>3, <2>4
          <5>3. PICK l \in 1..Len(m[j]) : flat[p] = m[j][l]
            BY <5>1, <5>2
          <5>4. PICK k \in 1..Len(m[n]) : both[q] = m[n][k]
            BY <2>3, <3>2
          <5>5. <<m[j][l], m[n][k]>> \in R
            BY <2>11, <5>2 DEF AllBefore
          <5>6. QED
            BY <4>1, <5>3, <5>4, <5>5
        <4>2. CASE p - Len(flat) \in 1..Len(s) /\ both[p] = s[p - Len(flat)]
          <5>1. p - Len(flat) < q - Len(flat)
            BY <2>10, <2>12
          <5>2. QED
            BY <2>3, <2>11, <3>2, <4>2, <5>1 DEF AllBefore
        <4>3. QED
          BY <2>10, <4>1, <4>2
      <3>3. QED
        BY <2>10, <3>1, <3>2
    <2>13. QED
      BY <2>9, <2>12 DEF Ordered
  <1>3. Len(seqs) \in T
    <2> HIDE DEF T
    <2>1. T \subseteq Nat
      BY DEF T
    <2>2. Len(seqs) \in Nat
      BY LenProperties
    <2>3. QED
      BY <1>1, <1>2, <2>1, <2>2, NatSteps
  <1>4. QED
    BY <1>3

---------------------------------------------------------------------------
(* Sequences, whatever their elements.                                      *)

IsSequence(s) == \E S : s \in Seq(S)

LEMMA SeqFacts ==
  ASSUME NEW s, IsSequence(s)
  PROVE  /\ Len(s) \in Nat /\ DOMAIN s = 1 .. Len(s) /\ (s = <<>> <=> Len(s) = 0)
         /\ s = [i \in DOMAIN s |-> s[i]]
  BY DEF IsSequence

LEMMA SeqEmpty == IsSequence(<<>>) /\ Len(<<>>) = 0
  BY DEF IsSequence

\* A function with the domain of a sequence is one.
LEMMA SeqLike ==
  ASSUME NEW s, IsSequence(s), NEW f, f = [i \in DOMAIN s |-> f[i]]
  PROVE  IsSequence(f) /\ Len(f) = Len(s) /\ DOMAIN f = DOMAIN s
  <1>1. Len(s) \in Nat /\ DOMAIN s = 1 .. Len(s)
    BY SeqFacts
  <1> DEFINE S == {f[i] : i \in DOMAIN s}
  <1>2. f \in [1 .. Len(s) -> S]
    BY <1>1
  <1> HIDE DEF S
  <1>3. f \in Seq(S) /\ Len(f) = Len(s)
    BY <1>1, <1>2
  <1>4. QED
    BY <1>1, <1>2, <1>3 DEF IsSequence

LEMMA SeqAppend ==
  ASSUME NEW s, IsSequence(s), NEW e
  PROVE  /\ IsSequence(Append(s, e)) /\ Len(Append(s, e)) = Len(s) + 1 /\ Append(s, e) # <<>>
         /\ Append(s, e)[Len(s) + 1] = e /\ \A i \in 1 .. Len(s) : Append(s, e)[i] = s[i]
  <1>1. PICK S : s \in Seq(S)
    BY DEF IsSequence
  <1> DEFINE T == S \cup {e}
  <1>2. s \in Seq(T) /\ e \in T
    <2>1. s \in [1 .. Len(s) -> T] /\ Len(s) \in Nat
      BY <1>1
    <2> HIDE DEF T
    <2>2. s \in Seq(T)
      BY <2>1
    <2>3. QED
      BY <2>2 DEF T
  <1> HIDE DEF T
  <1>3. Append(s, e) \in Seq(T)
    BY <1>2
  <1>4. Len(Append(s, e)) = Len(s) + 1 /\ Len(s) \in Nat
    BY <1>2
  <1>5. Append(s, e)[Len(s) + 1] = e /\ \A i \in 1 .. Len(s) : Append(s, e)[i] = s[i]
    BY <1>2
  <1>6. Append(s, e) # <<>>
    BY <1>4, SeqEmpty
  <1>7. QED
    BY <1>3, <1>4, <1>5, <1>6 DEF IsSequence

LEMMA SeqConcat ==
  ASSUME NEW s, IsSequence(s), NEW t, IsSequence(t)
  PROVE  /\ IsSequence(s \o t) /\ Len(s \o t) = Len(s) + Len(t)
         /\ \A i \in 1 .. Len(s) : (s \o t)[i] = s[i]
         /\ \A i \in 1 .. Len(t) : (s \o t)[Len(s) + i] = t[i]
         /\ \A i \in DOMAIN (s \o t) :
              IF i <= Len(s) THEN i \in DOMAIN s /\ (s \o t)[i] = s[i]
              ELSE i - Len(s) \in DOMAIN t /\ (s \o t)[i] = t[i - Len(s)]
  <1>1. PICK S, T : s \in Seq(S) /\ t \in Seq(T)
    BY DEF IsSequence
  <1> DEFINE U == S \cup T
  <1>2. s \in Seq(U) /\ t \in Seq(U)
    <2>1. s \in [1 .. Len(s) -> U] /\ Len(s) \in Nat /\ t \in [1 .. Len(t) -> U] /\ Len(t) \in Nat
      BY <1>1
    <2> HIDE DEF U
    <2>2. QED
      BY <2>1
  <1> HIDE DEF U
  <1>3. s \o t \in Seq(U) /\ Len(s \o t) = Len(s) + Len(t) /\ Len(s) \in Nat /\ Len(t) \in Nat
    BY <1>2
  <1>4. /\ \A i \in 1 .. Len(s) : (s \o t)[i] = s[i]
        /\ \A i \in 1 .. Len(t) : (s \o t)[Len(s) + i] = t[i]
    BY <1>2
  <1>5. ASSUME NEW i \in DOMAIN (s \o t)
        PROVE  IF i <= Len(s) THEN i \in DOMAIN s /\ (s \o t)[i] = s[i]
               ELSE i - Len(s) \in DOMAIN t /\ (s \o t)[i] = t[i - Len(s)]
    <2>1. i \in 1 .. (Len(s) + Len(t)) /\ DOMAIN s = 1 .. Len(s) /\ DOMAIN t = 1 .. Len(t)
      BY <1>2, <1>3
    <2>2. CASE i <= Len(s)
      BY <1>3, <1>4, <2>1, <2>2
    <2>3. CASE ~(i <= Len(s))
      <3>1. i - Len(s) \in 1 .. Len(t) /\ Len(s) + (i - Len(s)) = i
        BY <1>3, <2>1, <2>3
      <3>2. (s \o t)[Len(s) + (i - Len(s))] = t[i - Len(s)]
        BY <1>4, <3>1
      <3>3. QED
        BY <2>1, <2>3, <3>1, <3>2
    <2>4. QED
      BY <2>2, <2>3
  <1>6. QED
    BY <1>3, <1>4, <1>5 DEF IsSequence

LEMMA SeqSub ==
  ASSUME NEW s, IsSequence(s), NEW m \in Nat, m >= 1, NEW n \in Nat, n <= Len(s)
  PROVE  /\ IsSequence(SubSeq(s, m, n))
         /\ Len(SubSeq(s, m, n)) = IF m <= n THEN n - m + 1 ELSE 0
         /\ \A i \in DOMAIN SubSeq(s, m, n) :
              m + i - 1 \in DOMAIN s /\ m + i - 1 <= n /\ SubSeq(s, m, n)[i] = s[m + i - 1]
  <1>1. PICK S : s \in Seq(S)
    BY DEF IsSequence
  <1>2. DOMAIN s = 1 .. Len(s) /\ Len(s) \in Nat
    BY <1>1
  <1>3. CASE m <= n
    <2>1. SubSeq(s, m, n) \in Seq(S) /\ Len(SubSeq(s, m, n)) = n - m + 1
      BY <1>1, <1>3
    <2>2. \A i \in 1 .. (n - m + 1) : SubSeq(s, m, n)[i] = s[m + i - 1]
      BY <1>1, <1>2, <1>3
    <2>3. DOMAIN SubSeq(s, m, n) = 1 .. (n - m + 1)
      BY <1>3, <2>1
    <2>4. ASSUME NEW i \in 1 .. (n - m + 1) PROVE m + i - 1 \in DOMAIN s /\ m + i - 1 <= n
      BY <1>2, <1>3
    <2>5. QED
      BY <1>3, <2>1, <2>2, <2>3, <2>4 DEF IsSequence
  <1>4. CASE ~(m <= n)
    <2>1. SubSeq(s, m, n) = <<>>
      BY <1>4, SubSeqEmpty
    <2>2. QED
      BY <1>4, <2>1, SeqEmpty
  <1>5. QED
    BY <1>3, <1>4

LEMMA SeqFront ==
  ASSUME NEW s, IsSequence(s), s # <<>>
  PROVE  /\ IsSequence(Front(s)) /\ Len(Front(s)) = Len(s) - 1
         /\ \A i \in DOMAIN Front(s) : i \in DOMAIN s /\ i < Len(s) /\ Front(s)[i] = s[i]
  <1>1. Len(s) \in Nat /\ Len(s) > 0
    BY SeqFacts
  <1>2. Len(s) - 1 \in Nat /\ Len(s) - 1 <= Len(s)
    BY <1>1
  <1>3. /\ IsSequence(Front(s)) /\ Len(Front(s)) = IF 1 <= Len(s) - 1 THEN Len(s) - 1 - 1 + 1 ELSE 0
        /\ \A i \in DOMAIN Front(s) :
             1 + i - 1 \in DOMAIN s /\ 1 + i - 1 <= Len(s) - 1 /\ Front(s)[i] = s[1 + i - 1]
    BY <1>1, <1>2, SeqSub DEF Front
  <1>4. DOMAIN Front(s) = 1 .. Len(Front(s)) /\ Len(Front(s)) \in Nat
    BY <1>3, SeqFacts
  <1>5. Len(Front(s)) = Len(s) - 1
    <2>1. Len(Front(s)) = IF 1 <= Len(s) - 1 THEN Len(s) - 1 - 1 + 1 ELSE 0
      BY <1>3
    <2>2. CASE Len(s) = 1
      <3>1. ~(1 <= Len(s) - 1) /\ Len(s) - 1 = 0
        BY <2>2
      <3>2. QED
        BY <2>1, <3>1
    <2>3. CASE Len(s) # 1
      <3>1. 1 <= Len(s) - 1 /\ Len(s) - 1 - 1 + 1 = Len(s) - 1
        BY <1>1, <2>3
      <3>2. QED
        BY <2>1, <3>1
    <2>4. QED
      BY <2>2, <2>3
  <1>6. ASSUME NEW i \in DOMAIN Front(s) PROVE i \in DOMAIN s /\ i < Len(s) /\ Front(s)[i] = s[i]
    <2>1. i \in Nat /\ 1 + i - 1 = i
      BY <1>4
    <2>2. 1 + i - 1 \in DOMAIN s /\ 1 + i - 1 <= Len(s) - 1 /\ Front(s)[i] = s[1 + i - 1]
      BY <1>3
    <2>3. QED
      BY <1>1, <2>1, <2>2
  <1>7. QED
    BY <1>3, <1>5, <1>6

LEMMA SeqTail ==
  ASSUME NEW s, IsSequence(s), s # <<>>
  PROVE  /\ IsSequence(Tail(s)) /\ Len(Tail(s)) = Len(s) - 1
         /\ \A i \in DOMAIN Tail(s) : i + 1 \in DOMAIN s /\ Tail(s)[i] = s[i + 1]
         /\ Head(s) = s[1] /\ 1 \in DOMAIN s
  <1>1. PICK S : s \in Seq(S)
    BY DEF IsSequence
  <1>2. Tail(s) \in Seq(S) /\ Len(Tail(s)) = Len(s) - 1 /\ \A i \in 1 .. Len(Tail(s)) : Tail(s)[i] = s[i + 1]
    BY <1>1, HeadTailProperties
  <1>3. /\ Len(s) \in Nat /\ Len(s) > 0 /\ DOMAIN s = 1 .. Len(s) /\ IsSequence(Tail(s))
        /\ DOMAIN Tail(s) = 1 .. Len(Tail(s))
    BY <1>2, SeqFacts DEF IsSequence
  <1>4. Head(s) = s[1]
    BY <1>1
  <1>5. QED
    BY <1>2, <1>3, <1>4

LEMMA SeqOne == ASSUME NEW e PROVE IsSequence(<<e>>) /\ Len(<<e>>) = 1 /\ <<e>>[1] = e
  <1>1. <<e>> \in Seq({e})
    OBVIOUS
  <1>2. QED
    BY <1>1 DEF IsSequence

LEMMA SeqUpTo ==
  ASSUME NEW s, IsSequence(s), NEW n \in Nat, n <= Len(s)
  PROVE  /\ IsSequence(SubSeq(s, 1, n)) /\ Len(SubSeq(s, 1, n)) = n
         /\ \A i \in 1 .. n : i \in DOMAIN s /\ SubSeq(s, 1, n)[i] = s[i]
  <1>1. /\ IsSequence(SubSeq(s, 1, n)) /\ Len(SubSeq(s, 1, n)) = IF 1 <= n THEN n - 1 + 1 ELSE 0
        /\ \A i \in DOMAIN SubSeq(s, 1, n) :
             1 + i - 1 \in DOMAIN s /\ 1 + i - 1 <= n /\ SubSeq(s, 1, n)[i] = s[1 + i - 1]
    BY SeqSub
  <1>2. Len(SubSeq(s, 1, n)) = n
    <2>1. CASE n = 0
      <3>1. ~(1 <= n)
        BY <2>1
      <3>2. QED
        BY <1>1, <2>1, <3>1
    <2>2. CASE n # 0
      <3>1. 1 <= n /\ n - 1 + 1 = n
        BY <2>2
      <3>2. QED
        BY <1>1, <3>1
    <2>3. QED
      BY <2>1, <2>2
  <1>3. DOMAIN SubSeq(s, 1, n) = 1 .. n
    BY <1>1, <1>2, SeqFacts
  <1>4. \A i \in 1 .. n : 1 + i - 1 = i
    OBVIOUS
  <1>5. QED
    BY <1>1, <1>2, <1>3, <1>4

LEMMA SeqFrom ==
  ASSUME NEW s, IsSequence(s), NEW m \in Nat, m >= 1, m <= Len(s) + 1
  PROVE  /\ IsSequence(SubSeq(s, m, Len(s))) /\ Len(SubSeq(s, m, Len(s))) = Len(s) + 1 - m
         /\ \A i \in DOMAIN SubSeq(s, m, Len(s)) :
              m + i - 1 \in DOMAIN s /\ SubSeq(s, m, Len(s))[i] = s[m + i - 1]
  <1>1. Len(s) \in Nat /\ Len(s) <= Len(s)
    BY SeqFacts
  <1>2. /\ IsSequence(SubSeq(s, m, Len(s)))
        /\ Len(SubSeq(s, m, Len(s))) = IF m <= Len(s) THEN Len(s) - m + 1 ELSE 0
        /\ \A i \in DOMAIN SubSeq(s, m, Len(s)) :
             m + i - 1 \in DOMAIN s /\ m + i - 1 <= Len(s) /\ SubSeq(s, m, Len(s))[i] = s[m + i - 1]
    BY <1>1, SeqSub
  <1>3. Len(SubSeq(s, m, Len(s))) = Len(s) + 1 - m
    <2>1. CASE m <= Len(s)
      <3>1. Len(s) - m + 1 = Len(s) + 1 - m
        BY <1>1
      <3>2. QED
        BY <1>2, <2>1, <3>1
    <2>2. CASE ~(m <= Len(s))
      <3>1. Len(s) + 1 - m = 0
        BY <1>1, <2>2
      <3>2. QED
        BY <1>2, <2>2, <3>1
    <2>3. QED
      BY <2>1, <2>2
  <1>4. QED
    BY <1>2, <1>3

\* Appending in two steps.
LEMMA SeqTwice ==
  ASSUME NEW s, IsSequence(s), NEW t, IsSequence(t), NEW u, IsSequence(u)
  PROVE  (s \o t) \o u = s \o (t \o u)
  <1>1. PICK S, T, U : s \in Seq(S) /\ t \in Seq(T) /\ u \in Seq(U)
    BY DEF IsSequence
  <1> DEFINE A == S \cup T \cup U
  <1>2. /\ s \in [1 .. Len(s) -> A] /\ t \in [1 .. Len(t) -> A] /\ u \in [1 .. Len(u) -> A]
        /\ Len(s) \in Nat /\ Len(t) \in Nat /\ Len(u) \in Nat
    BY <1>1
  <1> HIDE DEF A
  <1>3. s \in Seq(A) /\ t \in Seq(A) /\ u \in Seq(A)
    <2>1. s \in Seq(A)
      BY <1>2
    <2>2. t \in Seq(A)
      BY <1>2
    <2>3. u \in Seq(A)
      BY <1>2
    <2>4. QED
      BY <2>1, <2>2, <2>3
  <1>4. QED
    BY <1>3, ConcatAssociative

\* One element more, at either end.
LEMMA SeqPush ==
  ASSUME NEW s, IsSequence(s), NEW e
  PROVE  /\ IsSequence(s \o <<e>>) /\ Len(s \o <<e>>) = Len(s) + 1
         /\ (s \o <<e>>)[Len(s) + 1] = e /\ \A i \in 1 .. Len(s) : (s \o <<e>>)[i] = s[i]
  <1> DEFINE one == <<e>>
  <1>1. IsSequence(one) /\ Len(one) = 1 /\ one[1] = e
    BY SeqOne
  <1> HIDE DEF one
  <1>2. /\ IsSequence(s \o one) /\ Len(s \o one) = Len(s) + Len(one)
        /\ \A i \in 1 .. Len(s) : (s \o one)[i] = s[i]
        /\ \A i \in 1 .. Len(one) : (s \o one)[Len(s) + i] = one[i]
    <2>1. IsSequence(s) /\ IsSequence(one)
      BY <1>1
    <2>2. IsSequence(s \o one)
      BY <2>1, SeqConcat
    <2>3. Len(s \o one) = Len(s) + Len(one)
      BY <2>1, SeqConcat
    <2>4. \A i \in 1 .. Len(s) : (s \o one)[i] = s[i]
      BY <2>1, SeqConcat
    <2>5. \A i \in 1 .. Len(one) : (s \o one)[Len(s) + i] = one[i]
      BY <2>1, SeqConcat
    <2>6. QED
      BY <2>2, <2>3, <2>4, <2>5
  <1>3. (s \o one)[Len(s) + 1] = e /\ Len(s \o one) = Len(s) + 1
    BY <1>1, <1>2
  <1>4. QED
    BY <1>2, <1>3 DEF one

LEMMA SeqCons ==
  ASSUME NEW s, IsSequence(s), NEW e
  PROVE  /\ IsSequence(<<e>> \o s) /\ Len(<<e>> \o s) = Len(s) + 1 /\ (<<e>> \o s)[1] = e
         /\ \A i \in DOMAIN (<<e>> \o s) : i # 1 => i - 1 \in DOMAIN s /\ (<<e>> \o s)[i] = s[i - 1]
  <1> DEFINE one == <<e>>
  <1>1. IsSequence(one) /\ Len(one) = 1 /\ one[1] = e
    BY SeqOne
  <1> HIDE DEF one
  <1>2. /\ IsSequence(one \o s) /\ Len(one \o s) = Len(one) + Len(s) /\ Len(s) \in Nat
        /\ \A i \in 1 .. Len(one) : (one \o s)[i] = one[i]
        /\ \A i \in 1 .. Len(s) : (one \o s)[Len(one) + i] = s[i]
    <2>1. IsSequence(s) /\ IsSequence(one)
      BY <1>1
    <2>2. IsSequence(one \o s) /\ Len(s) \in Nat
      BY <2>1, SeqConcat, SeqFacts
    <2>3. Len(one \o s) = Len(one) + Len(s)
      BY <2>1, SeqConcat
    <2>4. \A i \in 1 .. Len(one) : (one \o s)[i] = one[i]
      BY <2>1, SeqConcat
    <2>5. \A i \in 1 .. Len(s) : (one \o s)[Len(one) + i] = s[i]
      BY <2>1, SeqConcat
    <2>6. QED
      BY <2>2, <2>3, <2>4, <2>5
  <1>3. Len(one \o s) = Len(s) + 1 /\ (one \o s)[1] = e
    BY <1>1, <1>2
  <1>4. ASSUME NEW i \in DOMAIN (one \o s), i # 1 PROVE i - 1 \in DOMAIN s /\ (one \o s)[i] = s[i - 1]
    <2>1. DOMAIN (one \o s) = 1 .. (Len(s) + 1) /\ DOMAIN s = 1 .. Len(s)
      BY <1>2, <1>3, SeqFacts
    <2>2. i - 1 \in 1 .. Len(s) /\ 1 + (i - 1) = i
      BY <1>2, <1>4, <2>1
    <2>3. (one \o s)[1 + (i - 1)] = s[i - 1]
      BY <1>1, <1>2, <2>2
    <2>4. QED
      BY <2>1, <2>2, <2>3
  <1>5. QED
    BY <1>2, <1>3, <1>4 DEF one

=============================================================================
