-------------------------- MODULE RecyclingProofs --------------------------
(***************************************************************************)
(* What is proved of Recycling, for every number of threads, code objects, *)
(* addresses and ids and every size of batch and ring: an id has one owner,*)
(* a wrong name takes a refusal, and an id is given to another code object *)
(* only when no event under it can still be written by a dump.             *)
(***************************************************************************)
EXTENDS Recycling, SequenceTheorems, FiniteSetTheorems, WellFoundedInduction, TLAPS

---------------------------------------------------------------------------
(* The least element of a set of ticks.                                     *)

Earlier == {p \in Nat \X Nat : p[1] < p[2]}

LEMMA EarlierIsWellFounded == IsWellFoundedOn(Earlier, Nat)
  <1>1. Earlier = OpToRel(<, Nat)
    BY DEF Earlier, OpToRel
  <1>2. QED
    BY <1>1, NatLessThanWellFounded

LEMMA MinIsLeast ==
  ASSUME NEW S \in SUBSET Nat, S # {}
  PROVE  Min(S) \in S /\ \A y \in S : Min(S) <= y
  <1>1. PICK x \in S : \A y \in S : <<y, x>> \notin Earlier
    BY WFMin, EarlierIsWellFounded
  <1>2. ASSUME NEW y \in S PROVE x <= y
    <2>1. <<y, x>> \in Nat \X Nat /\ <<y, x>>[1] = y /\ <<y, x>>[2] = x
      OBVIOUS
    <2>2. ~(y < x)
      BY <1>1, <2>1 DEF Earlier
    <2>3. QED
      BY <2>2
  <1>3. \A y \in S : x <= y
    BY <1>2
  <1>4. QED
    BY <1>3 DEF Min

---------------------------------------------------------------------------
(* Ids and code objects.                                                    *)

Times ==
    /\ generation <= clock /\ floor <= clock /\ now \in Nat /\ now <= clock
    /\ \A c \in call : c.ticks <= clock /\ c.gen <= generation
    /\ \A t \in Threads : codeGen[t] <= generation

\* A callback that looks up its thread's name keeps its code object alive and its
\* thread busy.
Calls ==
    /\ \A c \in call : at[c.key] # NoCode
    /\ \A c, d \in call : c.thread = d.thread => c = d

\* A code object lives at one address, and only its own key is mapped to the id
\* it is stored under.
Objects ==
    /\ \A k \in Keys : at[k] \notin unborn
    /\ \A j, k \in Keys : at[j] = at[k] /\ at[j] # NoCode => j = k
    /\ \A id \in DOMAIN info : info[id] \notin unborn
    /\ \A id \in DOMAIN info, k \in Keys : info[id] = at[k] => map[k] = id

Owners ==
    /\ \A k \in Keys : map[k] # 0 => map[k] \in DOMAIN info /\ info[map[k]] = at[k]
    /\ \A j, k \in Keys : map[j] # 0 /\ map[j] = map[k] => j = k
    /\ \A i \in DOMAIN free : free[i].id \in DOMAIN info /\ \A k \in Keys : map[k] # free[i].id
    /\ \A i, j \in DOMAIN free : free[i].id = free[j].id => i = j
    /\ \A id \in DOMAIN info : (\E k \in Keys : map[k] = id) \/ (\E i \in DOMAIN free : free[i].id = id)

LEMMA FreeEntries ==
  ASSUME IdTypes
  PROVE  /\ DOMAIN free = 1..Len(free) /\ Len(free) \in Nat
         /\ \A i \in DOMAIN free : free[i] \in [id : Ids, freed : 1..MaxTicks]
         /\ DOMAIN info = 1..Len(info) /\ Len(info) \in Nat
         /\ \A i \in DOMAIN info : info[i] \in Codes
  BY LenProperties, ElementOfSeq DEF IdTypes

LEMMA CalledAtFacts ==
  ASSUME IdTypes, Objects, Owners, NEW k \in Keys, CalledAt(k)
  PROVE  /\ at' \in [Keys -> Codes \cup {NoCode}] /\ unborn' \subseteq Codes /\ at'[k] \in Codes
         /\ \A j \in Keys : j # k \/ at[j] # NoCode => at'[j] = at[j]
         /\ \A j \in Keys : at'[j] \notin unborn'
         /\ \A i, j \in Keys : at'[i] = at'[j] /\ at'[i] # NoCode => i = j
         /\ \A id \in DOMAIN info : info[id] \notin unborn'
         /\ \A id \in DOMAIN info, j \in Keys : info[id] = at'[j] => map[j] = id
         /\ \A j \in Keys : map[j] # 0 => at'[j] = at[j] /\ at[j] # NoCode
  <1> USE IdsAssumption DEF IdTypes
  <1>0. \A id \in DOMAIN info : info[id] \in Codes
    BY FreeEntries
  <1>1. \A j \in Keys : map[j] # 0 => at[j] # NoCode
    BY <1>0 DEF Owners
  <1>2. CASE at[k] # NoCode
    BY <1>1, <1>2 DEF CalledAt, objectVars, Objects
  <1>3. CASE at[k] = NoCode
    <2>1. PICK c \in unborn : at' = [at EXCEPT ![k] = c] /\ unborn' = unborn \ {c}
      BY <1>3 DEF CalledAt
    <2>2. c \in Codes /\ at'[k] = c /\ \A j \in Keys : j # k => at'[j] = at[j]
      BY <2>1
    <2>3. \A j \in Keys : at[j] # c /\ at[j] \notin unborn
      BY DEF Objects
    <2>4. \A id \in DOMAIN info : info[id] # c /\ info[id] \notin unborn
      BY DEF Objects
    <2>5. at' \in [Keys -> Codes \cup {NoCode}] /\ unborn' \subseteq Codes
      BY <2>1
    <2>6. \A j \in Keys : at'[j] \notin unborn'
      BY <2>1, <2>2, <2>3
    <2>7. \A i, j \in Keys : at'[i] = at'[j] /\ at'[i] # NoCode => i = j
      BY <2>2, <2>3 DEF Objects
    <2>8. \A id \in DOMAIN info, j \in Keys : info[id] = at'[j] => map[j] = id
      BY <2>2, <2>4 DEF Objects
    <2>9. QED
      BY <1>1, <1>3, <2>1, <2>2, <2>4, <2>5, <2>6, <2>7, <2>8
  <1>4. QED
    BY <1>2, <1>3

\* What may happen to a name: it stays unless its id was free since before the
\* floor; and what is newly freed is freed now.
NamesMove ==
    /\ \A id \in DOMAIN info :
         /\ id \in DOMAIN info'
         /\ info'[id] = info[id] \/ \E i \in DOMAIN free : free[i].id = id /\ free[i].freed < floor
    /\ \A i \in DOMAIN free' : free'[i].freed > clock \/ \E j \in DOMAIN free : free[j] = free'[i]

\* Vec::swap_remove leaves the other entries.
LEMMA SwapRemoveKeeps ==
  ASSUME NEW S, NEW s \in Seq(S), NEW i \in DOMAIN s
  PROVE  /\ SwapRemove(s, i) \in Seq(S) /\ DOMAIN SwapRemove(s, i) = 1..(Len(s) - 1)
         /\ \A j \in 1..(Len(s) - 1) : SwapRemove(s, i)[j] = IF j = i THEN s[Len(s)] ELSE s[j]
  <1> DEFINE r == [s EXCEPT ![i] = s[Len(s)]]
  <1>1. Len(s) \in Nat /\ DOMAIN s = 1..Len(s) /\ i \in 1..Len(s)
    BY LenProperties
  <1>2. s[Len(s)] \in S
    BY <1>1, ElementOfSeq
  <1>3. r \in Seq(S) /\ Len(r) = Len(s) /\ \A j \in 1..Len(s) : r[j] = IF j = i THEN s[Len(s)] ELSE s[j]
    BY <1>1, <1>2, ExceptSeq
  <1> HIDE DEF r
  <1>4. /\ SubSeq(r, 1, Len(s) - 1) \in Seq(S) /\ Len(SubSeq(r, 1, Len(s) - 1)) = Len(s) - 1
        /\ \A j \in 1..(Len(s) - 1) : SubSeq(r, 1, Len(s) - 1)[j] = r[j]
    BY <1>1, <1>3, SubSeqProperties
  <1>5. SwapRemove(s, i) = SubSeq(r, 1, Len(s) - 1)
    BY DEF SwapRemove, r
  <1>6. QED
    BY <1>1, <1>3, <1>4, <1>5, LenProperties

\* What Intern and Destroy leave of Objects and Owners is stated with at' and
\* unborn', which CalledAt has moved.
LEMMA InternFacts ==
  ASSUME IdTypes, Objects, Owners, NEW k \in Keys, NEW id \in Ids, CalledAt(k), Intern(k, id)
  PROVE  /\ map' \in [Keys -> Ids \cup {0}] /\ map'[k] = id /\ id \in DOMAIN info'
         /\ info' \in Seq(Codes) /\ Len(info') <= Capacity
         /\ free' \in Seq([id : Ids, freed : 1..MaxTicks])
         /\ \A j \in Keys : map[j] # 0 => map'[j] = map[j]
         /\ \A j \in Keys : j # k => map'[j] = map[j]
         /\ Objects' /\ Owners' /\ NamesMove
  <1> USE IdsAssumption
  <1> DEFINE Entries == [id : Ids, freed : 1..MaxTicks]
  <1>0. /\ map \in [Keys -> Ids \cup {0}] /\ info \in Seq(Codes) /\ Len(info) <= Capacity
        /\ free \in Seq(Entries)
    BY DEF IdTypes
  <1>1. /\ DOMAIN free = 1..Len(free) /\ Len(free) \in Nat
        /\ \A i \in DOMAIN free : free[i] \in Entries
        /\ DOMAIN info = 1..Len(info) /\ Len(info) \in Nat
        /\ \A i \in DOMAIN info : info[i] \in Codes
    BY FreeEntries
  <1>2. /\ at'[k] \in Codes
        /\ \A j \in Keys : at'[j] \notin unborn'
        /\ \A i, j \in Keys : at'[i] = at'[j] /\ at'[i] # NoCode => i = j
        /\ \A n \in DOMAIN info : info[n] \notin unborn'
        /\ \A n \in DOMAIN info, j \in Keys : info[n] = at'[j] => map[j] = n
        /\ \A j \in Keys : map[j] # 0 => at'[j] = at[j] /\ at[j] # NoCode
    BY CalledAtFacts
  <1>3. \A j \in Keys : map[j] # 0 => map[j] \in DOMAIN info /\ info[map[j]] = at'[j]
    BY <1>2 DEF Owners
  <1>4. CASE map[k] # 0 /\ id = map[k] /\ UNCHANGED internerVars
    <2>1. map' = map /\ info' = info /\ free' = free
      BY <1>4 DEF internerVars
    <2>2. Objects'
      BY <1>2, <2>1 DEF Objects
    <2>3. Owners'
      BY <1>3, <2>1 DEF Owners
    <2>4. NamesMove
      BY <2>1 DEF NamesMove
    <2>5. QED
      BY <1>0, <1>3, <1>4, <2>1, <2>2, <2>3, <2>4
  <1>5. CASE /\ map[k] = 0 /\ Len(info) < Capacity /\ id = Len(info) + 1
             /\ info' = Append(info, at'[k]) /\ map' = [map EXCEPT ![k] = id] /\ UNCHANGED free
    <2>1. /\ info' \in Seq(Codes) /\ Len(info') = Len(info) + 1 /\ DOMAIN info' = 1..(Len(info) + 1)
          /\ \A n \in 1..Len(info) : info'[n] = info[n]
          /\ info'[id] = at'[k]
      BY <1>0, <1>1, <1>2, <1>5, AppendProperties, LenProperties
    <2>2. /\ map' \in [Keys -> Ids \cup {0}] /\ map'[k] = id /\ id \in DOMAIN info' /\ id \notin DOMAIN info
          /\ \A j \in Keys : j # k => map'[j] = map[j]
      BY <1>0, <1>1, <1>5, <2>1
    <2>3. \A n \in DOMAIN info' : n = id \/ (n \in DOMAIN info /\ info'[n] = info[n])
      BY <1>1, <1>5, <2>1
    <2>4. Objects'
      <3>1. \A n \in DOMAIN info' : info'[n] \notin unborn'
        BY <1>2, <2>1, <2>3
      <3>2. ASSUME NEW n \in DOMAIN info', NEW j \in Keys, info'[n] = at'[j]
            PROVE  map'[j] = n
        <4>1. CASE n = id
          <5>1. j = k
            BY <1>2, <2>1, <3>2, <4>1
          <5>2. QED
            BY <2>2, <4>1, <5>1
        <4>2. CASE n # id
          <5>1. map[j] = n /\ n \in DOMAIN info
            BY <1>2, <2>3, <3>2, <4>2
          <5>2. j # k
            BY <1>1, <1>5, <5>1
          <5>3. QED
            BY <2>2, <5>1, <5>2
        <4>3. QED
          BY <4>1, <4>2
      <3>3. QED
        BY <1>2, <3>1, <3>2 DEF Objects
    <2>5. Owners'
      <3>1. \A j \in Keys : map'[j] # 0 => map'[j] \in DOMAIN info' /\ info'[map'[j]] = at'[j]
        BY <1>1, <1>3, <2>1, <2>2
      <3>2. \A i, j \in Keys : map'[i] # 0 /\ map'[i] = map'[j] => i = j
        BY <1>3, <2>2 DEF Owners
      <3>3. \A i \in DOMAIN free : free[i].id \in DOMAIN info' /\ \A j \in Keys : map'[j] # free[i].id
        <4>1. \A i \in DOMAIN free : free[i].id \in DOMAIN info /\ \A j \in Keys : map[j] # free[i].id
          BY DEF Owners
        <4>2. \A n \in DOMAIN info : n \in DOMAIN info' /\ n # id
          BY <1>1, <2>1, <2>2
        <4>3. QED
          BY <2>2, <4>1, <4>2
      <3>4. ASSUME NEW n \in DOMAIN info'
            PROVE  (\E j \in Keys : map'[j] = n) \/ (\E i \in DOMAIN free : free[i].id = n)
        <4>1. CASE n = id
          BY <2>2, <4>1
        <4>2. CASE n # id
          <5>1. (\E j \in Keys : map[j] = n /\ n # 0) \/ (\E i \in DOMAIN free : free[i].id = n)
            BY <1>1, <2>3, <4>2 DEF Owners
          <5>2. QED
            BY <1>5, <2>2, <5>1
        <4>3. QED
          BY <4>1, <4>2
      <3>5. \A i, j \in DOMAIN free : free[i].id = free[j].id => i = j
        BY DEF Owners
      <3>6. QED
        BY <1>5, <3>1, <3>2, <3>3, <3>4, <3>5 DEF Owners
    <2>6. NamesMove
      BY <1>1, <1>5, <2>1 DEF NamesMove
    <2>7. QED
      BY <1>0, <1>1, <1>5, <2>1, <2>2, <2>4, <2>5, <2>6
  <1>6. CASE /\ map[k] = 0 /\ Recyclable # {} /\ id = free[Slot].id /\ free' = SwapRemove(free, Slot)
             /\ info' = [info EXCEPT ![id] = at'[k]] /\ map' = [map EXCEPT ![k] = id]
    <2>1. Slot \in DOMAIN free /\ free[Slot].freed < floor
      <3>1. Recyclable \in SUBSET Nat
        BY <1>1 DEF Recyclable
      <3>2. Slot \in Recyclable
        BY <1>6, <3>1, MinIsLeast DEF Slot
      <3>3. QED
        BY <3>2 DEF Recyclable
    <2>2. id \in DOMAIN info /\ \A j \in Keys : map[j] # id
      BY <1>6, <2>1 DEF Owners
    <2>3. /\ info' \in Seq(Codes) /\ Len(info') = Len(info) /\ DOMAIN info' = DOMAIN info
          /\ \A n \in DOMAIN info : info'[n] = IF n = id THEN at'[k] ELSE info[n]
      <3>1. id \in 1..Len(info) /\ Len(info) \in Nat
        BY <1>1, <2>2
      <3>2. QED
        BY <1>0, <1>1, <1>2, <1>6, <3>1, ExceptSeq, LenProperties
    <2>4. /\ map' \in [Keys -> Ids \cup {0}] /\ map'[k] = id
          /\ \A j \in Keys : j # k => map'[j] = map[j]
      BY <1>0, <1>6
    <2>5. /\ free' \in Seq(Entries) /\ DOMAIN free' = 1..(Len(free) - 1)
          /\ \A i \in 1..(Len(free) - 1) : free'[i] = IF i = Slot THEN free[Len(free)] ELSE free[i]
      <3> HIDE DEF Entries
      <3>1. QED
        BY <1>0, <1>6, <2>1, SwapRemoveKeeps
    <2>6. \A i \in DOMAIN free' : /\ i \in DOMAIN free
                                  /\ i = Slot => Len(free) \in DOMAIN free /\ Len(free) # i
      BY <1>1, <2>1, <2>5
    <2> HIDE DEF Entries
    <2>7. \A i \in DOMAIN free' : \E j \in DOMAIN free : j # Slot /\ free'[i] = free[j]
      BY <2>5, <2>6
    <2>8. \A i \in DOMAIN free' : free'[i].id # id
      BY <1>6, <2>1, <2>7 DEF Owners
    <2>9. \A i, j \in DOMAIN free' : free'[i].id = free'[j].id => i = j
      <3>1. ASSUME NEW i \in DOMAIN free', NEW j \in DOMAIN free', free'[i].id = free'[j].id, i # j
            PROVE  FALSE
        <4>1. CASE i # Slot /\ j # Slot
          BY <2>5, <2>6, <3>1, <4>1 DEF Owners
        <4>2. CASE i = Slot
          <5>1. Len(free) = j
            BY <2>5, <2>6, <3>1, <4>2 DEF Owners
          <5>2. QED
            BY <1>1, <2>5, <5>1
        <4>3. CASE j = Slot
          <5>1. Len(free) = i
            BY <2>5, <2>6, <3>1, <4>3 DEF Owners
          <5>2. QED
            BY <1>1, <2>5, <5>1
        <4>4. QED
          BY <4>1, <4>2, <4>3
      <3>2. QED
        BY <3>1
    <2>10. \A j \in DOMAIN free : j # Slot => \E i \in DOMAIN free' : free'[i] = free[j]
      <3>1. ASSUME NEW j \in DOMAIN free, j # Slot
            PROVE  \E i \in DOMAIN free' : free'[i] = free[j]
        <4>1. CASE j = Len(free)
          <5>1. Slot \in DOMAIN free' /\ free'[Slot] = free[j]
            BY <1>1, <2>1, <2>5, <3>1, <4>1
          <5>2. QED
            BY <5>1
        <4>2. CASE j # Len(free)
          <5>1. j \in DOMAIN free' /\ free'[j] = free[j]
            BY <1>1, <2>5, <3>1, <4>2
          <5>2. QED
            BY <5>1
        <4>3. QED
          BY <4>1, <4>2
      <3>2. QED
        BY <3>1
    <2>11. Objects'
      <3>1. \A n \in DOMAIN info' : info'[n] \notin unborn'
        BY <1>2, <2>3
      <3>2. ASSUME NEW n \in DOMAIN info', NEW j \in Keys, info'[n] = at'[j]
            PROVE  map'[j] = n
        <4>1. CASE n = id
          <5>1. j = k
            BY <1>2, <2>2, <2>3, <3>2, <4>1
          <5>2. QED
            BY <2>4, <4>1, <5>1
        <4>2. CASE n # id
          <5>1. map[j] = n /\ n \in DOMAIN info
            BY <1>2, <2>3, <3>2, <4>2
          <5>2. j # k
            BY <1>1, <1>6, <5>1
          <5>3. QED
            BY <2>4, <5>1, <5>2
        <4>3. QED
          BY <4>1, <4>2
      <3>3. QED
        BY <1>2, <3>1, <3>2 DEF Objects
    <2>12. Owners'
      <3>1. \A j \in Keys : map'[j] # 0 => map'[j] \in DOMAIN info' /\ info'[map'[j]] = at'[j]
        BY <1>3, <2>2, <2>3, <2>4
      <3>2. \A i, j \in Keys : map'[i] # 0 /\ map'[i] = map'[j] => i = j
        BY <2>2, <2>4 DEF Owners
      <3>3. \A i \in DOMAIN free' : free'[i].id \in DOMAIN info' /\ \A j \in Keys : map'[j] # free'[i].id
        BY <2>3, <2>4, <2>7, <2>8 DEF Owners
      <3>4. ASSUME NEW n \in DOMAIN info'
            PROVE  (\E j \in Keys : map'[j] = n) \/ (\E i \in DOMAIN free' : free'[i].id = n)
        <4>1. CASE n = id
          BY <2>4, <4>1
        <4>2. CASE n # id
          <5>1. (\E j \in Keys : map[j] = n /\ n # 0) \/ (\E i \in DOMAIN free : free[i].id = n /\ i # Slot)
            BY <1>1, <1>6, <2>3, <4>2 DEF Owners
          <5>2. QED
            BY <1>6, <2>4, <2>10, <5>1
        <4>3. QED
          BY <4>1, <4>2
      <3>5. QED
        BY <2>9, <3>1, <3>2, <3>3, <3>4 DEF Owners
    <2>13. NamesMove
      BY <1>6, <2>1, <2>3, <2>7 DEF NamesMove
    <2>14. QED
      BY <1>0, <1>6, <2>2, <2>3, <2>4, <2>5, <2>11, <2>12, <2>13 DEF Entries
  <1>7. QED
    BY <1>4, <1>5, <1>6 DEF Intern

LEMMA DestroyFacts ==
  ASSUME IdTypes, Times, Objects, Owners, NEW k \in Keys, Destroy(k)
  PROVE  /\ map' \in [Keys -> Ids \cup {0}] /\ at' \in [Keys -> Codes \cup {NoCode}]
         /\ free' \in Seq([id : Ids, freed : 1..MaxTicks])
         /\ \A j \in Keys : j # k => map'[j] = map[j] /\ at'[j] = at[j]
         /\ map[k] = 0 => map' = map /\ generation' = generation
         /\ generation' \in {generation, generation + 1} /\ generation' <= clock'
         /\ Objects' /\ Owners' /\ NamesMove
  <1> USE IdsAssumption
  <1> DEFINE Entries == [id : Ids, freed : 1..MaxTicks]
  <1>0. /\ map \in [Keys -> Ids \cup {0}] /\ info \in Seq(Codes) /\ free \in Seq(Entries)
        /\ at \in [Keys -> Codes \cup {NoCode}] /\ generation \in Nat /\ clock \in 0..MaxTicks
    BY DEF IdTypes
  <1>1. /\ DOMAIN free = 1..Len(free) /\ Len(free) \in Nat
        /\ DOMAIN info = 1..Len(info) /\ \A i \in DOMAIN info : info[i] \in Codes
    BY FreeEntries
  <1>2. /\ clock' = clock + 1 /\ clock' \in 1..MaxTicks
        /\ at' = [at EXCEPT ![k] = NoCode] /\ map' = [map EXCEPT ![k] = 0]
        /\ UNCHANGED <<unborn, info>>
    BY <1>0 DEF Destroy, Tick
  <1>3. /\ map' \in [Keys -> Ids \cup {0}] /\ map'[k] = 0 /\ at' \in [Keys -> Codes \cup {NoCode}] /\ at'[k] = NoCode
        /\ \A j \in Keys : j # k => map'[j] = map[j] /\ at'[j] = at[j]
    BY <1>0, <1>2
  <1>4. Objects'
    <2>1. /\ \A j \in Keys : at'[j] \notin unborn'
          /\ \A i, j \in Keys : at'[i] = at'[j] /\ at'[i] # NoCode => i = j
          /\ \A n \in DOMAIN info : info[n] \notin unborn
      BY <1>2, <1>3 DEF Objects, IdTypes
    <2>2. ASSUME NEW n \in DOMAIN info, NEW j \in Keys, info[n] = at'[j] PROVE map'[j] = n
      <3>1. j # k
        BY <1>1, <1>3, <2>2
      <3>2. QED
        BY <1>3, <2>2, <3>1 DEF Objects
    <2>3. QED
      BY <1>2, <2>1, <2>2 DEF Objects
  <1>5. CASE map[k] = 0
    <2>1. free' = free /\ generation' = generation /\ map' = map
      BY <1>0, <1>2, <1>5 DEF Destroy
    <2>2. Owners'
      BY <1>2, <1>3, <1>5, <2>1 DEF Owners
    <2>3. NamesMove
      BY <1>2, <2>1 DEF NamesMove
    <2>4. QED
      BY <1>0, <1>2, <1>3, <1>4, <2>1, <2>2, <2>3 DEF Times
  <1>6. CASE map[k] # 0
    <2> DEFINE e == [id |-> map[k], freed |-> clock']
    <2>1. free' = Append(free, e) /\ generation' = generation + 1
      BY <1>6 DEF Destroy
    <2>2. e \in Entries /\ e.id = map[k] /\ e.freed = clock'
      BY <1>0, <1>2, <1>6
    <2>3. /\ free' \in Seq(Entries) /\ DOMAIN free' = 1..(Len(free) + 1)
          /\ \A i \in 1..Len(free) : free'[i] = free[i]
          /\ free'[Len(free) + 1] = e
      BY <1>0, <1>1, <2>1, <2>2, AppendProperties, LenProperties
    <2> HIDE DEF e, Entries
    <2>4. \A i \in DOMAIN free' : free'[i] = e \/ (i \in DOMAIN free /\ free'[i] = free[i])
      BY <1>1, <2>3
    <2>5. Owners'
      <3>1. \A j \in Keys : map'[j] # 0 => map'[j] \in DOMAIN info' /\ info'[map'[j]] = at'[j]
        BY <1>2, <1>3 DEF Owners
      <3>2. \A i, j \in Keys : map'[i] # 0 /\ map'[i] = map'[j] => i = j
        BY <1>3 DEF Owners
      <3>3. \A i \in DOMAIN free' : free'[i].id \in DOMAIN info' /\ \A j \in Keys : map'[j] # free'[i].id
        <4>1. map[k] \in DOMAIN info /\ \A j \in Keys : map'[j] # map[k]
          BY <1>3, <1>6 DEF Owners
        <4>2. \A i \in DOMAIN free : free[i].id \in DOMAIN info /\ \A j \in Keys : map'[j] # free[i].id
          BY <1>1, <1>3 DEF Owners
        <4>3. QED
          BY <1>2, <2>2, <2>4, <4>1, <4>2
      <3>4. \A i, j \in DOMAIN free' : free'[i].id = free'[j].id => i = j
        <4>1. \A i \in DOMAIN free' : i = Len(free) + 1 \/ i \in DOMAIN free
          BY <1>1, <2>3
        <4>2. \A i \in DOMAIN free : free[i].id # e.id
          BY <2>2 DEF Owners
        <4>3. QED
          BY <1>1, <2>3, <4>1, <4>2 DEF Owners
      <3>5. ASSUME NEW n \in DOMAIN info'
            PROVE  (\E j \in Keys : map'[j] = n) \/ (\E i \in DOMAIN free' : free'[i].id = n)
        <4>1. CASE n = map[k]
          <5>1. Len(free) + 1 \in DOMAIN free' /\ free'[Len(free) + 1].id = n
            BY <1>1, <2>2, <2>3, <4>1
          <5>2. QED
            BY <5>1
        <4>2. CASE n # map[k] /\ \E j \in Keys : map[j] = n
          BY <1>3, <4>2
        <4>3. CASE \E i \in DOMAIN free : free[i].id = n
          <5>1. PICK i \in DOMAIN free : free[i].id = n
            BY <4>3
          <5>2. i \in DOMAIN free' /\ free'[i].id = n
            BY <1>1, <2>3, <5>1
          <5>3. QED
            BY <5>2
        <4>4. QED
          BY <1>2, <4>1, <4>2, <4>3 DEF Owners
      <3>6. QED
        BY <3>1, <3>2, <3>3, <3>4, <3>5 DEF Owners
    <2>6. NamesMove
      <3>1. e.freed > clock
        BY <1>0, <1>2, <2>2
      <3>2. QED
        BY <1>2, <2>4, <3>1 DEF NamesMove
    <2>7. generation + 1 <= clock'
      BY <1>0, <1>2 DEF Times
    <2>8. QED
      BY <1>3, <1>4, <1>6, <2>1, <2>3, <2>5, <2>6, <2>7 DEF Entries
  <1>7. QED
    BY <1>5, <1>6

---------------------------------------------------------------------------
(* What the threads remember.                                               *)

\* What a thread has cached for the current generation is what the interner says,
\* and so is what it has cached for the key of a callback under way, whatever was
\* destroyed since.  Its last id too, unless it was refused one.
Caches ==
    /\ \A t \in Threads, k \in Keys :
         codeGen[t] = generation /\ cache[t][k] # 0 => map[k] = cache[t][k]
    /\ \A c \in call :
         codeGen[c.thread] = c.gen /\ cache[c.thread][c.key] # 0 => map[c.key] = cache[c.thread][c.key]
    /\ \A t \in Threads \ refused :
         last[t].key # NotCached /\ codeGen[t] = generation
           => last[t].id # 0 /\ map[last[t].key] = last[t].id
    /\ \A t \in Threads : last[t].key # NotCached => last[t].id \in DOMAIN info

IdInv == IdTypes /\ Times /\ Calls /\ Objects /\ Owners /\ Caches /\ MisfiledOnlyAfterRefusal

\* The event that t files at k under id is under the name of k's code object, which
\* owns the id, unless the thread has filed one under another name.
Filing(t, k, id) ==
    t \in misfiled' \/ (id \in DOMAIN info' /\ info'[id] = at'[k] /\ map'[k] = id)

LEMMA LastTypes ==
  ASSUME IdTypes, NEW t \in Threads
  PROVE  last[t] \in [key : Keys \cup {NotCached}, id : Ids \cup {0}] /\ codeGen[t] \in 0..MaxTicks
         /\ cache[t] \in [Keys -> Ids \cup {0}]
  BY DEF IdTypes

LEMMA CallTypes ==
  ASSUME IdTypes, NEW c \in call
  PROVE  c.thread \in Threads /\ c.key \in Keys /\ c.ticks \in 1..MaxTicks /\ c.gen \in 0..MaxTicks
  BY DEF IdTypes

LEMMA CalledKeeps ==
  ASSUME IdTypes, Objects, Owners, NEW k \in Keys, CalledAt(k), UNCHANGED internerVars
  PROVE  Objects' /\ Owners' /\ NamesMove
  <1>1. map' = map /\ info' = info /\ free' = free
    BY DEF internerVars
  <1>2. Objects'
    BY <1>1, CalledAtFacts DEF Objects
  <1>3. \A j \in Keys : map[j] # 0 => map[j] \in DOMAIN info /\ info[map[j]] = at'[j]
    BY CalledAtFacts DEF Owners
  <1>4. Owners'
    BY <1>1, <1>3 DEF Owners
  <1>5. NamesMove
    BY <1>1 DEF NamesMove
  <1>6. QED
    BY <1>2, <1>4, <1>5

LEMMA IdsStay ==
  ASSUME IdInv, UNCHANGED <<objectVars, internerVars, generation, cacheVars, call, refused, misfiled>>,
         clock <= clock', clock' \in 0..MaxTicks,
         floor' \in 0..MaxTicks, floor' <= clock', now' \in Nat, now' <= clock'
  PROVE  IdInv' /\ NamesMove
  <1> USE DEF IdInv, objectVars, internerVars, cacheVars
  <1>1. IdTypes'
    BY DEF IdTypes
  <1>2. Times'
    <2>1. clock \in Nat /\ generation \in Nat /\ clock' \in Nat /\ \A c \in call : c.ticks \in Nat
      BY CallTypes DEF IdTypes
    <2>2. QED
      BY <2>1 DEF Times
  <1>3. Calls' /\ Objects' /\ Owners' /\ Caches' /\ MisfiledOnlyAfterRefusal' /\ NamesMove
    BY DEF Calls, Objects, Owners, Caches, MisfiledOnlyAfterRefusal, NamesMove
  <1>4. QED
    BY <1>1, <1>2, <1>3

LEMMA DestroyKeeps ==
  ASSUME IdInv, NEW k \in Keys, Destroy(k), now' = now
  PROVE  IdInv' /\ NamesMove /\ clock' = clock + 1
  <1> USE DEF IdInv
  <1>1. /\ map' \in [Keys -> Ids \cup {0}] /\ at' \in [Keys -> Codes \cup {NoCode}]
        /\ free' \in Seq([id : Ids, freed : 1..MaxTicks])
        /\ \A j \in Keys : j # k => map'[j] = map[j] /\ at'[j] = at[j]
        /\ map[k] = 0 => map' = map /\ generation' = generation
        /\ generation' \in {generation, generation + 1} /\ generation' <= clock'
        /\ Objects' /\ Owners' /\ NamesMove
    BY DestroyFacts
  <1>2. /\ clock' = clock + 1 /\ clock' \in 0..MaxTicks /\ \A c \in call : c.key # k
        /\ UNCHANGED <<unborn, info, cache, codeGen, last, lookups, call, floor, refused, misfiled>>
        /\ map[k] # 0 => generation' = generation + 1
    <2>1. clock' = clock + 1 /\ clock' \in 0..MaxTicks
      BY IdsAssumption DEF Destroy, Tick, IdTypes
    <2>2. QED
      BY <2>1 DEF Destroy
  <1>3. /\ generation \in 0..MaxTicks /\ clock \in Nat /\ MaxTicks \in Nat
        /\ now \in Nat /\ now <= clock /\ floor \in Nat /\ floor <= clock
    BY IdsAssumption DEF IdTypes, Times
  <1>4. IdTypes'
    <2>1. generation' \in 0..MaxTicks
      BY <1>1, <1>2, <1>3
    <2>2. QED
      BY <1>1, <1>2, <2>1 DEF IdTypes
  <1>5. Times'
    <2>1. \A c \in call : c.ticks \in Nat /\ c.gen \in Nat
      BY CallTypes
    <2>2. \A t \in Threads : codeGen[t] \in Nat
      BY LastTypes
    <2>3. QED
      BY <1>1, <1>2, <1>3, <2>1, <2>2 DEF Times
  <1>6. Calls'
    BY <1>1, <1>2, CallTypes DEF Calls
  <1>7. Caches'
    <2>1. ASSUME NEW t \in Threads, NEW j \in Keys, codeGen'[t] = generation', cache'[t][j] # 0
          PROVE  map'[j] = cache'[t][j]
      <3>1. generation' = generation
        BY <1>1, <1>2, <1>3, <2>1, LastTypes DEF Times
      <3>2. map' = map
        BY <1>1, <1>2, <1>3, <3>1
      <3>3. QED
        BY <1>2, <2>1, <3>1, <3>2 DEF Caches
    <2>2. ASSUME NEW t \in Threads \ refused', last'[t].key # NotCached, codeGen'[t] = generation'
          PROVE  last'[t].id # 0 /\ map'[last'[t].key] = last'[t].id
      <3>1. generation' = generation
        BY <1>1, <1>2, <1>3, <2>2, LastTypes DEF Times
      <3>2. map' = map
        BY <1>1, <1>2, <1>3, <3>1
      <3>3. QED
        BY <1>2, <2>2, <3>1, <3>2 DEF Caches
    <2>3. \A c \in call' :
            codeGen'[c.thread] = c.gen /\ cache'[c.thread][c.key] # 0 => map'[c.key] = cache'[c.thread][c.key]
      BY <1>1, <1>2, CallTypes DEF Caches
    <2>4. \A t \in Threads : last'[t].key # NotCached => last'[t].id \in DOMAIN info'
      BY <1>2 DEF Caches
    <2>5. QED
      BY <2>1, <2>2, <2>3, <2>4 DEF Caches
  <1>8. QED
    BY <1>1, <1>2, <1>4, <1>5, <1>6, <1>7 DEF MisfiledOnlyAfterRefusal

LEMMA LookUpKeeps ==
  ASSUME IdInv, NEW t \in Threads, NEW k \in Keys, LookUpName(t, k), now' = now
  PROVE  IdInv' /\ NamesMove /\ clock' = clock + 1
  <1> USE DEF IdInv
  <1> DEFINE d == [thread |-> t, key |-> k, ticks |-> clock', gen |-> generation]
  <1>1. /\ CalledAt(k) /\ Idle(t) /\ call' = call \cup {d}
        /\ UNCHANGED <<map, info, free, generation, cache, codeGen, last, floor, refused, misfiled>>
    BY DEF LookUpName, internerVars, cacheVars
  <1>2. clock' = clock + 1 /\ clock' \in 1..MaxTicks /\ clock \in Nat
    BY IdsAssumption DEF LookUpName, Tick, IdTypes
  <1>3. Objects' /\ Owners' /\ NamesMove
    BY <1>1, CalledKeeps DEF internerVars
  <1>4. /\ at' \in [Keys -> Codes \cup {NoCode}] /\ unborn' \subseteq Codes /\ at'[k] \in Codes
        /\ \A j \in Keys : at[j] # NoCode => at'[j] = at[j]
    BY <1>1, CalledAtFacts
  <1>10. lookups' \in [Threads -> 0..NameRetries]
    <2>1. lookups[t] \in 0..NameRetries /\ lookups[t] > 0 /\ NameRetries \in Nat
      BY IdsAssumption DEF LookUpName, IdTypes
    <2>2. lookups[t] - 1 \in 0..NameRetries
      BY <2>1
    <2>3. QED
      BY <2>2 DEF LookUpName, IdTypes
  <1>5. IdTypes'
    <2>1. generation \in 0..MaxTicks
      BY DEF IdTypes
    <2>2. call' \subseteq [thread : Threads, key : Keys, ticks : 1..MaxTicks, gen : 0..MaxTicks]
      BY <1>1, <1>2, <2>1 DEF IdTypes
    <2>3. clock' \in 0..MaxTicks
      BY <1>2
    <2>4. QED
      BY <1>1, <1>4, <1>10, <2>2, <2>3 DEF IdTypes
  <1>6. Times'
    <2>1. \A c \in call : c.ticks \in Nat /\ c.gen \in Nat
      BY CallTypes
    <2>2. generation \in Nat /\ floor \in Nat /\ \A s \in Threads : codeGen[s] \in Nat
      BY LastTypes DEF IdTypes
    <2>3. \A c \in call' : c.ticks <= clock' /\ c.gen <= generation'
      BY <1>1, <1>2, <2>1, <2>2 DEF Times
    <2>4. QED
      BY <1>1, <1>2, <2>2, <2>3 DEF Times
  <1>7. Calls'
    BY <1>1, <1>4, IdsAssumption, CallTypes DEF Calls, Idle
  <1>8. Caches'
    BY <1>1, CallTypes DEF Caches
  <1>9. QED
    BY <1>1, <1>2, <1>3, <1>5, <1>6, <1>7, <1>8 DEF MisfiledOnlyAfterRefusal

LEMMA UseLastKeeps ==
  ASSUME IdInv, NEW t \in Threads, NEW k \in Keys, NEW id \in Ids, UseLast(t, k, Event(k, id)), now' = now
  PROVE  IdInv' /\ NamesMove /\ clock' = clock + 1 /\ Filing(t, k, id)
  <1> USE DEF IdInv
  <1>1. /\ CalledAt(k) /\ last[t].key = k /\ codeGen[t] = generation
        /\ UNCHANGED <<map, info, free, generation, cache, codeGen, last, lookups, call, floor, refused>>
    BY DEF UseLast, Hits, internerVars, cacheVars
  <1>2. clock' = clock + 1 /\ clock' \in 1..MaxTicks /\ clock \in Nat
    BY IdsAssumption DEF UseLast, Tick, IdTypes
  <1>3. id = last[t].id
    <2>1. Event(k, id).id = Event(k, last[t].id).id
      BY DEF UseLast
    <2>2. QED
      BY <2>1 DEF Event
  <1>4. misfiled' = IF info[id] = at'[k] THEN misfiled ELSE misfiled \cup {t}
    BY <1>1 DEF UseLast, Filed, Event
  <1>5. Objects' /\ Owners' /\ NamesMove
    BY <1>1, CalledKeeps DEF internerVars
  <1>6. /\ at' \in [Keys -> Codes \cup {NoCode}] /\ unborn' \subseteq Codes
        /\ \A j \in Keys : at[j] # NoCode => at'[j] = at[j]
        /\ \A n \in DOMAIN info : info[n] = at'[k] => map[k] = n
        /\ map[k] # 0 => at'[k] = at[k]
    BY <1>1, CalledAtFacts
  <1>7. id \in DOMAIN info
    BY <1>1, <1>3, IdsAssumption DEF Caches
  <1>8. t \notin refused => info[id] = at'[k]
    <2>1. SUFFICES ASSUME t \notin refused PROVE info[id] = at'[k]
      OBVIOUS
    <2>2. last[t].id # 0 /\ map[last[t].key] = last[t].id
      BY <1>1, <2>1, IdsAssumption DEF Caches
    <2>3. map[k] = id /\ map[k] # 0
      BY <1>1, <1>3, <2>2
    <2>4. QED
      BY <1>6, <2>3 DEF Owners
  <1>9. Filing(t, k, id)
    BY <1>1, <1>4, <1>6, <1>7 DEF Filing
  <1>10. IdTypes'
    BY <1>1, <1>2, <1>4, <1>6 DEF IdTypes
  <1>11. Times'
    <2>1. \A c \in call : c.ticks \in Nat /\ c.gen \in Nat
      BY CallTypes
    <2>2. generation \in Nat /\ floor \in Nat
      BY DEF IdTypes
    <2>3. QED
      BY <1>1, <1>2, <2>1, <2>2 DEF Times
  <1>12. Calls'
    BY <1>1, <1>6, CallTypes DEF Calls
  <1>13. Caches'
    BY <1>1 DEF Caches
  <1>14. MisfiledOnlyAfterRefusal'
    BY <1>1, <1>4, <1>8 DEF MisfiledOnlyAfterRefusal
  <1>15. QED
    BY <1>2, <1>5, <1>9, <1>10, <1>11, <1>12, <1>13, <1>14

\* A callback that goes on with the generation it has read, now or before it
\* looked up its thread's name.
Resolving(t, k, gen) ==
    /\ CalledAt(k)
    /\ UNCHANGED <<generation, floor>>
    /\ gen \in 0..MaxTicks /\ gen <= generation
    /\ codeGen[t] = gen /\ cache[t][k] # 0 => map[k] = cache[t][k]
    /\ clock <= clock' /\ clock' \in 0..MaxTicks /\ now' = now
    /\ call' \subseteq call /\ (\A c \in call' : c.thread # t)
    /\ lookups' \in [Threads -> 0..NameRetries]

\* What resolving leaves, whichever way it went.
LEMMA ResolvingFacts ==
  ASSUME IdInv, NEW t \in Threads, NEW k \in Keys, NEW gen, Resolving(t, k, gen),
         codeGen' = [codeGen EXCEPT ![t] = gen]
  PROVE  /\ codeGen' \in [Threads -> 0..MaxTicks] /\ Times' /\ Calls'
         /\ at' \in [Keys -> Codes \cup {NoCode}] /\ unborn' \subseteq Codes
         /\ clock' \in 0..MaxTicks /\ floor' \in 0..MaxTicks /\ generation' \in 0..MaxTicks
         /\ call' \subseteq [thread : Threads, key : Keys, ticks : 1..MaxTicks, gen : 0..MaxTicks]
         /\ codeGen'[t] = gen /\ \A s \in Threads : s # t => codeGen'[s] = codeGen[s]
  <1> USE DEF IdInv, Resolving
  <1>1. codeGen' \in [Threads -> 0..MaxTicks]
    BY DEF IdTypes
  <1>2. codeGen'[t] = gen /\ \A s \in Threads : s # t => codeGen'[s] = codeGen[s]
    BY DEF IdTypes
  <1>3. Times'
    <2>1. \A c \in call : c.ticks \in Nat /\ c.gen \in Nat
      BY CallTypes
    <2>2. generation \in Nat /\ floor \in Nat /\ clock \in Nat /\ clock' \in Nat
      BY DEF IdTypes
    <2>3. generation' <= clock' /\ floor' <= clock' /\ now' \in Nat /\ now' <= clock'
      BY <2>2 DEF Times
    <2>4. \A c \in call' : c.ticks <= clock' /\ c.gen <= generation'
      BY <2>1, <2>2 DEF Times
    <2>5. \A s \in Threads : codeGen'[s] <= generation'
      BY <1>2 DEF Times
    <2>6. QED
      BY <2>3, <2>4, <2>5 DEF Times
  <1>4. /\ at' \in [Keys -> Codes \cup {NoCode}] /\ unborn' \subseteq Codes
        /\ \A j \in Keys : at[j] # NoCode => at'[j] = at[j]
    BY CalledAtFacts
  <1>5. Calls'
    BY <1>4, CallTypes DEF Calls
  <1>6. QED
    BY <1>1, <1>2, <1>3, <1>4, <1>5 DEF IdTypes

LEMMA CachedFacts ==
  ASSUME IdTypes, NEW t \in Threads, NEW gen
  PROVE  /\ Cached(t, gen) \in [Keys -> Ids \cup {0}]
         /\ \A j \in Keys : Cached(t, gen)[j] # 0 => codeGen[t] = gen /\ Cached(t, gen)[j] = cache[t][j]
  BY DEF IdTypes, Cached, NothingCached

LEMMA ResolveKeeps ==
  ASSUME IdInv, NEW t \in Threads, NEW k \in Keys, NEW gen, NEW id \in Ids, Resolving(t, k, gen),
         ResolveTo(t, k, gen, id), Filed(t, Event(k, id)), refused' = refused
  PROVE  IdInv' /\ NamesMove /\ Filing(t, k, id)
  <1> USE DEF IdInv
  <1>0. codeGen' = [codeGen EXCEPT ![t] = gen] /\ UNCHANGED <<generation, floor>> /\ CalledAt(k)
    BY DEF ResolveTo, Resolving
  <1>1. /\ codeGen' \in [Threads -> 0..MaxTicks] /\ Times' /\ Calls'
        /\ at' \in [Keys -> Codes \cup {NoCode}] /\ unborn' \subseteq Codes
        /\ clock' \in 0..MaxTicks /\ floor' \in 0..MaxTicks /\ generation' \in 0..MaxTicks
        /\ call' \subseteq [thread : Threads, key : Keys, ticks : 1..MaxTicks, gen : 0..MaxTicks]
        /\ codeGen'[t] = gen /\ \A s \in Threads : s # t => codeGen'[s] = codeGen[s]
    BY <1>0, ResolvingFacts
  <1>2. /\ Intern(k, id)
        /\ \/ id = Cached(t, gen)[k] /\ cache' = [cache EXCEPT ![t] = Cached(t, gen)]
           \/ \E evicted \in SUBSET (Keys \ {k}) :
                cache' = [cache EXCEPT ![t] = Put(Cached(t, gen), k, id, evicted)]
    <2>1. CASE Cached(t, gen)[k] # 0
      <3>1. id = Cached(t, gen)[k] /\ cache' = [cache EXCEPT ![t] = Cached(t, gen)] /\ UNCHANGED internerVars
        BY <2>1 DEF ResolveTo
      <3>2. map[k] = id /\ id # 0
        BY <2>1, <3>1, CachedFacts DEF Resolving
      <3>3. QED
        BY <3>1, <3>2 DEF Intern
    <2>2. CASE Cached(t, gen)[k] = 0
      BY <2>2 DEF ResolveTo
    <2>3. QED
      BY <2>1, <2>2
  <1>3. /\ map' \in [Keys -> Ids \cup {0}] /\ map'[k] = id /\ id \in DOMAIN info'
        /\ info' \in Seq(Codes) /\ Len(info') <= Capacity
        /\ free' \in Seq([id : Ids, freed : 1..MaxTicks])
        /\ \A j \in Keys : map[j] # 0 => map'[j] = map[j]
        /\ Objects' /\ Owners' /\ NamesMove
    BY <1>0, <1>2, InternFacts
  <1>4. /\ cache' \in [Threads -> [Keys -> Ids \cup {0}]]
        /\ \A s \in Threads : s # t => cache'[s] = cache[s]
        /\ \A j \in Keys : cache'[t][j] # 0 =>
             (j = k /\ cache'[t][j] = id) \/ (codeGen[t] = gen /\ cache'[t][j] = cache[t][j])
    <2>1. PICK new \in [Keys -> Ids \cup {0}] :
            /\ cache' = [cache EXCEPT ![t] = new]
            /\ \A j \in Keys : new[j] # 0 => (j = k /\ new[j] = id) \/ new[j] = Cached(t, gen)[j]
      <3>1. CASE cache' = [cache EXCEPT ![t] = Cached(t, gen)]
        BY <3>1, CachedFacts
      <3>2. ASSUME NEW evicted \in SUBSET (Keys \ {k}), cache' = [cache EXCEPT ![t] = Put(Cached(t, gen), k, id, evicted)]
            PROVE  Put(Cached(t, gen), k, id, evicted) \in [Keys -> Ids \cup {0}]
                   /\ \A j \in Keys : Put(Cached(t, gen), k, id, evicted)[j] # 0 =>
                        (j = k /\ Put(Cached(t, gen), k, id, evicted)[j] = id)
                          \/ Put(Cached(t, gen), k, id, evicted)[j] = Cached(t, gen)[j]
        BY CachedFacts DEF Put
      <3>3. QED
        BY <1>2, <3>1, <3>2
    <2>2. cache \in [Threads -> [Keys -> Ids \cup {0}]]
      BY DEF IdTypes
    <2>3. cache'[t] = new /\ cache' \in [Threads -> [Keys -> Ids \cup {0}]]
          /\ \A s \in Threads : s # t => cache'[s] = cache[s]
      BY <2>1, <2>2
    <2>4. QED
      BY <2>1, <2>3, CachedFacts
  <1>5. info'[id] = at'[k]
    <2>1. id # 0
      BY DEF Ids
    <2>2. QED
      BY <1>3, <2>1 DEF Owners
  <1>6. misfiled' = misfiled
    BY <1>5 DEF Filed, Event
  <1>7. /\ last' \in [Threads -> [key : Keys \cup {NotCached}, id : Ids \cup {0}]]
        /\ last'[t].id = id /\ last'[t].key \in {k, NotCached}
        /\ \A s \in Threads : s # t => last'[s] = last[s]
    BY DEF ResolveTo, IdTypes
  <1>8. IdTypes'
    BY <1>1, <1>3, <1>4, <1>6, <1>7 DEF IdTypes, Resolving
  <1>9. Caches'
    <2>1. ASSUME NEW s \in Threads, NEW j \in Keys, codeGen'[s] = generation', cache'[s][j] # 0
          PROVE  map'[j] = cache'[s][j]
      <3>1. CASE s # t
        <4>1. map[j] = cache[s][j] /\ cache[s][j] # 0
          BY <1>0, <1>1, <1>4, <2>1, <3>1 DEF Caches
        <4>2. QED
          BY <1>3, <1>4, <3>1, <4>1
      <3>2. CASE s = t /\ j = k /\ cache'[t][j] = id
        BY <1>3, <3>2
      <3>3. CASE s = t /\ codeGen[t] = gen /\ cache'[t][j] = cache[t][j]
        <4>1. map[j] = cache[t][j] /\ map[j] # 0
          BY <1>0, <1>1, <2>1, <3>3 DEF Caches
        <4>2. QED
          BY <1>3, <3>3, <4>1
      <3>4. QED
        BY <1>4, <2>1, <3>1, <3>2, <3>3
    <2>2. ASSUME NEW c \in call', codeGen'[c.thread] = c.gen, cache'[c.thread][c.key] # 0
          PROVE  map'[c.key] = cache'[c.thread][c.key]
      <3>1. c \in call /\ c.thread # t /\ c.thread \in Threads /\ c.key \in Keys
        BY CallTypes DEF Resolving
      <3>2. map[c.key] = cache[c.thread][c.key] /\ map[c.key] # 0 /\ cache'[c.thread] = cache[c.thread]
        BY <1>1, <1>4, <2>2, <3>1 DEF Caches
      <3>3. QED
        BY <1>3, <3>1, <3>2
    <2>3. ASSUME NEW s \in Threads \ refused', last'[s].key # NotCached, codeGen'[s] = generation'
          PROVE  last'[s].id # 0 /\ map'[last'[s].key] = last'[s].id
      <3>1. CASE s = t
        <4>1. id # 0
          BY DEF Ids
        <4>2. QED
          BY <1>3, <1>7, <2>3, <3>1, <4>1
      <3>2. CASE s # t
        <4>1. last'[s] = last[s] /\ last[s].id # 0 /\ map[last[s].key] = last[s].id
          BY <1>0, <1>1, <1>7, <2>3, <3>2 DEF Caches
        <4>2. last[s].key \in Keys
          BY <2>3, <4>1, LastTypes
        <4>3. QED
          BY <1>3, <4>1, <4>2
      <3>3. QED
        BY <3>1, <3>2
    <2>4. ASSUME NEW s \in Threads, last'[s].key # NotCached PROVE last'[s].id \in DOMAIN info'
      <3>1. CASE s = t
        BY <1>3, <1>7, <3>1
      <3>2. CASE s # t
        BY <1>3, <1>7, <2>4, <3>2 DEF Caches, NamesMove
      <3>3. QED
        BY <3>1, <3>2
    <2>5. QED
      BY <2>1, <2>2, <2>3, <2>4 DEF Caches
  <1>10. QED
    BY <1>1, <1>3, <1>5, <1>6, <1>8, <1>9 DEF Filing, MisfiledOnlyAfterRefusal

LEMMA RefusalKeeps ==
  ASSUME IdInv, NEW t \in Threads, NEW k \in Keys, NEW gen, Resolving(t, k, gen), ResolveToNone(t, k, gen)
  PROVE  IdInv' /\ NamesMove
  <1> USE DEF IdInv
  <1>0. /\ codeGen' = [codeGen EXCEPT ![t] = gen] /\ cache' = [cache EXCEPT ![t] = Cached(t, gen)]
        /\ refused' = refused \cup {t}
        /\ UNCHANGED <<map, info, free, generation, floor, last, misfiled>> /\ CalledAt(k)
    BY DEF ResolveToNone, Resolving, internerVars
  <1>1. /\ codeGen' \in [Threads -> 0..MaxTicks] /\ Times' /\ Calls'
        /\ at' \in [Keys -> Codes \cup {NoCode}] /\ unborn' \subseteq Codes
        /\ clock' \in 0..MaxTicks /\ floor' \in 0..MaxTicks /\ generation' \in 0..MaxTicks
        /\ call' \subseteq [thread : Threads, key : Keys, ticks : 1..MaxTicks, gen : 0..MaxTicks]
        /\ codeGen'[t] = gen /\ \A s \in Threads : s # t => codeGen'[s] = codeGen[s]
    BY <1>0, ResolvingFacts
  <1>2. Objects' /\ Owners' /\ NamesMove
    BY <1>0, CalledKeeps DEF internerVars
  <1>3. /\ cache' \in [Threads -> [Keys -> Ids \cup {0}]]
        /\ \A s \in Threads : s # t => cache'[s] = cache[s]
        /\ \A j \in Keys : cache'[t][j] # 0 => codeGen[t] = gen /\ cache'[t][j] = cache[t][j]
    BY <1>0, CachedFacts DEF IdTypes
  <1>4. IdTypes'
    BY <1>0, <1>1, <1>3 DEF IdTypes, Resolving
  <1>5. Caches'
    <2>1. ASSUME NEW s \in Threads, NEW j \in Keys, codeGen'[s] = generation', cache'[s][j] # 0
          PROVE  map'[j] = cache'[s][j]
      BY <1>0, <1>1, <1>3, <2>1 DEF Caches
    <2>2. ASSUME NEW c \in call', codeGen'[c.thread] = c.gen, cache'[c.thread][c.key] # 0
          PROVE  map'[c.key] = cache'[c.thread][c.key]
      <3>1. c \in call /\ c.thread # t /\ c.thread \in Threads /\ c.key \in Keys
        BY CallTypes DEF Resolving
      <3>2. QED
        BY <1>0, <1>1, <1>3, <2>2, <3>1 DEF Caches
    <2>3. ASSUME NEW s \in Threads \ refused', last'[s].key # NotCached, codeGen'[s] = generation'
          PROVE  last'[s].id # 0 /\ map'[last'[s].key] = last'[s].id
      <3>1. s # t /\ s \in Threads \ refused
        BY <1>0
      <3>2. QED
        BY <1>0, <1>1, <2>3, <3>1 DEF Caches
    <2>4. \A s \in Threads : last'[s].key # NotCached => last'[s].id \in DOMAIN info'
      BY <1>0 DEF Caches
    <2>5. QED
      BY <2>1, <2>2, <2>3, <2>4 DEF Caches
  <1>6. QED
    BY <1>0, <1>1, <1>2, <1>4, <1>5 DEF MisfiledOnlyAfterRefusal

---------------------------------------------------------------------------
(* What a dump may yet name.                                                *)

\* A thread whose events are promised their names.
Tracked(b) == b.tid \notin misfiled \cup overlooked

\* An event has its name, and if its code object is gone its id is not for reuse yet.
Held(e, base) ==
    /\ e.id \in DOMAIN info /\ info[e.id] = e.code
    /\ \A j \in DOMAIN free : free[j].id = e.id => floor <= free[j].freed /\ base <= free[j].freed

Kept(b) ==
    /\ b.base <= clock
    /\ Tracked(b) => \A i \in DOMAIN b.events : Held(b.events[i], b.base)

\* The floor that is being taken will not be above the end of the event's code object.
Seen(e) ==
    \A j \in DOMAIN free :
      free[j].id = e.id => now <= free[j].freed \/ \E x \in tails : x.base <= free[j].freed

Counted(b) == Tracked(b) => \A i \in DOMAIN b.events : Seen(b.events[i])

\* The pass has yet to come by the batch of a thread, or by its ring.
BatchComes(t) ==
    \/ phase = "tails" /\ t \in left
    \/ life[t] = "forgotten" /\ (phase = "tails" \/ t \in left)

RingComes(t) == phase = "tails" \/ t \in left

InBatch ==
    \A t \in Threads : \A i \in DOMAIN batch[t] :
      /\ batch[t][i].tid = t /\ Kept(batch[t][i])
      /\ phase # "idle" /\ ~BatchComes(t) => Counted(batch[t][i])

InRing ==
    \A t \in Threads : \A i \in DOMAIN rings[t] :
      /\ rings[t][i].tid = t /\ Kept(rings[t][i])
      /\ phase # "idle" /\ ~RingComes(t) => Counted(rings[t][i])

InHistory == \A i \in DOMAIN history : Kept(history[i])

Places == InBatch /\ InRing /\ InHistory

Lives ==
    /\ \A c \in call : life[c.thread] = "alive"
    /\ \A t \in Threads : life[t] = "exited" => batch[t] = <<>>
    /\ phase = "tails" => left \subseteq Registered

Types == QueueTypes /\ RecorderTypes

IInv == IdInv /\ Types /\ Lives /\ Places

\* A step of the code objects or of a callback, seen from a batch.
Onward ==
    /\ NamesMove /\ clock <= clock' /\ floor' = floor
    /\ misfiled \subseteq misfiled' /\ overlooked \subseteq overlooked'

LEMMA BatchTypes ==
  ASSUME NEW b \in Batches
  PROVE  /\ b.tid \in Threads /\ b.base \in 1..MaxTicks /\ b.base \in Nat
         /\ b.events \in Seq([id : Ids, code : Codes])
         /\ DOMAIN b.events = 1..Len(b.events) /\ Len(b.events) \in Nat
         /\ \A i \in DOMAIN b.events : b.events[i] \in [id : Ids, code : Codes]
  <1>1. /\ b.tid \in Threads /\ b.base \in 1..MaxTicks /\ b.base \in Nat
        /\ b.events \in Seq([id : Ids, code : Codes])
    BY DEF Batches
  <1>2. QED
    BY <1>1, LenProperties, ElementOfSeq

LEMMA TickTypes ==
  ASSUME IdInv
  PROVE  /\ clock \in Nat /\ floor \in Nat /\ now \in Nat /\ floor <= clock /\ now <= clock
         /\ \A j \in DOMAIN free : free[j].freed \in Nat
  BY FreeEntries DEF IdInv, IdTypes, Times

LEMMA FreedLater ==
  ASSUME IdInv'
  PROVE  \A j \in DOMAIN free' : free'[j].freed \in Nat
  <1>1. free' \in Seq([id : Ids, freed : 1..MaxTicks])
    BY DEF IdInv, IdTypes
  <1>2. ASSUME NEW S, NEW s \in Seq(S) PROVE \A j \in DOMAIN s : s[j] \in S
    BY LenProperties, ElementOfSeq
  <1>3. \A j \in DOMAIN free' : free'[j] \in [id : Ids, freed : 1..MaxTicks]
    BY <1>1, <1>2
  <1>4. QED
    BY <1>3

LEMMA KeptStays ==
  ASSUME IdInv, IdInv', Onward
  PROVE  \A b \in Batches : Kept(b) => Kept(b)'
  <1>1. SUFFICES ASSUME NEW b \in Batches, Kept(b) PROVE Kept(b)'
    OBVIOUS
  <1>2. /\ clock \in Nat /\ clock' \in Nat /\ floor \in Nat /\ floor <= clock /\ clock <= clock' /\ floor' = floor
        /\ \A j \in DOMAIN free : free[j].freed \in Nat
    <2>1. clock' \in Nat
      BY DEF IdInv, IdTypes
    <2>2. QED
      BY <2>1, TickTypes DEF Onward
  <1>8. \A j \in DOMAIN free' : free'[j].freed \in Nat
    BY FreedLater
  <1>3. b.base \in Nat /\ b.base <= clock
    BY <1>1, BatchTypes DEF Kept
  <1>4. ASSUME NEW e, Held(e, b.base) PROVE Held(e, b.base)'
    <2>1. e.id \in DOMAIN info' /\ info'[e.id] = e.code
      <3>1. ~ \E i \in DOMAIN free : free[i].id = e.id /\ free[i].freed < floor
        BY <1>2, <1>4 DEF Held
      <3>2. QED
        BY <1>4, <3>1 DEF Held, Onward, NamesMove
    <2>2. ASSUME NEW j \in DOMAIN free', free'[j].id = e.id
          PROVE  floor' <= free'[j].freed /\ b.base <= free'[j].freed
      <3>1. CASE free'[j].freed > clock
        BY <1>2, <1>3, <1>8, <3>1
      <3>2. CASE \E i \in DOMAIN free : free[i] = free'[j]
        BY <1>2, <1>4, <2>2, <3>2 DEF Held
      <3>3. QED
        BY <3>1, <3>2 DEF Onward, NamesMove
    <2>3. QED
      BY <2>1, <2>2 DEF Held
  <1>5. Tracked(b)' => Tracked(b)
    BY DEF Tracked, Onward
  <1>6. b.base <= clock'
    BY <1>2, <1>3
  <1>7. QED
    BY <1>1, <1>4, <1>5, <1>6 DEF Kept

LEMMA CountedStays ==
  ASSUME IdInv, IdInv', Onward, now' = now, tails \subseteq tails'
  PROVE  \A b \in Batches : Counted(b) => Counted(b)'
  <1>1. SUFFICES ASSUME NEW b \in Batches, Counted(b) PROVE Counted(b)'
    OBVIOUS
  <1>2. ASSUME NEW e, Seen(e) PROVE Seen(e)'
    <2>1. SUFFICES ASSUME NEW j \in DOMAIN free', free'[j].id = e.id, ~(now' <= free'[j].freed)
                   PROVE  \E x \in tails' : x.base <= free'[j].freed
      BY DEF Seen
    <2>2. PICK i \in DOMAIN free : free[i] = free'[j]
      <3>1. ~(free'[j].freed > clock)
        BY <2>1, TickTypes, FreedLater
      <3>2. QED
        BY <3>1 DEF Onward, NamesMove
    <2>3. PICK x \in tails : x.base <= free[i].freed
      BY <1>2, <2>1, <2>2 DEF Seen
    <2>4. QED
      BY <2>2, <2>3
  <1>3. Tracked(b)' => Tracked(b)
    BY DEF Tracked, Onward
  <1>4. QED
    BY <1>1, <1>2, <1>3 DEF Counted

LEMMA PlaceTypes ==
  ASSUME Types
  PROVE  /\ \A t \in Threads : \A i \in DOMAIN batch[t] : i = 1 /\ batch[t][i] \in Batches
         /\ \A t \in Threads : batch[t] \in Seq(Batches) /\ (batch[t] = <<>> \/ DOMAIN batch[t] = 1..1)
         /\ \A t \in Threads : rings[t] \in Seq(Batches)
         /\ \A t \in Threads : \A i \in DOMAIN rings[t] : rings[t][i] \in Batches
         /\ \A i \in DOMAIN history : history[i] \in Batches
  <1>1. \A t \in Threads : batch[t] \in Seq(Batches) /\ Len(batch[t]) <= 1 /\ rings[t] \in Seq(Batches)
    BY DEF Types, QueueTypes
  <1>2. ASSUME NEW t \in Threads PROVE batch[t] = <<>> \/ DOMAIN batch[t] = 1..1
    <2>1. Len(batch[t]) \in Nat /\ DOMAIN batch[t] = 1..Len(batch[t])
      BY <1>1, LenProperties
    <2>2. Len(batch[t]) = 0 \/ Len(batch[t]) = 1
      <3>1. Len(batch[t]) <= 1
        BY <1>1
      <3>2. \A n \in Nat : n <= 1 => n = 0 \/ n = 1
        OBVIOUS
      <3>3. QED
        BY <2>1, <3>1, <3>2, Zenon
    <2>3. QED
      BY <1>1, <2>1, <2>2, EmptySeq
  <1>3. \A t \in Threads : \A i \in DOMAIN batch[t] : i = 1 /\ batch[t][i] \in Batches
    BY <1>1, <1>2, ElementOfSeq
  <1>4. \A t \in Threads : \A i \in DOMAIN rings[t] : rings[t][i] \in Batches
    BY <1>1, ElementOfSeq
  <1>5. \A i \in DOMAIN history : history[i] \in Batches
    BY ElementOfSeq DEF Types, RecorderTypes
  <1>6. QED
    BY <1>1, <1>2, <1>3, <1>4, <1>5

\* A step that moves no batch and leaves the recorder where it is.
LEMMA NothingMoves ==
  ASSUME IInv, IdInv', Onward, UNCHANGED <<queueVars, recorderVars, life>>
  PROVE  Places'
  <1> USE DEF IInv, queueVars, recorderVars
  <1>1. \A b \in Batches : (Kept(b) => Kept(b)') /\ (Counted(b) => Counted(b)')
    BY KeptStays, CountedStays
  <1>2. InBatch'
    BY <1>1, PlaceTypes DEF Places, InBatch, BatchComes
  <1>3. InRing'
    BY <1>1, PlaceTypes DEF Places, InRing, RingComes
  <1>4. InHistory'
    BY <1>1, PlaceTypes DEF Places, InHistory
  <1>5. QED
    BY <1>2, <1>3, <1>4 DEF Places

LEMMA ConcatElements ==
  ASSUME NEW S, NEW s \in Seq(S), NEW r \in Seq(S)
  PROVE  /\ s \o r \in Seq(S) /\ Len(s \o r) = Len(s) + Len(r)
         /\ \A i \in DOMAIN (s \o r) : \/ \E j \in DOMAIN s : (s \o r)[i] = s[j]
                                     \/ \E j \in DOMAIN r : (s \o r)[i] = r[j]
  <1>1. PICK n \in Nat, m \in Nat : n = Len(s) /\ m = Len(r) /\ DOMAIN s = 1..n /\ DOMAIN r = 1..m
    BY LenProperties
  <1>2. /\ s \o r \in Seq(S) /\ Len(s \o r) = n + m
        /\ \A i \in 1..(n + m) : (s \o r)[i] = IF i <= n THEN s[i] ELSE r[i - n]
    BY <1>1, ConcatProperties
  <1>3. DOMAIN (s \o r) = 1..(n + m)
    BY <1>2, LenProperties
  <1>4. ASSUME NEW i \in 1..(n + m)
        PROVE  (\E j \in 1..n : (s \o r)[i] = s[j]) \/ (\E j \in 1..m : (s \o r)[i] = r[j])
    <2>1. i <= n => i \in 1..n
      OBVIOUS
    <2>2. ~(i <= n) => i - n \in 1..m
      OBVIOUS
    <2>3. QED
      BY <1>2, <2>1, <2>2
  <1>5. QED
    BY <1>1, <1>2, <1>3, <1>4

\* What a batch that is shipped leaves in its thread's ring.
LEMMA ShippedFacts ==
  ASSUME Types, NEW t \in Threads
  PROVE  /\ Shipped(t) \in [Threads -> Seq(Batches)]
         /\ \A s \in Threads : Len(Shipped(t)[s]) <= RingCap
         /\ \A s \in Threads : s # t => Shipped(t)[s] = rings[s]
         /\ \A i \in DOMAIN Shipped(t)[t] :
              \/ \E j \in DOMAIN rings[t] : Shipped(t)[t][i] = rings[t][j]
              \/ \E j \in DOMAIN batch[t] : Shipped(t)[t][i] = batch[t][j]
  <1>1. /\ rings \in [Threads -> Seq(Batches)] /\ \A s \in Threads : Len(rings[s]) <= RingCap
        /\ batch[t] \in Seq(Batches) /\ Len(batch[t]) <= 1
    BY DEF Types, QueueTypes
  <1>2. CASE ~RoomFor(t)
    BY <1>1, <1>2 DEF Shipped
  <1>3. CASE RoomFor(t)
    <2> DEFINE all == rings[t] \o batch[t]
    <2>1. /\ all \in Seq(Batches) /\ Len(all) = Len(rings[t]) + Len(batch[t])
          /\ \A i \in DOMAIN all : \/ \E j \in DOMAIN rings[t] : all[i] = rings[t][j]
                                  \/ \E j \in DOMAIN batch[t] : all[i] = batch[t][j]
      BY <1>1, ConcatElements
    <2> HIDE DEF all
    <2>2. Len(all) <= RingCap
      <3>1. PICK n \in Nat, m \in Nat : n = Len(rings[t]) /\ m = Len(batch[t])
        BY <1>1, LenProperties
      <3>2. n < RingCap /\ m <= 1 /\ RingCap \in Nat
        BY <1>1, <1>3, <3>1, RecyclingAssumption DEF RoomFor
      <3>3. n + m <= RingCap
        BY <3>2
      <3>4. Len(all) = n + m
        BY <2>1, <3>1, Zenon
      <3>5. QED
        BY <3>3, <3>4, Zenon
    <2>3. Shipped(t) = [rings EXCEPT ![t] = all]
      BY <1>3 DEF Shipped, all
    <2>4. QED
      BY <1>1, <2>1, <2>2, <2>3
  <1>4. QED
    BY <1>2, <1>3

LEMMA PushKeeps ==
  ASSUME IInv, IdInv', Onward,
         NEW t \in Threads, NEW k \in Keys, NEW id \in Ids, NEW ticks \in 1..MaxTicks,
         Filing(t, k, id), at'[k] \in Codes, Push(t, ticks, Event(k, id)), ticks <= clock',
         life[t] = "alive", \A c \in call' : life[c.thread] = "alive",
         UNCHANGED <<recorderVars, life, overlooked>>
  PROVE  IInv'
  <1> USE DEF IInv, recorderVars
  <1>1. PICK ev \in [id : Ids, code : Codes] : ev = Event(k, id)
    BY DEF Event
  <1>2. t \notin misfiled' => Seen(ev)' /\ \A base \in Nat : Held(ev, base)'
    <2>1. SUFFICES ASSUME t \notin misfiled' PROVE Seen(ev)' /\ \A base \in Nat : Held(ev, base)'
      OBVIOUS
    <2>2. ev.id \in DOMAIN info' /\ info'[ev.id] = ev.code /\ \A j \in DOMAIN free' : free'[j].id # ev.id
      BY <1>1, <2>1 DEF Filing, Event, Owners, IdInv
    <2>3. QED
      BY <2>2 DEF Seen, Held
  <1>3. \A b \in Batches : (Kept(b) => Kept(b)') /\ (Counted(b) => Counted(b)')
    BY KeptStays, CountedStays
  <1>4. /\ \A s \in Threads : \A i \in DOMAIN batch[s] : i = 1 /\ batch[s][i] \in Batches
        /\ batch \in [Threads -> Seq(Batches)] /\ rings \in [Threads -> Seq(Batches)]
        /\ \A s \in Threads : Len(batch[s]) <= 1 /\ Len(rings[s]) <= RingCap
        /\ \A s \in Threads : \A i \in DOMAIN rings[s] : rings[s][i] \in Batches
        /\ \A i \in DOMAIN history : history[i] \in Batches
    BY PlaceTypes DEF Types, QueueTypes
  <1>5. clock \in Nat /\ clock' \in Nat /\ clock <= clock'
    BY TickTypes DEF Onward, IdTypes, IdInv
  <1>6. PICK b \in Batches :
          /\ batch' = [batch EXCEPT ![t] = <<b>>] /\ b.tid = t /\ Kept(b)'
          /\ phase # "idle" /\ ~BatchComes(t) => Counted(b)'
    <2>1. CASE batch[t] # <<>> /\ batch' = [batch EXCEPT ![t] = <<[batch[t][1] EXCEPT !.events = Append(@, ev)]>>]
      <3>1. DOMAIN batch[t] = 1..1
        BY <2>1, PlaceTypes
      <3>2. PICK old \in Batches : old = batch[t][1]
        BY <1>4, <3>1
      <3>3. old.tid = t /\ Kept(old)' /\ (phase # "idle" /\ ~BatchComes(t) => Counted(old)')
        BY <1>3, <3>1, <3>2 DEF Places, InBatch
      <3> DEFINE b == [old EXCEPT !.events = Append(old.events, ev)]
      <3>4. /\ old.events \in Seq([id : Ids, code : Codes]) /\ DOMAIN old.events = 1..Len(old.events)
            /\ Len(old.events) \in Nat /\ old.base \in Nat
        BY BatchTypes
      <3>5. b \in Batches /\ b.tid = t /\ b.base = old.base /\ b.events = Append(old.events, ev)
        BY <3>3, <3>4, AppendProperties DEF Batches
      <3>6. \A i \in DOMAIN b.events : b.events[i] = ev \/ (i \in DOMAIN old.events /\ b.events[i] = old.events[i])
        BY <3>4, <3>5, AppendProperties, LenProperties
      <3>7. batch' = [batch EXCEPT ![t] = <<b>>]
        BY <2>1, <3>2
      <3> HIDE DEF b
      <3>8. Kept(b)'
        BY <1>2, <3>3, <3>4, <3>5, <3>6 DEF Kept, Tracked
      <3>9. phase # "idle" /\ ~BatchComes(t) => Counted(b)'
        BY <1>2, <3>3, <3>5, <3>6 DEF Counted, Tracked
      <3>10. QED
        BY <3>5, <3>7, <3>8, <3>9
    <2>2. CASE batch' = [batch EXCEPT ![t] = NewBatch(t, ticks, ev)]
      <3> DEFINE b == [tid |-> t, base |-> ticks, events |-> <<ev>>]
      <3>1. b \in Batches /\ b.tid = t /\ b.base = ticks /\ b.events = <<ev>>
        BY DEF Batches
      <3>2. batch' = [batch EXCEPT ![t] = <<b>>]
        BY <2>2 DEF NewBatch
      <3>3. \A i \in DOMAIN b.events : b.events[i] = ev
        BY <3>1
      <3> HIDE DEF b
      <3>4. Kept(b)'
        BY <1>2, <3>1, <3>3 DEF Kept, Tracked
      <3>5. Counted(b)'
        BY <1>2, <3>1, <3>3 DEF Counted, Tracked
      <3>6. QED
        BY <3>1, <3>2, <3>4, <3>5
    <2>3. QED
      BY <1>1, <2>1, <2>2 DEF Push
  <1>7. /\ batch'[t] = <<b>> /\ batch' \in [Threads -> Seq(Batches)]
        /\ \A s \in Threads : s # t => batch'[s] = batch[s]
    BY <1>4, <1>6
  <1>8. rings' = rings \/ rings' = Shipped(t)
    BY DEF Push
  <1>9. /\ rings' \in [Threads -> Seq(Batches)] /\ \A s \in Threads : Len(rings'[s]) <= RingCap
        /\ \A s \in Threads : s # t => rings'[s] = rings[s]
        /\ \A i \in DOMAIN rings'[t] : \/ \E j \in DOMAIN rings[t] : rings'[t][i] = rings[t][j]
                                       \/ \E j \in DOMAIN batch[t] : rings'[t][i] = batch[t][j]
    BY <1>4, <1>8, ShippedFacts
  <1>10. Types'
    <2>1. Len(<<b>>) <= 1
      OBVIOUS
    <2>3. ASSUME NEW s \in Threads PROVE Len(batch'[s]) <= 1
      <3>1. CASE s = t
        BY <1>7, <2>1, <3>1
      <3>2. CASE s # t
        BY <1>4, <1>7, <3>2
      <3>3. QED
        BY <3>1, <3>2
    <2>2. QED
      BY <1>7, <1>9, <2>3 DEF Types, QueueTypes, RecorderTypes
  <1>11. Lives'
    <2>1. \A s \in Threads : life'[s] = "exited" => batch'[s] = <<>>
      BY <1>7 DEF Lives
    <2>2. \A s \in Threads : s \in Registered => s \in Registered'
      <3>1. <<b>> # <<>>
        OBVIOUS
      <3>2. QED
        BY <1>7, <3>1 DEF Registered
    <2>3. QED
      BY <2>1, <2>2 DEF Lives, Types, RecorderTypes
  <1>12. InBatch'
    <2>1. ASSUME NEW s \in Threads, NEW i \in DOMAIN batch'[s], NEW c, c = batch'[s][i]
          PROVE  /\ c.tid = s /\ Kept(c)'
                 /\ phase # "idle" /\ ~BatchComes(s) => Counted(c)'
      <3>1. CASE s = t
        BY <1>6, <1>7, <2>1, <3>1
      <3>2. CASE s # t
        BY <1>3, <1>4, <1>7, <2>1, <3>2 DEF Places, InBatch
      <3>3. QED
        BY <3>1, <3>2
    <2>2. QED
      BY <2>1 DEF InBatch, BatchComes
  <1>13. InRing'
    <2>1. ASSUME NEW s \in Threads, NEW i \in DOMAIN rings'[s], NEW c, c = rings'[s][i]
          PROVE  /\ c.tid = s /\ Kept(c)'
                 /\ phase # "idle" /\ ~RingComes(s) => Counted(c)'
      <3>1. CASE \E j \in DOMAIN rings[s] : rings'[s][i] = rings[s][j]
        BY <1>3, <1>4, <2>1, <3>1 DEF Places, InRing
      <3>2. CASE s = t /\ \E j \in DOMAIN batch[t] : rings'[t][i] = batch[t][j]
        BY <1>3, <1>4, <2>1, <3>2 DEF Places, InBatch, BatchComes, RingComes
      <3>3. QED
        BY <1>9, <2>1, <3>1, <3>2
    <2>2. QED
      BY <2>1 DEF InRing, RingComes
  <1>14. InHistory'
    BY <1>3, <1>4 DEF Places, InHistory
  <1>15. QED
    BY <1>10, <1>11, <1>12, <1>13, <1>14 DEF Places

---------------------------------------------------------------------------
(* Exits and the recorder.                                                  *)

LEMMA IdsRest ==
  ASSUME IdInv, UNCHANGED idVars, now' = now, overlooked \subseteq overlooked'
  PROVE  IdInv' /\ Onward
  <1>1. IdInv' /\ NamesMove
    BY IdsStay, TickTypes DEF idVars, objectVars, internerVars, cacheVars, IdInv, IdTypes
  <1>2. QED
    BY <1>1, TickTypes DEF idVars, Onward

LEMMA ForgetKeeps ==
  ASSUME IInv, NEW t \in Threads, Forget(t)
  PROVE  IInv'
  <1> USE DEF IInv
  <1>1. /\ life[t] = "alive" /\ phase # "tails" /\ Idle(t) /\ life' = [life EXCEPT ![t] = "forgotten"]
        /\ UNCHANGED <<idVars, batch, rings, history, phase, now, left, tails, overlooked>>
    BY DEF Forget, RecordersFree, queueVars, recorderVars
  <1>2. IdInv' /\ Onward
    BY <1>1, IdsRest
  <1>3. \A b \in Batches : (Kept(b) => Kept(b)') /\ (Counted(b) => Counted(b)')
    BY <1>1, <1>2, KeptStays, CountedStays
  <1>4. life'[t] = "forgotten" /\ \A s \in Threads : s # t => life'[s] = life[s]
    BY <1>1 DEF Types, QueueTypes
  <1>5. Types'
    BY <1>1 DEF Types, QueueTypes, RecorderTypes
  <1>6. Lives'
    <2>1. \A c \in call' : life'[c.thread] = "alive"
      BY <1>1, <1>4, CallTypes DEF Lives, Idle, idVars, IdInv
    <2>2. QED
      BY <1>1, <1>4, <2>1 DEF Lives
  <1>7. InBatch'
    <2>1. ASSUME NEW s \in Threads, NEW i \in DOMAIN batch[s], NEW c, c = batch[s][i]
          PROVE  c.tid = s /\ Kept(c)' /\ (phase' # "idle" /\ ~BatchComes(s)' => Counted(c)')
      BY <1>1, <1>3, <1>4, <2>1, PlaceTypes DEF Places, InBatch, BatchComes
    <2>2. QED
      BY <1>1, <2>1 DEF InBatch
  <1>8. InRing'
    BY <1>1, <1>3, PlaceTypes DEF Places, InRing, RingComes
  <1>9. InHistory'
    BY <1>1, <1>3, PlaceTypes DEF Places, InHistory
  <1>10. QED
    BY <1>2, <1>5, <1>6, <1>7, <1>8, <1>9 DEF Places

LEMMA FlushKeeps ==
  ASSUME IInv, NEW t \in Threads, FlushAtExit(t)
  PROVE  IInv'
  <1> USE DEF IInv
  <1>1. /\ life[t] = "forgotten" /\ life' = [life EXCEPT ![t] = "exited"]
        /\ rings' = Shipped(t) /\ batch' = [batch EXCEPT ![t] = <<>>]
        /\ UNCHANGED <<idVars, history, phase, now, left, tails, overlooked>>
    BY DEF FlushAtExit, recorderVars
  <1>2. IdInv' /\ Onward
    BY <1>1, IdsRest
  <1>3. \A b \in Batches : (Kept(b) => Kept(b)') /\ (Counted(b) => Counted(b)')
    BY <1>1, <1>2, KeptStays, CountedStays
  <1>4. life'[t] = "exited" /\ \A s \in Threads : s # t => life'[s] = life[s]
    BY <1>1 DEF Types, QueueTypes
  <1>5. /\ batch'[t] = <<>> /\ batch' \in [Threads -> Seq(Batches)]
        /\ \A s \in Threads : s # t => batch'[s] = batch[s]
        /\ \A s \in Threads : Len(batch'[s]) <= 1
    <2>1. <<>> \in Seq(Batches) /\ Len(<<>>) <= 1
      BY EmptySeq
    <2>2. batch'[t] = <<>> /\ batch' \in [Threads -> Seq(Batches)]
          /\ \A s \in Threads : s # t => batch'[s] = batch[s]
      BY <1>1, <2>1 DEF Types, QueueTypes
    <2>3. QED
      BY <2>1, <2>2 DEF Types, QueueTypes
  <1>6. /\ rings' \in [Threads -> Seq(Batches)] /\ \A s \in Threads : Len(rings'[s]) <= RingCap
        /\ \A s \in Threads : s # t => rings'[s] = rings[s]
        /\ \A i \in DOMAIN rings'[t] : \/ \E j \in DOMAIN rings[t] : rings'[t][i] = rings[t][j]
                                       \/ \E j \in DOMAIN batch[t] : rings'[t][i] = batch[t][j]
    BY <1>1, ShippedFacts
  <1>7. Types'
    BY <1>1, <1>4, <1>5, <1>6 DEF Types, QueueTypes, RecorderTypes
  <1>8. Lives'
    <2>1. \A c \in call' : life'[c.thread] = "alive"
      BY <1>1, <1>4, CallTypes DEF Lives, idVars, IdInv
    <2>2. \A s \in Threads : life'[s] = "exited" => batch'[s] = <<>>
      BY <1>4, <1>5 DEF Lives
    <2>3. \A s \in Threads : s \in Registered => s \in Registered'
      BY <1>1, <1>4, <1>5 DEF Registered
    <2>4. QED
      BY <1>1, <2>1, <2>2, <2>3 DEF Lives, Types, RecorderTypes
  <1>9. InBatch'
    <2>1. ASSUME NEW s \in Threads, NEW i \in DOMAIN batch'[s], NEW c, c = batch'[s][i]
          PROVE  c.tid = s /\ Kept(c)' /\ (phase' # "idle" /\ ~BatchComes(s)' => Counted(c)')
      <3>1. s # t
        BY <1>5, <2>1
      <3>2. QED
        BY <1>1, <1>3, <1>4, <1>5, <2>1, <3>1, PlaceTypes DEF Places, InBatch, BatchComes
    <2>2. QED
      BY <2>1 DEF InBatch
  <1>10. InRing'
    <2>1. ASSUME NEW s \in Threads, NEW i \in DOMAIN rings'[s], NEW c, c = rings'[s][i]
          PROVE  c.tid = s /\ Kept(c)' /\ (phase' # "idle" /\ ~RingComes(s)' => Counted(c)')
      <3>1. CASE \E j \in DOMAIN rings[s] : rings'[s][i] = rings[s][j]
        BY <1>1, <1>3, <2>1, <3>1, PlaceTypes DEF Places, InRing, RingComes
      <3>2. CASE s = t /\ \E j \in DOMAIN batch[t] : rings'[t][i] = batch[t][j]
        BY <1>1, <1>3, <2>1, <3>2, PlaceTypes DEF Places, InBatch, BatchComes, RingComes
      <3>3. QED
        BY <1>6, <2>1, <3>1, <3>2
    <2>2. QED
      BY <2>1 DEF InRing
  <1>11. InHistory'
    BY <1>1, <1>3, PlaceTypes DEF Places, InHistory
  <1>12. QED
    BY <1>2, <1>7, <1>8, <1>9, <1>10, <1>11 DEF Places

LEMMA TakeRingFacts ==
  ASSUME Types, NEW t \in Threads, TakeRing(t)
  PROVE  /\ history' \in Seq(Batches)
         /\ \A i \in DOMAIN history' : \/ \E j \in DOMAIN history : history'[i] = history[j]
                                       \/ \E j \in DOMAIN rings[t] : history'[i] = rings[t][j]
         /\ rings' \in [Threads -> Seq(Batches)] /\ \A s \in Threads : Len(rings'[s]) <= RingCap
         /\ rings'[t] = <<>> /\ \A s \in Threads : s # t => rings'[s] = rings[s]
  <1> DEFINE all == history \o rings[t]
  <1>1. /\ history \in Seq(Batches) /\ rings \in [Threads -> Seq(Batches)] /\ rings[t] \in Seq(Batches)
        /\ \A s \in Threads : Len(rings[s]) <= RingCap
    BY DEF Types, QueueTypes, RecorderTypes
  <1>2. /\ all \in Seq(Batches)
        /\ \A i \in DOMAIN all : \/ \E j \in DOMAIN history : all[i] = history[j]
                                 \/ \E j \in DOMAIN rings[t] : all[i] = rings[t][j]
    BY <1>1, ConcatElements
  <1>3. PICK first \in 1..(IF all = <<>> THEN 1 ELSE Len(all)) : history' = SubSeq(all, first, Len(all))
    BY DEF TakeRing
  <1> HIDE DEF all
  <1>4. PICK n \in Nat : n = Len(all) /\ DOMAIN all = 1..n
    BY <1>2, LenProperties
  <1>5. /\ SubSeq(all, first, n) \in Seq(Batches)
        /\ \A i \in DOMAIN SubSeq(all, first, n) : \E j \in DOMAIN all : SubSeq(all, first, n)[i] = all[j]
    <2>1. first \in Nat \ {0}
      BY <1>3, <1>4
    <2>2. CASE all = <<>>
      <3>1. n = 0
        BY <1>4, <2>2
      <3>2. SubSeq(all, first, n) = <<>>
        BY <1>2, <2>1, <2>2, <3>1, SubSeqProperties, EmptySeq
      <3>3. QED
        BY <3>2, EmptySeq
    <2>3. CASE all # <<>>
      <3>1. first \in 1..(n+1) /\ n \in (first - 1)..n
        BY <1>3, <1>4, <2>3
      <3>2. /\ SubSeq(all, first, n) \in Seq(Batches) /\ Len(SubSeq(all, first, n)) = n - first + 1
            /\ \A i \in 1..(n - first + 1) : SubSeq(all, first, n)[i] = all[first + i - 1]
        BY <1>2, <1>4, <3>1, SubSeqProperties
      <3>3. DOMAIN SubSeq(all, first, n) = 1..(n - first + 1)
        BY <3>2, LenProperties
      <3>4. \A i \in 1..(n - first + 1) : first + i - 1 \in 1..n
        BY <3>1
      <3>5. QED
        BY <1>4, <3>2, <3>3, <3>4
    <2>4. QED
      BY <2>2, <2>3
  <1>6. history' = SubSeq(all, first, n)
    BY <1>3, <1>4
  <1>7. /\ rings' \in [Threads -> Seq(Batches)] /\ rings'[t] = <<>>
        /\ \A s \in Threads : s # t => rings'[s] = rings[s]
    <2>1. <<>> \in Seq(Batches)
      BY EmptySeq
    <2>2. QED
      BY <1>1, <2>1 DEF TakeRing
  <1>8. \A s \in Threads : Len(rings'[s]) <= RingCap
    <2>1. Len(<<>>) <= RingCap
      BY RecyclingAssumption, EmptySeq
    <2>2. QED
      BY <1>1, <1>7, <2>1
  <1>9. /\ history' \in Seq(Batches)
        /\ \A i \in DOMAIN history' : \E j \in DOMAIN all : history'[i] = all[j]
    BY <1>5, <1>6
  <1>10. \A i \in DOMAIN history' :
           \/ \E j \in DOMAIN history : history'[i] = history[j]
           \/ \E j \in DOMAIN rings[t] : history'[i] = rings[t][j]
    BY <1>2, <1>9
  <1>11. QED
    BY <1>7, <1>8, <1>9, <1>10

\* What goes into the history comes from there or from a ring.
LEMMA HistoryKeeps ==
  ASSUME IInv, NEW t \in Threads, TakeRing(t), \A b \in Batches : Kept(b) => Kept(b)'
  PROVE  InHistory'
  <1>1. ASSUME NEW i \in DOMAIN history', NEW c, c = history'[i] PROVE Kept(c)'
    <2>1. CASE \E j \in DOMAIN history : history'[i] = history[j]
      BY <1>1, <2>1, PlaceTypes DEF IInv, Places, InHistory
    <2>2. CASE \E j \in DOMAIN rings[t] : history'[i] = rings[t][j]
      BY <1>1, <2>2, PlaceTypes DEF IInv, Places, InRing
    <2>3. QED
      BY <1>1, <2>1, <2>2, TakeRingFacts DEF IInv
  <1>2. QED
    BY <1>1 DEF InHistory

LEMMA AbsorbKeeps ==
  ASSUME IInv, NEW t \in Threads, Absorb(t)
  PROVE  IInv'
  <1> USE DEF IInv
  <1>1. /\ phase = "idle" /\ TakeRing(t)
        /\ UNCHANGED <<idVars, batch, life, phase, now, left, tails, overlooked>>
    BY DEF Absorb
  <1>2. IdInv' /\ Onward
    BY <1>1, IdsRest
  <1>3. \A b \in Batches : Kept(b) => Kept(b)'
    BY <1>2, KeptStays
  <1>4. /\ history' \in Seq(Batches)
        /\ rings' \in [Threads -> Seq(Batches)] /\ \A s \in Threads : Len(rings'[s]) <= RingCap
        /\ rings'[t] = <<>> /\ \A s \in Threads : s # t => rings'[s] = rings[s]
    BY <1>1, TakeRingFacts
  <1>5. Types'
    BY <1>1, <1>4 DEF Types, QueueTypes, RecorderTypes
  <1>6. Lives'
    BY <1>1 DEF Lives, idVars
  <1>7. InBatch'
    BY <1>1, <1>3, PlaceTypes DEF Places, InBatch
  <1>8. InRing'
    <2>1. ASSUME NEW s \in Threads, NEW i \in DOMAIN rings'[s], NEW c, c = rings'[s][i]
          PROVE  c.tid = s /\ Kept(c)'
      <3>1. s # t
        BY <1>4, <2>1
      <3>2. QED
        BY <1>3, <1>4, <2>1, <3>1, PlaceTypes DEF Places, InRing
    <2>2. QED
      BY <1>1, <2>1 DEF InRing
  <1>9. InHistory'
    BY <1>1, <1>3, HistoryKeeps
  <1>10. QED
    BY <1>2, <1>5, <1>6, <1>7, <1>8, <1>9 DEF Places

LEMMA StartFloorKeeps ==
  ASSUME IInv, StartFloor
  PROVE  IInv'
  <1> USE DEF IInv
  <1>1. /\ phase' = "tails" /\ left' = Registered /\ tails' = {}
        /\ clock' \in {clock, clock + 1} /\ clock' <= MaxTicks /\ now' = clock'
        /\ UNCHANGED <<unborn, at, map, info, free, generation, cache, codeGen, last, lookups, call, floor,
                       refused, misfiled, batch, rings, history, life, overlooked>>
    BY DEF StartFloor, BeginFloor, objectVars, internerVars, cacheVars, queueVars
  <1>2. clock' \in 0..MaxTicks /\ clock <= clock' /\ floor <= clock' /\ clock' \in Nat
    <2>1. clock \in Nat /\ floor \in Nat /\ floor <= clock /\ MaxTicks \in Nat
      BY TickTypes, IdsAssumption
    <2>2. QED
      BY <1>1, <2>1
  <1>3. IdInv' /\ NamesMove
    BY <1>1, <1>2, IdsStay DEF IdInv, IdTypes, objectVars, internerVars, cacheVars
  <1>4. Onward
    BY <1>1, <1>2, <1>3 DEF Onward
  <1>5. \A b \in Batches : Kept(b) => Kept(b)'
    BY <1>3, <1>4, KeptStays
  <1>6. Types'
    BY <1>1, <1>2 DEF Types, QueueTypes, RecorderTypes, Registered
  <1>7. Lives'
    BY <1>1 DEF Lives, Registered
  <1>8. InBatch'
    <2>1. ASSUME NEW t \in Threads, NEW i \in DOMAIN batch[t]
          PROVE  BatchComes(t)'
      <3>1. batch[t] # <<>>
        BY <2>1, EmptySeq
      <3>2. life[t] \in {"alive", "forgotten"}
        BY <3>1 DEF Lives, Types, QueueTypes
      <3>3. QED
        BY <1>1, <3>1, <3>2 DEF Registered, BatchComes
    <2>2. QED
      BY <1>1, <1>5, <2>1, PlaceTypes DEF Places, InBatch
  <1>9. InRing'
    BY <1>1, <1>5, PlaceTypes DEF Places, InRing, RingComes
  <1>10. InHistory'
    BY <1>1, <1>5, PlaceTypes DEF Places, InHistory
  <1>11. QED
    BY <1>3, <1>6, <1>7, <1>8, <1>9, <1>10 DEF Places

LEMMA ReadTailKeeps ==
  ASSUME IInv, NEW t \in Threads, ReadTail(t)
  PROVE  IInv'
  <1> USE DEF IInv
  <1>1. /\ phase = "tails" /\ t \in left /\ tails' = tails \cup {batch[t][1]} /\ left' = left \ {t}
        /\ UNCHANGED <<idVars, batch, rings, history, life, phase, now, overlooked>>
    BY DEF ReadTail, queueVars
  <1>2. IdInv' /\ Onward
    BY <1>1, IdsRest
  <1>3. \A b \in Batches : (Kept(b) => Kept(b)') /\ (Counted(b) => Counted(b)')
    BY <1>1, <1>2, KeptStays, CountedStays
  <1>4. DOMAIN batch[t] = 1..1 /\ batch[t][1] \in Batches
    BY <1>1, PlaceTypes DEF Lives, Registered
  <1>5. ASSUME NEW b \in Batches, b = batch[t][1], Kept(b) PROVE Counted(b)'
    <2>1. \A i \in DOMAIN b.events, j \in DOMAIN free :
            Tracked(b) /\ free[j].id = b.events[i].id => b.base <= free[j].freed
      BY <1>5 DEF Kept, Held
    <2>2. b \in tails'
      BY <1>1, <1>5
    <2>3. free' = free /\ (Tracked(b)' => Tracked(b))
      BY <1>1 DEF idVars, Tracked
    <2>4. QED
      BY <2>1, <2>2, <2>3 DEF Counted, Seen
  <1>6. Types'
    BY <1>1, <1>4 DEF Types, QueueTypes, RecorderTypes
  <1>7. Lives'
    BY <1>1 DEF Lives, Registered, idVars
  <1>8. InBatch'
    <2>1. ASSUME NEW s \in Threads, NEW i \in DOMAIN batch[s], NEW c, c = batch[s][i]
          PROVE  c.tid = s /\ Kept(c)' /\ (~BatchComes(s)' => Counted(c)')
      <3>1. CASE s = t
        BY <1>3, <1>4, <1>5, <2>1, <3>1, PlaceTypes DEF Places, InBatch
      <3>2. CASE s # t
        BY <1>1, <1>3, <2>1, <3>2, PlaceTypes DEF Places, InBatch, BatchComes
      <3>3. QED
        BY <3>1, <3>2
    <2>2. QED
      BY <1>1, <2>1 DEF InBatch
  <1>9. InRing'
    BY <1>1, <1>3, PlaceTypes DEF Places, InRing, RingComes
  <1>10. InHistory'
    BY <1>1, <1>3, PlaceTypes DEF Places, InHistory
  <1>11. QED
    BY <1>2, <1>6, <1>7, <1>8, <1>9, <1>10 DEF Places

LEMMA EndTailsKeeps ==
  ASSUME IInv, EndTails
  PROVE  IInv'
  <1> USE DEF IInv
  <1>1. /\ phase = "tails" /\ left = {} /\ phase' = "absorb" /\ left' = Threads
        /\ UNCHANGED <<idVars, batch, rings, history, life, now, tails, overlooked>>
    BY DEF EndTails, queueVars
  <1>2. IdInv' /\ Onward
    BY <1>1, IdsRest
  <1>3. \A b \in Batches : (Kept(b) => Kept(b)') /\ (Counted(b) => Counted(b)')
    BY <1>1, <1>2, KeptStays, CountedStays
  <1>4. Types'
    BY <1>1 DEF Types, QueueTypes, RecorderTypes
  <1>5. Lives'
    BY <1>1 DEF Lives, idVars
  <1>6. InBatch'
    BY <1>1, <1>3, PlaceTypes DEF Places, InBatch, BatchComes
  <1>7. InRing'
    BY <1>1, <1>3, PlaceTypes DEF Places, InRing, RingComes
  <1>8. InHistory'
    BY <1>1, <1>3, PlaceTypes DEF Places, InHistory
  <1>9. QED
    BY <1>2, <1>4, <1>5, <1>6, <1>7, <1>8 DEF Places

LEMMA AbsorbAllKeeps ==
  ASSUME IInv, NEW t \in Threads, AbsorbAll(t)
  PROVE  IInv'
  <1> USE DEF IInv
  <1>1. /\ phase = "absorb" /\ t \in left /\ TakeRing(t) /\ left' = left \ {t}
        /\ overlooked' = (IF life[t] = "forgotten" THEN overlooked \cup {t} ELSE overlooked)
        /\ UNCHANGED <<idVars, batch, life, phase, now, tails>>
    BY DEF AbsorbAll
  <1>2. IdInv' /\ Onward
    BY <1>1, IdsRest
  <1>3. \A b \in Batches : (Kept(b) => Kept(b)') /\ (Counted(b) => Counted(b)')
    BY <1>1, <1>2, KeptStays, CountedStays
  <1>4. /\ history' \in Seq(Batches)
        /\ rings' \in [Threads -> Seq(Batches)] /\ \A s \in Threads : Len(rings'[s]) <= RingCap
        /\ rings'[t] = <<>> /\ \A s \in Threads : s # t => rings'[s] = rings[s]
    BY <1>1, TakeRingFacts
  <1>5. Types'
    BY <1>1, <1>4 DEF Types, QueueTypes, RecorderTypes
  <1>6. Lives'
    BY <1>1 DEF Lives, idVars
  <1>7. InBatch'
    <2>1. ASSUME NEW s \in Threads, NEW i \in DOMAIN batch[s], NEW c, c = batch[s][i]
          PROVE  c.tid = s /\ Kept(c)' /\ (~BatchComes(s)' => Counted(c)')
      <3>1. c.tid = s /\ Kept(c)'
        BY <1>3, <2>1, PlaceTypes DEF Places, InBatch
      <3>2. CASE s = t /\ life[t] = "forgotten"
        <4>1. ~Tracked(c)'
          BY <1>1, <3>1, <3>2 DEF Tracked
        <4>2. QED
          BY <3>1, <4>1 DEF Counted
      <3>3. CASE ~(s = t /\ life[t] = "forgotten")
        BY <1>1, <1>3, <2>1, <3>1, <3>3, PlaceTypes DEF Places, InBatch, BatchComes
      <3>4. QED
        BY <3>2, <3>3
    <2>2. QED
      BY <1>1, <2>1 DEF InBatch
  <1>8. InRing'
    <2>1. ASSUME NEW s \in Threads, NEW i \in DOMAIN rings'[s], NEW c, c = rings'[s][i]
          PROVE  c.tid = s /\ Kept(c)' /\ (phase' # "idle" /\ ~RingComes(s)' => Counted(c)')
      <3>1. s # t
        BY <1>4, <2>1
      <3>2. QED
        BY <1>1, <1>3, <1>4, <2>1, <3>1, PlaceTypes DEF Places, InRing, RingComes
    <2>2. QED
      BY <2>1 DEF InRing
  <1>9. InHistory'
    BY <1>1, <1>3, HistoryKeeps
  <1>10. QED
    BY <1>2, <1>5, <1>6, <1>7, <1>8, <1>9 DEF Places

LEMMA SetFloorKeeps ==
  ASSUME IInv, SetFloor
  PROVE  IInv'
  <1> USE DEF IInv
  <1>1. /\ phase = "absorb" /\ left = {} /\ floor' = Min(Bases) /\ phase' = "idle" /\ tails' = {} /\ now' = 0
        /\ UNCHANGED <<clock, unborn, at, map, info, free, generation, cache, codeGen, last, lookups, call,
                       refused, misfiled, batch, rings, history, life, left, overlooked>>
    BY DEF SetFloor, objectVars, internerVars, cacheVars, queueVars
  <1>2. /\ clock \in Nat /\ clock \in 0..MaxTicks /\ now \in Nat /\ now <= clock
        /\ \A j \in DOMAIN free : free[j].freed \in Nat
    BY TickTypes DEF IdInv, IdTypes
  <1>3. Bases \in SUBSET Nat
    <2>1. \A b \in tails : b.base \in Nat
      BY BatchTypes DEF Types, RecorderTypes
    <2>2. \A i \in DOMAIN history : history[i].base \in Nat
      BY PlaceTypes, BatchTypes
    <2>3. QED
      BY <1>2, <2>1, <2>2 DEF Bases
  <1>4. /\ floor' \in Nat /\ floor' <= now
        /\ \A b \in tails : floor' <= b.base
        /\ \A i \in DOMAIN history : floor' <= history[i].base
    <2>1. Bases # {}
      BY DEF Bases
    <2>2. Min(Bases) \in Nat /\ \A y \in Bases : Min(Bases) <= y
      BY <1>3, <2>1, MinIsLeast
    <2>3. QED
      BY <1>1, <2>2 DEF Bases
  <1>5. IdInv' /\ NamesMove
    <2>1. floor' \in 0..MaxTicks /\ floor' <= clock' /\ clock' \in 0..MaxTicks /\ clock <= clock'
      BY <1>1, <1>2, <1>4, IdsAssumption
    <2>2. now' \in Nat /\ now' <= clock'
      BY <1>1, <1>2
    <2>3. QED
      BY <1>1, <2>1, <2>2, IdsStay DEF objectVars, internerVars, cacheVars
  <1>6. ASSUME NEW b \in Batches, Kept(b),
               Tracked(b) => \A i \in DOMAIN b.events, j \in DOMAIN free :
                               free[j].id = b.events[i].id => floor' <= free[j].freed
        PROVE  Kept(b)'
    BY <1>1, <1>6 DEF Kept, Held, Tracked
  <1>7. ASSUME NEW b \in Batches, Kept(b), Counted(b) PROVE Kept(b)'
    <2>1. ASSUME Tracked(b), NEW i \in DOMAIN b.events, NEW j \in DOMAIN free, free[j].id = b.events[i].id
          PROVE  floor' <= free[j].freed
      <3>1. CASE now <= free[j].freed
        BY <1>2, <1>4, <3>1
      <3>2. CASE \E x \in tails : x.base <= free[j].freed
        <4>1. PICK x \in tails : x.base <= free[j].freed
          BY <3>2
        <4>2. floor' <= x.base /\ x.base \in Nat
          BY <1>4, <4>1, BatchTypes DEF Types, RecorderTypes
        <4>3. QED
          BY <1>2, <1>4, <4>1, <4>2
      <3>3. QED
        BY <1>7, <2>1, <3>1, <3>2 DEF Counted, Seen
    <2>2. QED
      BY <1>6, <1>7, <2>1
  <1>8. Types'
    BY <1>1, RecyclingAssumption, IdsAssumption DEF Types, QueueTypes, RecorderTypes
  <1>9. Lives'
    BY <1>1 DEF Lives
  <1>10. InBatch'
    BY <1>1, <1>7, PlaceTypes DEF Places, InBatch, BatchComes
  <1>11. InRing'
    BY <1>1, <1>7, PlaceTypes DEF Places, InRing, RingComes
  <1>12. InHistory'
    <2>1. ASSUME NEW n \in DOMAIN history, NEW b \in Batches, b = history[n] PROVE Kept(b)'
      <3>1. Kept(b) /\ floor' <= b.base /\ b.base \in Nat
        BY <1>4, <2>1, BatchTypes DEF Places, InHistory
      <3>2. ASSUME Tracked(b), NEW i \in DOMAIN b.events, NEW j \in DOMAIN free, free[j].id = b.events[i].id
            PROVE  floor' <= free[j].freed
        <4>1. b.base <= free[j].freed
          BY <3>1, <3>2 DEF Kept, Held
        <4>2. QED
          BY <1>2, <1>4, <3>1, <4>1
      <3>3. QED
        BY <1>6, <3>1, <3>2
    <2>2. QED
      BY <1>1, <2>1, PlaceTypes DEF InHistory
  <1>13. QED
    BY <1>5, <1>8, <1>9, <1>10, <1>11, <1>12 DEF Places

---------------------------------------------------------------------------
(* Callbacks, and every step.                                               *)

LEMMA RestTypes ==
  ASSUME IInv, UNCHANGED <<queueVars, recorderVars, life, overlooked>>,
         \A c \in call' : life[c.thread] = "alive"
  PROVE  Types' /\ Lives'
  BY DEF IInv, Types, QueueTypes, RecorderTypes, Lives, Registered, queueVars, recorderVars

LEMMA FileOrSkipKeeps ==
  ASSUME IInv, NEW t \in Threads, NEW k \in Keys, NEW gen, NEW ticks \in 1..MaxTicks, ticks <= clock',
         Resolving(t, k, gen), FileOrSkip(t, k, ticks, gen), life[t] = "alive"
  PROVE  IInv'
  <1> USE DEF IInv
  <1>1. /\ \A c \in call' : life[c.thread] = "alive"
        /\ clock <= clock' /\ floor' = floor /\ at'[k] \in Codes
        /\ UNCHANGED <<recorderVars, life, overlooked>>
    BY CalledAtFacts DEF Lives, Resolving, FileOrSkip, IdInv
  <1>2. ASSUME NEW id \in Ids, ResolveTo(t, k, gen, id), Filed(t, Event(k, id)), Push(t, ticks, Event(k, id)),
               refused' = refused
        PROVE  IInv'
    <2>1. IdInv' /\ NamesMove /\ Filing(t, k, id)
      BY <1>2, ResolveKeeps
    <2>2. Onward
      BY <1>1, <1>2, <2>1 DEF Onward, Filed
    <2>3. QED
      BY <1>1, <1>2, <2>1, <2>2, PushKeeps
  <1>3. ASSUME ResolveToNone(t, k, gen), UNCHANGED queueVars
        PROVE  IInv'
    <2>1. IdInv' /\ NamesMove
      BY <1>3, RefusalKeeps
    <2>2. Onward
      BY <1>1, <1>3, <2>1 DEF Onward, ResolveToNone
    <2>3. QED
      BY <1>1, <1>3, <2>1, <2>2, NothingMoves, RestTypes
  <1>4. QED
    BY <1>2, <1>3 DEF FileOrSkip

LEMMA RecordLastKeeps ==
  ASSUME IInv, NEW t \in Threads, NEW k \in Keys, RecordLast(t, k)
  PROVE  IInv'
  <1> USE DEF IInv
  <1>1. PICK id \in Ids : UseLast(t, k, Event(k, id)) /\ Push(t, clock', Event(k, id))
    BY DEF RecordLast
  <1>2. life[t] = "alive" /\ UNCHANGED <<recorderVars, life, overlooked>> /\ now' = now
    BY DEF RecordLast, recorderVars
  <1>3. IdInv' /\ NamesMove /\ clock' = clock + 1 /\ Filing(t, k, id)
    BY <1>1, <1>2, UseLastKeeps
  <1>4. /\ CalledAt(k) /\ UNCHANGED <<call, floor>> /\ misfiled \subseteq misfiled'
    BY <1>1 DEF UseLast, Filed
  <1>5. clock <= clock' /\ clock' \in 1..MaxTicks
    BY <1>1, <1>3, IdsAssumption, TickTypes DEF UseLast, Tick
  <1>6. Onward
    BY <1>2, <1>3, <1>4, <1>5 DEF Onward
  <1>7. at'[k] \in Codes
    BY <1>4, CalledAtFacts DEF IdInv
  <1>8. \A c \in call' : life[c.thread] = "alive"
    BY <1>4 DEF Lives
  <1>9. PICK ticks \in 1..MaxTicks : ticks = clock'
    BY <1>5
  <1>10. Push(t, ticks, Event(k, id)) /\ ticks <= clock'
    BY <1>1, <1>9
  <1>11. QED
    BY <1>2, <1>3, <1>6, <1>7, <1>8, <1>10, PushKeeps

LEMMA RecordKeeps ==
  ASSUME IInv, NEW t \in Threads, NEW k \in Keys, Record(t, k)
  PROVE  IInv'
  <1> USE DEF IInv
  <1>1. /\ life[t] = "alive" /\ CalledAt(k) /\ Idle(t) /\ Tick
        /\ UNCHANGED <<generation, lookups, call, floor>> /\ now' = now
    BY DEF Record, NoNameNeeded, FileOrSkip, recorderVars
  <1>2. clock <= clock' /\ clock' \in 1..MaxTicks
    BY <1>1, IdsAssumption, TickTypes DEF Tick
  <1>3. PICK ticks \in 1..MaxTicks, gen \in 0..MaxTicks : ticks = clock' /\ gen = generation
    BY <1>2 DEF IdInv, IdTypes
  <1>4. Resolving(t, k, gen)
    <2>1. gen <= generation
      BY <1>3
    <2>2. codeGen[t] = gen /\ cache[t][k] # 0 => map[k] = cache[t][k]
      BY <1>3 DEF IdInv, Caches
    <2>3. clock' \in 0..MaxTicks /\ lookups' \in [Threads -> 0..NameRetries]
      BY <1>1, <1>2 DEF IdInv, IdTypes
    <2>4. QED
      BY <1>1, <1>2, <2>1, <2>2, <2>3 DEF Resolving, Idle
  <1>5. FileOrSkip(t, k, ticks, gen) /\ ticks <= clock'
    BY <1>3 DEF Record
  <1>6. QED
    BY <1>1, <1>4, <1>5, FileOrSkipKeeps

LEMMA EndRecordKeeps ==
  ASSUME IInv, NEW c \in call, EndRecord(c)
  PROVE  IInv'
  <1> USE DEF IInv
  <1>1. /\ call' = call \ {c}
        /\ \E n \in {0, lookups[c.thread]} : lookups' = [lookups EXCEPT ![c.thread] = n]
        /\ UNCHANGED <<clock, objectVars, generation, floor>> /\ now' = now
    BY DEF EndRecord, NameLookedUp, FileOrSkip, recorderVars
  <1>2. PICK t \in Threads, k \in Keys, ticks \in 1..MaxTicks, gen \in 0..MaxTicks :
          t = c.thread /\ k = c.key /\ ticks = c.ticks /\ gen = c.gen
    BY CallTypes DEF IdInv
  <1>3. Resolving(t, k, gen)
    <2>1. CalledAt(k)
      BY <1>1, <1>2 DEF CalledAt, Calls, IdInv
    <2>2. gen <= generation /\ (codeGen[t] = gen /\ cache[t][k] # 0 => map[k] = cache[t][k])
      BY <1>2 DEF IdInv, Times, Caches
    <2>3. clock <= clock' /\ clock' \in 0..MaxTicks
      BY <1>1, TickTypes DEF IdInv, IdTypes
    <2>4. call' \subseteq call /\ \A d \in call' : d.thread # t
      BY <1>1, <1>2 DEF IdInv, Calls
    <2>5. lookups' \in [Threads -> 0..NameRetries]
      <3>1. lookups \in [Threads -> 0..NameRetries] /\ 0 \in 0..NameRetries
        BY IdsAssumption DEF IdInv, IdTypes
      <3>2. \E n \in {0, lookups[t]} : lookups' = [lookups EXCEPT ![t] = n]
        BY <1>1, <1>2
      <3>3. \A n \in {0, lookups[t]} : n \in 0..NameRetries
        BY <3>1
      <3>4. QED
        BY <3>1, <3>2, <3>3
    <2>6. QED
      BY <1>1, <2>1, <2>2, <2>3, <2>4, <2>5 DEF Resolving
  <1>4. FileOrSkip(t, k, ticks, gen)
    BY <1>2 DEF EndRecord
  <1>5. ticks <= clock' /\ life[t] = "alive"
    BY <1>1, <1>2 DEF IdInv, Times, Lives
  <1>6. QED
    BY <1>3, <1>4, <1>5, FileOrSkipKeeps

LEMMA BeginRecordKeeps ==
  ASSUME IInv, NEW t \in Threads, NEW k \in Keys, BeginRecord(t, k)
  PROVE  IInv'
  <1> USE DEF IInv
  <1>1. life[t] = "alive" /\ LookUpName(t, k) /\ UNCHANGED <<queueVars, recorderVars, life, overlooked>> /\ now' = now
    BY DEF BeginRecord, recorderVars
  <1>2. IdInv' /\ NamesMove /\ clock' = clock + 1
    BY <1>1, LookUpKeeps
  <1>3. Onward
    BY <1>1, <1>2, TickTypes DEF Onward, LookUpName
  <1>4. \A c \in call' : life[c.thread] = "alive"
    BY <1>1 DEF LookUpName, Lives
  <1>5. QED
    BY <1>1, <1>2, <1>3, <1>4, NothingMoves, RestTypes

LEMMA CodeDiesKeeps ==
  ASSUME IInv, NEW k \in Keys, CodeDies(k)
  PROVE  IInv'
  <1> USE DEF IInv
  <1>1. Destroy(k) /\ UNCHANGED <<queueVars, recorderVars, life, overlooked>> /\ now' = now
    BY DEF CodeDies, recorderVars
  <1>2. IdInv' /\ NamesMove /\ clock' = clock + 1
    BY <1>1, DestroyKeeps
  <1>3. Onward
    BY <1>1, <1>2, TickTypes DEF Onward, Destroy
  <1>4. \A c \in call' : life[c.thread] = "alive"
    BY <1>1 DEF Destroy, Lives
  <1>5. QED
    BY <1>1, <1>2, <1>3, <1>4, NothingMoves, RestTypes

LEMMA StutterKeeps ==
  ASSUME IInv, UNCHANGED vars
  PROVE  IInv'
  <1> USE DEF IInv
  <1>1. UNCHANGED <<idVars, queueVars, recorderVars, life, overlooked>> /\ now' = now
    BY DEF vars, queueVars, recorderVars
  <1>2. IdInv' /\ Onward
    BY <1>1, IdsRest
  <1>3. \A c \in call' : life[c.thread] = "alive"
    BY <1>1 DEF idVars, Lives
  <1>4. QED
    BY <1>1, <1>2, <1>3, NothingMoves, RestTypes

LEMMA InitHolds ==
  ASSUME Init
  PROVE  IInv
  <1> USE IdsAssumption, RecyclingAssumption DEF Init, IdsInit
  <1>1. IdTypes
    <2>1. <<>> \in Seq(Codes) /\ Len(<<>>) = 0 /\ <<>> \in Seq([id : Ids, freed : 1..MaxTicks])
      BY EmptySeq
    <2>2. QED
      BY <2>1 DEF IdTypes, NothingCached
  <1>2. DOMAIN info = {} /\ DOMAIN free = {}
    BY EmptySeq
  <1>3. Times /\ Calls
    BY DEF Times, Calls
  <1>4. Objects /\ Owners
    BY <1>2 DEF Objects, Owners
  <1>5. Caches /\ MisfiledOnlyAfterRefusal
    BY DEF Caches, NothingCached, MisfiledOnlyAfterRefusal
  <1>6. Types
    <2>1. <<>> \in Seq(Batches) /\ Len(<<>>) = 0
      BY EmptySeq
    <2>2. QED
      BY <2>1 DEF Types, QueueTypes, RecorderTypes
  <1>7. Lives
    BY DEF Lives
  <1>8. Places
    <2>1. DOMAIN history = {} /\ \A t \in Threads : DOMAIN batch[t] = {} /\ DOMAIN rings[t] = {}
      BY EmptySeq
    <2>2. QED
      BY <2>1 DEF Places, InBatch, InRing, InHistory
  <1>9. QED
    BY <1>1, <1>3, <1>4, <1>5, <1>6, <1>7, <1>8 DEF IInv, IdInv

LEMMA NextKeeps ==
  ASSUME IInv, [Next]_vars
  PROVE  IInv'
  <1>1. ASSUME NEW k \in Keys, CodeDies(k) PROVE IInv'
    BY <1>1, CodeDiesKeeps
  <1>2. ASSUME NEW t \in Threads, NEW k \in Keys, RecordLast(t, k) PROVE IInv'
    BY <1>2, RecordLastKeeps
  <1>3. ASSUME NEW t \in Threads, NEW k \in Keys, Record(t, k) PROVE IInv'
    BY <1>3, RecordKeeps
  <1>4. ASSUME NEW t \in Threads, NEW k \in Keys, BeginRecord(t, k) PROVE IInv'
    BY <1>4, BeginRecordKeeps
  <1>5. ASSUME NEW c \in call, EndRecord(c) PROVE IInv'
    BY <1>5, EndRecordKeeps
  <1>6. ASSUME NEW t \in Threads, Forget(t) PROVE IInv'
    BY <1>6, ForgetKeeps
  <1>7. ASSUME NEW t \in Threads, FlushAtExit(t) PROVE IInv'
    BY <1>7, FlushKeeps
  <1>8. ASSUME NEW t \in Threads, Absorb(t) PROVE IInv'
    BY <1>8, AbsorbKeeps
  <1>9. ASSUME NEW t \in Threads, ReadTail(t) PROVE IInv'
    BY <1>9, ReadTailKeeps
  <1>10. ASSUME NEW t \in Threads, AbsorbAll(t) PROVE IInv'
    BY <1>10, AbsorbAllKeeps
  <1>11. CASE StartFloor
    BY <1>11, StartFloorKeeps
  <1>12. CASE EndTails
    BY <1>12, EndTailsKeeps
  <1>13. CASE SetFloor
    BY <1>13, SetFloorKeeps
  <1>14. CASE UNCHANGED vars
    BY <1>14, StutterKeeps
  <1>15. QED
    BY <1>1, <1>2, <1>3, <1>4, <1>5, <1>6, <1>7, <1>8, <1>9, <1>10, <1>11, <1>12, <1>13, <1>14 DEF Next

LEMMA Invariant == Spec => []IInv
  <1>1. Init => IInv
    BY InitHolds
  <1>2. IInv /\ [Next]_vars => IInv'
    BY NextKeeps
  <1>3. QED
    BY <1>1, <1>2, PTL DEF Spec

---------------------------------------------------------------------------

\* Every variable keeps its type (TypeOK): the interner stays within its capacity,
\* a thread has one batch and its ring no more batches than slots.
THEOREM TypeCorrect == Spec => []TypeOK
  <1>1. IInv => TypeOK
    BY DEF IInv, IdInv, Types, TypeOK
  <1>2. QED
    BY <1>1, Invariant, PTL

\* Interner::insert and Interner::forget: an id has one owner, the code object at
\* the one key mapped to it or one entry of the free list.
THEOREM OneOwner == Spec => []OneOwnerPerId
  <1>1. ASSUME IInv PROVE OneOwnerPerId
    <2> USE DEF IInv, IdInv
    <2>1. \A k \in Keys : map[k] # 0 => at[k] # NoCode /\ info[map[k]] = at[k]
      <3>1. \A id \in DOMAIN info : info[id] # NoCode
        BY <1>1, FreeEntries, IdsAssumption
      <3>2. QED
        BY <1>1, <3>1 DEF Owners
    <2>2. ASSUME NEW id \in DOMAIN info
          PROVE  Cardinality({k \in Keys : map[k] = id}) + Cardinality({i \in DOMAIN free : free[i].id = id}) = 1
      <3> DEFINE K == {k \in Keys : map[k] = id}
                 F == {i \in DOMAIN free : free[i].id = id}
      <3>1. id # 0
        BY <1>1, FreeEntries
      <3>2. Cardinality({}) = 0 /\ \A x : Cardinality({x}) = 1
        BY FS_EmptySet, FS_Singleton
      <3>3. CASE \E k \in Keys : map[k] = id
        <4>1. PICK k \in Keys : map[k] = id
          BY <3>3
        <4>2. K = {k} /\ F = {}
          BY <1>1, <3>1, <4>1 DEF Owners
        <4>3. Cardinality(K) = 1 /\ Cardinality(F) = 0
          BY <3>2, <4>2
        <4>4. QED
          BY <4>3
      <3>4. CASE ~ \E k \in Keys : map[k] = id
        <4>1. PICK i \in DOMAIN free : free[i].id = id
          BY <1>1, <3>4 DEF Owners
        <4>2. K = {} /\ F = {i}
          BY <1>1, <3>4, <4>1 DEF Owners
        <4>3. Cardinality(K) = 0 /\ Cardinality(F) = 1
          BY <3>2, <4>2
        <4>4. QED
          BY <4>3
      <3>5. QED
        BY <3>3, <3>4
    <2>3. QED
      BY <2>1, <2>2 DEF OneOwnerPerId
  <1>2. QED
    BY <1>1, Invariant, PTL

\* resolve_cold and the last id it leaves: only a thread that was refused an id
\* files an event under another code object's name.
THEOREM OnlyRefusedMisfile == Spec => []MisfiledOnlyAfterRefusal
  <1>1. IInv => MisfiledOnlyAfterRefusal
    BY DEF IInv, IdInv
  <1>2. QED
    BY <1>1, Invariant, PTL

\* update_recycle_floor: no id is given to another code object while an event under
\* it is in a batch, in a ring or in the history, but for the threads that
\* NamesKept leaves out.
THEOREM NamesAreKept == Spec => []NamesKept
  <1>1. ASSUME IInv PROVE NamesKept
    <2> USE DEF IInv
    <2>1. ASSUME NEW b \in Unresolved PROVE Kept(b)
      <3>1. CASE \E t \in Threads : \E i \in DOMAIN batch[t] : b = batch[t][i]
        BY <1>1, <3>1 DEF Places, InBatch
      <3>2. CASE \E t \in Threads : \E i \in DOMAIN rings[t] : b = rings[t][i]
        BY <1>1, <3>2 DEF Places, InRing
      <3>3. CASE \E i \in DOMAIN history : b = history[i]
        BY <1>1, <3>3 DEF Places, InHistory
      <3>4. CASE b \in Range(history)
        BY <3>3, <3>4 DEF Range
      <3>5. CASE \E t \in Threads : b \in Range(batch[t]) \cup Range(rings[t])
        BY <3>1, <3>2, <3>5 DEF Range
      <3>6. CASE b \in UNION {Range(batch[t]) \cup Range(rings[t]) : t \in Threads}
        <4>1. PICK R \in {Range(batch[t]) \cup Range(rings[t]) : t \in Threads} : b \in R
          BY <3>6
        <4>2. PICK t \in Threads : R = Range(batch[t]) \cup Range(rings[t])
          BY <4>1
        <4>3. QED
          BY <3>5, <4>1, <4>2
      <3>7. QED
        BY <2>1, <3>4, <3>6 DEF Unresolved
    <2>2. QED
      BY <2>1 DEF NamesKept, Kept, Held, Named, Tracked
  <1>2. QED
    BY <1>1, Invariant, PTL
=============================================================================
