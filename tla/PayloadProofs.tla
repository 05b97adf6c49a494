---------------------------- MODULE PayloadProofs ----------------------------
(***************************************************************************)
(* Proofs about what is read from and written to the payloads of messages: *)
(* the search among nested RAN parameters and the keys of UEs.  Both are   *)
(* recursive; the proofs go by induction on the levels and on the octets.  *)
(***************************************************************************)
EXTENDS RanParam, UeKey, TLAPS, WellFoundedInduction

-----------------------------------------------------------------------------
(***************************************************************************)
(* A set of natural numbers has a least one, which is what induction comes *)
(* down to.                                                                *)
(***************************************************************************)
LEMMA Least ==
  ASSUME NEW S, S \subseteq Nat, S # {}
  PROVE  \E n \in S : \A k \in S : n <= k
<1>1. PICK R : R = OpToRel(<, Nat)
  OBVIOUS
<1>2. IsWellFoundedOn(R, Nat)
  BY <1>1, NatLessThanWellFounded
<1>3. PICK n \in S : \A k \in S : ~(<<k, n>> \in R)
  BY <1>2, WFMin
<1>4. ASSUME NEW k \in S PROVE n <= k
  <2>1. k \in Nat /\ n \in Nat
    OBVIOUS
  <2>2. ~(<<k, n>> \in R)
    BY <1>3
  <2>3. ~(k < n)
    BY <2>1, <2>2, <1>1 DEF OpToRel
  <2> QED
    BY <2>1, <2>3
<1> QED
  BY <1>4

\* Induction over the natural numbers, for a set of them.
LEMMA Induction ==
  ASSUME NEW S, 0 \in S, \A n \in Nat : n \in S => n + 1 \in S
  PROVE  Nat \subseteq S
<1> SUFFICES ASSUME Nat \ S # {} PROVE FALSE
  OBVIOUS
<1>1. PICK n \in Nat \ S : \A k \in Nat \ S : n <= k
  BY Least
<1>2. n # 0 /\ n - 1 \in Nat
  BY <1>1
<1>3. n - 1 \in S
  BY <1>1, <1>2
<1> QED
  BY <1>1, <1>2, <1>3

-----------------------------------------------------------------------------
(***************************************************************************)
(* One call of GetRanParameterValue, for the structure at path p, when f   *)
(* has the results of the calls it makes.                                  *)
(***************************************************************************)
Hit(m, id, f, q) == IF m[q].id = id THEN m[q].value ELSE f[q]

Found(m, id, f, p) == {i \in Items(m, p) : Hit(m, id, f, Append(p, i)) # NotFound}

Call(m, id, f, p) ==
  IF Found(m, id, f, p) = {} THEN NotFound
  ELSE Hit(m, id, f, Append(p, CHOOSE i \in Found(m, id, f, p) :
                                 \A j \in Found(m, id, f, p) : i <= j))

Paths(m) == DOMAIN m \cup {<<>>}

\* The result of a call is that of the calls it makes.
LEMMA CallLocal ==
  ASSUME NEW m, NEW id, NEW f, NEW g, NEW p,
         \A i \in Items(m, p) : f[Append(p, i)] = g[Append(p, i)]
  PROVE  Call(m, id, f, p) = Call(m, id, g, p)
<1>1. \A i \in Items(m, p) : Hit(m, id, f, Append(p, i)) = Hit(m, id, g, Append(p, i))
  BY DEF Hit
<1>2. PICK F : F = Found(m, id, f, p)
  OBVIOUS
<1>3. F = Found(m, id, g, p)
  BY <1>1, <1>2 DEF Found
<1>4. F \subseteq Items(m, p)
  BY <1>2 DEF Found
<1>5. CASE F = {}
  BY <1>2, <1>3, <1>5 DEF Call
<1>6. CASE F # {}
  <2>1. PICK n : n = CHOOSE i \in F : \A j \in F : i <= j
    OBVIOUS
  <2>2. n \in F /\ \A j \in F : n <= j
    <3>1. F \subseteq Nat
      BY <1>4 DEF Items
    <3>2. \E i \in F : \A j \in F : i <= j
      BY <3>1, <1>6, Least
    <3> QED
      BY <2>1, <3>2
  <2> QED
    BY <1>1, <1>2, <1>3, <1>4, <1>6, <2>1, <2>2 DEF Call
<1> QED
  BY <1>5, <1>6

\* Paths are sequences of positions, and those of items are longer.
LEMMA PathFacts ==
  ASSUME NEW m, IsParamList(m)
  PROVE  /\ \A p \in Paths(m) : p \in Seq(Nat) /\ Len(p) \in 0 .. MaxDepth
         /\ \A p \in Paths(m) : \A i \in Items(m, p) :
              /\ i \in Nat /\ Append(p, i) \in DOMAIN m /\ Append(p, i) \in Paths(m)
              /\ Len(Append(p, i)) = Len(p) + 1
<1>1. ASSUME NEW p \in Paths(m) PROVE p \in Seq(Nat) /\ Len(p) \in 0 .. MaxDepth
  <2>1. CASE p = <<>>
    BY <2>1, RanParamAssumption
  <2>2. CASE p \in DOMAIN m
    <3>1. p \in Seq(1 .. MaxItems) /\ Len(p) \in 1 .. MaxDepth
      BY <2>2 DEF IsParamList
    <3>2. \A k \in 1 .. Len(p) : p[k] \in Nat
      BY <3>1, RanParamAssumption
    <3>3. p = [k \in 1 .. Len(p) |-> p[k]]
      BY <3>1
    <3> QED
      BY <3>1, <3>2, <3>3, RanParamAssumption
  <2> QED
    BY <1>1, <2>1, <2>2 DEF Paths
<1>2. ASSUME NEW p \in Paths(m), NEW i \in Items(m, p)
      PROVE  /\ i \in Nat /\ Append(p, i) \in DOMAIN m /\ Append(p, i) \in Paths(m)
             /\ Len(Append(p, i)) = Len(p) + 1
  BY <1>1 DEF Items, Paths
<1> QED
  BY <1>1, <1>2

(***************************************************************************)
(* The recursion ends: there is a function that is what the calls return.  *)
(* By induction on how many levels there are left.                         *)
(***************************************************************************)
LEMMA SearchExists ==
  ASSUME NEW m, IsParamList(m), NEW id
  PROVE  \E f : f = [p \in Paths(m) |-> Call(m, id, f, p)]
<1> DEFINE Right(f, n) == \A p \in Paths(m) : Len(p) > MaxDepth - n => f[p] = Call(m, id, f, p)
           S == {n \in Nat : \E f : Right(f, n)}
<1>0. MaxDepth \in Nat
  BY RanParamAssumption
<1>1. 0 \in S
  <2>1. Right(<<>>, 0)
    BY <1>0, PathFacts
  <2> QED
    BY <2>1
<1>2. ASSUME NEW n \in Nat, n \in S PROVE n + 1 \in S
  <2>1. PICK f : Right(f, n)
    BY <1>2
  <2>2. PICK g : g = [p \in Paths(m) |-> IF Len(p) = MaxDepth - n THEN Call(m, id, f, p)
                                         ELSE f[p]]
    OBVIOUS
  <2>3. ASSUME NEW p \in Paths(m), Len(p) > MaxDepth - (n + 1) PROVE g[p] = Call(m, id, g, p)
    <3>1. Len(p) \in Nat
      BY PathFacts
    <3>2. \A i \in Items(m, p) : f[Append(p, i)] = g[Append(p, i)]
      BY <1>0, <2>2, <2>3, <3>1, PathFacts
    <3>3. Call(m, id, f, p) = Call(m, id, g, p)
      BY <3>2, CallLocal
    <3>4. CASE Len(p) = MaxDepth - n
      BY <2>2, <3>3, <3>4
    <3>5. CASE Len(p) # MaxDepth - n
      <4>1. Len(p) > MaxDepth - n
        BY <1>0, <2>3, <3>1, <3>5
      <4> QED
        BY <2>1, <2>2, <3>3, <3>5, <4>1
    <3> QED
      BY <3>4, <3>5
  <2>4. Right(g, n + 1)
    BY <2>3
  <2> QED
    BY <2>4
<1>3. MaxDepth + 1 \in S
  <2> HIDE DEF S
  <2> QED
    BY <1>0, <1>1, <1>2, Induction
<1>4. PICK f : Right(f, MaxDepth + 1)
  BY <1>3
<1>5. PICK g : g = [p \in Paths(m) |-> f[p]]
  OBVIOUS
<1>6. ASSUME NEW p \in Paths(m) PROVE g[p] = Call(m, id, g, p)
  <2>1. f[p] = Call(m, id, f, p)
    BY <1>0, <1>4, PathFacts
  <2>2. Call(m, id, f, p) = Call(m, id, g, p)
    BY <1>5, PathFacts, CallLocal
  <2> QED
    BY <1>5, <2>1, <2>2
<1>7. g = [p \in Paths(m) |-> Call(m, id, g, p)]
  BY <1>5, <1>6
<1> QED
  BY <1>7

\* So the search of the code satisfies its recursive equation.
LEMMA SearchUnfolds ==
  ASSUME NEW m, IsParamList(m), NEW id
  PROVE  \E f : /\ GetRanParameterValue(m, id) = f[<<>>]
                /\ \A p \in Paths(m) : f[p] = Call(m, id, f, p)
<1>1. PICK f : f = CHOOSE g : g = [p \in Paths(m) |-> Call(m, id, g, p)]
  OBVIOUS
<1>2. f = [p \in Paths(m) |-> Call(m, id, f, p)]
  BY <1>1, SearchExists
<1>3. GetRanParameterValue(m, id) = f[<<>>]
  BY <1>1 DEF GetRanParameterValue, Call, Found, Hit, Paths
<1>4. \A p \in Paths(m) : f[p] = Call(m, id, f, p)
  BY <1>2
<1> QED
  BY <1>3, <1>4

-----------------------------------------------------------------------------
\* The parameters with the ID below path p, and what the search for them should return.
Hits(m, id, p) == {q \in DOMAIN m : m[q].id = id /\ Below(p, q)}

FirstOf(q, H) == q \in H /\ \A r \in H \ {q} : WrittenBefore(q, r)

Finds(m, H, v) ==
  \/ H = {} /\ v = NotFound
  \/ \E q \in H : FirstOf(q, H) /\ v = m[q].value

\* The first n elements of a sequence.
LEMMA FrontFacts ==
  ASSUME NEW T, NEW q \in Seq(T), NEW n \in 1 .. Len(q)
  PROVE  /\ q[n] \in T
         /\ SubSeq(q, 1, n) \in Seq(T) /\ Len(SubSeq(q, 1, n)) = n
         /\ \A k \in 1 .. n : SubSeq(q, 1, n)[k] = q[k]
<1>1. Len(q) \in Nat /\ n \in Nat /\ \A k \in 1 .. n : k \in 1 .. Len(q)
  OBVIOUS
<1>2. q[n] \in T
  OBVIOUS
<1>3. \A k \in 1 .. n : q[k] \in T
  BY <1>1
<1>4. SubSeq(q, 1, n) = [k \in 1 .. n |-> q[k]]
  BY <1>1
<1> QED
  BY <1>1, <1>2, <1>3, <1>4

\* Whatever is below path p is one of its items or below one of them.
LEMMA BelowItem ==
  ASSUME NEW m, IsParamList(m), NEW p \in Paths(m), NEW q \in DOMAIN m, Below(p, q)
  PROVE  /\ q[Len(p) + 1] \in Items(m, p)
         /\ q # Append(p, q[Len(p) + 1]) => Below(Append(p, q[Len(p) + 1]), q)
<1>1. p \in Seq(Nat) /\ q \in Seq(1 .. MaxItems) /\ Len(q) \in Nat /\ Len(p) \in Nat
  BY PathFacts DEF IsParamList
<1>2. PICK n \in Nat : n = Len(p) + 1 /\ n \in 1 .. Len(q)
  BY <1>1 DEF Below
<1>3. PICK i \in 1 .. MaxItems : i = q[n]
  BY <1>1, <1>2, FrontFacts
<1>4. SubSeq(q, 1, n) \in DOMAIN m
  BY <1>2 DEF IsParamList
<1>5. /\ Append(p, i) \in Seq(Nat) /\ Len(Append(p, i)) = n
      /\ \A k \in 1 .. n : Append(p, i)[k] = q[k]
  <2>1. \A k \in 1 .. Len(p) : Append(p, i)[k] = p[k]
    BY <1>1
  <2>2. Append(p, i) \in Seq(Nat) /\ Len(Append(p, i)) = n /\ Append(p, i)[n] = i
    BY <1>1, <1>2, <1>3, RanParamAssumption
  <2>3. \A k \in 1 .. n : k \in 1 .. Len(p) \/ k = n
    BY <1>1, <1>2
  <2> QED
    BY <1>3, <2>1, <2>2, <2>3 DEF Below
<1>6. /\ SubSeq(q, 1, n) \in Seq(1 .. MaxItems) /\ Len(SubSeq(q, 1, n)) = n
      /\ \A k \in 1 .. n : SubSeq(q, 1, n)[k] = q[k]
  BY <1>1, <1>2, FrontFacts
<1>7. Append(p, i) = SubSeq(q, 1, n)
  BY <1>5, <1>6
<1>8. i \in Items(m, p)
  BY <1>4, <1>7 DEF Items
<1>9. ASSUME q # Append(p, i) PROVE Below(Append(p, i), q)
  <2>1. Len(q) # n
    <3>1. ASSUME Len(q) = n PROVE q = Append(p, i)
      BY <1>1, <1>5, <3>1
    <3> QED
      BY <1>9, <3>1
  <2>2. n < Len(q)
    BY <1>1, <1>2, <2>1
  <2> QED
    BY <1>5, <2>2 DEF Below
<1> QED
  BY <1>2, <1>3, <1>8, <1>9

\* And the other way round.
LEMMA ItemBelow ==
  ASSUME NEW m, IsParamList(m), NEW p \in Paths(m), NEW i \in Items(m, p)
  PROVE  /\ Append(p, i) \in DOMAIN m /\ Append(p, i)[Len(p) + 1] = i
         /\ Below(p, Append(p, i))
         /\ \A q : Below(Append(p, i), q) =>
                     Below(p, q) /\ q[Len(p) + 1] = i /\ q # Append(p, i)
<1>1. p \in Seq(Nat) /\ Len(p) \in Nat /\ i \in Nat /\ Append(p, i) \in DOMAIN m
  BY PathFacts
<1>2. /\ Len(Append(p, i)) = Len(p) + 1 /\ Append(p, i)[Len(p) + 1] = i
      /\ \A k \in 1 .. Len(p) : Append(p, i)[k] = p[k]
  BY <1>1
<1>3. Below(p, Append(p, i))
  BY <1>1, <1>2 DEF Below
<1>4. ASSUME NEW q, Below(Append(p, i), q)
      PROVE  Below(p, q) /\ q[Len(p) + 1] = i /\ q # Append(p, i)
  <2>1. Len(p) + 1 < Len(q) /\ \A k \in 1 .. Len(p) + 1 : q[k] = Append(p, i)[k]
    BY <1>2, <1>4 DEF Below
  <2> QED
    BY <1>1, <1>2, <2>1 DEF Below
<1> QED
  BY <1>1, <1>2, <1>3, <1>4

\* The hits below p that are at its item i or below it.
HitsAt(m, id, p, i) == {q \in Hits(m, id, p) : q[Len(p) + 1] = i}

\* What a call gets for one of its items is the first hit there.
LEMMA ItemFinds ==
  ASSUME NEW m, IsParamList(m), NEW id, NEW f, NEW p \in Paths(m), NEW i \in Items(m, p),
         Finds(m, Hits(m, id, Append(p, i)), f[Append(p, i)])
  PROVE  Finds(m, HitsAt(m, id, p, i), Hit(m, id, f, Append(p, i)))
<1>1. PICK c : c = Append(p, i)
  OBVIOUS
<1>2. /\ c \in DOMAIN m /\ c[Len(p) + 1] = i /\ Below(p, c)
      /\ \A q : Below(c, q) => Below(p, q) /\ q[Len(p) + 1] = i /\ q # c
  BY <1>1, ItemBelow
<1>3. \A q \in DOMAIN m : Below(p, q) /\ q[Len(p) + 1] = i => q = c \/ Below(c, q)
  BY <1>1, BelowItem
<1>4. PICK H : H = HitsAt(m, id, p, i)
  OBVIOUS
<1>5. \A q : q \in H <=> q \in DOMAIN m /\ m[q].id = id /\ (q = c \/ Below(c, q))
  BY <1>2, <1>3, <1>4 DEF HitsAt, Hits
<1>6. CASE m[c].id = id
  <2>1. FirstOf(c, H)
    BY <1>2, <1>5, <1>6 DEF FirstOf, WrittenBefore
  <2> QED
    BY <1>1, <1>4, <1>6, <2>1 DEF Finds, Hit, FirstOf
<1>7. CASE m[c].id # id
  <2>1. H = Hits(m, id, c)
    BY <1>5, <1>7 DEF Hits
  <2> QED
    BY <1>1, <1>4, <1>7, <2>1 DEF Hit
<1> QED
  BY <1>6, <1>7

\* Values are not the error.
LEMMA FindsSome ==
  ASSUME NEW m, IsParamList(m), NEW H \in SUBSET DOMAIN m, NEW v, Finds(m, H, v)
  PROVE  v = NotFound <=> H = {}
<1>1. \A q \in H : m[q].value \in Cells \cup {Empty}
  BY DEF IsParamList, Item
<1>2. NotFound \notin Cells \cup {Empty}
  BY RanParamAssumption DEF NotFound, Empty
<1> QED
  BY <1>1, <1>2 DEF Finds

(***************************************************************************)
(* A call finds the first hit when the calls it makes do: a hit at an      *)
(* earlier item is written before those at the later ones.                 *)
(***************************************************************************)
LEMMA CallFinds ==
  ASSUME NEW m, IsParamList(m), NEW id, NEW f, NEW p \in Paths(m), f[p] = Call(m, id, f, p),
         \A i \in Items(m, p) : Finds(m, Hits(m, id, Append(p, i)), f[Append(p, i)])
  PROVE  Finds(m, Hits(m, id, p), f[p])
<1>1. \A i \in Items(m, p) : Finds(m, HitsAt(m, id, p, i), Hit(m, id, f, Append(p, i)))
  BY ItemFinds
<1>2. PICK F : F = Found(m, id, f, p)
  OBVIOUS
<1>3. \A i : i \in F <=> i \in Items(m, p) /\ HitsAt(m, id, p, i) # {}
  <2>1. ASSUME NEW i \in Items(m, p)
        PROVE  Hit(m, id, f, Append(p, i)) = NotFound <=> HitsAt(m, id, p, i) = {}
    <3>1. HitsAt(m, id, p, i) \in SUBSET DOMAIN m
      BY DEF HitsAt, Hits
    <3> QED
      BY <1>1, <3>1, FindsSome
  <2> QED
    BY <1>2, <2>1 DEF Found
<1>4. \A q \in Hits(m, id, p) : q[Len(p) + 1] \in F /\ q \in HitsAt(m, id, p, q[Len(p) + 1])
  BY <1>3, BelowItem DEF HitsAt, Hits
<1>5. CASE F = {}
  <2>1. Hits(m, id, p) = {}
    BY <1>4, <1>5
  <2> QED
    BY <1>2, <1>5, <2>1 DEF Call, Finds
<1>6. CASE F # {}
  <2>1. F \subseteq Nat
    BY <1>3 DEF Items
  <2>2. PICK n : n = CHOOSE i \in F : \A j \in F : i <= j
    OBVIOUS
  <2>3. n \in F /\ \A j \in F : n <= j
    BY <2>1, <2>2, <1>6, Least
  <2>4. f[p] = Hit(m, id, f, Append(p, n))
    BY <1>2, <1>6, <2>2 DEF Call
  <2>5. PICK q \in HitsAt(m, id, p, n) : FirstOf(q, HitsAt(m, id, p, n)) /\ f[p] = m[q].value
    BY <1>1, <1>3, <2>3, <2>4 DEF Finds
  <2>6. q \in Hits(m, id, p) /\ q[Len(p) + 1] = n
    BY <2>5 DEF HitsAt
  <2>7. ASSUME NEW r \in Hits(m, id, p), r # q PROVE WrittenBefore(q, r)
    <3>1. CASE r[Len(p) + 1] = n
      BY <2>5, <2>7, <3>1 DEF FirstOf, HitsAt
    <3>2. CASE r[Len(p) + 1] # n
      <4>1. n < r[Len(p) + 1] /\ n \in Nat
        <5>1. PICK j : j = r[Len(p) + 1] /\ j \in F
          BY <1>4
        <5> QED
          BY <2>1, <2>3, <3>2, <5>1
      <4>2. Below(p, q) /\ Below(p, r) /\ q \in DOMAIN m /\ r \in DOMAIN m
        BY <2>6 DEF Hits
      <4>3. Len(p) \in Nat /\ Len(q) \in Nat /\ Len(r) \in Nat
        BY <4>2, PathFacts DEF Paths
      <4>4. Len(p) + 1 \in 1 .. Len(q) /\ Len(p) + 1 <= Len(r) /\ (Len(p) + 1) - 1 = Len(p)
        BY <4>2, <4>3 DEF Below
      <4>5. \A j \in 1 .. Len(p) : q[j] = r[j]
        BY <4>2 DEF Below
      <4> QED
        BY <2>6, <4>1, <4>4, <4>5 DEF WrittenBefore
    <3> QED
      BY <3>1, <3>2
  <2> QED
    BY <2>5, <2>6, <2>7 DEF Finds, FirstOf
<1> QED
  BY <1>5, <1>6

(***************************************************************************)
(* The search returns the first hit of the whole list, however deep and    *)
(* broad the parameters are nested.                                        *)
(***************************************************************************)
LEMMA SearchFinds ==
  ASSUME NEW m, IsParamList(m), NEW id
  PROVE  Finds(m, {p \in DOMAIN m : m[p].id = id}, GetRanParameterValue(m, id))
<1>1. PICK f : /\ GetRanParameterValue(m, id) = f[<<>>]
               /\ \A p \in Paths(m) : f[p] = Call(m, id, f, p)
  BY SearchUnfolds
<1> DEFINE S == {n \in Nat : \A p \in Paths(m) : Len(p) > MaxDepth - n =>
                                Finds(m, Hits(m, id, p), f[p])}
<1>2. MaxDepth \in Nat
  BY RanParamAssumption
<1>3. 0 \in S
  BY <1>2, PathFacts
<1>4. ASSUME NEW n \in Nat, n \in S PROVE n + 1 \in S
  <2>1. ASSUME NEW p \in Paths(m), Len(p) > MaxDepth - (n + 1)
        PROVE  Finds(m, Hits(m, id, p), f[p])
    <3>1. \A i \in Items(m, p) :
            /\ Append(p, i) \in Paths(m) /\ Len(Append(p, i)) = Len(p) + 1 /\ Len(p) \in Nat
      BY PathFacts
    <3>2. \A i \in Items(m, p) : Len(Append(p, i)) > MaxDepth - n
      BY <1>2, <2>1, <3>1
    <3>3. \A i \in Items(m, p) : Finds(m, Hits(m, id, Append(p, i)), f[Append(p, i)])
      BY <1>4, <3>1, <3>2
    <3> QED
      BY <1>1, <3>3, CallFinds
  <2> QED
    BY <2>1
<1>5. MaxDepth + 1 \in S
  <2> HIDE DEF S
  <2> QED
    BY <1>2, <1>3, <1>4, Induction
<1>6. Finds(m, Hits(m, id, <<>>), f[<<>>])
  <2>1. <<>> \in Paths(m) /\ Len(<<>>) > MaxDepth - (MaxDepth + 1)
    BY <1>2 DEF Paths
  <2> QED
    BY <1>5, <2>1
<1>7. Hits(m, id, <<>>) = {p \in DOMAIN m : m[p].id = id}
  <2>1. \A p \in DOMAIN m : Below(<<>>, p)
    BY DEF Below, IsParamList
  <2> QED
    BY <2>1 DEF Hits
<1> QED
  BY <1>1, <1>6, <1>7

-----------------------------------------------------------------------------
\* The four paths to the target cell.
LEMMA OnesAreTargets == \A k \in 1 .. 4 : [j \in 1 .. k |-> 1] \in TargetPaths
<1>1. [j \in 1 .. 1 |-> 1] = <<1>>
  OBVIOUS
<1>2. [j \in 1 .. 2 |-> 1] = <<1, 1>>
  OBVIOUS
<1>3. [j \in 1 .. 3 |-> 1] = <<1, 1, 1>>
  OBVIOUS
<1>4. [j \in 1 .. 4 |-> 1] = <<1, 1, 1, 1>>
  OBVIOUS
<1>5. \A k \in 1 .. 4 : k = 1 \/ k = 2 \/ k = 3 \/ k = 4
  OBVIOUS
<1> QED
  BY <1>1, <1>2, <1>3, <1>4, <1>5 DEF TargetPaths, TargetPath

\* And nothing else is among them.
LEMMA TargetsAreOnes ==
  ASSUME NEW p \in TargetPaths
  PROVE  \E n \in 1 .. 4 : /\ Len(p) = n /\ p = [j \in 1 .. n |-> 1]
                           /\ \A I : 1 \in I => p \in Seq(I)
<1>1. CASE p = <<1>>
  <2>1. Len(p) = 1 /\ p = [j \in 1 .. 1 |-> 1]
    BY <1>1
  <2> QED
    BY <1>1, <2>1
<1>2. CASE p = <<1, 1>>
  <2>1. Len(p) = 2 /\ p = [j \in 1 .. 2 |-> 1]
    BY <1>2
  <2> QED
    BY <1>2, <2>1
<1>3. CASE p = <<1, 1, 1>>
  <2>1. Len(p) = 3 /\ p = [j \in 1 .. 3 |-> 1]
    BY <1>3
  <2> QED
    BY <1>3, <2>1
<1>4. CASE p = <<1, 1, 1, 1>>
  <2>1. Len(p) = 4 /\ p = [j \in 1 .. 4 |-> 1]
    BY <1>4
  <2> QED
    BY <1>4, <2>1
<1> QED
  BY <1>1, <1>2, <1>3, <1>4 DEF TargetPaths, TargetPath

\* Whoever asks a list with its target in place for its NR CGI gets the target.
LEMMA TargetFound ==
  ASSUME NEW m, IsParamList(m), TargetPath \in DOMAIN m, ~ Misplaced(m)
  PROVE  GetRanParameterValue(m, NRCGI) = TgtCellID(m)
<1>1. PICK H : H = {p \in DOMAIN m : m[p].id = NRCGI}
  OBVIOUS
<1>2. IsParamList(m) /\ <<1, 1, 1, 1>> \in H
  BY <1>1 DEF Misplaced, TargetPath
<1>3. PICK q \in H : FirstOf(q, H) /\ GetRanParameterValue(m, NRCGI) = m[q].value
  BY <1>1, <1>2, SearchFinds DEF Finds
<1>4. q = <<1, 1, 1, 1>>
  <2> SUFFICES ASSUME q # <<1, 1, 1, 1>> PROVE FALSE
    OBVIOUS
  <2>1. WrittenBefore(q, <<1, 1, 1, 1>>)
    BY <1>2, <1>3 DEF FirstOf
  <2>2. /\ q \in Seq(1 .. MaxItems) /\ Len(q) \in Nat /\ Len(q) > 0
        /\ \A k \in 1 .. Len(q) : q[k] \in Nat /\ q[k] >= 1
    <3>1. q \in DOMAIN m
      BY <1>1
    <3>2. q \in Seq(1 .. MaxItems) /\ Len(q) \in 1 .. MaxDepth
      BY <1>2, <3>1 DEF IsParamList
    <3>3. MaxItems \in Nat /\ MaxDepth \in Nat
      BY RanParamAssumption
    <3> QED
      BY <3>2, <3>3
  <2>3. ~ \E k \in 1 .. Len(q) : /\ k <= 4 /\ q[k] < <<1, 1, 1, 1>>[k]
    BY <2>2
  <2>4. Below(q, <<1, 1, 1, 1>>)
    BY <2>1, <2>3 DEF WrittenBefore
  <2>5. Len(q) \in 1 .. 3 /\ \A k \in 1 .. Len(q) : q[k] = 1
    <3>1. PICK t : t = <<1, 1, 1, 1>>
      OBVIOUS
    <3>2. Len(t) = 4 /\ t = [k \in 1 .. 4 |-> 1]
      BY <3>1
    <3>3. Len(q) < 4 /\ \A k \in 1 .. Len(q) : t[k] = q[k]
      BY <2>4, <3>1, <3>2 DEF Below
    <3>4. Len(q) \in 1 .. 3 /\ \A k \in 1 .. Len(q) : k \in 1 .. 4
      <4>1. PICK n \in Nat : n = Len(q) /\ n > 0 /\ n < 4
        BY <2>2, <3>3
      <4>2. n \in 1 .. 3 /\ \A k \in 1 .. n : k \in 1 .. 4
        BY <4>1
      <4> QED
        BY <4>1, <4>2
    <3>5. \A k \in 1 .. Len(q) : t[k] = 1
      BY <3>2, <3>4
    <3> QED
      BY <3>3, <3>4, <3>5
  <2>6. q = <<1>> \/ q = <<1, 1>> \/ q = <<1, 1, 1>>
    <3>1. q = [k \in 1 .. Len(q) |-> 1]
      BY <2>2, <2>5
    <3>2. CASE Len(q) = 1
      BY <3>1, <3>2
    <3>3. CASE Len(q) = 2
      BY <3>1, <3>3
    <3>4. CASE Len(q) = 3
      BY <3>1, <3>4
    <3> QED
      BY <2>5, <3>2, <3>3, <3>4
  <2>7. q # TargetPath
    BY DEF TargetPath
  <2> QED
    <3>1. q \in TargetPaths \ {TargetPath} /\ m[q].id = NRCGI
      BY <1>1, <2>6, <2>7 DEF TargetPaths, TargetPath
    <3> QED
      BY <3>1 DEF Misplaced
<1> QED
  BY <1>3, <1>4 DEF TgtCellID, TargetPath

\* The control message is such a list, for any cell.
LEMMA AnswerInPlace ==
  ASSUME NEW c \in Cells \cup {Empty}
  PROVE  LET m == CreateRcControlMessage(c) IN
         /\ IsParamList(m) /\ TargetPath \in DOMAIN m
         /\ ~ Misplaced(m) /\ TgtCellID(m) = c
<1>1. PICK m : m = CreateRcControlMessage(c)
  OBVIOUS
<1>2. /\ DOMAIN m = TargetPaths /\ m = [p \in DOMAIN m |-> m[p]]
      /\ m[<<1>>] = [id |-> TargetPrimaryCellID, value |-> Empty]
      /\ m[<<1, 1>>] = [id |-> TargetCell, value |-> Empty]
      /\ m[<<1, 1, 1>>] = [id |-> NRCell, value |-> Empty]
      /\ m[<<1, 1, 1, 1>>] = [id |-> NRCGI, value |-> c]
  <2>1. DOMAIN m = TargetPaths /\ m = [p \in DOMAIN m |-> m[p]]
    BY <1>1 DEF CreateRcControlMessage
  <2>2. PICK I : I = <<TargetPrimaryCellID, TargetCell, NRCell, NRCGI>>
    OBVIOUS
  <2>3. \A p \in TargetPaths :
          m[p] = [id |-> I[Len(p)], value |-> IF Len(p) = 4 THEN c ELSE Empty]
    BY <1>1, <2>2 DEF CreateRcControlMessage
  <2>4. /\ I[1] = TargetPrimaryCellID /\ I[2] = TargetCell
        /\ I[3] = NRCell /\ I[4] = NRCGI
    BY <2>2
  <2>5. m[<<1>>] = [id |-> TargetPrimaryCellID, value |-> Empty]
    <3>1. PICK p \in TargetPaths : p = <<1>> /\ Len(p) = 1
      BY DEF TargetPaths, TargetPath
    <3>2. m[p] = [id |-> I[Len(p)], value |-> IF Len(p) = 4 THEN c ELSE Empty]
      BY <2>3
    <3>3. m[p] = [id |-> TargetPrimaryCellID, value |-> Empty]
      BY <2>4, <3>1, <3>2
    <3> QED
      BY <3>1, <3>3
  <2>6. m[<<1, 1>>] = [id |-> TargetCell, value |-> Empty]
    <3>1. PICK p \in TargetPaths : p = <<1, 1>> /\ Len(p) = 2
      BY DEF TargetPaths, TargetPath
    <3>2. m[p] = [id |-> I[Len(p)], value |-> IF Len(p) = 4 THEN c ELSE Empty]
      BY <2>3
    <3>3. m[p] = [id |-> TargetCell, value |-> Empty]
      BY <2>4, <3>1, <3>2
    <3> QED
      BY <3>1, <3>3
  <2>7. m[<<1, 1, 1>>] = [id |-> NRCell, value |-> Empty]
    <3>1. PICK p \in TargetPaths : p = <<1, 1, 1>> /\ Len(p) = 3
      BY DEF TargetPaths, TargetPath
    <3>2. m[p] = [id |-> I[Len(p)], value |-> IF Len(p) = 4 THEN c ELSE Empty]
      BY <2>3
    <3>3. m[p] = [id |-> NRCell, value |-> Empty]
      BY <2>4, <3>1, <3>2
    <3> QED
      BY <3>1, <3>3
  <2>8. m[<<1, 1, 1, 1>>] = [id |-> NRCGI, value |-> c]
    <3>1. PICK p \in TargetPaths : p = <<1, 1, 1, 1>> /\ Len(p) = 4
      BY DEF TargetPaths, TargetPath
    <3>2. m[p] = [id |-> I[Len(p)], value |-> IF Len(p) = 4 THEN c ELSE Empty]
      BY <2>3
    <3>3. m[p] = [id |-> NRCGI, value |-> c]
      BY <2>4, <3>1, <3>2
    <3> QED
      BY <3>1, <3>3
  <2> QED
    BY <2>1, <2>5, <2>6, <2>7, <2>8
<1>3. \A p \in TargetPaths : m[p] \in Item
  BY <1>2 DEF TargetPaths, TargetPath, Item, IDs
<1>4. \A p \in TargetPaths : p \in Seq(1 .. MaxItems) /\ Len(p) \in 1 .. MaxDepth
  <2>1. 1 \in 1 .. MaxItems /\ MaxDepth \in Nat /\ MaxDepth >= 4
    BY RanParamAssumption
  <2>2. PICK I : I = 1 .. MaxItems /\ 1 \in I
    BY <2>1
  <2>3. \A p \in TargetPaths : p \in Seq(I) /\ Len(p) \in 1 .. 4
    BY <2>2, TargetsAreOnes
  <2>4. 1 .. 4 \subseteq 1 .. MaxDepth
    BY <2>1
  <2> QED
    BY <2>2, <2>3, <2>4
<1>5. ASSUME NEW p \in TargetPaths, NEW k \in 1 .. Len(p)
      PROVE  SubSeq(p, 1, k) \in TargetPaths
  <2>1. PICK n \in 1 .. 4 : Len(p) = n /\ p = [j \in 1 .. n |-> 1] /\ p \in Seq(Nat)
    BY TargetsAreOnes
  <2>2. /\ SubSeq(p, 1, k) \in Seq(Nat) /\ Len(SubSeq(p, 1, k)) = k
        /\ \A j \in 1 .. k : SubSeq(p, 1, k)[j] = p[j]
    BY <2>1, FrontFacts
  <2>3. k \in 1 .. 4 /\ SubSeq(p, 1, k) = [j \in 1 .. k |-> 1]
    BY <1>5, <2>1, <2>2
  <2> QED
    BY <2>3, OnesAreTargets
<1>6. IsParamList(m)
  BY <1>2, <1>3, <1>4, <1>5 DEF IsParamList
<1>7. ~ Misplaced(m)
  <2>1. m[TargetPath].id = NRCGI
    BY <1>2 DEF TargetPath
  <2>2. \A p \in TargetPaths \ {TargetPath} : m[p].id # NRCGI
    BY <1>2 DEF TargetPaths, TargetPath, TargetPrimaryCellID, TargetCell, NRCell, NRCGI
  <2> QED
    BY <2>1, <2>2 DEF Misplaced
<1>8. TargetPath \in DOMAIN m /\ TgtCellID(m) = c
  BY <1>2 DEF TargetPaths, TargetPath, TgtCellID
<1> QED
  BY <1>1, <1>6, <1>7, <1>8

\* What the monitor and the southbound watcher have done so far.
RanParamInv ==
  /\ request \in Requests
  /\ pc \in {"read", "sent"} => TargetPath \in DOMAIN request /\ tgt = TgtCellID(request)
  /\ answer # <<>> => pc = "sent" /\ answer = CreateRcControlMessage(tgt)

\* It holds throughout.
LEMMA RanParamAlways == RanParamSpec => []RanParamInv
<1>1. RanParamInit => RanParamInv
  BY DEF RanParamInit, RanParamInv
<1>2. RanParamInv /\ [RanParamNext]_ranParamVars => RanParamInv'
  BY DEF RanParamInv, RanParamNext, ReadTarget, ReadPanics, BuildControl, BuildFails,
         ranParamVars
<1> QED
  BY <1>1, <1>2, PTL DEF RanParamSpec

(***************************************************************************)
(* The control message carries the cell at the place that was read, for    *)
(* requests with any IDs, breadth and depth, and this is the NR CGI of the *)
(* request if the request has it there.                                    *)
(***************************************************************************)
THEOREM AnswersNameCell == RanParamSpec => []AnswerNamesRequestedCell
<1>1. RanParamInv => AnswerNamesRequestedCell
  <2> SUFFICES ASSUME RanParamInv, answer # <<>> PROVE AnswerNamesRequestedCell
    BY DEF AnswerNamesRequestedCell
  <2>1. /\ IsParamList(request) /\ TargetPath \in DOMAIN request
        /\ tgt = TgtCellID(request) /\ answer = CreateRcControlMessage(tgt)
    BY RanParamAssumption DEF RanParamInv
  <2>2. tgt \in Cells \cup {Empty}
    BY <2>1 DEF IsParamList, Item, TgtCellID
  <2>3. /\ IsParamList(answer) /\ TargetPath \in DOMAIN answer
        /\ ~ Misplaced(answer) /\ TgtCellID(answer) = tgt
    BY <2>1, <2>2, AnswerInPlace
  <2>4. GetRanParameterValue(answer, NRCGI) = tgt
    BY <2>3, TargetFound
  <2>5. ~ Misplaced(request) => GetRanParameterValue(request, NRCGI) = tgt
    BY <2>1, TargetFound
  <2> QED
    BY <2>1, <2>3, <2>4, <2>5 DEF AnswerNamesRequestedCell
<1> QED
  BY <1>1, RanParamAlways, PTL

(***************************************************************************)
(* GetRanParameterValue finds the first parameter with an ID, and fails    *)
(* only if there is none.                                                  *)
(***************************************************************************)
THEOREM SearchCorrect == RanParamSpec => []SearchFindsFirst
<1>1. RanParamInv => SearchFindsFirst
  <2> SUFFICES ASSUME RanParamInv, NEW id \in IDs
               PROVE  Finds(request, {p \in DOMAIN request : request[p].id = id},
                            GetRanParameterValue(request, id))
    BY DEF SearchFindsFirst, Finds, FirstOf
  <2>1. IsParamList(request)
    BY RanParamAssumption DEF RanParamInv
  <2> QED
    BY <2>1, SearchFinds
<1> QED
  BY <1>1, RanParamAlways, PTL

-----------------------------------------------------------------------------
(***************************************************************************)
(* The numbers of k octets fit a word.                                     *)
(***************************************************************************)
LEMMA PowersFit ==
  /\ Base \in Nat /\ Base >= 1 /\ Word \in Nat
  /\ \A k \in 0 .. WordOctets : Power[k] \in Nat /\ Power[k] >= 1 /\ Power[k] <= Word
<1>1. Base \in Nat /\ Base >= 1 /\ WordOctets \in Nat /\ Word \in Nat
  BY UeKeyAssumption DEF Word
<1>2. \A k \in 0 .. WordOctets : Power[k] \in Nat
  BY UeKeyAssumption
<1> DEFINE S == {n \in Nat : n <= WordOctets => Power[n] >= 1}
           T == {n \in Nat : n <= WordOctets => Power[WordOctets - n] <= Word}
<1>3. 0 \in S /\ 0 \in T
  BY <1>1, <1>2, UeKeyAssumption DEF Word
<1>4. ASSUME NEW n \in Nat, n \in S PROVE n + 1 \in S
  <2>1. SUFFICES ASSUME n + 1 <= WordOctets PROVE Power[n + 1] >= 1
    OBVIOUS
  <2>2. Power[n] >= 1 /\ Power[n] \in Nat /\ Power[n + 1] = Power[n] * Base
    BY <1>1, <1>2, <1>4, <2>1, UeKeyAssumption
  <2>3. \A x \in Nat : x >= 1 => x * Base >= 1
    BY <1>1
  <2> QED
    BY <2>2, <2>3
<1>5. Nat \subseteq S
  <2> HIDE DEF S
  <2> QED
    BY <1>3, <1>4, Induction
<1>6. ASSUME NEW n \in Nat, n \in T PROVE n + 1 \in T
  <2>1. SUFFICES ASSUME n + 1 <= WordOctets PROVE Power[WordOctets - (n + 1)] <= Word
    OBVIOUS
  <2>2. PICK k \in 1 .. WordOctets : k = WordOctets - n /\ k - 1 = WordOctets - (n + 1)
    BY <1>1, <2>1
  <2>3. Power[k] <= Word /\ Power[k] = Power[k - 1] * Base /\ Power[k - 1] \in Nat
    BY <1>1, <1>2, <1>6, <2>1, <2>2, UeKeyAssumption
  <2>4. \A x \in Nat : x <= x * Base /\ x * Base \in Nat
    BY <1>1
  <2>5. Power[k - 1] <= Word
    BY <1>1, <2>3, <2>4
  <2> QED
    BY <2>2, <2>5
<1>7. Nat \subseteq T
  <2> HIDE DEF T
  <2> QED
    BY <1>3, <1>6, Induction
<1>8. ASSUME NEW k \in 0 .. WordOctets PROVE Power[k] >= 1 /\ Power[k] <= Word
  <2>1. k \in Nat /\ k <= WordOctets /\ WordOctets - k \in Nat
    BY <1>1
  <2>2. Power[k] >= 1
    BY <1>5, <2>1
  <2>3. PICK n \in T : n = WordOctets - k /\ n <= WordOctets /\ k = WordOctets - n
    BY <1>1, <1>7, <2>1
  <2> QED
    BY <2>2, <2>3
<1> QED
  BY <1>1, <1>2, <1>8

\* An octet more multiplies what a number stays below by Base.
LEMMA Shift ==
  ASSUME NEW x \in Nat, NEW m \in Nat, x < m, NEW e \in Octets
  PROVE  x * Base + e \in Nat /\ x * Base + e < m * Base
<1>1. x + 1 <= m
  OBVIOUS
<1>2. (x + 1) * Base <= m * Base
  BY <1>1, PowersFit
<1>3. (x + 1) * Base = x * Base + Base
  BY PowersFit
<1>4. x * Base \in Nat /\ m * Base \in Nat /\ e \in Nat /\ e < Base
  BY PowersFit DEF Octets
<1> QED
  BY <1>2, <1>3, <1>4, PowersFit

\* The last octet and what comes before it can be told from the number.
LEMMA LastOctet ==
  ASSUME NEW x \in Nat, NEW y \in Nat, NEW e \in Octets, NEW f \in Octets,
         x * Base + e = y * Base + f
  PROVE  x = y /\ e = f
<1>0. Base \in Nat
  BY PowersFit
<1>1. ~(x < y)
  <2>1. SUFFICES ASSUME x < y PROVE FALSE
    OBVIOUS
  <2>2. x * Base + e < y * Base
    BY <2>1, Shift
  <2> QED
    BY <2>2, <1>0 DEF Octets
<1>2. ~(y < x)
  <2>1. SUFFICES ASSUME y < x PROVE FALSE
    OBVIOUS
  <2>2. y * Base + f < x * Base
    BY <2>1, Shift
  <2> QED
    BY <2>2, <1>0 DEF Octets
<1>3. x = y
  BY <1>1, <1>2
<1> QED
  BY <1>3, <1>0 DEF Octets

\* One round of the loop of bytesToUint64.
Round(f, b, n) == IF n = 0 THEN 0 ELSE (f[n - 1] * Base + b[n]) % Word

\* The loop ends: there is a function of its results.
LEMMA LoopExists ==
  ASSUME NEW w \in Nat, NEW b
  PROVE  \E f : f = [n \in 0 .. w |-> Round(f, b, n)]
<1> DEFINE Right(f, n) == \A k \in 0 .. w : k < n => f[k] = Round(f, b, k)
           S == {n \in Nat : \E f : Right(f, n)}
<1>1. 0 \in S
  OBVIOUS
<1>2. ASSUME NEW n \in Nat, n \in S PROVE n + 1 \in S
  <2>1. PICK f : Right(f, n)
    BY <1>2
  <2>2. PICK g : g = [k \in 0 .. w |-> IF k = n THEN Round(f, b, k) ELSE f[k]]
    OBVIOUS
  <2>3. ASSUME NEW k \in 0 .. w, k < n + 1 PROVE g[k] = Round(g, b, k)
    <3>1. k # 0 => g[k - 1] = f[k - 1]
      BY <2>2, <2>3
    <3>2. Round(g, b, k) = Round(f, b, k)
      BY <3>1 DEF Round
    <3>3. k = n \/ k < n
      BY <2>3
    <3> QED
      BY <2>1, <2>2, <3>2, <3>3
  <2>4. Right(g, n + 1)
    BY <2>3
  <2> QED
    BY <2>4
<1>3. w + 1 \in S
  <2> HIDE DEF S
  <2> QED
    BY <1>1, <1>2, Induction
<1>4. PICK f : Right(f, w + 1)
  BY <1>3
<1>5. PICK g : g = [k \in 0 .. w |-> f[k]]
  OBVIOUS
<1>6. ASSUME NEW k \in 0 .. w PROVE g[k] = Round(g, b, k)
  <2>1. k # 0 => g[k - 1] = f[k - 1]
    BY <1>5
  <2>2. f[k] = Round(f, b, k)
    BY <1>4
  <2> QED
    BY <1>5, <2>1, <2>2 DEF Round
<1>7. g = [n \in 0 .. w |-> Round(g, b, n)]
  BY <1>5, <1>6
<1> QED
  BY <1>7

(***************************************************************************)
(* On a field that fits a word no intermediate result wraps around.        *)
(***************************************************************************)
LEMMA LoopResult ==
  ASSUME NEW w \in 0 .. WordOctets, NEW b \in OctetStrings(w)
  PROVE  \E f : /\ bytesToUint64(b) = f[w] /\ f[0] = 0
                /\ \A n \in 0 .. w : f[n] \in Nat
                /\ \A n \in 1 .. w : b[n] \in Octets /\ f[n] = f[n - 1] * Base + b[n]
<1>1. WordOctets \in Nat /\ w \in Nat
  BY UeKeyAssumption
<1>2. b \in Seq(Octets) /\ Len(b) = w
  BY <1>1 DEF OctetStrings
<1>3. PICK f : f = CHOOSE g : g = [n \in 0 .. w |-> Round(g, b, n)]
  OBVIOUS
<1>4. f = [n \in 0 .. w |-> Round(f, b, n)]
  BY <1>1, <1>3, LoopExists
<1>5. bytesToUint64(b) = f[w]
  BY <1>2, <1>3 DEF bytesToUint64, Round
<1>6. f[0] = 0
  BY <1>1, <1>4 DEF Round
<1>7. \A n \in 1 .. w : f[n] = (f[n - 1] * Base + b[n]) % Word
  BY <1>1, <1>4 DEF Round
<1>8. \A n \in 1 .. w : b[n] \in Octets
  BY DEF OctetStrings
<1> DEFINE Fits(n) == /\ f[n] \in Nat /\ f[n] < Power[n]
                      /\ n > 0 => f[n] = f[n - 1] * Base + b[n]
           S == {n \in Nat : n <= w => Fits(n)}
<1>9. 0 \in S
  BY <1>6, UeKeyAssumption
<1>10. ASSUME NEW n \in Nat, n \in S PROVE n + 1 \in S
  <2>1. SUFFICES ASSUME n + 1 <= w PROVE Fits(n + 1)
    OBVIOUS
  <2>2. PICK k \in 1 .. w : k = n + 1 /\ k - 1 = n /\ k \in 1 .. WordOctets
    BY <1>1, <2>1
  <2>3. f[n] \in Nat /\ f[n] < Power[n]
    BY <1>1, <1>10, <2>1
  <2>4. Power[n] \in Nat /\ Power[k] = Power[n] * Base /\ Power[k] <= Word
    BY <1>1, <2>2, PowersFit, UeKeyAssumption
  <2>5. PICK x \in Nat : x = f[n] * Base + b[k] /\ x < Power[k]
    BY <1>8, <2>2, <2>3, <2>4, Shift
  <2>6. x % Word = x
    BY <2>4, <2>5, PowersFit
  <2>7. f[k] = x
    BY <1>7, <2>2, <2>5, <2>6
  <2> QED
    BY <2>2, <2>5, <2>7
<1>11. Nat \subseteq S
  <2> HIDE DEF S
  <2> QED
    BY <1>9, <1>10, Induction
<1>12. \A n \in 0 .. w : Fits(n)
  BY <1>1, <1>11
<1> QED
  BY <1>1, <1>5, <1>6, <1>8, <1>12

(***************************************************************************)
(* Two fields of the same width with the same number have the same octets. *)
(***************************************************************************)
LEMMA OneNotation ==
  ASSUME NEW w \in 0 .. WordOctets, NEW b \in OctetStrings(w), NEW c \in OctetStrings(w),
         bytesToUint64(b) = bytesToUint64(c)
  PROVE  b = c
<1>1. PICK f : /\ bytesToUint64(b) = f[w] /\ f[0] = 0
               /\ \A n \in 0 .. w : f[n] \in Nat
               /\ \A n \in 1 .. w : b[n] \in Octets /\ f[n] = f[n - 1] * Base + b[n]
  BY LoopResult
<1>2. PICK g : /\ bytesToUint64(c) = g[w] /\ g[0] = 0
               /\ \A n \in 0 .. w : g[n] \in Nat
               /\ \A n \in 1 .. w : c[n] \in Octets /\ g[n] = g[n - 1] * Base + c[n]
  BY LoopResult
<1>3. WordOctets \in Nat /\ w \in Nat
  BY UeKeyAssumption
<1> DEFINE S == {n \in Nat : n <= w /\ f[n] = g[n] => \A k \in 1 .. n : b[k] = c[k]}
<1>4. 0 \in S
  OBVIOUS
<1>5. ASSUME NEW n \in Nat, n \in S PROVE n + 1 \in S
  <2>1. SUFFICES ASSUME n + 1 <= w, f[n + 1] = g[n + 1]
                 PROVE  \A k \in 1 .. n + 1 : b[k] = c[k]
    OBVIOUS
  <2>2. PICK m \in 1 .. w : m = n + 1 /\ m - 1 = n
    BY <1>3, <2>1
  <2>3. /\ f[n] \in Nat /\ g[n] \in Nat /\ b[m] \in Octets /\ c[m] \in Octets
        /\ f[n] * Base + b[m] = g[n] * Base + c[m]
    BY <1>1, <1>2, <1>3, <2>1, <2>2
  <2>4. f[n] = g[n] /\ b[m] = c[m]
    BY <2>3, LastOctet
  <2>5. \A k \in 1 .. n : b[k] = c[k]
    BY <1>3, <1>5, <2>1, <2>4
  <2>6. \A k \in 1 .. n + 1 : k \in 1 .. n \/ k = m
    BY <2>2
  <2> QED
    BY <2>4, <2>5, <2>6
<1>6. w \in S
  <2> HIDE DEF S
  <2> QED
    BY <1>3, <1>4, <1>5, Induction
<1>7. \A k \in 1 .. w : b[k] = c[k]
  <2>1. f[w] = g[w]
    BY <1>1, <1>2
  <2>2. w <= w /\ f[w] = g[w] => \A k \in 1 .. w : b[k] = c[k]
    BY <1>6
  <2> QED
    BY <1>3, <2>1, <2>2
<1>8. b = [k \in 1 .. w |-> b[k]] /\ c = [k \in 1 .. w |-> c[k]]
  BY DEF OctetStrings
<1> QED
  BY <1>7, <1>8

-----------------------------------------------------------------------------
\* GenerateGnbUeIDString is injective on UE IDs.
LEMMA KeyInjective ==
  ASSUME NEW u \in GnbUeIDs, NEW v \in GnbUeIDs,
         GenerateGnbUeIDString(u) = GenerateGnbUeIDString(v)
  PROVE  u = v
<1>1. /\ \A f \in Fields : bytesToUint64(u.guami[f]) = bytesToUint64(v.guami[f])
      /\ u.ngap = v.ngap
  BY DEF GenerateGnbUeIDString, Fields
<1>2. \A f \in Fields : /\ Widths[f] \in 0 .. WordOctets
                        /\ u.guami[f] \in OctetStrings(Widths[f])
                        /\ v.guami[f] \in OctetStrings(Widths[f])
  BY UeKeyAssumption DEF GnbUeIDs
<1>3. \A f \in Fields : u.guami[f] = v.guami[f]
  BY <1>1, <1>2, OneNotation
<1>4. /\ u = [guami |-> u.guami, ngap |-> u.ngap]
      /\ v = [guami |-> v.guami, ngap |-> v.ngap]
      /\ u.guami = [f \in Fields |-> u.guami[f]]
      /\ v.guami = [f \in Fields |-> v.guami[f]]
  BY DEF GnbUeIDs
<1> QED
  BY <1>1, <1>3, <1>4

\* Whatever has been asked about is a UE ID.
KeyInv == known # None => known \in GnbUeIDs /\ ue \in GnbUeIDs

(***************************************************************************)
(* An entry that HasEntry finds is the entry of that UE, whatever octets   *)
(* the fields of its identity have.                                        *)
(***************************************************************************)
THEOREM KeyNamesOneUE == UeKeySpec => []KeyIdentifiesUE
<1>1. UeKeyInit => KeyInv
  BY DEF UeKeyInit, KeyInv
<1>2. KeyInv /\ [Report]_ueKeyVars => KeyInv'
  BY DEF KeyInv, Report, ueKeyVars
<1>3. KeyInv => KeyIdentifiesUE
  BY KeyInjective DEF KeyInv, KeyIdentifiesUE
<1> QED
  BY <1>1, <1>2, <1>3, PTL DEF UeKeySpec
=============================================================================
