-------------------------- MODULE DiscoveryProofs --------------------------
(***************************************************************************)
(* Lemmas about the operators of Discovery: what the operators on          *)
(* sequences return, for sequences of any length.                          *)
(***************************************************************************)
EXTENDS CdiGenerator, WellFoundedInduction, TLAPS

-----------------------------------------------------------------------------
(* Induction over the natural numbers, with sets in place of predicates.    *)

\* Every nonempty set of natural numbers has a least element.
LEMMA LeastNumber ==
    ASSUME NEW S \in SUBSET Nat, S # {}
    PROVE  \E n \in S : \A m \in S : n <= m
<1> DEFINE Less == {p \in Nat \X Nat : p[1] < p[2]}
<1>1. IsWellFoundedOn(Less, Nat)
  BY NatLessThanWellFounded DEF OpToRel
<1>2. PICK n \in S : \A m \in S : <<m, n>> \notin Less
  <2> HIDE DEF Less
  <2> QED BY <1>1, WFMin
<1>3. \A m \in S : ~(m < n)
  BY <1>2
<1> QED BY <1>3

\* A set that has 0 and with every number the next has all of them.
LEMMA Induction ==
    ASSUME NEW S, 0 \in S, \A n \in Nat : n \in S => n + 1 \in S
    PROVE  \A n \in Nat : n \in S
<1> SUFFICES ASSUME NEW x \in Nat, x \notin S PROVE FALSE
  OBVIOUS
<1>1. Nat \ S \in SUBSET Nat /\ Nat \ S # {}
  OBVIOUS
<1>2. PICK n \in Nat \ S : \A m \in Nat \ S : n <= m
  BY <1>1, LeastNumber
<1>3. n # 0 /\ n - 1 \in Nat /\ n - 1 \in S
  BY <1>2
<1> QED BY <1>2, <1>3, (n - 1) + 1 = n

-----------------------------------------------------------------------------
(* Sequences of any elements.                                               *)

IsSeq(s) == s \in Seq(ToSet(s))

LEMMA SeqIsSeq == ASSUME NEW S, NEW s \in Seq(S) PROVE IsSeq(s)
  BY DEF IsSeq, ToSet

LEMMA IsSeqLen == ASSUME NEW s, IsSeq(s)
                  PROVE  /\ Len(s) \in Nat /\ DOMAIN s = 1..Len(s)
                         /\ s = [i \in 1..Len(s) |-> s[i]]
  BY DEF IsSeq

LEMMA FunctionIsSeq == ASSUME NEW n \in Nat, NEW s, DOMAIN s = 1..n, s = [i \in 1..n |-> s[i]]
                       PROVE  IsSeq(s) /\ Len(s) = n
<1>1. s \in [1..n -> ToSet(s)]
  BY DEF ToSet
<1> QED BY <1>1 DEF IsSeq

LEMMA ConcatIsSeq == ASSUME NEW s, NEW t, IsSeq(s), IsSeq(t)
                     PROVE  /\ IsSeq(s \o t) /\ Len(s \o t) = Len(s) + Len(t)
                            /\ ToSet(s \o t) = ToSet(s) \cup ToSet(t)
<1> DEFINE S == ToSet(s) \cup ToSet(t)
<1>1. s \in Seq(S) /\ t \in Seq(S)
  BY DEF IsSeq
<1>2. s \o t \in Seq(S) /\ Len(s \o t) = Len(s) + Len(t)
  BY <1>1
<1>3. \A i \in 1..Len(s) : (s \o t)[i] = s[i]
  BY <1>1
<1>4. \A i \in 1..Len(t) : (s \o t)[Len(s) + i] = t[i]
  BY <1>1
<1>5. DOMAIN s = 1..Len(s) /\ DOMAIN t = 1..Len(t) /\ DOMAIN (s \o t) = 1..Len(s \o t)
  BY <1>1, <1>2
<1>6. \A i \in 1..Len(s \o t) : (s \o t)[i] \in S
  BY <1>2
<1>7. Len(s) \in Nat /\ Len(t) \in Nat
  BY <1>1
<1>8. ToSet(s \o t) \subseteq S
  <2> HIDE DEF S
  <2> QED BY <1>5, <1>6 DEF ToSet
<1>9. ToSet(s) \subseteq ToSet(s \o t)
  <2>1. \A i \in 1..Len(s) : i \in 1..Len(s \o t)
    BY <1>2, <1>7
  <2> QED BY <1>3, <1>5, <2>1 DEF ToSet
<1>10. ToSet(t) \subseteq ToSet(s \o t)
  <2>1. \A i \in 1..Len(t) : Len(s) + i \in 1..Len(s \o t)
    BY <1>2, <1>7
  <2> QED BY <1>4, <1>5, <2>1 DEF ToSet
<1>11. IsSeq(s \o t)
  BY <1>2, SeqIsSeq
<1>12. ToSet(s \o t) = S
  BY <1>8, <1>9, <1>10
<1> QED BY <1>2, <1>11, <1>12

LEMMA EmptyIsSeq == IsSeq(<<>>) /\ ToSet(<<>>) = {} /\ Len(<<>>) = 0
  BY DEF IsSeq, ToSet

LEMMA OneIsSeq == ASSUME NEW x PROVE IsSeq(<<x>>) /\ ToSet(<<x>>) = {x} /\ Len(<<x>>) = 1
<1>1. ToSet(<<x>>) = {x}
  BY DEF ToSet
<1> QED BY <1>1 DEF IsSeq

LEMMA ToSetEmpty == ASSUME NEW s, IsSeq(s) PROVE (s = <<>>) <=> (ToSet(s) = {})
<1>1. Len(s) \in Nat /\ DOMAIN s = 1..Len(s)
  BY IsSeqLen
<1>2. ASSUME s # <<>> PROVE s[1] \in ToSet(s)
  BY <1>1, <1>2 DEF ToSet, IsSeq
<1> QED BY <1>2, EmptyIsSeq

-----------------------------------------------------------------------------
(* FlattenSeq, and with it Flatten, Filter and FirstOf.                     *)

\* The partial results of FlattenSeq exist.
LEMMA FlattenSeqRecursion ==
    ASSUME NEW t, Len(t) \in Nat, Len(t) # 0
    PROVE  \E acc : /\ FlattenSeq(t) = acc[Len(t)]
                    /\ acc[1] = t[1]
                    /\ \A i \in 2..Len(t) : acc[i] = acc[i - 1] \o t[i]
<1> DEFINE Upto(n, acc) == acc = [i \in 1..n |-> IF i = 1 THEN t[i] ELSE acc[i - 1] \o t[i]]
           S == {n \in Nat : \E acc : Upto(n, acc)}
<1>1. 0 \in S
  <2>1. Upto(0, [i \in 1..0 |-> <<>>])
    OBVIOUS
  <2> QED BY <2>1
<1>2. ASSUME NEW n \in Nat, n \in S PROVE n + 1 \in S
  <2>1. PICK acc : Upto(n, acc)
    BY <1>2
  <2> HIDE DEF Upto
  <2> DEFINE more == [i \in 1..(n + 1) |-> IF i = 1 THEN t[i] ELSE IF i = n + 1 THEN acc[n] \o t[i] ELSE acc[i]]
  <2>2. \A i \in 1..(n + 1) : more[i] = IF i = 1 THEN t[i] ELSE more[i - 1] \o t[i]
    <3> TAKE i \in 1..(n + 1)
    <3>1. CASE i = 1
      BY <3>1
    <3>2. CASE i = n + 1 /\ i # 1
      <4>1. n \in 1..n /\ (n = 1 => acc[n] = t[n]) /\ more[n] = acc[n]
        BY <3>2, <2>1 DEF Upto
      <4>2. i - 1 = n
        BY <3>2
      <4>3. more[i] = acc[n] \o t[i]
        BY <3>2, Zenon
      <4> QED BY <4>1, <4>2, <4>3, <3>2
    <3>3. CASE i # 1 /\ i # n + 1
      <4>1. i \in 1..n /\ i - 1 \in 1..n /\ i - 1 # n + 1
        BY <3>3
      <4>2. acc[i] = acc[i - 1] \o t[i]
        BY <2>1, <4>1, <3>3 DEF Upto
      <4>3. more[i - 1] = acc[i - 1]
        BY <2>1, <4>1 DEF Upto
      <4> QED BY <4>1, <4>2, <4>3, <3>3
    <3> QED BY <3>1, <3>2, <3>3
  <2>3. Upto(n + 1, more)
    BY <2>2 DEF Upto
  <2> QED BY <2>3
<1>3. \E acc : Upto(Len(t), acc)
  <2> HIDE DEF S
  <2>1. \A n \in Nat : n \in S
    BY <1>1, <1>2, Induction
  <2> QED BY <2>1 DEF S
<1> DEFINE flat == CHOOSE acc : Upto(Len(t), acc)
<1>4. Upto(Len(t), flat)
  BY <1>3
<1>5. FlattenSeq(t) = flat[Len(t)]
  BY DEF FlattenSeq
<1>6. /\ flat[1] = t[1]
      /\ \A i \in 2..Len(t) : flat[i] = flat[i - 1] \o t[i]
  <2> HIDE DEF flat
  <2>1. 1 \in 1..Len(t) /\ \A i \in 2..Len(t) : i \in 1..Len(t) /\ i # 1
    OBVIOUS
  <2> QED BY <1>4, <2>1
<1> QED BY <1>5, <1>6

\* What it returns has the elements of all, and is empty if they all are.
LEMMA FlattenSeqElements ==
    ASSUME NEW t, IsSeq(t), \A i \in 1..Len(t) : IsSeq(t[i])
    PROVE  /\ IsSeq(FlattenSeq(t))
           /\ ToSet(FlattenSeq(t)) = UNION {ToSet(t[i]) : i \in 1..Len(t)}
<1>1. Len(t) \in Nat
  BY IsSeqLen
<1>2. CASE Len(t) = 0
  <2>1. t = <<>>
    BY <1>2 DEF IsSeq
  <2> QED BY <1>2, <2>1, EmptyIsSeq DEF FlattenSeq
<1>3. CASE Len(t) # 0
  <2>1. PICK acc : /\ FlattenSeq(t) = acc[Len(t)]
                   /\ acc[1] = t[1]
                   /\ \A i \in 2..Len(t) : acc[i] = acc[i - 1] \o t[i]
    BY <1>1, <1>3, FlattenSeqRecursion
  <2> DEFINE Good(n) == IsSeq(acc[n]) /\ ToSet(acc[n]) = UNION {ToSet(t[i]) : i \in 1..n}
             S == {n \in Nat : n \in 1..Len(t) => Good(n)}
  <2>2. 0 \in S
    OBVIOUS
  <2>3. ASSUME NEW n \in Nat, n \in S PROVE n + 1 \in S
    <3> SUFFICES ASSUME n + 1 \in 1..Len(t) PROVE Good(n + 1)
      OBVIOUS
    <3>1. CASE n = 0
      <4>1. UNION {ToSet(t[i]) : i \in 1..1} = ToSet(t[1])
        OBVIOUS
      <4> QED BY <3>1, <4>1, <2>1
    <3>2. CASE n # 0
      <4>1. n \in 1..Len(t) /\ Good(n)
        BY <3>2, <2>3, <1>1
      <4>2. acc[n + 1] = acc[n] \o t[n + 1]
        <5>1. n + 1 \in 2..Len(t) /\ (n + 1) - 1 = n
          BY <3>2, <1>1
        <5> QED BY <2>1, <5>1
      <4>3. IsSeq(acc[n + 1]) /\ ToSet(acc[n + 1]) = ToSet(acc[n]) \cup ToSet(t[n + 1])
        BY <4>1, <4>2, ConcatIsSeq
      <4>4. 1..(n + 1) = 1..n \cup {n + 1}
        OBVIOUS
      <4>5. UNION {ToSet(t[i]) : i \in 1..(n + 1)} = (UNION {ToSet(t[i]) : i \in 1..n}) \cup ToSet(t[n + 1])
        BY <4>4
      <4> QED BY <4>1, <4>3, <4>5
    <3> QED BY <3>1, <3>2
  <2>4. \A n \in Nat : n \in S
    <3> HIDE DEF S
    <3> QED BY <2>2, <2>3, Induction
  <2>5. Good(Len(t))
    BY <2>4, <1>1, <1>3
  <2> QED BY <2>1, <2>5
<1> QED BY <1>2, <1>3

\* A sequence mapped element by element.
LEMMA MappedIsSeq ==
    ASSUME NEW s, IsSeq(s), NEW t, t = [i \in DOMAIN s |-> t[i]]
    PROVE  IsSeq(t) /\ Len(t) = Len(s) /\ DOMAIN t = DOMAIN s
<1>1. Len(s) \in Nat /\ DOMAIN s = 1..Len(s)
  BY IsSeqLen
<1>2. DOMAIN t = 1..Len(s) /\ t = [i \in 1..Len(s) |-> t[i]]
  BY <1>1
<1> QED BY <1>1, <1>2, FunctionIsSeq

\* The elements of a sequence at some of its indices.
LEMMA OnlyElements ==
    ASSUME NEW s, IsSeq(s), NEW kept
    PROVE  IsSeq(Only(s, kept)) /\ ToSet(Only(s, kept)) = {s[i] : i \in DOMAIN s \cap kept}
<1> DEFINE t == [i \in DOMAIN s |-> IF i \in kept THEN <<s[i]>> ELSE <<>>]
<1>1. IsSeq(t) /\ Len(t) = Len(s) /\ DOMAIN s = 1..Len(s)
  BY MappedIsSeq, IsSeqLen
<1>2. \A i \in DOMAIN s : IsSeq(t[i]) /\ ToSet(t[i]) = IF i \in kept THEN {s[i]} ELSE {}
  BY OneIsSeq, EmptyIsSeq
<1> HIDE DEF t
<1>3. IsSeq(FlattenSeq(t)) /\ ToSet(FlattenSeq(t)) = UNION {ToSet(t[i]) : i \in 1..Len(t)}
  BY <1>1, <1>2, FlattenSeqElements
<1>4. UNION {ToSet(t[i]) : i \in DOMAIN s} = {s[i] : i \in DOMAIN s \cap kept}
  BY <1>2
<1> QED BY <1>1, <1>3, <1>4 DEF Only, t

\* The elements with which a key appears first.
LEMMA FirstsElements ==
    ASSUME NEW s, IsSeq(s), NEW keys, DOMAIN keys = DOMAIN s
    PROVE  /\ IsSeq(Firsts(s, keys))
           /\ ToSet(Firsts(s, keys)) = {s[i] : i \in First(keys)}
           /\ \A i \in DOMAIN s : \E j \in First(keys) : j <= i /\ keys[j] = keys[i]
<1> DEFINE index == [i \in DOMAIN s |-> i]
           first == Only(index, First(keys))
<1>1. Len(s) \in Nat /\ DOMAIN s = 1..Len(s)
  BY IsSeqLen
<1>2. IsSeq(index) /\ DOMAIN index = DOMAIN s
  BY MappedIsSeq
<1>3. IsSeq(first) /\ ToSet(first) = {index[i] : i \in DOMAIN index \cap First(keys)}
  <2> HIDE DEF index
  <2> QED BY <1>2, OnlyElements
<1>4. ToSet(first) = First(keys)
  BY <1>3 DEF First
<1> HIDE DEF index, first
<1>5. Firsts(s, keys) = [n \in DOMAIN first |-> s[first[n]]]
  BY DEF Firsts, first, index
<1>6. IsSeq(Firsts(s, keys)) /\ DOMAIN Firsts(s, keys) = DOMAIN first
  BY <1>3, <1>5, MappedIsSeq
<1>7. ToSet(Firsts(s, keys)) = {s[i] : i \in First(keys)}
  BY <1>4, <1>5, <1>6 DEF ToSet
<1>8. ASSUME NEW i \in DOMAIN s PROVE \E j \in First(keys) : j <= i /\ keys[j] = keys[i]
  <2> DEFINE same == {j \in 1..i : keys[j] = keys[i]}
  <2>1. same \in SUBSET Nat /\ i \in same
    BY <1>1
  <2>2. PICK j \in same : \A k \in same : j <= k
    BY <2>1, LeastNumber
  <2>3. \A k \in 1..(j - 1) : keys[k] # keys[j]
    BY <2>2, <1>1
  <2>4. j \in DOMAIN keys
    BY <2>2, <1>1
  <2> QED BY <2>2, <2>3, <2>4, <1>1 DEF First
<1> QED BY <1>6, <1>7, <1>8

-----------------------------------------------------------------------------
(* Fold, for a step that stays in a set.                                    *)

\* acc has the partial results of folding with F, k times, from base.
Folded(F, base, k, acc) == acc[0] = base /\ \A i \in 1..k : acc[i] = F[<<acc[i - 1], i>>]

\* The partial results of a fold exist.
LEMMA FoldInto ==
    ASSUME NEW A, NEW base \in A, NEW k \in Nat, NEW F, \A v \in A : \A i \in 1..k : F[<<v, i>>] \in A
    PROVE  \E acc \in [0..k -> A] : Folded(F, base, k, acc)
<1> DEFINE Upto(n, acc) == acc \in [0..n -> A] /\ acc[0] = base /\ \A i \in 1..n : acc[i] = F[<<acc[i - 1], i>>]
           S == {n \in Nat : n \in 0..k => \E acc : Upto(n, acc)}
<1>1. 0 \in S
  <2>1. Upto(0, [i \in 0..0 |-> base])
    OBVIOUS
  <2> QED BY <2>1
<1>2. ASSUME NEW n \in Nat, n \in S PROVE n + 1 \in S
  <2> SUFFICES ASSUME n + 1 \in 0..k PROVE \E acc : Upto(n + 1, acc)
    OBVIOUS
  <2>1. n \in 0..k /\ n + 1 \in 1..k
    OBVIOUS
  <2>2. PICK acc : Upto(n, acc)
    BY <1>2, <2>1
  <2> HIDE DEF Upto
  <2> DEFINE more == [i \in 0..(n + 1) |-> IF i = n + 1 THEN F[<<acc[n], n + 1>>] ELSE acc[i]]
  <2>3. acc[n] \in A
    BY <2>2 DEF Upto
  <2>4. F[<<acc[n], n + 1>>] \in A
    BY <2>1, <2>3
  <2>5. more \in [0..(n + 1) -> A]
    <3>1. \A i \in 0..(n + 1) : i # n + 1 => i \in 0..n
      OBVIOUS
    <3> QED BY <2>2, <2>4, <3>1 DEF Upto
  <2>6. more[0] = base
    BY <2>2 DEF Upto
  <2>7. ASSUME NEW i \in 1..(n + 1) PROVE more[i] = F[<<more[i - 1], i>>]
    <3>1. i - 1 \in 0..(n + 1) /\ i - 1 # n + 1 /\ i \in 0..(n + 1)
      OBVIOUS
    <3>2. more[i - 1] = acc[i - 1]
      BY <3>1
    <3>3. CASE i = n + 1
      <4>1. i - 1 = n
        BY <3>3
      <4> QED BY <3>1, <3>2, <3>3, <4>1
    <3>4. CASE i # n + 1
      <4>1. i \in 1..n
        BY <3>4
      <4>2. acc[i] = F[<<acc[i - 1], i>>]
        BY <4>1, <2>2 DEF Upto
      <4> QED BY <3>1, <3>2, <3>4, <4>2
    <3> QED BY <3>3, <3>4
  <2> HIDE DEF more
  <2>8. Upto(n + 1, more)
    BY <2>5, <2>6, <2>7 DEF Upto
  <2> QED BY <2>8
<1>3. \E acc : Upto(k, acc)
  <2> HIDE DEF S
  <2>1. k \in S
    BY <1>1, <1>2, Induction
  <2> QED BY <2>1 DEF S
<1> QED BY <1>3 DEF Folded

\* Induction up to a bound.
LEMMA InductionTo ==
    ASSUME NEW k \in Nat, NEW S, 0 \in S, \A i \in 1..k : i - 1 \in S => i \in S
    PROVE  \A i \in 0..k : i \in S
<1> DEFINE T == {n \in Nat : n \in 0..k => n \in S}
<1>1. 0 \in T
  OBVIOUS
<1>2. ASSUME NEW n \in Nat, n \in T PROVE n + 1 \in T
  <2> SUFFICES ASSUME n + 1 \in 0..k PROVE n + 1 \in S
    OBVIOUS
  <2>1. n + 1 \in 1..k /\ (n + 1) - 1 = n /\ n \in S
    BY <1>2
  <2> QED BY <2>1
<1>3. \A n \in Nat : n \in T
  <2> HIDE DEF T
  <2> QED BY <1>1, <1>2, Induction
<1> QED BY <1>3

-----------------------------------------------------------------------------
(* Paths.                                                                   *)

LEMMA SeqAppend == ASSUME NEW S, NEW s \in Seq(S), NEW x \in S PROVE Append(s, x) \in Seq(S)
  OBVIOUS

\* The partial results of filepath.Clean, which are paths.
CleanStep(q, x) == IF x # ".." THEN Append(q, x) ELSE IF q = <<>> THEN q ELSE Front(q)
Cleaned(p, acc) == \A i \in 0..Len(p) : acc[i] = IF i = 0 THEN <<>> ELSE CleanStep(acc[i - 1], p[i])

LEMMA CleanRecursion ==
    ASSUME NEW p \in Path
    PROVE  \E acc \in [0..Len(p) -> Path] : Cleaned(p, acc) /\ Clean(p) = acc[Len(p)]
<1> DEFINE Is(acc) == acc = [i \in 0..Len(p) |-> IF i = 0 THEN <<>> ELSE CleanStep(acc[i - 1], p[i])]
           F == [a \in Path \X (1..Len(p)) |-> CleanStep(a[1], p[a[2]])]
           cleaned == CHOOSE acc : Is(acc)
<1>1. Len(p) \in Nat
  BY DEF Path
<1>2. \A i \in 1..Len(p) : p[i] \in Name
  BY DEF Path
<1>3. ASSUME NEW q \in Path, NEW x \in Name PROVE CleanStep(q, x) \in Path
  <2>1. Append(q, x) \in Path
    BY SeqAppend DEF Path
  <2>2. q # <<>> => Front(q) \in Path
    BY DEF Path, Front
  <2> QED BY <2>1, <2>2 DEF CleanStep
<1>4. \A v \in Path : \A i \in 1..Len(p) : F[<<v, i>>] \in Path
  BY <1>2, <1>3
<1>5. <<>> \in Path
  BY DEF Path
<1>6. PICK acc \in [0..Len(p) -> Path] : Folded(F, <<>>, Len(p), acc)
  <2> HIDE DEF F
  <2> QED BY <1>1, <1>4, <1>5, FoldInto
<1>7. Is(acc)
  <2>1. \A i \in 1..Len(p) : i - 1 \in 0..Len(p) /\ acc[i - 1] \in Path
    BY <1>1
  <2>2. \A i \in 0..Len(p) : i # 0 => i \in 1..Len(p)
    OBVIOUS
  <2>3. \A i \in 1..Len(p) : acc[i] = CleanStep(acc[i - 1], p[i])
    BY <2>1, <1>6 DEF Folded
  <2>4. acc = [i \in 0..Len(p) |-> acc[i]]
    OBVIOUS
  <2> QED BY <1>6, <2>2, <2>3, <2>4 DEF Folded
<1>8. Is(cleaned)
  BY <1>7
<1>9. Clean(p) = cleaned[Len(p)]
  BY DEF Clean, Fold, CleanStep
<1> HIDE DEF cleaned, F
<1>10. Cleaned(p, cleaned) /\ cleaned = [i \in 0..Len(p) |-> cleaned[i]]
  BY <1>8 DEF Cleaned
<1> DEFINE S == {n \in 0..Len(p) : cleaned[n] \in Path}
<1>11. 0 \in S
  BY <1>1, <1>5, <1>8
<1>12. ASSUME NEW i \in 1..Len(p), i - 1 \in S PROVE i \in S
  <2>1. cleaned[i] = CleanStep(cleaned[i - 1], p[i])
    BY <1>8
  <2>2. cleaned[i - 1] \in Path /\ p[i] \in Name /\ i \in 0..Len(p)
    BY <1>12, <1>1, <1>2
  <2> QED BY <1>3, <2>1, <2>2
<1>13. \A i \in 0..Len(p) : i \in S
  <2> HIDE DEF S
  <2> QED BY <1>1, <1>11, <1>12, InductionTo
<1>14. cleaned \in [0..Len(p) -> Path]
  BY <1>10, <1>13
<1> QED BY <1>9, <1>10, <1>14

\* filepath.Clean returns a path.
LEMMA CleanType == ASSUME NEW p \in Path PROVE Clean(p) \in Path
<1>1. Len(p) \in 0..Len(p)
  BY DEF Path
<1> QED BY <1>1, CleanRecursion

-----------------------------------------------------------------------------
(* Files and links.                                                         *)

LEMMA MinIsLeast == ASSUME NEW S \in SUBSET Nat, S # {}
                    PROVE  Min(S) \in S /\ \A m \in S : Min(S) <= m
BY LeastNumber DEF Min

LEMMA PathSlice == ASSUME NEW p \in Path, NEW i \in 1..(Len(p) + 1), NEW j \in 0..Len(p)
                   PROVE  SubSeq(p, i, j) \in Path
BY DEF Path

LEMMA PathConcat == ASSUME NEW p \in Path, NEW q \in Path PROVE p \o q \in Path
BY DEF Path

LEMMA PathLen == ASSUME NEW p \in Path PROVE Len(p) \in Nat /\ \A i \in 1..Len(p) : p[i] \in Name
BY DEF Path

LEMMA FollowOneType ==
    ASSUME NEW fs, IsTree(fs), NEW p \in Path, LinksOn(fs, p) # {}
    PROVE  FollowOne(fs, p) \in Path
<1> DEFINE k == Min(LinksOn(fs, p))
           link == fs[SubSeq(p, 1, k)]
<1>1. Len(p) \in Nat
  BY PathLen
<1>2. LinksOn(fs, p) \in SUBSET Nat
  BY <1>1 DEF LinksOn
<1>3. k \in LinksOn(fs, p)
  BY <1>2, MinIsLeast
<1>4. k \in 1..Len(p) /\ SubSeq(p, 1, k) \in DOMAIN fs /\ link.kind = "link"
  BY <1>3 DEF LinksOn
<1>5. link.to \in Path
  BY <1>4 DEF IsTree, IsNode
<1> HIDE DEF k, link
<1>6. <<>> \in Path /\ SubSeq(p, 1, k - 1) \in Path /\ SubSeq(p, k + 1, Len(p)) \in Path
  <2>1. k - 1 \in 0..Len(p) /\ k + 1 \in 1..(Len(p) + 1) /\ 1 \in 1..(Len(p) + 1) /\ Len(p) \in 0..Len(p)
    BY <1>1, <1>4
  <2> QED BY <2>1, PathSlice DEF Path
<1>7. (IF link.abs THEN <<>> ELSE SubSeq(p, 1, k - 1)) \in Path
  BY <1>6
<1>8. (IF link.abs THEN <<>> ELSE SubSeq(p, 1, k - 1)) \o link.to \o SubSeq(p, k + 1, Len(p)) \in Path
  BY <1>5, <1>6, <1>7, PathConcat
<1> QED BY <1>8, CleanType DEF FollowOne, Follow, k, link

\* Where a path leads when at most n links are followed.
Followed(fs, f) ==
    \A n \in 0..MaxLinks : \A q \in Path :
        /\ f[n][q] = IF n = 0 \/ LinksOn(fs, q) = {} THEN q ELSE f[n - 1][FollowOne(fs, q)]
        /\ f[n][q] \in Path

LEMMA EvalSymlinksRecursion ==
    ASSUME NEW fs, IsTree(fs)
    PROVE  \E f : Followed(fs, f) /\ \A p \in Path : EvalSymlinks(fs, p) = f[MaxLinks][p]
<1> DEFINE row(f, n) == [q \in Path |-> IF n = 0 \/ LinksOn(fs, q) = {} THEN q ELSE f[n - 1][FollowOne(fs, q)]]
           Is(f) == f = [n \in 0..MaxLinks |-> row(f, n)]
           A == [Path -> Path]
           same == [q \in Path |-> q]
           next(h) == [q \in Path |-> IF LinksOn(fs, q) = {} THEN q ELSE h[FollowOne(fs, q)]]
           F == [a \in A \X (1..MaxLinks) |-> next(a[1])]
           followed == CHOOSE f : Is(f)
<1>1. MaxLinks \in Nat
  BY DiscoveryAssumption
<1>2. \A q \in Path : LinksOn(fs, q) # {} => FollowOne(fs, q) \in Path
  BY FollowOneType
<1>3. \A h \in A : next(h) \in A
  BY <1>2
<1>4. \A h \in A : \A i \in 1..MaxLinks : F[<<h, i>>] \in A
  <2> HIDE DEF A, next
  <2> QED BY <1>3
<1>5. PICK acc \in [0..MaxLinks -> A] : Folded(F, same, MaxLinks, acc)
  <2>1. same \in A
    OBVIOUS
  <2> HIDE DEF A, F, same
  <2> QED BY <1>1, <1>4, <2>1, FoldInto
<1>6. \A i \in 1..MaxLinks : acc[i] = next(acc[i - 1])
  <2> TAKE i \in 1..MaxLinks
  <2>1. i - 1 \in 0..MaxLinks /\ acc[i - 1] \in A
    BY <1>1, <1>5
  <2> HIDE DEF A, next
  <2> QED BY <1>5, <2>1 DEF Folded
<1>7. ASSUME NEW n \in 0..MaxLinks PROVE acc[n] = row(acc, n)
  <2>1. CASE n = 0
    <3>1. row(acc, 0) = same
      OBVIOUS
    <3> QED BY <1>5, <2>1, <3>1 DEF Folded
  <2>2. CASE n # 0
    <3>1. n \in 1..MaxLinks
      BY <1>1, <2>2
    <3>2. acc[n] = next(acc[n - 1])
      BY <1>6, <3>1
    <3>3. row(acc, n) = next(acc[n - 1])
      BY <2>2
    <3> QED BY <3>2, <3>3
  <2> QED BY <2>1, <2>2
<1>8. Is(acc)
  <2> HIDE DEF row
  <2> QED BY <1>5, <1>7
<1>9. Is(followed)
  <2> HIDE DEF Is
  <2> QED BY <1>8
<1>10. \A p \in Path : EvalSymlinks(fs, p) = followed[MaxLinks][p]
  BY DEF EvalSymlinks
<1> HIDE DEF followed
<1>11. \A n \in 0..MaxLinks : \A q \in Path :
         followed[n][q] = IF n = 0 \/ LinksOn(fs, q) = {} THEN q ELSE followed[n - 1][FollowOne(fs, q)]
  <2>1. \A n \in 0..MaxLinks : followed[n] = row(followed, n)
    <3> HIDE DEF row
    <3> QED BY <1>9
  <2>2. \A n : \A q \in Path :
          row(followed, n)[q] = IF n = 0 \/ LinksOn(fs, q) = {} THEN q ELSE followed[n - 1][FollowOne(fs, q)]
    OBVIOUS
  <2> HIDE DEF row
  <2> QED BY <2>1, <2>2
<1> DEFINE S == {n \in 0..MaxLinks : \A q \in Path : followed[n][q] \in Path}
<1>12. 0 \in S
  BY <1>1, <1>11
<1>13. ASSUME NEW i \in 1..MaxLinks, i - 1 \in S PROVE i \in S
  <2>1. i \in 0..MaxLinks /\ i # 0
    BY <1>1
  <2>2. ASSUME NEW q \in Path PROVE followed[i][q] \in Path
    <3>1. followed[i][q] = IF LinksOn(fs, q) = {} THEN q ELSE followed[i - 1][FollowOne(fs, q)]
      BY <1>11, <2>1
    <3> QED BY <1>2, <1>13, <3>1
  <2> QED BY <2>1, <2>2
<1>14. \A n \in 0..MaxLinks : n \in S
  <2> HIDE DEF S
  <2> QED BY <1>1, <1>12, <1>13, InductionTo
<1>15. Followed(fs, followed)
  BY <1>11, <1>14 DEF Followed
<1> QED BY <1>10, <1>15

\* filepath.EvalSymlinks gives a path, and the one it is given when there is
\* no link on the way.
LEMMA EvalSymlinksType ==
    ASSUME NEW fs, IsTree(fs), NEW p \in Path
    PROVE  EvalSymlinks(fs, p) \in Path /\ (LinksOn(fs, p) = {} => EvalSymlinks(fs, p) = p)
<1>1. PICK f : Followed(fs, f) /\ \A q \in Path : EvalSymlinks(fs, q) = f[MaxLinks][q]
  BY EvalSymlinksRecursion
<1>2. MaxLinks \in 0..MaxLinks
  BY DiscoveryAssumption
<1> QED BY <1>1, <1>2 DEF Followed

-----------------------------------------------------------------------------
(* Nodes and directories.                                                   *)

LEMMA StatType ==
    ASSUME NEW fs, IsTree(fs), NEW p \in Path
    PROVE  Stat(fs, p).kind = "file" => Stat(fs, p).needs \in Seq(Name)
<1> DEFINE q == EvalSymlinks(fs, p)
<1>1. NodeAt(fs, q).kind = "file" => NodeAt(fs, q).needs \in Seq(Name)
  BY DEF NodeAt, NoNode, IsTree, IsNode
<1> QED BY <1>1 DEF Stat, NoLink, NoNode

\* The entries of a directory are the names in it.
LEMMA EntriesElements ==
    ASSUME NEW fs, NEW dir
    PROVE  /\ IsSeq(Entries(fs, dir))
           /\ ToSet(Entries(fs, dir)) = {n \in ToSet(Names) : Append(EvalSymlinks(fs, dir), n) \in DOMAIN fs}
<1> DEFINE real == EvalSymlinks(fs, dir)
           kept == {i \in DOMAIN Names : Append(real, Names[i]) \in DOMAIN fs}
<1>1. Entries(fs, dir) = Only(Names, kept)
  BY DEF Entries, EntriesOf, Filter
<1>2. IsSeq(Names)
  BY DiscoveryAssumption, SeqIsSeq
<1>3. IsSeq(Only(Names, kept)) /\ ToSet(Only(Names, kept)) = {Names[i] : i \in DOMAIN Names \cap kept}
  <2> HIDE DEF kept
  <2> QED BY <1>2, OnlyElements
<1> HIDE DEF real
<1>4. {Names[i] : i \in DOMAIN Names \cap kept} = {n \in ToSet(Names) : Append(real, n) \in DOMAIN fs}
  BY DEF ToSet
<1> QED BY <1>1, <1>3, <1>4 DEF real

LEMMA EntriesAreNames ==
    ASSUME NEW fs, NEW dir
    PROVE  \A i \in DOMAIN Entries(fs, dir) : Entries(fs, dir)[i] \in Name
<1>1. ToSet(Names) \subseteq Name
  BY DiscoveryAssumption DEF ToSet
<1> QED BY <1>1, EntriesElements DEF ToSet

-----------------------------------------------------------------------------
(* Configurations and the exchange of roots.                                *)

IsConfig(c) ==
    /\ {c.driverRoot, c.searchRoot, c.hostRoot, c.containerPath, c.providerDir} \subseteq Path
    /\ {c.libDirs, c.pluginDirs, c.binDirs} \subseteq Seq(Path)
    /\ c.tools \in Seq(Name)
    /\ IsSeq(c.providers)

LEMMA TrimPrefixType ==
    ASSUME NEW p \in Path, NEW root \in Path
    PROVE  TrimPrefix(p, root) \in Path
<1>1. Len(root) \in Nat /\ Len(p) \in Nat
  BY PathLen
<1>2. ASSUME IsPrefix(root, p) PROVE Len(root) <= Len(p)
  BY <1>1, <1>2 DEF IsPrefix
<1>3. ASSUME IsPrefix(root, p) PROVE SubSeq(p, Len(root) + 1, Len(p)) \in Path
  <2>1. Len(root) + 1 \in 1..(Len(p) + 1) /\ Len(p) \in 0..Len(p)
    BY <1>1, <1>2, <1>3
  <2> QED BY <2>1, PathSlice
<1> QED BY <1>3 DEF TrimPrefix

LEMMA RootsType ==
    ASSUME NEW c, IsConfig(c), NEW p \in Path
    PROVE  /\ SearchRoot(c) \in Path
           /\ ToHostPath(c, p) \in Path
           /\ ToolHostPath(c, p) \in Path
           /\ ToSearchRootPath(c, p) \in Path
           /\ ToDriverRootPath(c, p) \in Path
<1>1. /\ c.driverRoot \in Path /\ c.searchRoot \in Path
      /\ SearchRoot(c) \in Path
  BY DEF IsConfig, SearchRoot
<1>2. /\ TrimPrefix(p, SearchRoot(c)) \in Path /\ TrimPrefix(p, c.driverRoot) \in Path
      /\ TrimPrefix(p, c.searchRoot) \in Path
  BY <1>1, TrimPrefixType
<1>3. /\ c.driverRoot \o TrimPrefix(p, SearchRoot(c)) \in Path
      /\ c.searchRoot \o TrimPrefix(p, c.driverRoot) \in Path
      /\ c.driverRoot \o TrimPrefix(p, c.searchRoot) \in Path
      /\ c.driverRoot \o p \in Path
  BY <1>1, <1>2, PathConcat
<1>4. /\ Clean(c.driverRoot \o TrimPrefix(p, c.searchRoot)) \in Path
      /\ Clean(c.driverRoot \o p) \in Path
  BY <1>3, CleanType
<1>5. ToHostPath(c, p) \in Path
  BY <1>3 DEF ToHostPath
<1>6. ToolHostPath(c, p) \in Path
  BY <1>5 DEF ToolHostPath
<1>7. ToSearchRootPath(c, p) \in Path
  BY <1>3 DEF ToSearchRootPath
<1>8. ToDriverRootPath(c, p) \in Path
  BY <1>2, <1>3, <1>4 DEF ToDriverRootPath
<1> QED BY <1>1, <1>5, <1>6, <1>7, <1>8

-----------------------------------------------------------------------------
(* What is discovered has the type of what is discovered.                   *)

\* Sequences of paths, and of files discovered, told by their elements.
IsPaths(s) == IsSeq(s) /\ \A i \in DOMAIN s : s[i] \in Path
IsFiles(s) == IsSeq(s) /\ \A i \in DOMAIN s : s[i].path \in Path

LEMMA ElementsOfSeq ==
    ASSUME NEW s, IsSeq(s), NEW T, ToSet(s) \subseteq T
    PROVE  \A i \in DOMAIN s : s[i] \in T
  BY DEF ToSet

LEMMA SeqElements ==
    ASSUME NEW T, NEW s \in Seq(T)
    PROVE  IsSeq(s) /\ ToSet(s) \subseteq T /\ \A i \in DOMAIN s : s[i] \in T
  BY SeqIsSeq DEF ToSet

\* A sequence of sequences of paths, laid end to end.
LEMMA FlattenPaths ==
    ASSUME NEW t, IsSeq(t), \A i \in DOMAIN t : IsPaths(t[i])
    PROVE  IsPaths(FlattenSeq(t))
<1>1. DOMAIN t = 1..Len(t)
  BY IsSeqLen
<1>2. IsSeq(FlattenSeq(t)) /\ ToSet(FlattenSeq(t)) = UNION {ToSet(t[i]) : i \in 1..Len(t)}
  BY <1>1, FlattenSeqElements DEF IsPaths
<1>3. \A i \in DOMAIN t : ToSet(t[i]) \subseteq Path
  BY DEF IsPaths, ToSet
<1>4. ToSet(FlattenSeq(t)) \subseteq Path
  BY <1>1, <1>2, <1>3
<1> QED BY <1>2, <1>4, ElementsOfSeq DEF IsPaths

LEMMA FirstsPaths ==
    ASSUME NEW s, IsPaths(s), NEW keys, DOMAIN keys = DOMAIN s
    PROVE  IsPaths(Firsts(s, keys))
<1>1. IsSeq(Firsts(s, keys)) /\ ToSet(Firsts(s, keys)) = {s[i] : i \in First(keys)}
  BY FirstsElements DEF IsPaths
<1>2. ToSet(Firsts(s, keys)) \subseteq Path
  BY <1>1 DEF IsPaths, First
<1> QED BY <1>1, <1>2, ElementsOfSeq DEF IsPaths

LEMMA OnlyPaths ==
    ASSUME NEW s, IsPaths(s), NEW kept
    PROVE  IsPaths(Only(s, kept))
<1>1. IsSeq(Only(s, kept)) /\ ToSet(Only(s, kept)) = {s[i] : i \in DOMAIN s \cap kept}
  BY OnlyElements DEF IsPaths
<1>2. ToSet(Only(s, kept)) \subseteq Path
  BY <1>1 DEF IsPaths
<1> QED BY <1>1, <1>2, ElementsOfSeq DEF IsPaths

\* The paths of the files in a directory.
LEMMA EntryPaths ==
    ASSUME NEW fs, NEW dir \in Path
    PROVE  IsPaths([i \in DOMAIN Entries(fs, dir) |-> Append(dir, Entries(fs, dir)[i])])
<1> DEFINE paths == [i \in DOMAIN Entries(fs, dir) |-> Append(dir, Entries(fs, dir)[i])]
<1>1. IsSeq(Entries(fs, dir))
  BY EntriesElements
<1>2. IsSeq(paths) /\ DOMAIN paths = DOMAIN Entries(fs, dir)
  <2>1. paths = [i \in DOMAIN Entries(fs, dir) |-> paths[i]]
    OBVIOUS
  <2> HIDE DEF paths
  <2> QED BY <1>1, <2>1, MappedIsSeq
<1>3. ASSUME NEW i \in DOMAIN Entries(fs, dir) PROVE paths[i] \in Path
  <2>1. Entries(fs, dir)[i] \in Name
    BY EntriesAreNames
  <2> QED BY <2>1, SeqAppend DEF Path
<1> QED BY <1>2, <1>3 DEF IsPaths

LEMMA MatchesInType ==
    ASSUME NEW fs, NEW dir \in Path
    PROVE  IsPaths(MatchesIn(fs, dir))
<1> DEFINE paths == [i \in DOMAIN Entries(fs, dir) |-> Append(dir, Entries(fs, dir)[i])]
           kept == {i \in DOMAIN paths : Last(paths[i]) \in RblnName /\ Lstat(fs, paths[i]).kind = "file"}
<1>1. IsPaths(paths)
  BY EntryPaths
<1>2. MatchesIn(fs, dir) = Only(paths, kept)
  BY DEF MatchesIn, Filter
<1> HIDE DEF paths, kept
<1> QED BY <1>1, <1>2, OnlyPaths

LEMMA DiscoverRBLNType ==
    ASSUME NEW c, IsConfig(c), NEW fs
    PROVE  IsFiles(DiscoverRBLN(c, fs))
<1> DEFINE matches == [i \in DOMAIN c.libDirs |-> MatchesIn(fs, SearchRoot(c) \o c.libDirs[i])]
           all == FlattenSeq(matches)
           keys == [i \in DOMAIN all |-> RealPath(fs, all[i])]
           once == Firsts(all, keys)
           libs == [i \in DOMAIN once |-> Library(c, ToHostPath(c, once[i]))]
<1>1. IsSeq(c.libDirs) /\ \A i \in DOMAIN c.libDirs : c.libDirs[i] \in Path
  BY SeqElements DEF IsConfig
<1>2. IsSeq(matches) /\ DOMAIN matches = DOMAIN c.libDirs
  <2>1. matches = [i \in DOMAIN c.libDirs |-> matches[i]]
    OBVIOUS
  <2> HIDE DEF matches
  <2> QED BY <1>1, <2>1, MappedIsSeq
<1>3. ASSUME NEW i \in DOMAIN matches PROVE IsPaths(matches[i])
  <2>1. <<>> \in Path
    BY DEF Path
  <2>2. SearchRoot(c) \o c.libDirs[i] \in Path
    BY <1>1, <1>2, <2>1, RootsType, PathConcat
  <2> QED BY <2>2, <1>2, MatchesInType
<1>4. IsPaths(all)
  <2> HIDE DEF matches
  <2> QED BY <1>2, <1>3, FlattenPaths
<1>5. DiscoverRBLN(c, fs) = libs
  BY DEF DiscoverRBLN, Flatten, Map, FirstOf
<1> HIDE DEF matches, all
<1>6. IsPaths(once)
  <2>1. DOMAIN keys = DOMAIN all
    OBVIOUS
  <2> HIDE DEF keys
  <2> QED BY <1>4, <2>1, FirstsPaths
<1> HIDE DEF keys, once
<1>7. IsSeq(libs) /\ DOMAIN libs = DOMAIN once
  <2>1. libs = [i \in DOMAIN once |-> libs[i]]
    OBVIOUS
  <2> HIDE DEF libs
  <2> QED BY <1>6, <2>1, MappedIsSeq DEF IsPaths
<1>8. ASSUME NEW i \in DOMAIN once PROVE libs[i].path \in Path
  BY <1>6, RootsType DEF Library, IsPaths
<1> HIDE DEF libs
<1> QED BY <1>5, <1>7, <1>8 DEF IsFiles

\* The greatest of some numbers up to a bound.
LEMMA MaxIsGreatest ==
    ASSUME NEW n \in Nat, NEW S \in SUBSET (0..n), S # {}
    PROVE  Max(S) \in S /\ \A m \in S : m <= Max(S)
<1> DEFINE T == {n - k : k \in S}
<1>1. T \in SUBSET Nat /\ T # {}
  <2>1. \A k \in S : n - k \in Nat
    OBVIOUS
  <2>2. PICK k \in S : TRUE
    OBVIOUS
  <2> QED BY <2>1, <2>2
<1>2. PICK t \in T : \A u \in T : t <= u
  <2> HIDE DEF T
  <2> QED BY <1>1, LeastNumber
<1>3. PICK k \in S : t = n - k
  BY <1>2
<1>4. \A m \in S : k >= m
  <2> TAKE m \in S
  <2>1. n - m \in T
    OBVIOUS
  <2> QED BY <1>2, <1>3, <2>1
<1>5. \E x \in S : \A y \in S : x >= y
  BY <1>4
<1> QED BY <1>5 DEF Max

LEMMA RelType ==
    ASSUME NEW root \in Path, NEW p \in Path
    PROVE  Rel(root, p) \in Path
<1> DEFINE both == {k \in 0..Len(root) : k <= Len(p) /\ SubSeq(root, 1, k) = SubSeq(p, 1, k)}
           shared == Max(both)
<1>1. Len(root) \in Nat /\ Len(p) \in Nat
  BY PathLen
<1>2. both \in SUBSET (0..Len(root)) /\ 0 \in both
  BY <1>1 DEF Path
<1>3. shared \in both
  <2> HIDE DEF both
  <2> QED BY <1>1, <1>2, MaxIsGreatest
<1>4. shared \in 0..Len(root) /\ shared <= Len(p)
  BY <1>3
<1>5. Rel(root, p) = [i \in 1..(Len(root) - shared) |-> ".."] \o SubSeq(p, shared + 1, Len(p))
  BY DEF Rel
<1> HIDE DEF shared, both
<1>6. [i \in 1..(Len(root) - shared) |-> ".."] \in Path
  <2>1. Len(root) - shared \in Nat
    BY <1>1, <1>4
  <2>2. ".." \in Name
    BY DiscoveryAssumption
  <2> QED BY <2>1, <2>2 DEF Path
<1>7. SubSeq(p, shared + 1, Len(p)) \in Path
  <2>1. shared + 1 \in 1..(Len(p) + 1) /\ Len(p) \in 0..Len(p)
    BY <1>1, <1>4
  <2> QED BY <2>1, PathSlice
<1> QED BY <1>5, <1>6, <1>7, PathConcat

LEMMA SingletonPath == ASSUME NEW n \in Name PROVE <<n>> \in Path
BY DEF Path

LEMMA ResolveLibraryType ==
    ASSUME NEW c, IsConfig(c), NEW fs, IsTree(fs), NEW name \in Name
    PROVE  ResolveLibrary(c, fs, name) \in Path
<1> DEFINE kept == {i \in DOMAIN c.libDirs : Stat(fs, SearchRoot(c) \o c.libDirs[i] \o <<name>>) # NoNode}
           usable == Only(c.libDirs, kept)
           p == SearchRoot(c) \o Head(usable) \o <<name>>
<1>1. ResolveLibrary(c, fs, name) = IF usable = <<>> THEN <<>> ELSE Resolved(c, fs, p)
  BY DEF ResolveLibrary, Filter
<1>2. IsPaths(c.libDirs)
  BY SeqElements DEF IsConfig, IsPaths
<1>3. IsPaths(usable)
  <2> HIDE DEF kept
  <2> QED BY <1>2, OnlyPaths
<1> HIDE DEF kept, usable
<1>4. SearchRoot(c) \in Path /\ <<>> \in Path
  <2>1. <<>> \in Path
    BY DEF Path
  <2> QED BY <2>1, RootsType
<1>5. CASE usable = <<>>
  BY <1>1, <1>4, <1>5
<1>6. CASE usable # <<>>
  <2>1. Len(usable) \in Nat /\ DOMAIN usable = 1..Len(usable) /\ usable \in Seq(ToSet(usable))
    BY <1>3, IsSeqLen DEF IsPaths, IsSeq
  <2>2. Len(usable) # 0 /\ Head(usable) = usable[1]
    BY <1>6, <2>1
  <2>3. Head(usable) \in Path
    BY <1>3, <2>1, <2>2 DEF IsPaths
  <2>4. p \in Path
    BY <1>4, <2>3, SingletonPath, PathConcat
  <2> HIDE DEF p
  <2>5. EvalSymlinks(fs, p) \in Path
    BY <2>4, EvalSymlinksType
  <2>6. Rel(SearchRoot(c), EvalSymlinks(fs, p)) \in Path /\ TrimPrefix(p, SearchRoot(c)) \in Path
    BY <1>4, <2>4, <2>5, RelType, TrimPrefixType
  <2> QED BY <1>1, <1>6, <2>6 DEF Resolved
<1> QED BY <1>5, <1>6

\* The files the ELF resolver has visited, the library itself first.
Visits == Seq([rel : Path, full : Path]) \ {<<>>}

LEMMA VisitType ==
    ASSUME NEW visited \in Visits, NEW rel \in Path, NEW full \in Path
    PROVE  Visit(visited, rel, full) \in Visits
<1>1. [rel |-> rel, full |-> full] \in [rel : Path, full : Path]
  OBVIOUS
<1>2. Append(visited, [rel |-> rel, full |-> full]) \in Visits
  <2> DEFINE more == Append(visited, [rel |-> rel, full |-> full])
  <2>1. more \in Seq([rel : Path, full : Path])
    BY <1>1, SeqAppend DEF Visits
  <2>2. Len(more) = Len(visited) + 1 /\ Len(visited) \in Nat
    BY DEF Visits
  <2>3. more # <<>>
    <3> HIDE DEF more
    <3> QED BY <2>2, EmptyIsSeq
  <2> QED BY <2>1, <2>3 DEF Visits
<1> QED BY <1>2 DEF Visit

\* What one visit adds, and the partial results of VisitNeeds.
VisitName(c, fs, v, name) ==
    Visit(v, ResolveLibrary(c, fs, name), Clean(SearchRoot(c) \o ResolveLibrary(c, fs, name)))

LEMMA VisitNameType ==
    ASSUME NEW c, IsConfig(c), NEW fs, IsTree(fs), NEW v \in Visits, NEW name \in Name
    PROVE  VisitName(c, fs, v, name) \in Visits
<1>1. ResolveLibrary(c, fs, name) \in Path /\ SearchRoot(c) \in Path
  <2>1. <<>> \in Path
    BY DEF Path
  <2> QED BY <2>1, ResolveLibraryType, RootsType
<1>2. Clean(SearchRoot(c) \o ResolveLibrary(c, fs, name)) \in Path
  BY <1>1, PathConcat, CleanType
<1> QED BY <1>1, <1>2, VisitType DEF VisitName

\* A set that visits stay in is one that VisitNeeds and the rounds stay in.
VisitsAre(c, fs, visited, needs, W, acc) ==
    /\ \A i \in 0..Len(needs) : acc[i] \in W
    /\ acc[0] = visited
    /\ \A i \in 1..Len(needs) : acc[i] = VisitName(c, fs, acc[i - 1], needs[i])
    /\ VisitNeeds(c, fs, visited, needs) = acc[Len(needs)]

LEMMA VisitNeedsSteps ==
    ASSUME NEW c, NEW fs, NEW W, NEW visited \in W, NEW N, NEW needs \in Seq(N),
           \A v \in W : \A n \in N : VisitName(c, fs, v, n) \in W
    PROVE  \E acc : VisitsAre(c, fs, visited, needs, W, acc)
<1> DEFINE k == Len(needs)
           Is(acc) == acc = [i \in 0..k |-> IF i = 0 THEN visited ELSE VisitName(c, fs, acc[i - 1], needs[i])]
           F == [a \in W \X (1..k) |-> VisitName(c, fs, a[1], needs[a[2]])]
           chosen == CHOOSE acc : Is(acc)
<1>1. k \in Nat /\ \A i \in 1..k : needs[i] \in N
  OBVIOUS
<1>2. \A v \in W : \A i \in 1..k : F[<<v, i>>] = VisitName(c, fs, v, needs[i]) /\ F[<<v, i>>] \in W
  BY <1>1
<1>3. VisitNeeds(c, fs, visited, needs) = chosen[k]
  BY DEF VisitNeeds, Fold, VisitName
<1> HIDE DEF F, k
<1>4. PICK acc \in [0..k -> W] : Folded(F, visited, k, acc)
  BY <1>1, <1>2, FoldInto
<1>5. Is(acc)
  <2>1. \A i \in 1..k : i - 1 \in 0..k /\ acc[i - 1] \in W
    BY <1>1
  <2>2. \A i \in 0..k : i # 0 => i \in 1..k
    BY <1>1
  <2>3. \A i \in 1..k : acc[i] = VisitName(c, fs, acc[i - 1], needs[i])
    BY <2>1, <1>2, <1>4 DEF Folded
  <2>4. acc = [i \in 0..k |-> acc[i]]
    OBVIOUS
  <2> QED BY <1>4, <2>2, <2>3, <2>4 DEF Folded
<1>6. Is(chosen)
  BY <1>5
<1> HIDE DEF chosen
<1> DEFINE S == {n \in 0..k : chosen[n] \in W}
<1>7. 0 \in S
  BY <1>1, <1>6
<1>8. ASSUME NEW i \in 1..k, i - 1 \in S PROVE i \in S
  <2>1. i \in 0..k /\ i # 0
    BY <1>1
  <2>2. chosen[i] = VisitName(c, fs, chosen[i - 1], needs[i])
    BY <1>6, <2>1
  <2> QED BY <1>1, <1>8, <2>1, <2>2
<1>9. \A i \in 0..k : i \in S
  <2> HIDE DEF S
  <2> QED BY <1>1, <1>7, <1>8, InductionTo
<1>10. chosen[0] = visited /\ \A i \in 1..k : chosen[i] = VisitName(c, fs, chosen[i - 1], needs[i])
  <2>1. \A i \in 1..k : i \in 0..k /\ i # 0
    BY <1>1
  <2>2. 0 \in 0..k
    BY <1>1
  <2> QED BY <1>6, <2>1, <2>2
<1> QED BY <1>1, <1>3, <1>9, <1>10 DEF k, VisitsAre

LEMMA VisitNeedsInto ==
    ASSUME NEW c, NEW fs, NEW W, NEW visited \in W, NEW N, NEW needs \in Seq(N),
           \A v \in W : \A n \in N : VisitName(c, fs, v, n) \in W
    PROVE  VisitNeeds(c, fs, visited, needs) \in W
<1>1. Len(needs) \in 0..Len(needs)
  OBVIOUS
<1>2. PICK acc : VisitsAre(c, fs, visited, needs, W, acc)
  BY VisitNeedsSteps
<1> QED BY <1>1, <1>2 DEF VisitsAre

LEMMA VisitNeedsType ==
    ASSUME NEW c, IsConfig(c), NEW fs, IsTree(fs), NEW visited \in Visits, NEW needs \in Seq(Name)
    PROVE  VisitNeeds(c, fs, visited, needs) \in Visits
<1>1. \A v \in Visits : \A n \in Name : VisitName(c, fs, v, n) \in Visits
  BY VisitNameType
<1> QED BY <1>1, VisitNeedsInto

\* One round of elfResolver.Run.
Round(c, fs, queue, i) ==
    IF i > Len(queue) THEN queue ELSE VisitNeeds(c, fs, queue, Needed(fs, queue[i].full))

LEMMA RoundType ==
    ASSUME NEW c, IsConfig(c), NEW fs, IsTree(fs), NEW queue \in Visits, NEW i \in Nat \ {0}
    PROVE  Round(c, fs, queue, i) \in Visits
<1>1. CASE i > Len(queue)
  BY <1>1 DEF Round
<1>2. CASE ~(i > Len(queue))
  <2>1. i \in 1..Len(queue)
    BY <1>2 DEF Visits
  <2>2. queue[i] \in [rel : Path, full : Path]
    <3> DEFINE T == [rel : Path, full : Path]
    <3>1. queue \in Seq(T)
      BY DEF Visits
    <3> HIDE DEF T
    <3>2. queue[i] \in T
      BY <2>1, <3>1
    <3> QED BY <3>2 DEF T
  <2>3. Needed(fs, queue[i].full) \in Seq(Name)
    <3>1. <<>> \in Seq(Name)
      OBVIOUS
    <3> QED BY <2>2, <3>1, StatType DEF Needed
  <2> QED BY <1>2, <2>3, VisitNeedsType DEF Round
<1> QED BY <1>1, <1>2

LEMMA TailOfSeq == ASSUME NEW T, NEW s \in Seq(T), s # <<>> PROVE Tail(s) \in Seq(T)
OBVIOUS

\* The queue, round by round, and the result.
RoundsAre(c, fs, start, W, acc) ==
    /\ \A i \in 0..(Len(Names) + 1) : acc[i] \in W
    /\ acc[0] = <<[rel |-> <<>>, full |-> start]>>
    /\ \A i \in 1..(Len(Names) + 1) : acc[i] = Round(c, fs, acc[i - 1], i)
    /\ NeededByLibrary(c, fs, start) = Tail(acc[Len(Names) + 1])

LEMMA RoundsSteps ==
    ASSUME NEW c, NEW fs, NEW start, NEW W, <<[rel |-> <<>>, full |-> start]>> \in W,
           \A v \in W : \A i \in Nat \ {0} : Round(c, fs, v, i) \in W
    PROVE  \E acc : RoundsAre(c, fs, start, W, acc)
<1> DEFINE k == Len(Names) + 1
           index == [i \in 1..k |-> i]
           base == <<[rel |-> <<>>, full |-> start]>>
           Is(acc) == acc = [i \in 0..k |-> IF i = 0 THEN base ELSE Round(c, fs, acc[i - 1], i)]
           F == [a \in W \X (1..k) |-> Round(c, fs, a[1], a[2])]
           chosen == CHOOSE acc : acc = [i \in 0..Len(index) |-> IF i = 0 THEN base ELSE Round(c, fs, acc[i - 1], index[i])]
<1>1. k \in Nat /\ Len(index) = k /\ \A i \in 1..k : i \in Nat \ {0} /\ index[i] = i
  BY DiscoveryAssumption
<1>2. base \in W
  OBVIOUS
<1>3. NeededByLibrary(c, fs, start) = Tail(chosen[Len(index)])
  BY DEF NeededByLibrary, Fold, Round
<1>4. \A v \in W : \A i \in 1..k : F[<<v, i>>] = Round(c, fs, v, i) /\ F[<<v, i>>] \in W
  BY <1>1
<1> HIDE DEF F, k, base
<1>5. PICK acc \in [0..k -> W] : Folded(F, base, k, acc)
  BY <1>1, <1>2, <1>4, FoldInto
<1>6. Is(acc)
  <2>1. \A i \in 1..k : i - 1 \in 0..k /\ acc[i - 1] \in W
    BY <1>1
  <2>2. \A i \in 0..k : i # 0 => i \in 1..k
    BY <1>1
  <2>3. \A i \in 1..k : acc[i] = Round(c, fs, acc[i - 1], i)
    BY <2>1, <1>4, <1>5 DEF Folded
  <2>4. acc = [i \in 0..k |-> acc[i]]
    OBVIOUS
  <2> QED BY <1>5, <2>2, <2>3, <2>4 DEF Folded
<1>7. acc = [i \in 0..Len(index) |-> IF i = 0 THEN base ELSE Round(c, fs, acc[i - 1], index[i])]
  <2>1. \A i \in 0..k : i # 0 => index[i] = i
    BY <1>1
  <2> HIDE DEF index
  <2> QED BY <1>1, <1>6, <2>1
<1>8. chosen = [i \in 0..Len(index) |-> IF i = 0 THEN base ELSE Round(c, fs, chosen[i - 1], index[i])]
  <2> HIDE DEF index
  <2> QED BY <1>7
<1> HIDE DEF chosen
<1>9. /\ chosen[0] = base
      /\ \A i \in 1..k : chosen[i] = Round(c, fs, chosen[i - 1], i)
  <2>1. \A i \in 1..k : index[i] = i /\ i \in 0..k /\ i # 0
    BY <1>1
  <2>2. 0 \in 0..k
    BY <1>1
  <2> HIDE DEF index
  <2> QED BY <1>1, <1>8, <2>1, <2>2
<1> HIDE DEF index
<1> DEFINE S == {n \in 0..k : chosen[n] \in W}
<1>10. 0 \in S
  BY <1>1, <1>2, <1>9 DEF base
<1>11. ASSUME NEW i \in 1..k, i - 1 \in S PROVE i \in S
  <2>1. i \in 0..k /\ chosen[i - 1] \in W
    BY <1>1, <1>11
  <2>2. Round(c, fs, chosen[i - 1], i) \in W
    BY <2>1, <1>1
  <2> QED BY <1>9, <2>1, <2>2
<1>12. \A i \in 0..k : i \in S
  <2> HIDE DEF S
  <2> QED BY <1>1, <1>10, <1>11, InductionTo
<1> QED BY <1>1, <1>3, <1>9, <1>12 DEF k, base, RoundsAre

LEMMA RoundsInto ==
    ASSUME NEW c, NEW fs, NEW start, NEW W, <<[rel |-> <<>>, full |-> start]>> \in W,
           \A v \in W : \A i \in Nat \ {0} : Round(c, fs, v, i) \in W
    PROVE  \E queue \in W : NeededByLibrary(c, fs, start) = Tail(queue)
<1>1. Len(Names) + 1 \in 0..(Len(Names) + 1)
  BY DiscoveryAssumption
<1>2. PICK acc : RoundsAre(c, fs, start, W, acc)
  BY RoundsSteps
<1> QED BY <1>1, <1>2 DEF RoundsAre

LEMMA NeededByLibraryType ==
    ASSUME NEW c, IsConfig(c), NEW fs, IsTree(fs), NEW start \in Path
    PROVE  /\ IsSeq(NeededByLibrary(c, fs, start))
           /\ \A i \in DOMAIN NeededByLibrary(c, fs, start) : NeededByLibrary(c, fs, start)[i].rel \in Path
<1>1. <<[rel |-> <<>>, full |-> start]>> \in Visits
  BY DEF Visits, Path
<1>2. \A v \in Visits : \A i \in Nat \ {0} : Round(c, fs, v, i) \in Visits
  BY RoundType
<1>3. PICK queue \in Visits : NeededByLibrary(c, fs, start) = Tail(queue)
  BY <1>1, <1>2, RoundsInto
<1>4. Tail(queue) \in Seq([rel : Path, full : Path])
  BY TailOfSeq DEF Visits
<1>5. IsSeq(Tail(queue)) /\ \A i \in DOMAIN Tail(queue) : Tail(queue)[i] \in [rel : Path, full : Path]
  BY <1>4, SeqElements
<1> QED BY <1>3, <1>5

\* What is kept of a sequence is in it.
LEMMA KeptElements ==
    ASSUME NEW s, IsSeq(s), NEW keys, DOMAIN keys = DOMAIN s, NEW kept
    PROVE  /\ IsSeq(Only(s, kept)) /\ ToSet(Only(s, kept)) \subseteq ToSet(s)
           /\ IsSeq(Firsts(s, keys)) /\ ToSet(Firsts(s, keys)) \subseteq ToSet(s)
<1>1. /\ IsSeq(Only(s, kept)) /\ ToSet(Only(s, kept)) = {s[i] : i \in DOMAIN s \cap kept}
      /\ IsSeq(Firsts(s, keys)) /\ ToSet(Firsts(s, keys)) = {s[i] : i \in First(keys)}
  BY OnlyElements, FirstsElements
<1>2. First(keys) \subseteq DOMAIN s
  BY DEF First
<1> QED BY <1>1, <1>2 DEF ToSet

LEMMA DiscoverDependenciesType ==
    ASSUME NEW c, IsConfig(c), NEW fs, IsTree(fs), NEW libs, IsFiles(libs)
    PROVE  IsFiles(DiscoverDependencies(c, fs, libs))
<1> DEFINE needs == [i \in DOMAIN libs |-> NeededByLibrary(c, fs, ToSearchRootPath(c, libs[i].path))]
           all == FlattenSeq(needs)
           keys == [i \in DOMAIN all |-> ToDriverRootPath(c, all[i].rel)]
           once == Firsts(all, keys)
           kept == {i \in DOMAIN once :
                      /\ Last(once[i].rel) \notin GlibcName
                      /\ \A j \in DOMAIN libs : libs[j].path # ToDriverRootPath(c, once[i].rel)}
           only == Only(once, kept)
           more == [i \in DOMAIN only |-> Library(c, ToDriverRootPath(c, only[i].rel))]
<1>1. IsSeq(needs) /\ DOMAIN needs = DOMAIN libs /\ DOMAIN needs = 1..Len(needs)
  <2>1. needs = [i \in DOMAIN libs |-> needs[i]]
    OBVIOUS
  <2> HIDE DEF needs
  <2> QED BY <2>1, MappedIsSeq, IsSeqLen DEF IsFiles
<1>2. ASSUME NEW i \in DOMAIN needs
      PROVE  IsSeq(needs[i]) /\ \A x \in ToSet(needs[i]) : x.rel \in Path
  <2>1. ToSearchRootPath(c, libs[i].path) \in Path
    BY <1>1, RootsType DEF IsFiles
  <2>2. needs[i] = NeededByLibrary(c, fs, ToSearchRootPath(c, libs[i].path))
    BY <1>1
  <2> QED BY <2>1, <2>2, NeededByLibraryType DEF ToSet
<1> HIDE DEF needs
<1>3. IsSeq(all) /\ \A x \in ToSet(all) : x.rel \in Path
  <2>1. IsSeq(all) /\ ToSet(all) = UNION {ToSet(needs[i]) : i \in 1..Len(needs)}
    BY <1>1, <1>2, FlattenSeqElements
  <2> QED BY <1>1, <1>2, <2>1
<1>4. DiscoverDependencies(c, fs, libs) = more
  BY DEF DiscoverDependencies, Flatten, Map, FirstOf, Filter, needs
<1> HIDE DEF all
<1>5. DOMAIN keys = DOMAIN all
  OBVIOUS
<1> HIDE DEF keys
<1>6. IsSeq(once) /\ ToSet(once) \subseteq ToSet(all)
  BY <1>3, <1>5, KeptElements
<1> HIDE DEF once, kept
<1>7. IsSeq(only) /\ ToSet(only) \subseteq ToSet(once)
  BY <1>6, KeptElements
<1> HIDE DEF only
<1>8. IsSeq(more) /\ DOMAIN more = DOMAIN only
  <2>1. more = [i \in DOMAIN only |-> more[i]]
    OBVIOUS
  <2> HIDE DEF more
  <2> QED BY <1>7, <2>1, MappedIsSeq
<1>9. ASSUME NEW i \in DOMAIN only PROVE more[i].path \in Path
  <2>1. only[i] \in ToSet(only)
    BY DEF ToSet
  <2>2. only[i].rel \in Path
    BY <1>3, <1>6, <1>7, <2>1
  <2> QED BY <2>2, RootsType DEF Library
<1> HIDE DEF more
<1> QED BY <1>4, <1>8, <1>9 DEF IsFiles

LEMMA ConcatFiles ==
    ASSUME NEW s, NEW t, IsFiles(s), IsFiles(t)
    PROVE  IsFiles(s \o t)
<1>1. IsSeq(s \o t) /\ ToSet(s \o t) = ToSet(s) \cup ToSet(t)
  BY ConcatIsSeq DEF IsFiles
<1>2. \A x \in ToSet(s \o t) : x.path \in Path
  BY <1>1 DEF IsFiles, ToSet
<1> QED BY <1>1, <1>2 DEF IsFiles, ToSet

LEMMA DiscoverPluginsType ==
    ASSUME NEW c, IsConfig(c), NEW fs
    PROVE  IsFiles(DiscoverPlugins(c, fs))
<1> DEFINE names(i) == Only(Entries(fs, SearchRoot(c) \o c.pluginDirs[i]),
                            {j \in DOMAIN Entries(fs, SearchRoot(c) \o c.pluginDirs[i]) :
                                Entries(fs, SearchRoot(c) \o c.pluginDirs[i])[j] \in SharedObject})
           inDir(i) == [j \in DOMAIN names(i) |-> SearchRoot(c) \o c.pluginDirs[i] \o <<names(i)[j]>>]
           found == [i \in DOMAIN c.pluginDirs |-> inDir(i)]
           all == FlattenSeq(found)
           keys == [i \in DOMAIN all |-> RealPath(fs, all[i])]
           once == Firsts(all, keys)
           plugins == [i \in DOMAIN once |-> Plugin(c, ToHostPath(c, once[i]), Last(Front(once[i])))]
<1>1. IsSeq(c.pluginDirs) /\ \A i \in DOMAIN c.pluginDirs : c.pluginDirs[i] \in Path
  BY SeqElements DEF IsConfig
<1>2. IsSeq(found) /\ DOMAIN found = DOMAIN c.pluginDirs
  <2>1. found = [i \in DOMAIN c.pluginDirs |-> found[i]]
    OBVIOUS
  <2> HIDE DEF found
  <2> QED BY <1>1, <2>1, MappedIsSeq
<1>3. ASSUME NEW i \in DOMAIN c.pluginDirs PROVE IsPaths(inDir(i))
  <2>1. IsSeq(names(i)) /\ ToSet(names(i)) \subseteq Name
    <3> DEFINE dir == SearchRoot(c) \o c.pluginDirs[i]
               kept == {j \in DOMAIN Entries(fs, dir) : Entries(fs, dir)[j] \in SharedObject}
    <3>1. IsSeq(Entries(fs, dir)) /\ ToSet(Entries(fs, dir)) \subseteq Name
      BY EntriesElements, EntriesAreNames DEF ToSet
    <3> HIDE DEF dir, kept
    <3>2. IsSeq(Only(Entries(fs, dir), kept)) /\ ToSet(Only(Entries(fs, dir), kept)) \subseteq Name
      BY <3>1, KeptElements
    <3> QED BY <3>2 DEF dir, kept
  <2> HIDE DEF names
  <2>2. IsSeq(inDir(i)) /\ DOMAIN inDir(i) = DOMAIN names(i)
    <3> DEFINE t == inDir(i)
    <3>1. t = [j \in DOMAIN names(i) |-> t[j]]
      OBVIOUS
    <3> HIDE DEF t
    <3>2. IsSeq(t) /\ DOMAIN t = DOMAIN names(i)
      BY <2>1, <3>1, MappedIsSeq
    <3> QED BY <3>2 DEF t
  <2>3. SearchRoot(c) \o c.pluginDirs[i] \in Path
    <3>1. <<>> \in Path
      BY DEF Path
    <3> QED BY <1>1, <3>1, RootsType, PathConcat
  <2>4. \A j \in DOMAIN names(i) : names(i)[j] \in Name
    BY <2>1 DEF ToSet
  <2>5. \A j \in DOMAIN names(i) : SearchRoot(c) \o c.pluginDirs[i] \o <<names(i)[j]>> \in Path
    BY <2>3, <2>4, SingletonPath, PathConcat
  <2> QED BY <2>2, <2>5 DEF IsPaths
<1>4. IsPaths(all)
  <2>1. \A i \in DOMAIN found : IsPaths(found[i])
    BY <1>2, <1>3
  <2> HIDE DEF found
  <2> QED BY <1>2, <2>1, FlattenPaths
<1>5. DiscoverPlugins(c, fs) = plugins
  BY DEF DiscoverPlugins, Flatten, Map, FirstOf, Filter
<1> HIDE DEF found, all
<1>6. IsPaths(once)
  <2>1. DOMAIN keys = DOMAIN all
    OBVIOUS
  <2> HIDE DEF keys
  <2> QED BY <1>4, <2>1, FirstsPaths
<1> HIDE DEF keys, once
<1>7. IsSeq(plugins) /\ DOMAIN plugins = DOMAIN once
  <2>1. plugins = [i \in DOMAIN once |-> plugins[i]]
    OBVIOUS
  <2> HIDE DEF plugins
  <2> QED BY <1>6, <2>1, MappedIsSeq DEF IsPaths
<1>8. ASSUME NEW i \in DOMAIN once PROVE plugins[i].path \in Path
  BY <1>6, RootsType DEF Plugin, IsPaths
<1> HIDE DEF plugins
<1> QED BY <1>5, <1>7, <1>8 DEF IsFiles

LEMMA DiscoverRDMAProvidersType ==
    ASSUME NEW c, IsConfig(c), NEW fs
    PROVE  IsSeq(DiscoverRDMAProviders(c, fs))
<1> DEFINE isHostFile(p) == Stat(fs, c.hostRoot \o p).kind = "file"
           kept == {i \in DOMAIN c.providers :
                      /\ isHostFile(c.providers[i].library)
                      /\ c.providers[i].driver # <<>> => isHostFile(c.providers[i].driver)}
           only == Only(c.providers, kept)
           found == [i \in DOMAIN only |->
                       [path |-> only[i].library, driver |-> only[i].driver,
                        cpath |-> Append(c.providerDir, Last(only[i].library))]]
<1>1. DiscoverRDMAProviders(c, fs) = IF c.providerDir = <<>> THEN <<>> ELSE found
  BY DEF DiscoverRDMAProviders, Filter, Map
<1> HIDE DEF kept
<1>2. IsSeq(only)
  BY OnlyElements DEF IsConfig
<1> HIDE DEF only
<1>3. IsSeq(found)
  <2>1. found = [i \in DOMAIN only |-> found[i]]
    OBVIOUS
  <2> HIDE DEF found
  <2> QED BY <1>2, <2>1, MappedIsSeq
<1> QED BY <1>1, <1>3, EmptyIsSeq

LEMMA DiscoverToolsType ==
    ASSUME NEW c, IsConfig(c), NEW fs
    PROVE  IsSeq(DiscoverTools(c, fs))
<1> DEFINE first(t) == FirstN(FindTool(c, fs, t), 1)
           tool(t) == [i \in DOMAIN first(t) |-> Tool(c, ToolHostPath(c, first(t)[i]))]
           found == [i \in DOMAIN c.tools |-> tool(c.tools[i])]
<1>1. DiscoverTools(c, fs) = FlattenSeq(found)
  BY DEF DiscoverTools, Flatten, Map
<1>2. ASSUME NEW t PROVE IsSeq(tool(t))
  <2> DEFINE places == [i \in DOMAIN c.binDirs |-> SearchRoot(c) \o c.binDirs[i] \o <<t>>]
             kept == {i \in DOMAIN places : Stat(fs, places[i]).kind = "file" /\ Stat(fs, places[i]).exec}
             usable == Only(places, kept)
  <2>1. FindTool(c, fs, t) = usable
    BY DEF FindTool, Map, Filter
  <2>2. IsSeq(places)
    <3>1. IsSeq(c.binDirs)
      BY SeqElements DEF IsConfig
    <3>2. places = [i \in DOMAIN c.binDirs |-> places[i]]
      OBVIOUS
    <3> HIDE DEF places
    <3> QED BY <3>1, <3>2, MappedIsSeq
  <2> HIDE DEF places, kept
  <2>3. usable \in Seq(ToSet(usable))
    BY <2>2, OnlyElements DEF IsSeq
  <2> HIDE DEF usable
  <2>4. FirstN(usable, 1) \in Seq(ToSet(usable))
    BY <2>3 DEF FirstN
  <2>5. IsSeq(first(t))
    BY <2>1, <2>4, SeqIsSeq
  <2> DEFINE s == first(t)
             r == tool(t)
  <2>6. r = [i \in DOMAIN s |-> r[i]]
    OBVIOUS
  <2> HIDE DEF s, r
  <2>7. IsSeq(r)
    BY <2>5, <2>6, MappedIsSeq DEF s
  <2> QED BY <2>7 DEF r
<1> HIDE DEF tool
<1>3. IsSeq(found) /\ DOMAIN found = DOMAIN c.tools /\ DOMAIN found = 1..Len(found)
  <2>1. found = [i \in DOMAIN c.tools |-> found[i]]
    OBVIOUS
  <2>2. IsSeq(c.tools)
    BY SeqElements DEF IsConfig
  <2> HIDE DEF found
  <2> QED BY <2>1, <2>2, MappedIsSeq, IsSeqLen
<1>4. \A i \in 1..Len(found) : IsSeq(found[i])
  BY <1>2, <1>3
<1> HIDE DEF found
<1> QED BY <1>1, <1>3, <1>4, FlattenSeqElements

\* The device nodes found are those in the host's /dev, of the classes asked
\* for, and have in the container the path they have on the host.
HostDevice(d) == \E n \in DOMAIN DeviceClass : d = [path |-> <<"dev", n>>, cpath |-> <<"dev", n>>]
IsDevices(s) == IsSeq(s) /\ \A d \in ToSet(s) : HostDevice(d)

LEMMA TrimRoot ==
    ASSUME NEW root \in Path, NEW p \in Path
    PROVE  TrimPrefix(root \o p, root) = p
<1>1. Len(root) \in Nat /\ Len(p) \in Nat /\ Len(root \o p) = Len(root) + Len(p)
  BY DEF Path
<1>2. IsPrefix(root, root \o p)
  BY DEF IsPrefix, Path
<1>3. SubSeq(root \o p, Len(root) + 1, Len(root) + Len(p)) = p
  BY DEF Path
<1> QED BY <1>1, <1>2, <1>3 DEF TrimPrefix

LEMMA DiscoverDevicesElements ==
    ASSUME NEW c, c.hostRoot \in Path, NEW fs, NEW classes
    PROVE  LET dir == EvalSymlinks(fs, Append(c.hostRoot, "dev"))
           IN  /\ IsSeq(DiscoverDevices(c, fs, classes))
               /\ ToSet(DiscoverDevices(c, fs, classes)) =
                     {[path |-> <<"dev", n>>, cpath |-> <<"dev", n>>] :
                        n \in {n \in ToSet(Names) : /\ Append(dir, n) \in DOMAIN fs
                                                    /\ n \in DOMAIN DeviceClass
                                                    /\ DeviceClass[n] \in classes}}
<1> DEFINE entries == Entries(fs, Append(c.hostRoot, "dev"))
           kept == {i \in DOMAIN entries : entries[i] \in DOMAIN DeviceClass /\ DeviceClass[entries[i]] \in classes}
           only == Only(entries, kept)
           found == [i \in DOMAIN only |-> Device(TrimPrefix(Append(c.hostRoot, "dev") \o <<only[i]>>, c.hostRoot))]
           real == EvalSymlinks(fs, Append(c.hostRoot, "dev"))
<1>1. DiscoverDevices(c, fs, classes) = found
  BY DEF DiscoverDevices, Map, Filter
<1>2. IsSeq(entries) /\ ToSet(entries) = {n \in ToSet(Names) : Append(real, n) \in DOMAIN fs}
  BY EntriesElements
<1>3. \A i \in DOMAIN entries : entries[i] \in Name
  BY EntriesAreNames
<1> HIDE DEF entries, real
<1>4. IsSeq(only) /\ ToSet(only) = {entries[i] : i \in DOMAIN entries \cap kept}
  <2> HIDE DEF kept
  <2> QED BY <1>2, OnlyElements
<1>5. ToSet(only) = {n \in ToSet(entries) : n \in DOMAIN DeviceClass /\ DeviceClass[n] \in classes}
  <2> HIDE DEF only
  <2> QED BY <1>4 DEF ToSet
<1> HIDE DEF only, kept
<1>6. ASSUME NEW i \in DOMAIN only PROVE found[i] = [path |-> <<"dev", only[i]>>, cpath |-> <<"dev", only[i]>>]
  <2>1. only[i] \in Name
    <3>1. only[i] \in ToSet(entries)
      BY <1>5 DEF ToSet
    <3> QED BY <1>3, <3>1 DEF ToSet
  <2>2. <<"dev", only[i]>> \in Path /\ Append(c.hostRoot, "dev") \o <<only[i]>> = c.hostRoot \o <<"dev", only[i]>>
    <3>1. "dev" \in Name
      BY DiscoveryAssumption
    <3>2. <<"dev", only[i]>> \in Path
      BY <2>1, <3>1 DEF Path
    <3>3. Append(c.hostRoot, "dev") = c.hostRoot \o <<"dev">>
      BY <3>1 DEF Path
    <3>4. (c.hostRoot \o <<"dev">>) \o <<only[i]>> = c.hostRoot \o <<"dev", only[i]>>
      BY <2>1, <3>1 DEF Path
    <3> QED BY <3>2, <3>3, <3>4
  <2>3. TrimPrefix(Append(c.hostRoot, "dev") \o <<only[i]>>, c.hostRoot) = <<"dev", only[i]>>
    BY <2>2, TrimRoot
  <2> QED BY <2>3 DEF Device
<1>7. IsSeq(found) /\ DOMAIN found = DOMAIN only
  <2>1. found = [i \in DOMAIN only |-> found[i]]
    OBVIOUS
  <2> HIDE DEF found
  <2> QED BY <1>4, <2>1, MappedIsSeq
<1> HIDE DEF found
<1>8. ToSet(found) = {[path |-> <<"dev", n>>, cpath |-> <<"dev", n>>] : n \in ToSet(only)}
  <2>1. ToSet(found) = {found[i] : i \in DOMAIN only}
    BY <1>7 DEF ToSet
  <2>2. ToSet(only) = {only[i] : i \in DOMAIN only}
    BY DEF ToSet
  <2> DEFINE device(n) == [path |-> <<"dev", n>>, cpath |-> <<"dev", n>>]
  <2>3. \A i \in DOMAIN only : found[i] = device(only[i])
    BY <1>6
  <2> HIDE DEF device
  <2>4. ToSet(found) = {device(n) : n \in ToSet(only)}
    BY <2>1, <2>2, <2>3
  <2> QED BY <2>4 DEF device
<1> QED BY <1>1, <1>2, <1>5, <1>7, <1>8 DEF real

LEMMA DiscoverDevicesType ==
    ASSUME NEW c, c.hostRoot \in Path, NEW fs, NEW classes
    PROVE  IsDevices(DiscoverDevices(c, fs, classes))
BY DiscoverDevicesElements DEF IsDevices, HostDevice

-----------------------------------------------------------------------------
(* The specification that is generated.                                     *)

IsFound(found) ==
    /\ found = [libraries |-> found.libraries, providers |-> found.providers,
                tools |-> found.tools, devices |-> found.devices]
    /\ IsFiles(found.libraries) /\ IsSeq(found.providers)
    /\ IsSeq(found.tools) /\ IsDevices(found.devices)

IsEdits(e) == IsSeq(e.mounts) /\ IsSeq(e.links) /\ IsSeq(e.nodes)
IsSpecification(spec) == IsEdits(spec.common) /\ \A n \in DOMAIN spec.devices : IsEdits(spec.devices[n])

LEMMA NoEditsType == IsEdits(NoEdits)
BY EmptyIsSeq DEF IsEdits, NoEdits

LEMMA ProviderMountsType == ASSUME NEW p PROVE IsSeq(ProviderMounts(p))
<1> DEFINE first == <<[src |-> p.path, dst |-> p.cpath]>>
           second == IF p.driver = <<>> THEN <<>> ELSE <<[src |-> p.driver, dst |-> p.driver]>>
<1>1. IsSeq(first) /\ IsSeq(second)
  BY OneIsSeq, EmptyIsSeq
<1>2. ProviderMounts(p) = first \o second
  BY DEF ProviderMounts
<1> HIDE DEF first, second
<1> QED BY <1>1, <1>2, ConcatIsSeq

LEMMA CommonMountsType ==
    ASSUME NEW found, IsFound(found)
    PROVE  IsSeq(CommonMounts(found))
<1> DEFINE provided == [i \in DOMAIN found.providers |-> ProviderMounts(found.providers[i])]
           libs == [i \in DOMAIN found.libraries |-> Mount(found.libraries[i])]
           tools == [i \in DOMAIN found.tools |-> Mount(found.tools[i])]
           all == FlattenSeq(provided) \o libs
           keys == [i \in DOMAIN all |-> all[i].dst]
<1>1. CommonMounts(found) = Firsts(all, keys) \o tools
  BY DEF CommonMounts, FirstOf, Flatten, Map
<1>2. IsSeq(libs) /\ IsSeq(tools)
  <2>1. libs = [i \in DOMAIN found.libraries |-> libs[i]] /\ tools = [i \in DOMAIN found.tools |-> tools[i]]
    OBVIOUS
  <2> HIDE DEF libs, tools
  <2> QED BY <2>1, MappedIsSeq DEF IsFound, IsFiles
<1>3. IsSeq(FlattenSeq(provided))
  <2>1. provided = [i \in DOMAIN found.providers |-> provided[i]]
    OBVIOUS
  <2>2. \A i \in DOMAIN found.providers : IsSeq(provided[i])
    BY ProviderMountsType
  <2> HIDE DEF provided
  <2>3. IsSeq(provided) /\ DOMAIN provided = DOMAIN found.providers /\ DOMAIN provided = 1..Len(provided)
    BY <2>1, MappedIsSeq, IsSeqLen DEF IsFound
  <2> QED BY <2>2, <2>3, FlattenSeqElements
<1> HIDE DEF provided, libs, tools
<1>4. IsSeq(all)
  BY <1>2, <1>3, ConcatIsSeq
<1>5. DOMAIN keys = DOMAIN all
  OBVIOUS
<1> HIDE DEF all, keys
<1>6. IsSeq(Firsts(all, keys))
  BY <1>4, <1>5, KeptElements
<1> QED BY <1>1, <1>2, <1>6, ConcatIsSeq

LEMMA LinkIfType ==
    ASSUME NEW c, NEW fs, NEW lib, NEW name, NEW target
    PROVE  IsSeq(LinkIf(c, fs, lib, name, target))
BY OneIsSeq, EmptyIsSeq DEF LinkIf

LEMMA ComputeSymlinksType ==
    ASSUME NEW c, NEW fs, NEW libs, IsSeq(libs)
    PROVE  IsSeq(ComputeSymlinks(c, fs, libs))
<1> DEFINE links == [i \in DOMAIN libs |-> SymlinksOf(c, fs, libs[i], Stat(fs, ToSearchRootPath(c, libs[i].path)))]
           all == FlattenSeq(links)
           keys == [i \in DOMAIN all |-> all[i]]
<1>1. ComputeSymlinks(c, fs, libs) = Firsts(all, keys)
  BY DEF ComputeSymlinks, FirstOf, Flatten, Map
<1>2. ASSUME NEW lib, NEW node PROVE IsSeq(SymlinksOf(c, fs, lib, node))
  <2>1. ASSUME NEW soname PROVE IsSeq(LinksFor(c, fs, lib, soname))
    BY LinkIfType, ConcatIsSeq DEF LinksFor
  <2> QED BY <2>1, EmptyIsSeq DEF SymlinksOf
<1>3. links = [i \in DOMAIN libs |-> links[i]] /\ \A i \in DOMAIN libs : IsSeq(links[i])
  BY <1>2
<1> HIDE DEF links
<1>4. IsSeq(links) /\ DOMAIN links = DOMAIN libs /\ DOMAIN links = 1..Len(links)
  BY <1>3, MappedIsSeq, IsSeqLen
<1>5. IsSeq(all)
  BY <1>3, <1>4, FlattenSeqElements
<1>6. DOMAIN keys = DOMAIN all
  OBVIOUS
<1> HIDE DEF all, keys
<1> QED BY <1>1, <1>5, <1>6, KeptElements

\* The devices of one class.
LEMMA ClassifyElements ==
    ASSUME NEW c, NEW devices, IsDevices(devices), NEW class
    PROVE  LET some == Classify(c, devices, class)
           IN  /\ IsSeq(some)
               /\ ToSet(some) = IF c.devicesDisabled THEN {} ELSE {d \in ToSet(devices) : ClassOf(d) = class}
<1> DEFINE kept == {i \in DOMAIN devices : ClassOf(devices[i]) = class}
<1>1. Classify(c, devices, class) = IF c.devicesDisabled THEN <<>> ELSE Only(devices, kept)
  BY DEF Classify, Filter
<1>2. IsSeq(Only(devices, kept)) /\ ToSet(Only(devices, kept)) = {devices[i] : i \in DOMAIN devices \cap kept}
  <2> HIDE DEF kept
  <2> QED BY OnlyElements DEF IsDevices
<1>3. {devices[i] : i \in DOMAIN devices \cap kept} = {d \in ToSet(devices) : ClassOf(d) = class}
  BY DEF ToSet
<1> QED BY <1>1, <1>2, <1>3, EmptyIsSeq

\* The nodes of a sequence of devices, made one by one.
LEMMA NodesElements ==
    ASSUME NEW s, IsSeq(s)
    PROVE  /\ IsSeq(Map(s, DeviceNode)) /\ ToSet(Map(s, DeviceNode)) = {DeviceNode(d) : d \in ToSet(s)}
           /\ IsSeq(Map(s, RSDAliasNode)) /\ ToSet(Map(s, RSDAliasNode)) = {RSDAliasNode(d) : d \in ToSet(s)}
<1> DEFINE own == [i \in DOMAIN s |-> DeviceNode(s[i])]
           alias == [i \in DOMAIN s |-> RSDAliasNode(s[i])]
<1>1. Map(s, DeviceNode) = own /\ Map(s, RSDAliasNode) = alias
  BY DEF Map
<1>2. IsSeq(own) /\ DOMAIN own = DOMAIN s /\ IsSeq(alias) /\ DOMAIN alias = DOMAIN s
  <2>1. own = [i \in DOMAIN s |-> own[i]] /\ alias = [i \in DOMAIN s |-> alias[i]]
    OBVIOUS
  <2> HIDE DEF own, alias
  <2> QED BY <2>1, MappedIsSeq
<1>3. ToSet(own) = {DeviceNode(s[i]) : i \in DOMAIN s} /\ ToSet(alias) = {RSDAliasNode(s[i]) : i \in DOMAIN s}
  BY <1>2 DEF ToSet
<1>4. ToSet(s) = {s[i] : i \in DOMAIN s}
  BY DEF ToSet
<1> QED BY <1>1, <1>2, <1>3, <1>4

\* The nodes of the entry of an NPU, of a group, and of all devices.
NodesOfEntry(n, nodes, npus, rsds, group) ==
    /\ IsSeq(nodes)
    /\ n[1] = "npu" =>
         \E d \in ToSet(npus) :
            /\ IndexOf(d) = n[2]
            /\ ToSet(nodes) = {DeviceNode(d)} \cup
                 {RSDAliasNode(e) : e \in {e \in ToSet(rsds) : n[2] \in DOMAIN group /\ IndexOf(e) = group[n[2]]}}
    /\ n[1] = "rsd" => \E d \in ToSet(rsds) : ToSet(nodes) = {RSDAliasNode(d)}
    /\ n[1] \notin {"npu", "rsd"} => ToSet(nodes) = {DeviceNode(d) : d \in ToSet(npus) \cup ToSet(rsds)}

LEMMA DeviceEntriesNodes ==
    ASSUME NEW npus, NEW rsds, NEW group, IsSeq(npus), IsSeq(rsds)
    PROVE  LET entries == DeviceEntries(npus, rsds, group)
           IN  \A n \in DOMAIN entries :
                 \E nodes : entries[n] = WithNodes(nodes) /\ NodesOfEntry(n, nodes, npus, rsds, group)
<1> DEFINE named(devices, i) == CHOOSE d \in ToSet(devices) : IndexOf(d) = i
           npuNodes(d) == <<DeviceNode(d)>> \o Map(ResolveRSDFor(d, rsds, group), RSDAliasNode)
           nodesOf(n) == CASE n[1] = "npu" -> npuNodes(named(npus, n[2]))
                           [] n[1] = "rsd" -> <<RSDAliasNode(named(rsds, n[2]))>>
                           [] OTHER -> NodesOf(npus, rsds)
           N == {<<"npu", IndexOf(d)>> : d \in ToSet(npus)}
           R == {<<"rsd", IndexOf(d)>> : d \in ToSet(rsds)}
           entries == DeviceEntries(npus, rsds, group)
<1>1. entries = [n \in N \cup R \cup {<<"all", 0>>, <<"runtime", 0>>} |-> WithNodes(nodesOf(n))]
  BY DEF DeviceEntries
<1> SUFFICES ASSUME NEW n \in DOMAIN entries
             PROVE  NodesOfEntry(n, nodesOf(n), npus, rsds, group)
  BY <1>1
<1>2. n \in N \cup R \cup {<<"all", 0>>, <<"runtime", 0>>}
  BY <1>1
<1> HIDE DEF entries
<1>3. CASE n \in N
  <2> DEFINE d == named(npus, n[2])
             kept == {i \in DOMAIN rsds : IndexOf(d) \in DOMAIN group /\ IndexOf(rsds[i]) = group[IndexOf(d)]}
             own == <<DeviceNode(d)>>
             alias == Map(Only(rsds, kept), RSDAliasNode)
  <2>1. n[1] = "npu"
    BY <1>3
  <2>2. d \in ToSet(npus) /\ IndexOf(d) = n[2]
    BY <1>3
  <2>3. nodesOf(n) = own \o alias
    BY <2>1 DEF ResolveRSDFor, Filter
  <2>4. IsSeq(Only(rsds, kept)) /\ ToSet(Only(rsds, kept)) = {rsds[i] : i \in DOMAIN rsds \cap kept}
    <3> HIDE DEF kept
    <3> QED BY OnlyElements
  <2>5. {rsds[i] : i \in DOMAIN rsds \cap kept}
          = {e \in ToSet(rsds) : n[2] \in DOMAIN group /\ IndexOf(e) = group[n[2]]}
    <3> HIDE DEF d
    <3> QED BY <2>2 DEF ToSet
  <2> HIDE DEF kept
  <2>6. IsSeq(alias) /\ ToSet(alias) = {RSDAliasNode(e) : e \in ToSet(Only(rsds, kept))}
    BY <2>4, NodesElements
  <2>7. IsSeq(own) /\ ToSet(own) = {DeviceNode(d)}
    BY OneIsSeq
  <2> HIDE DEF own, alias
  <2>8. IsSeq(own \o alias) /\ ToSet(own \o alias) = ToSet(own) \cup ToSet(alias)
    BY <2>6, <2>7, ConcatIsSeq
  <2> HIDE DEF d, nodesOf
  <2> QED BY <2>1, <2>2, <2>3, <2>4, <2>5, <2>6, <2>7, <2>8 DEF NodesOfEntry
<1>4. CASE n \in R
  <2> DEFINE d == named(rsds, n[2])
  <2>1. n[1] = "rsd"
    BY <1>4
  <2>2. d \in ToSet(rsds)
    BY <1>4
  <2>3. nodesOf(n) = <<RSDAliasNode(d)>>
    BY <2>1
  <2> HIDE DEF nodesOf, d
  <2> QED BY <2>1, <2>2, <2>3, OneIsSeq DEF NodesOfEntry
<1>5. CASE n \in {<<"all", 0>>, <<"runtime", 0>>}
  <2>1. n[1] \notin {"npu", "rsd"}
    BY <1>5
  <2>2. nodesOf(n) = NodesOf(npus, rsds)
    BY <2>1
  <2>3. IsSeq(NodesOf(npus, rsds)) /\ ToSet(NodesOf(npus, rsds)) = {DeviceNode(d) : d \in ToSet(npus) \cup ToSet(rsds)}
    <3> DEFINE a == Map(npus, DeviceNode)
               b == Map(rsds, DeviceNode)
    <3>1. IsSeq(a) /\ ToSet(a) = {DeviceNode(d) : d \in ToSet(npus)}
      BY NodesElements
    <3>2. IsSeq(b) /\ ToSet(b) = {DeviceNode(d) : d \in ToSet(rsds)}
      BY NodesElements
    <3>3. NodesOf(npus, rsds) = a \o b
      BY DEF NodesOf
    <3> HIDE DEF a, b
    <3>4. IsSeq(a \o b) /\ ToSet(a \o b) = ToSet(a) \cup ToSet(b)
      BY <3>1, <3>2, ConcatIsSeq
    <3> QED BY <3>1, <3>2, <3>3, <3>4
  <2> HIDE DEF nodesOf
  <2> QED BY <2>1, <2>2, <2>3 DEF NodesOfEntry
<1> QED BY <1>2, <1>3, <1>4, <1>5

\* What Generate returns: of a device entry its nodes, none in common.
Generated(edits, c, fs, found, group) ==
    LET npus == Classify(c, found.devices, "rbln")
        rsds == Classify(c, found.devices, "rsd")
    IN  /\ IsSpecification(edits)
        /\ edits.common.nodes = <<>>
        /\ DOMAIN edits.devices = DOMAIN DeviceEntries(npus, rsds, group)
        /\ \A n \in DOMAIN edits.devices : NodesOfEntry(n, edits.devices[n].nodes, npus, rsds, group)
        /\ ~c.devicesDisabled =>
             /\ edits.common = BuildCommonEdits(c, fs, found)
             /\ \A n \in DOMAIN edits.devices : edits.devices[n] = WithNodes(edits.devices[n].nodes)
        /\ c.devicesDisabled => edits = FoldCommonEdits(Unfolded(c, fs, found, group))

LEMMA GenerateNodes ==
    ASSUME NEW c, c.devicesDisabled \in BOOLEAN, NEW fs, NEW found, IsFound(found), NEW group
    PROVE  Generated(Generate(c, fs, found, group), c, fs, found, group)
<1> DEFINE edits == Generate(c, fs, found, group)
           npus == Classify(c, found.devices, "rbln")
           rsds == Classify(c, found.devices, "rsd")
           entries == DeviceEntries(npus, rsds, group)
           common == BuildCommonEdits(c, fs, found)
           whole == Unfolded(c, fs, found, group)
<1>1. IsSeq(npus) /\ IsSeq(rsds) /\ (c.devicesDisabled => ToSet(npus) = {} /\ ToSet(rsds) = {})
  BY ClassifyElements DEF IsFound
<1>2. whole.common = common /\ whole.devices = entries
  BY DEF Unfolded, BuildDeviceEntries
<1>3. IsEdits(common) /\ common.nodes = <<>>
  <2>1. IsSeq(CommonMounts(found))
    BY CommonMountsType
  <2>2. IsSeq(ComputeSymlinks(c, fs, found.libraries))
    BY ComputeSymlinksType DEF IsFound, IsFiles
  <2> QED BY <2>1, <2>2, EmptyIsSeq DEF BuildCommonEdits, IsEdits
<1> HIDE DEF npus, rsds
<1>4. ASSUME NEW n \in DOMAIN entries
      PROVE  /\ NodesOfEntry(n, entries[n].nodes, npus, rsds, group)
             /\ entries[n] = WithNodes(entries[n].nodes) /\ IsEdits(entries[n])
  <2>1. PICK nodes : entries[n] = WithNodes(nodes) /\ NodesOfEntry(n, nodes, npus, rsds, group)
    BY <1>1, DeviceEntriesNodes
  <2>2. WithNodes(nodes).nodes = nodes /\ WithNodes(nodes).mounts = <<>> /\ WithNodes(nodes).links = <<>>
    BY DEF WithNodes, NoEdits
  <2> QED BY <2>1, <2>2, EmptyIsSeq DEF IsEdits, NodesOfEntry
<1> HIDE DEF entries, common, whole
<1>5. CASE ~c.devicesDisabled
  <2>1. edits = whole
    BY <1>5 DEF Generate, whole
  <2> HIDE DEF edits
  <2>2. edits.common = common /\ edits.devices = entries
    BY <2>1, <1>2
  <2>3. IsSpecification(edits) /\ edits.common.nodes = <<>> /\ DOMAIN edits.devices = DOMAIN entries
    BY <2>2, <1>3, <1>4 DEF IsSpecification
  <2>4. \A n \in DOMAIN edits.devices : /\ NodesOfEntry(n, edits.devices[n].nodes, npus, rsds, group)
                                       /\ edits.devices[n] = WithNodes(edits.devices[n].nodes)
    BY <2>2, <1>4
  <2> QED BY <1>5, <2>2, <2>3, <2>4 DEF Generated, edits, npus, rsds, entries, common
<1>6. CASE c.devicesDisabled
  <2>1. edits = FoldCommonEdits(whole)
    BY <1>6 DEF Generate, whole
  <2> HIDE DEF edits
  <2>2. /\ edits.common \in {common, NoEdits}
        /\ DOMAIN edits.devices = DOMAIN entries
        /\ \A n \in DOMAIN entries : edits.devices[n] \in {entries[n], common}
    BY <2>1, <1>2 DEF FoldCommonEdits
  <2>3. IsSpecification(edits) /\ edits.common.nodes = <<>>
    <3>1. NoEdits.nodes = <<>>
      BY DEF NoEdits
    <3> QED BY <2>2, <3>1, <1>3, <1>4, NoEditsType DEF IsSpecification
  <2>4. ASSUME NEW n \in DOMAIN edits.devices PROVE NodesOfEntry(n, edits.devices[n].nodes, npus, rsds, group)
    <3>1. NodesOfEntry(n, entries[n].nodes, npus, rsds, group)
      BY <2>2, <1>4
    <3>2. IsSeq(entries[n].nodes) /\ ToSet(entries[n].nodes) = {}
      BY <3>1, <1>1, <1>6 DEF NodesOfEntry
    <3>3. entries[n].nodes = <<>>
      BY <3>2, ToSetEmpty
    <3> QED BY <2>2, <3>1, <3>3, <1>3
  <2> QED BY <1>6, <2>1, <2>2, <2>3, <2>4 DEF Generated, edits, npus, rsds, entries, whole
<1> QED BY <1>5, <1>6

\* The entries of the RDS devices.
LEMMA RDSForNodes ==
    ASSUME NEW devices, IsDevices(devices)
    PROVE  /\ IsSpecification(RDSFor(devices))
           /\ \A n \in DOMAIN RDSFor(devices).devices :
                LET nodes == RDSFor(devices).devices[n].nodes
                IN  ToSet(nodes) # {} /\ ToSet(nodes) \subseteq {DeviceNode(d) : d \in ToSet(devices)}
           /\ \A d \in ToSet(devices) : <<"rblnfs", IndexOf(d)>> \in DOMAIN RDSFor(devices).devices
<1> DEFINE edits == RDSFor(devices)
           kept(n) == {i \in DOMAIN devices : n \in {<<"all", 0>>, <<"rblnfs", IndexOf(devices[i])>>}}
           N == {<<"rblnfs", IndexOf(d)>> : d \in ToSet(devices)} \cup {<<"all", 0>>}
           entries == [n \in N |-> WithNodes(Map(Only(devices, kept(n)), DeviceNode))]
<1>1. IsSeq(devices)
  BY DEF IsDevices
<1>2. CASE devices = <<>>
  <2>1. edits = NoSpecification /\ ToSet(devices) = {}
    BY <1>2, EmptyIsSeq DEF RDSFor
  <2>2. NoSpecification.common = NoEdits /\ DOMAIN NoSpecification.devices = {}
    BY DEF NoSpecification
  <2> QED BY <2>1, <2>2, NoEditsType DEF IsSpecification
<1>3. CASE devices # <<>>
  <2>1. edits.common = NoEdits /\ edits.devices = entries
    BY <1>3 DEF RDSFor, RBLNFSEntries, Filter
  <2>2. ToSet(devices) # {}
    BY <1>1, <1>3, ToSetEmpty
  <2> HIDE DEF edits
  <2>3. ASSUME NEW n \in N
        PROVE  /\ IsSeq(entries[n].nodes) /\ IsEdits(entries[n])
               /\ ToSet(entries[n].nodes) # {} /\ ToSet(entries[n].nodes) \subseteq {DeviceNode(d) : d \in ToSet(devices)}
    <3> DEFINE some == Only(devices, kept(n))
               nodes == Map(some, DeviceNode)
    <3>1. \E i \in DOMAIN devices : i \in kept(n)
      <4>1. CASE n = <<"all", 0>>
        BY <4>1, <2>2 DEF ToSet
      <4>2. CASE n # <<"all", 0>>
        <5>1. PICK i \in DOMAIN devices : n = <<"rblnfs", IndexOf(devices[i])>>
          BY <4>2 DEF ToSet
        <5> QED BY <5>1
      <4> QED BY <4>1, <4>2
    <3>2. entries[n] = WithNodes(nodes)
      OBVIOUS
    <3> HIDE DEF kept, entries
    <3>3. IsSeq(some) /\ ToSet(some) = {devices[i] : i \in DOMAIN devices \cap kept(n)}
      BY <1>1, OnlyElements
    <3>4. ToSet(some) # {} /\ ToSet(some) \subseteq ToSet(devices)
      BY <3>1, <3>3 DEF ToSet
    <3> HIDE DEF some
    <3>5. IsSeq(nodes) /\ ToSet(nodes) = {DeviceNode(d) : d \in ToSet(some)}
      BY <3>3, NodesElements
    <3> HIDE DEF nodes
    <3>6. WithNodes(nodes).nodes = nodes /\ WithNodes(nodes).mounts = <<>> /\ WithNodes(nodes).links = <<>>
      BY DEF WithNodes, NoEdits
    <3> QED BY <3>2, <3>4, <3>5, <3>6, EmptyIsSeq DEF IsEdits
  <2>4. DOMAIN entries = N
    OBVIOUS
  <2> HIDE DEF entries
  <2>5. IsSpecification(edits)
    BY <2>1, <2>3, <2>4, NoEditsType DEF IsSpecification
  <2> QED BY <2>1, <2>3, <2>4, <2>5 DEF edits
<1> QED BY <1>2, <1>3

\* A library of the driver that is there is found.
LEMMA DiscoverRBLNFinds ==
    ASSUME NEW c, IsConfig(c), NEW fs, IsTree(fs), NEW k \in DOMAIN c.libDirs,
           NEW n \in ToSet(Names) \cap RblnName,
           LinksOn(fs, SearchRoot(c) \o c.libDirs[k]) = {},
           NodeAt(fs, Append(SearchRoot(c) \o c.libDirs[k], n)).kind = "file"
    PROVE  DiscoverRBLN(c, fs) # <<>>
<1> DEFINE dir == SearchRoot(c) \o c.libDirs[k]
           names == Entries(fs, dir)
           paths == [i \in DOMAIN names |-> Append(dir, names[i])]
           kept == {i \in DOMAIN paths : Last(paths[i]) \in RblnName /\ Lstat(fs, paths[i]).kind = "file"}
           matches == [i \in DOMAIN c.libDirs |-> MatchesIn(fs, SearchRoot(c) \o c.libDirs[i])]
           all == FlattenSeq(matches)
           keys == [i \in DOMAIN all |-> RealPath(fs, all[i])]
           once == Firsts(all, keys)
           libs == [i \in DOMAIN once |-> Library(c, ToHostPath(c, once[i]))]
<1>1. IsSeq(c.libDirs) /\ \A i \in DOMAIN c.libDirs : c.libDirs[i] \in Path
  BY SeqElements DEF IsConfig
<1>2. SearchRoot(c) \in Path /\ \A i \in DOMAIN c.libDirs : SearchRoot(c) \o c.libDirs[i] \in Path
  <2>1. <<>> \in Path
    BY DEF Path
  <2> QED BY <1>1, <2>1, RootsType, PathConcat
<1>3. dir \in Path /\ EvalSymlinks(fs, dir) = dir
  BY <1>2, EvalSymlinksType
<1>4. n \in Name /\ Append(dir, n) \in DOMAIN fs /\ fs[Append(dir, n)].kind = "file"
  <2>1. n \in Name
    BY DiscoveryAssumption DEF ToSet
  <2> QED BY <2>1 DEF NodeAt, NoNode
<1>5. n \in ToSet(names) /\ IsSeq(names)
  BY <1>3, <1>4, EntriesElements
<1>6. PICK j \in DOMAIN names : names[j] = n
  BY <1>5 DEF ToSet
<1> HIDE DEF dir, names
<1>7. IsPaths(paths) /\ paths[j] = Append(dir, n) /\ j \in DOMAIN paths
  <2>1. IsPaths(paths)
    BY <1>3, EntryPaths DEF names
  <2> QED BY <1>6, <2>1
<1>8. j \in kept
  <2>1. Front(Append(dir, n)) = dir /\ Last(Append(dir, n)) = n
    <3>1. Len(Append(dir, n)) = Len(dir) + 1 /\ Len(dir) \in Nat
      BY <1>3, <1>4 DEF Path
    <3>2. Append(dir, n)[Len(dir) + 1] = n
      BY <1>3, <1>4 DEF Path
    <3>3. SubSeq(Append(dir, n), 1, Len(dir)) = dir
      BY <1>3, <1>4 DEF Path
    <3> QED BY <3>1, <3>2, <3>3 DEF Front, Last
  <2>2. Lstat(fs, Append(dir, n)) = NodeAt(fs, Append(dir, n))
    BY <2>1, <1>3 DEF Lstat
  <2>3. NodeAt(fs, Append(dir, n)).kind = "file"
    BY <1>4 DEF NodeAt
  <2> QED BY <1>7, <2>1, <2>2, <2>3
<1>9. MatchesIn(fs, dir) = Only(paths, kept)
  BY DEF MatchesIn, Filter, names
<1> HIDE DEF paths, kept
<1>10. Append(dir, n) \in ToSet(MatchesIn(fs, dir))
  <2>1. ToSet(Only(paths, kept)) = {paths[i] : i \in DOMAIN paths \cap kept}
    BY <1>7, OnlyElements DEF IsPaths
  <2> QED BY <1>7, <1>8, <1>9, <2>1
<1>11. IsSeq(matches) /\ DOMAIN matches = DOMAIN c.libDirs /\ DOMAIN matches = 1..Len(matches)
  <2>1. matches = [i \in DOMAIN c.libDirs |-> matches[i]]
    OBVIOUS
  <2> HIDE DEF matches
  <2> QED BY <1>1, <2>1, MappedIsSeq, IsSeqLen
<1>12. matches[k] = MatchesIn(fs, dir) /\ \A i \in DOMAIN matches : IsSeq(matches[i])
  BY <1>2, <1>11, MatchesInType DEF dir, IsPaths
<1> HIDE DEF matches
<1>13. IsSeq(all) /\ ToSet(all) # {}
  <2>1. IsSeq(all) /\ ToSet(all) = UNION {ToSet(matches[i]) : i \in 1..Len(matches)}
    BY <1>11, <1>12, FlattenSeqElements
  <2> QED BY <1>10, <1>11, <1>12, <2>1
<1>14. DiscoverRBLN(c, fs) = libs
  BY DEF DiscoverRBLN, Flatten, Map, FirstOf, matches
<1> HIDE DEF all
<1>15. DOMAIN keys = DOMAIN all
  OBVIOUS
<1> HIDE DEF keys
<1>16. IsSeq(once) /\ ToSet(once) # {}
  <2>1. /\ IsSeq(once) /\ ToSet(once) = {all[i] : i \in First(keys)}
        /\ \A i \in DOMAIN all : \E q \in First(keys) : q <= i /\ keys[q] = keys[i]
    BY <1>13, <1>15, FirstsElements
  <2>2. PICK i \in DOMAIN all : TRUE
    BY <1>13 DEF ToSet
  <2> QED BY <2>1, <2>2
<1> HIDE DEF once
<1>17. DOMAIN libs # {}
  BY <1>16 DEF ToSet
<1> HIDE DEF libs
<1> QED BY <1>14, <1>17, EmptyIsSeq

\* With a library there is something to mount.
LEMMA LibraryIsMounted ==
    ASSUME NEW found, IsFound(found), found.libraries # <<>>
    PROVE  CommonMounts(found) # <<>>
<1> DEFINE provided == [i \in DOMAIN found.providers |-> ProviderMounts(found.providers[i])]
           libs == [i \in DOMAIN found.libraries |-> Mount(found.libraries[i])]
           tools == [i \in DOMAIN found.tools |-> Mount(found.tools[i])]
           all == FlattenSeq(provided) \o libs
           keys == [i \in DOMAIN all |-> all[i].dst]
<1>1. CommonMounts(found) = Firsts(all, keys) \o tools
  BY DEF CommonMounts, FirstOf, Flatten, Map
<1>2. IsSeq(libs) /\ IsSeq(tools) /\ DOMAIN libs = DOMAIN found.libraries
  <2>1. libs = [i \in DOMAIN found.libraries |-> libs[i]] /\ tools = [i \in DOMAIN found.tools |-> tools[i]]
    OBVIOUS
  <2> HIDE DEF libs, tools
  <2> QED BY <2>1, MappedIsSeq DEF IsFound, IsFiles
<1>3. ToSet(libs) # {}
  <2>1. ToSet(found.libraries) # {}
    BY ToSetEmpty DEF IsFound, IsFiles
  <2>2. DOMAIN found.libraries # {}
    BY <2>1 DEF ToSet
  <2> QED BY <1>2, <2>2 DEF ToSet
<1>4. IsSeq(FlattenSeq(provided))
  <2>1. provided = [i \in DOMAIN found.providers |-> provided[i]]
    OBVIOUS
  <2>2. \A i \in DOMAIN found.providers : IsSeq(provided[i])
    BY ProviderMountsType
  <2> HIDE DEF provided
  <2>3. IsSeq(provided) /\ DOMAIN provided = DOMAIN found.providers /\ DOMAIN provided = 1..Len(provided)
    BY <2>1, MappedIsSeq, IsSeqLen DEF IsFound
  <2> QED BY <2>2, <2>3, FlattenSeqElements
<1> HIDE DEF provided, libs, tools
<1>5. IsSeq(all) /\ ToSet(all) # {}
  BY <1>2, <1>3, <1>4, ConcatIsSeq
<1>6. DOMAIN keys = DOMAIN all
  OBVIOUS
<1> HIDE DEF all, keys
<1>7. IsSeq(Firsts(all, keys)) /\ ToSet(Firsts(all, keys)) # {}
  <2>1. /\ IsSeq(Firsts(all, keys)) /\ ToSet(Firsts(all, keys)) = {all[i] : i \in First(keys)}
        /\ \A i \in DOMAIN all : \E q \in First(keys) : q <= i /\ keys[q] = keys[i]
    BY <1>5, <1>6, FirstsElements
  <2>2. PICK i \in DOMAIN all : TRUE
    BY <1>5 DEF ToSet
  <2> QED BY <2>1, <2>2
<1>8. IsSeq(Firsts(all, keys) \o tools) /\ ToSet(Firsts(all, keys) \o tools) # {}
  BY <1>2, <1>7, ConcatIsSeq
<1> QED BY <1>1, <1>8, EmptyIsSeq

Enough(c, found) ==
    IF c.devicesDisabled THEN found.libraries # <<>>
    ELSE \E d \in ToSet(found.devices) : ClassOf(d) \in {"rbln", "rsd"}

\* A specification of a node with a device, or of a driver's library where
\* the devices are not the toolkit's, has no device without edits.
LEMMA GenerateIsAccepted ==
    ASSUME NEW c, c.devicesDisabled \in BOOLEAN, NEW fs, NEW found, IsFound(found), NEW group,
           Enough(c, found)
    PROVE  Accepted(Generate(c, fs, found, group))
<1> DEFINE edits == Generate(c, fs, found, group)
           npus == Classify(c, found.devices, "rbln")
           rsds == Classify(c, found.devices, "rsd")
           common == BuildCommonEdits(c, fs, found)
           whole == Unfolded(c, fs, found, group)
<1>1. Generated(edits, c, fs, found, group)
  BY GenerateNodes
<1>2. CASE ~c.devicesDisabled
  <2>1. \A n \in DOMAIN edits.devices : /\ NodesOfEntry(n, edits.devices[n].nodes, npus, rsds, group)
                                       /\ edits.devices[n] = WithNodes(edits.devices[n].nodes)
    BY <1>1, <1>2 DEF Generated
  <2>2. ToSet(npus) \cup ToSet(rsds) # {}
    BY <1>2, ClassifyElements DEF IsFound, Enough
  <2> HIDE DEF edits, npus, rsds
  <2>3. ASSUME NEW n \in DOMAIN edits.devices PROVE edits.devices[n] # NoEdits
    <3>1. NodesOfEntry(n, edits.devices[n].nodes, npus, rsds, group)
      BY <2>1
    <3>2. ToSet(edits.devices[n].nodes) # {}
      <4>1. CASE n[1] = "npu"
        BY <3>1, <4>1 DEF NodesOfEntry
      <4>2. CASE n[1] = "rsd"
        BY <3>1, <4>2 DEF NodesOfEntry
      <4>3. CASE n[1] \notin {"npu", "rsd"}
        BY <2>2, <3>1, <4>3 DEF NodesOfEntry
      <4> QED BY <4>1, <4>2, <4>3
    <3>3. edits.devices[n].nodes # <<>>
      BY <3>2, EmptyIsSeq
    <3> QED BY <3>3 DEF NoEdits
  <2> QED BY <2>3 DEF Accepted, edits
<1>3. CASE c.devicesDisabled
  <2>1. edits = FoldCommonEdits(whole)
    BY <1>3 DEF Generate
  <2>2. whole.common = common /\ common.mounts = CommonMounts(found)
    BY DEF Unfolded, BuildCommonEdits
  <2>3. whole.common # NoEdits
    <3>1. CommonMounts(found) # <<>>
      BY <1>3, LibraryIsMounted DEF Enough
    <3>2. NoEdits.mounts = <<>>
      BY DEF NoEdits
    <3> QED BY <2>2, <3>1, <3>2
  <2> HIDE DEF whole, edits
  <2> QED BY <2>1, <2>3 DEF FoldCommonEdits, Accepted, edits
<1> QED BY <1>2, <1>3

-----------------------------------------------------------------------------
(* Clean paths.                                                             *)

\* Sequences are equal when they agree at every index.
LEMMA PathsEqual ==
    ASSUME NEW p \in Path, NEW q \in Path, Len(p) = Len(q), \A i \in 1..Len(p) : p[i] = q[i]
    PROVE  p = q
BY DEF Path

LEMMA ConcatElements ==
    ASSUME NEW a \in Path, NEW b \in Path
    PROVE  /\ a \o b \in Path /\ Len(a \o b) = Len(a) + Len(b)
           /\ \A i \in 1..Len(a) : (a \o b)[i] = a[i]
           /\ \A i \in 1..Len(b) : (a \o b)[Len(a) + i] = b[i]
           /\ \A i \in 1..(Len(a) + Len(b)) : i > Len(a) => (a \o b)[i] = b[i - Len(a)]
BY DEF Path

LEMMA SliceElements ==
    ASSUME NEW p \in Path, NEW i \in 1..(Len(p) + 1), NEW j \in 0..Len(p), i <= j + 1
    PROVE  /\ SubSeq(p, i, j) \in Path /\ Len(SubSeq(p, i, j)) = j - i + 1
           /\ \A k \in 1..(j - i + 1) : SubSeq(p, i, j)[k] = p[i + k - 1]
BY DEF Path

LEMMA AppendConcat ==
    ASSUME NEW a \in Path, NEW b \in Path, NEW x \in Name
    PROVE  Append(a \o b, x) = a \o Append(b, x)
BY DEF Path

LEMMA ClearIsPath == ASSUME NEW p \in Clear PROVE p \in Path /\ Len(p) \in Nat /\ \A i \in 1..Len(p) : p[i] # ".."
BY PathLen DEF Clear

LEMMA ClearConcat ==
    ASSUME NEW a \in Clear, NEW b \in Clear
    PROVE  a \o b \in Clear
<1>1. a \in Path /\ b \in Path /\ Len(a) \in Nat /\ Len(b) \in Nat
  BY ClearIsPath
<1>2. /\ a \o b \in Path /\ Len(a \o b) = Len(a) + Len(b)
      /\ \A i \in 1..Len(a) : (a \o b)[i] = a[i]
      /\ \A i \in 1..(Len(a) + Len(b)) : i > Len(a) => (a \o b)[i] = b[i - Len(a)]
  BY <1>1, ConcatElements
<1>3. ASSUME NEW i \in 1..Len(a \o b) PROVE (a \o b)[i] # ".."
  <2>1. CASE i <= Len(a)
    <3>1. i \in 1..Len(a)
      BY <1>1, <2>1
    <3> QED BY <1>2, <3>1, ClearIsPath
  <2>2. CASE i > Len(a)
    <3>1. i - Len(a) \in 1..Len(b)
      BY <1>1, <1>2, <2>2
    <3>2. (a \o b)[i] = b[i - Len(a)]
      BY <1>2, <2>2
    <3> QED BY <3>1, <3>2, ClearIsPath
  <2> QED BY <1>1, <2>1, <2>2
<1> QED BY <1>2, <1>3 DEF Clear

LEMMA ClearSlice ==
    ASSUME NEW p \in Clear, NEW i \in 1..(Len(p) + 1), NEW j \in 0..Len(p), i <= j + 1
    PROVE  SubSeq(p, i, j) \in Clear
<1>1. p \in Path /\ Len(p) \in Nat
  BY ClearIsPath
<1>2. /\ SubSeq(p, i, j) \in Path /\ Len(SubSeq(p, i, j)) = j - i + 1
      /\ \A k \in 1..(j - i + 1) : SubSeq(p, i, j)[k] = p[i + k - 1]
  BY <1>1, SliceElements
<1>3. \A k \in 1..(j - i + 1) : i + k - 1 \in 1..Len(p)
  BY <1>1
<1> QED BY <1>2, <1>3, ClearIsPath DEF Clear

\* filepath.Clean where the ".." come first and find something to take back.
LEMMA CleanUps ==
    ASSUME NEW a \in Clear, NEW t \in Path, NEW n \in 0..Len(t), n <= Len(a), GoesUp(t, n)
    PROVE  /\ Clean(a \o t) = SubSeq(a, 1, Len(a) - n) \o SubSeq(t, n + 1, Len(t))
           /\ SubSeq(t, n + 1, Len(t)) \in Clear
<1> DEFINE A == Len(a)
           p == a \o t
           up(j) == SubSeq(a, 1, j)
           down(j) == SubSeq(t, n + 1, j)
<1>1. a \in Path /\ A \in Nat /\ Len(t) \in Nat /\ n \in Nat /\ n <= Len(t) /\ n <= A
  BY ClearIsPath, PathLen
<1>2. /\ p \in Path /\ Len(p) = A + Len(t)
      /\ \A i \in 1..A : p[i] = a[i]
      /\ \A i \in 1..Len(t) : p[A + i] = t[i]
  BY <1>1, ConcatElements
<1>3. PICK acc \in [0..Len(p) -> Path] : Cleaned(p, acc) /\ Clean(p) = acc[Len(p)]
  BY <1>2, CleanRecursion
<1>4. acc[0] = <<>> /\ \A i \in 1..Len(p) : acc[i] = CleanStep(acc[i - 1], p[i])
  BY <1>1, <1>2, <1>3 DEF Cleaned
<1>5. \A j \in 0..A : up(j) \in Path /\ Len(up(j)) = j
  BY <1>1, SliceElements
<1>6. \A j \in 1..A : up(j) = Append(up(j - 1), a[j]) /\ Front(up(j)) = up(j - 1) /\ up(j) # <<>>
  <2> TAKE j \in 1..A
  <2>1. up(j) = Append(up(j - 1), a[j])
    BY <1>1 DEF Path
  <2>2. up(j - 1) \in Path /\ Len(up(j)) = j /\ a[j] \in Name
    BY <1>1, <1>5, PathLen
  <2>3. Front(up(j)) = SubSeq(up(j), 1, j - 1)
    BY <2>2 DEF Front
  <2>4. SubSeq(up(j), 1, j - 1) = up(j - 1)
    BY <1>1 DEF Path
  <2>5. up(j) # <<>>
    BY <2>2
  <2> QED BY <2>1, <2>3, <2>4, <2>5
<1>7. /\ \A j \in n..Len(t) : down(j) \in Path
      /\ \A j \in (n + 1)..Len(t) : down(j) = Append(down(j - 1), t[j])
      /\ down(n) = <<>>
  BY <1>1 DEF Path
<1> HIDE DEF p, up, down
<1>8. \A j \in 0..A : acc[j] = up(j)
  <2> DEFINE S == {j \in 0..A : acc[j] = up(j)}
  <2>1. 0 \in S
    <3>1. up(0) = <<>>
      BY <1>1 DEF Path, up
    <3> QED BY <1>1, <1>4, <3>1
  <2>2. ASSUME NEW j \in 1..A, j - 1 \in S PROVE j \in S
    <3>1. acc[j] = CleanStep(up(j - 1), a[j]) /\ a[j] # ".."
      BY <1>1, <1>2, <1>4, <2>2, ClearIsPath
    <3>2. acc[j] = Append(up(j - 1), a[j])
      BY <3>1 DEF CleanStep
    <3>3. acc[j] = up(j) /\ j \in 0..A
      BY <1>1, <1>6, <3>2
    <3> QED BY <3>3
  <2> HIDE DEF S
  <2>3. \A j \in 0..A : j \in S
    BY <1>1, <2>1, <2>2, InductionTo
  <2> QED BY <2>3 DEF S
<1>9. \A j \in 0..n : acc[A + j] = up(A - j)
  <2> DEFINE S == {j \in 0..n : acc[A + j] = up(A - j)}
  <2>1. 0 \in S
    BY <1>1, <1>8
  <2>2. ASSUME NEW j \in 1..n, j - 1 \in S PROVE j \in S
    <3>1. acc[A + j] = CleanStep(acc[A + j - 1], t[j]) /\ t[j] = ".."
      <4>1. j \in 1..Len(t) /\ A + j \in 1..Len(p) /\ p[A + j] = t[j]
        BY <1>1, <1>2
      <4>2. t[j] = ".."
        BY <4>1 DEF GoesUp
      <4> QED BY <1>4, <4>1, <4>2
    <3>2. acc[A + j - 1] = up(A - j + 1) /\ A - j + 1 \in 1..A
      <4>1. A + (j - 1) = A + j - 1 /\ A - (j - 1) = A - j + 1
        BY <1>1
      <4> QED BY <1>1, <2>2, <4>1
    <3>3. Front(up(A - j + 1)) = up(A - j) /\ up(A - j + 1) # <<>>
      <4>1. (A - j + 1) - 1 = A - j
        BY <1>1
      <4> QED BY <1>6, <3>2, <4>1
    <3> QED BY <3>1, <3>2, <3>3 DEF CleanStep
  <2> HIDE DEF S
  <2>3. \A j \in 0..n : j \in S
    BY <1>1, <2>1, <2>2, InductionTo
  <2> QED BY <2>3 DEF S
<1>10. \A j \in 0..(Len(t) - n) : acc[A + n + j] = up(A - n) \o down(n + j)
  <2> DEFINE S == {j \in 0..(Len(t) - n) : acc[A + n + j] = up(A - n) \o down(n + j)}
  <2>1. 0 \in S
    <3>1. acc[A + n] = up(A - n) /\ up(A - n) \in Path
      BY <1>1, <1>5, <1>9
    <3>2. up(A - n) \o <<>> = up(A - n)
      BY <3>1 DEF Path
    <3>3. A + n + 0 = A + n /\ n + 0 = n /\ 0 \in 0..(Len(t) - n)
      BY <1>1
    <3>4. acc[A + n + 0] = up(A - n) \o down(n + 0)
      BY <1>7, <3>1, <3>2, <3>3
    <3> QED BY <3>3, <3>4
  <2>2. ASSUME NEW j \in 1..(Len(t) - n), j - 1 \in S PROVE j \in S
    <3>1. acc[A + n + j] = CleanStep(acc[A + n + j - 1], t[n + j]) /\ t[n + j] # ".." /\ t[n + j] \in Name
      <4>1. n + j \in 1..Len(t) /\ A + n + j \in 1..Len(p) /\ p[A + n + j] = t[n + j]
        <5>1. n + j \in 1..Len(t) /\ A + n + j \in 1..Len(p) /\ A + (n + j) = A + n + j
          BY <1>1, <1>2
        <5>2. p[A + (n + j)] = t[n + j]
          BY <1>2, <5>1
        <5> QED BY <5>1, <5>2
      <4>2. ~(n + j <= n)
        BY <1>1
      <4>3. t[n + j] # ".."
        BY <4>1, <4>2 DEF GoesUp
      <4> QED BY <1>4, <4>1, <4>3, PathLen
    <3>2. acc[A + n + j - 1] = up(A - n) \o down(n + j - 1)
      <4>1. A + n + (j - 1) = A + n + j - 1 /\ n + (j - 1) = n + j - 1
        BY <1>1
      <4> QED BY <2>2, <4>1
    <3>3. down(n + j) = Append(down(n + j - 1), t[n + j]) /\ down(n + j - 1) \in Path /\ up(A - n) \in Path
      <4>1. n + j \in (n + 1)..Len(t) /\ n + j - 1 \in n..Len(t) /\ A - n \in 0..A
        BY <1>1
      <4> QED BY <1>5, <1>7, <4>1
    <3>4. Append(up(A - n) \o down(n + j - 1), t[n + j]) = up(A - n) \o Append(down(n + j - 1), t[n + j])
      BY <3>1, <3>3, AppendConcat
    <3>5. acc[A + n + j] = Append(up(A - n) \o down(n + j - 1), t[n + j])
      BY <3>1, <3>2 DEF CleanStep
    <3>6. j \in 0..(Len(t) - n)
      BY <1>1
    <3>7. acc[A + n + j] = up(A - n) \o down(n + j)
      BY <3>3, <3>4, <3>5
    <3> QED BY <3>6, <3>7
  <2> HIDE DEF S
  <2>3. Len(t) - n \in Nat
    BY <1>1
  <2>4. \A j \in 0..(Len(t) - n) : j \in S
    BY <2>1, <2>2, <2>3, InductionTo
  <2> QED BY <2>4 DEF S
<1>11. Clean(p) = up(A - n) \o down(Len(t))
  <2>1. A + n + (Len(t) - n) = Len(p) /\ n + (Len(t) - n) = Len(t) /\ Len(t) - n \in 0..(Len(t) - n)
    BY <1>1, <1>2
  <2> QED BY <1>3, <1>10, <2>1
<1>12. down(Len(t)) \in Clear
  <2>1. n + 1 \in 1..(Len(t) + 1) /\ Len(t) \in 0..Len(t) /\ n + 1 <= Len(t) + 1
    BY <1>1
  <2>2. /\ down(Len(t)) \in Path /\ Len(down(Len(t))) = Len(t) - (n + 1) + 1
        /\ \A k \in 1..(Len(t) - (n + 1) + 1) : down(Len(t))[k] = t[(n + 1) + k - 1]
    BY <2>1, SliceElements DEF down
  <2>3. \A k \in 1..(Len(t) - (n + 1) + 1) : (n + 1) + k - 1 \in 1..Len(t) /\ ~((n + 1) + k - 1 <= n)
    BY <1>1
  <2> QED BY <2>2, <2>3 DEF Clear, GoesUp
<1> QED BY <1>11, <1>12 DEF p, up, down

-----------------------------------------------------------------------------
(* A tree below a mount.                                                    *)

LEMMA ConcatAssoc ==
    ASSUME NEW a \in Path, NEW b \in Path, NEW c \in Path
    PROVE  (a \o b) \o c = a \o (b \o c)
BY DEF Path

LEMMA SliceOfConcat ==
    ASSUME NEW m \in Path, NEW p \in Path, NEW j \in 0..Len(p)
    PROVE  SubSeq(m \o p, 1, Len(m) + j) = m \o SubSeq(p, 1, j)
<1>1. Len(m) \in Nat /\ Len(p) \in Nat /\ Len(m \o p) = Len(m) + Len(p) /\ j \in Nat /\ j <= Len(p)
  BY DEF Path
<1>2. SubSeq(p, 1, j) \in Path /\ Len(SubSeq(p, 1, j)) = j
  BY <1>1 DEF Path
<1> DEFINE left == SubSeq(m \o p, 1, Len(m) + j)
           right == m \o SubSeq(p, 1, j)
<1>3. left \in Path /\ Len(left) = Len(m) + j
  BY <1>1 DEF Path
<1>4. right \in Path /\ Len(right) = Len(m) + j
  BY <1>1, <1>2 DEF Path
<1>5. ASSUME NEW i \in 1..(Len(m) + j) PROVE left[i] = right[i]
  <2>1. left[i] = (m \o p)[i]
    BY <1>1 DEF Path
  <2>2. CASE i <= Len(m)
    BY <1>1, <1>2, <2>1, <2>2 DEF Path
  <2>3. CASE i > Len(m)
    <3>1. i - Len(m) \in 1..j
      BY <1>1, <2>3
    <3>2. (m \o p)[i] = p[i - Len(m)]
      BY <1>1, <3>1 DEF Path
    <3>3. right[i] = SubSeq(p, 1, j)[i - Len(m)]
      BY <1>1, <1>2, <3>1 DEF Path
    <3>4. SubSeq(p, 1, j)[i - Len(m)] = p[i - Len(m)]
      BY <1>1, <3>1 DEF Path
    <3> QED BY <2>1, <3>2, <3>3, <3>4
  <2> QED BY <1>1, <2>2, <2>3
<1> HIDE DEF left, right
<1>6. left = right
  BY <1>3, <1>4, <1>5 DEF Path
<1> QED BY <1>6 DEF left, right

LEMMA ConcatCancel ==
    ASSUME NEW m \in Path, NEW q \in Path, NEW r \in Path, m \o q = m \o r
    PROVE  q = r
<1>1. q = SubSeq(m \o q, Len(m) + 1, Len(m \o q)) /\ r = SubSeq(m \o r, Len(m) + 1, Len(m \o r))
  BY DEF Path
<1> QED BY <1>1

\* V is T below m.
IsView(V, T, m) ==
    /\ IsTree(T) /\ m \in Clear
    /\ DOMAIN V = {m \o q : q \in DOMAIN T}
    /\ \A q \in DOMAIN T : V[m \o q] = T[q]
    /\ <<>> \in DOMAIN T => T[<<>>].kind # "link"

LEMMA ViewIsTree ==
    ASSUME NEW V, NEW T, NEW m, IsView(V, T, m)
    PROVE  IsTree(V)
<1>1. ASSUME NEW p \in DOMAIN V PROVE p \in Path /\ IsNode(V[p])
  <2>1. PICK q \in DOMAIN T : p = m \o q
    BY DEF IsView
  <2>2. q \in Path /\ IsNode(T[q]) /\ V[p] = T[q] /\ m \in Path
    BY <2>1, ClearIsPath DEF IsView, IsTree
  <2> QED BY <2>1, <2>2, PathConcat
<1> QED BY <1>1 DEF IsTree

LEMMA ViewNode ==
    ASSUME NEW V, NEW T, NEW m, IsView(V, T, m), NEW q \in Path
    PROVE  NodeAt(V, m \o q) = NodeAt(T, q) /\ (m \o q \in DOMAIN V <=> q \in DOMAIN T)
<1>1. m \in Path
  BY ClearIsPath DEF IsView
<1>2. ASSUME m \o q \in DOMAIN V PROVE q \in DOMAIN T
  <2>1. PICK x \in DOMAIN T : m \o q = m \o x
    BY <1>2 DEF IsView
  <2>2. x \in Path
    BY DEF IsView, IsTree
  <2>3. q = x
    BY <1>1, <2>1, <2>2, ConcatCancel
  <2> QED BY <2>3
<1> QED BY <1>2 DEF IsView, NodeAt

\* The same below any path.
LiesBelow(V, T, m) ==
    /\ IsTree(T) /\ m \in Path
    /\ DOMAIN V = {m \o q : q \in DOMAIN T}
    /\ \A q \in DOMAIN T : V[m \o q] = T[q]
    /\ <<>> \in DOMAIN T => T[<<>>].kind # "link"

\* The links of a tree, seen below m.
LEMMA LinksBelow ==
    ASSUME NEW V, NEW T, NEW m, LiesBelow(V, T, m), NEW p \in Path
    PROVE  LinksOn(V, m \o p) = {Len(m) + k : k \in LinksOn(T, p)}
<1> USE DEF LiesBelow
<1>1. m \in Path /\ Len(m) \in Nat /\ Len(p) \in Nat /\ Len(m \o p) = Len(m) + Len(p)
  BY PathLen, ConcatElements
<1>2. \A k \in 1..Len(p) : SubSeq(p, 1, k) \in Path /\ SubSeq(m \o p, 1, Len(m) + k) = m \o SubSeq(p, 1, k)
  <2> TAKE k \in 1..Len(p)
  <2>1. k \in 0..Len(p) /\ 1 \in 1..(Len(p) + 1)
    BY <1>1
  <2> QED BY <1>1, <2>1, SliceOfConcat, PathSlice
<1>3. ASSUME NEW k \in LinksOn(V, m \o p) PROVE k \in {Len(m) + j : j \in LinksOn(T, p)}
  <2>1. k \in 1..(Len(m) + Len(p)) /\ SubSeq(m \o p, 1, k) \in DOMAIN V /\ V[SubSeq(m \o p, 1, k)].kind = "link"
    BY <1>1, <1>3 DEF LinksOn
  <2>2. PICK q \in DOMAIN T : SubSeq(m \o p, 1, k) = m \o q
    BY <2>1
  <2>3. q \in Path /\ T[q].kind = "link" /\ q # <<>>
    BY <2>1, <2>2 DEF IsTree
  <2>4. Len(SubSeq(m \o p, 1, k)) = k /\ Len(m \o q) = Len(m) + Len(q) /\ Len(q) \in Nat
    BY <1>1, <2>1, <2>3 DEF Path
  <2>5. Len(q) # 0
    BY <2>3 DEF Path
  <2> DEFINE j == k - Len(m)
  <2>6. j \in 1..Len(p) /\ k = Len(m) + j
    BY <1>1, <2>1, <2>2, <2>4, <2>5
  <2>7. m \o q = m \o SubSeq(p, 1, j) /\ SubSeq(p, 1, j) \in Path
    BY <1>2, <2>2, <2>6
  <2> HIDE DEF j
  <2>8. q = SubSeq(p, 1, j)
    BY <1>1, <2>3, <2>7, ConcatCancel
  <2>9. j \in LinksOn(T, p)
    BY <2>3, <2>6, <2>8 DEF LinksOn
  <2> QED BY <2>6, <2>9
<1>4. ASSUME NEW j \in LinksOn(T, p) PROVE Len(m) + j \in LinksOn(V, m \o p)
  <2>1. j \in 1..Len(p) /\ SubSeq(p, 1, j) \in DOMAIN T /\ T[SubSeq(p, 1, j)].kind = "link"
    BY <1>4 DEF LinksOn
  <2>2. SubSeq(m \o p, 1, Len(m) + j) = m \o SubSeq(p, 1, j)
    BY <1>2, <2>1
  <2>3. SubSeq(m \o p, 1, Len(m) + j) \in DOMAIN V /\ V[SubSeq(m \o p, 1, Len(m) + j)].kind = "link"
    BY <2>1, <2>2
  <2>4. Len(m) + j \in 1..Len(m \o p)
    BY <1>1, <2>1
  <2> QED BY <2>3, <2>4 DEF LinksOn
<1> QED BY <1>3, <1>4

LEMMA ViewLinksOn ==
    ASSUME NEW V, NEW T, NEW m, IsView(V, T, m), NEW p \in Path
    PROVE  LinksOn(V, m \o p) = {Len(m) + k : k \in LinksOn(T, p)}
<1>1. LiesBelow(V, T, m)
  BY ClearIsPath DEF IsView, LiesBelow
<1> QED BY <1>1, LinksBelow

\* On a tidy tree: the first link on the way to p is at k, and t, what it points
\* to and the rest of p, goes up n directories.
Leads(T, root, p, k, t, n) ==
    /\ k \in 1..Len(p) /\ k = Min(LinksOn(T, p)) /\ k \in LinksOn(T, p)
    /\ ~T[SubSeq(p, 1, k)].abs
    /\ t = T[SubSeq(p, 1, k)].to \o SubSeq(p, k + 1, Len(p))
    /\ t \in Path /\ n \in 0..Len(t) /\ n <= k - 1 /\ GoesUp(t, n)
    /\ IsPrefix(root, p) => Len(root) + n <= k - 1

LEMMA PrefixOfSlice ==
    ASSUME NEW root \in Path, NEW p \in Path, IsPrefix(root, p), NEW k \in 1..Len(p)
    PROVE  /\ k <= Len(root) => SubSeq(p, 1, k) = SubSeq(root, 1, k)
           /\ k > Len(root) => IsPrefix(root, SubSeq(p, 1, k))
<1>1. Len(root) \in Nat /\ Len(p) \in Nat /\ Len(root) <= Len(p) /\ \A i \in 1..Len(root) : root[i] = p[i]
  <2>1. Len(root) \in Nat /\ Len(p) \in Nat /\ Len(root) <= Len(p)
    BY PathLen DEF IsPrefix
  <2>2. \A i \in 1..Len(root) : SubSeq(root, 1, Len(root))[i] = root[i] /\ SubSeq(p, 1, Len(root))[i] = p[i]
    BY <2>1 DEF Path
  <2>3. SubSeq(root, 1, Len(root)) = SubSeq(p, 1, Len(root))
    BY DEF IsPrefix
  <2> QED BY <2>1, <2>2, <2>3
<1>2. ASSUME k <= Len(root) PROVE SubSeq(p, 1, k) = SubSeq(root, 1, k)
  BY <1>1, <1>2 DEF Path
<1>3. ASSUME k > Len(root) PROVE IsPrefix(root, SubSeq(p, 1, k))
  <2>1. Len(SubSeq(p, 1, k)) = k
    BY <1>1 DEF Path
  <2>2. SubSeq(SubSeq(p, 1, k), 1, Len(root)) = SubSeq(p, 1, Len(root))
    BY <1>1, <1>3 DEF Path
  <2> QED BY <1>1, <1>3, <2>1, <2>2 DEF IsPrefix
<1> QED BY <1>2, <1>3

LEMMA Leading ==
    ASSUME NEW T, NEW root, IsTree(T), Tidy(T, root), NEW p \in Clear, LinksOn(T, p) # {}
    PROVE  \E k, t, n : Leads(T, root, p, k, t, n)
<1> DEFINE k == Min(LinksOn(T, p))
           at == SubSeq(p, 1, k)
           to == T[at].to
           rest == SubSeq(p, k + 1, Len(p))
           t == to \o rest
<1>1. p \in Path /\ Len(p) \in Nat /\ root \in Path /\ Len(root) \in Nat
  BY ClearIsPath DEF Tidy
<1>2. k \in LinksOn(T, p) /\ k \in 1..Len(p) /\ at \in DOMAIN T /\ T[at].kind = "link"
  <2>1. LinksOn(T, p) \in SUBSET Nat
    BY <1>1 DEF LinksOn
  <2>2. k \in LinksOn(T, p)
    BY <2>1, MinIsLeast
  <2> QED BY <2>2 DEF LinksOn
<1> HIDE DEF k
<1>3. Len(at) = k /\ to \in Path /\ Len(to) \in Nat
  <2>1. Len(at) = k
    BY <1>1, <1>2 DEF Path
  <2>2. to \in Path
    BY <1>2 DEF IsTree, IsNode
  <2> QED BY <2>1, <2>2, PathLen
<1> DEFINE most == k - 1 - (IF IsPrefix(root, at) THEN Len(root) ELSE 0)
<1>4. LinkStays(T[at], most)
  BY <1>2, <1>3 DEF Tidy
<1>5. PICK n \in 0..most : GoesUp(to, n)
  BY <1>4 DEF LinkStays
<1>6. n \in Nat /\ n <= Len(to) /\ n <= k - 1 /\ \A i \in 1..Len(to) : to[i] = ".." <=> i <= n
  BY <1>1, <1>2, <1>3, <1>5 DEF GoesUp
<1>7. rest \in Clear /\ rest \in Path /\ Len(rest) \in Nat
  <2>1. k + 1 \in 1..(Len(p) + 1) /\ Len(p) \in 0..Len(p) /\ k + 1 <= Len(p) + 1
    BY <1>1, <1>2
  <2> QED BY <2>1, ClearSlice, ClearIsPath
<1> HIDE DEF to, rest, at
<1>8. /\ t \in Path /\ Len(t) = Len(to) + Len(rest)
      /\ \A i \in 1..Len(to) : t[i] = to[i]
      /\ \A i \in 1..(Len(to) + Len(rest)) : i > Len(to) => t[i] = rest[i - Len(to)]
  BY <1>3, <1>7, ConcatElements
<1>9. GoesUp(t, n) /\ n \in 0..Len(t)
  <2>1. ASSUME NEW i \in 1..Len(t), i > Len(to) PROVE t[i] # ".." /\ ~(i <= n)
    <3>1. i - Len(to) \in 1..Len(rest) /\ t[i] = rest[i - Len(to)]
      BY <1>3, <1>7, <1>8, <2>1
    <3>2. ~(i <= n)
      BY <1>3, <1>6, <2>1
    <3> QED BY <1>7, <3>1, <3>2, ClearIsPath
  <2>2. ASSUME NEW i \in 1..Len(t), ~(i > Len(to)) PROVE t[i] = ".." <=> i <= n
    <3>1. i \in 1..Len(to)
      BY <1>3, <2>2
    <3> QED BY <1>6, <1>8, <3>1
  <2>3. n <= Len(t) /\ n \in 0..Len(t)
    BY <1>3, <1>6, <1>7, <1>8
  <2> HIDE DEF t
  <2> QED BY <2>1, <2>2, <2>3 DEF GoesUp
<1>10. IsPrefix(root, p) => Len(root) + n <= k - 1
  <2> SUFFICES ASSUME IsPrefix(root, p) PROVE Len(root) + n <= k - 1
    OBVIOUS
  <2>1. k > Len(root)
    <3> SUFFICES ASSUME k <= Len(root) PROVE FALSE
      BY <1>1, <1>2
    <3>1. SubSeq(root, 1, k) = at /\ k \in 1..Len(root)
      BY <1>1, <1>2, PrefixOfSlice DEF at
    <3>2. k \in LinksOn(T, root)
      BY <1>2, <3>1 DEF LinksOn
    <3> QED BY <3>2 DEF Tidy
  <2>2. IsPrefix(root, at)
    BY <1>1, <1>2, <2>1, PrefixOfSlice DEF at
  <2> QED BY <1>1, <1>2, <1>5, <2>2
<1>11. ~T[at].abs
  BY <1>4 DEF LinkStays
<1>12. Leads(T, root, p, k, t, n)
  BY <1>2, <1>6, <1>8, <1>9, <1>10, <1>11 DEF Leads, k, at, to, rest
<1> QED BY <1>12

LEMMA TailOfConcat ==
    ASSUME NEW m \in Path, NEW p \in Path, NEW j \in 1..(Len(p) + 1)
    PROVE  SubSeq(m \o p, Len(m) + j, Len(m) + Len(p)) = SubSeq(p, j, Len(p))
<1> DEFINE left == SubSeq(m \o p, Len(m) + j, Len(m) + Len(p))
           right == SubSeq(p, j, Len(p))
<1>1. /\ Len(m) \in Nat /\ Len(p) \in Nat /\ m \o p \in Path /\ Len(m \o p) = Len(m) + Len(p)
      /\ \A i \in 1..Len(p) : (m \o p)[Len(m) + i] = p[i]
  BY PathLen, ConcatElements
<1>2. /\ left \in Path /\ Len(left) = Len(p) - j + 1
      /\ \A i \in 1..(Len(p) - j + 1) : left[i] = (m \o p)[Len(m) + j + i - 1]
  <2> DEFINE first == Len(m) + j
             last == Len(m) + Len(p)
  <2>1. first \in 1..(Len(m \o p) + 1) /\ last \in 0..Len(m \o p) /\ first <= last + 1
    BY <1>1
  <2>2. last - first + 1 = Len(p) - j + 1
    BY <1>1
  <2> HIDE DEF first, last
  <2>3. /\ SubSeq(m \o p, first, last) \in Path /\ Len(SubSeq(m \o p, first, last)) = last - first + 1
        /\ \A i \in 1..(last - first + 1) : SubSeq(m \o p, first, last)[i] = (m \o p)[first + i - 1]
    BY <1>1, <2>1, SliceElements
  <2> QED BY <2>2, <2>3 DEF first, last
<1>3. /\ right \in Path /\ Len(right) = Len(p) - j + 1
      /\ \A i \in 1..(Len(p) - j + 1) : right[i] = p[j + i - 1]
  <2>1. Len(p) \in 0..Len(p) /\ j <= Len(p) + 1
    BY <1>1
  <2> QED BY <2>1, SliceElements
<1>4. ASSUME NEW i \in 1..(Len(p) - j + 1) PROVE left[i] = right[i]
  <2>1. j + i - 1 \in 1..Len(p) /\ Len(m) + (j + i - 1) = Len(m) + j + i - 1
    BY <1>1
  <2>2. (m \o p)[Len(m) + j + i - 1] = p[j + i - 1]
    BY <1>1, <2>1
  <2> QED BY <1>2, <1>3, <2>2
<1> HIDE DEF left, right
<1>5. left = right
  BY <1>2, <1>3, <1>4, PathsEqual
<1> QED BY <1>5 DEF left, right

\* Where a link of the tree leads to.
Lands(T, root, p, k, t, n) ==
    /\ FollowOne(T, p) = SubSeq(p, 1, k - 1 - n) \o SubSeq(t, n + 1, Len(t))
    /\ SubSeq(p, 1, k - 1 - n) \in Clear /\ SubSeq(t, n + 1, Len(t)) \in Clear
    /\ FollowOne(T, p) \in Clear
    /\ IsPrefix(root, p) => IsPrefix(root, FollowOne(T, p))

LEMMA FollowTidy ==
    ASSUME NEW T, NEW root, IsTree(T), Tidy(T, root), NEW p \in Clear, NEW k, NEW t, NEW n,
           Leads(T, root, p, k, t, n)
    PROVE  Lands(T, root, p, k, t, n)
<1> DEFINE base == SubSeq(p, 1, k - 1)
           link == T[SubSeq(p, 1, k)]
           rest == SubSeq(p, k + 1, Len(p))
           up == SubSeq(p, 1, k - 1 - n)
           down == SubSeq(t, n + 1, Len(t))
<1>1. p \in Path /\ Len(p) \in Nat /\ k \in 1..Len(p) /\ t \in Path /\ Len(t) \in Nat /\ n \in Nat /\ n <= k - 1
      /\ n \in 0..Len(t)
  BY ClearIsPath, PathLen DEF Leads
<1>2. base \in Clear /\ base \in Path /\ Len(base) = k - 1 /\ up \in Clear /\ up \in Path /\ Len(up) = k - 1 - n
  <2>1. 1 \in 1..(Len(p) + 1) /\ k - 1 \in 0..Len(p) /\ k - 1 - n \in 0..Len(p) /\ 1 <= (k - 1) + 1 /\ 1 <= (k - 1 - n) + 1
    BY <1>1
  <2>2. base \in Clear /\ up \in Clear
    BY <2>1, ClearSlice
  <2>3. (k - 1) - 1 + 1 = k - 1 /\ (k - 1 - n) - 1 + 1 = k - 1 - n
    BY <1>1
  <2>4. Len(base) = k - 1 /\ Len(up) = k - 1 - n
    BY <1>1, <2>1, <2>3, SliceElements
  <2> QED BY <2>2, <2>4, ClearIsPath
<1>3. FollowOne(T, p) = Clean((base \o link.to) \o rest)
  <2>1. k = Min(LinksOn(T, p)) /\ ~link.abs
    BY DEF Leads
  <2> QED BY <2>1 DEF FollowOne, Follow
<1>4. (base \o link.to) \o rest = base \o t
  <2>1. link.to \in Path
    BY DEF Leads, LinksOn, IsTree, IsNode
  <2>2. rest \in Path
    <3>1. k + 1 \in 1..(Len(p) + 1) /\ Len(p) \in 0..Len(p)
      BY <1>1
    <3> QED BY <1>1, <3>1, PathSlice
  <2>3. t = link.to \o rest
    BY DEF Leads
  <2> HIDE DEF base, rest
  <2> QED BY <1>2, <2>1, <2>2, <2>3, ConcatAssoc
<1>5. Clean(base \o t) = SubSeq(base, 1, Len(base) - n) \o down /\ down \in Clear
  <2>1. GoesUp(t, n) /\ n <= Len(base)
    BY <1>1, <1>2 DEF Leads
  <2> HIDE DEF base
  <2> QED BY <1>1, <1>2, <2>1, CleanUps
<1>6. SubSeq(base, 1, Len(base) - n) = up
  BY <1>1, <1>2 DEF Path
<1>7. FollowOne(T, p) = up \o down
  BY <1>3, <1>4, <1>5, <1>6
<1>8. ASSUME IsPrefix(root, p) PROVE IsPrefix(root, up \o down)
  <2>1. root \in Path /\ Len(root) \in Nat /\ Len(root) <= k - 1 - n
    BY <1>1, <1>8, ClearIsPath, PathLen DEF Leads, Tidy
  <2>2. down \in Path /\ Len(down) \in Nat
    BY <1>5, ClearIsPath
  <2>3. SubSeq(up, 1, Len(root)) = SubSeq(p, 1, Len(root))
    BY <1>1, <2>1 DEF Path
  <2> HIDE DEF up, down
  <2>4. SubSeq(up \o down, 1, Len(root)) = SubSeq(up, 1, Len(root)) /\ Len(up \o down) >= Len(root)
    BY <1>2, <2>1, <2>2 DEF Path
  <2> QED BY <1>8, <2>3, <2>4 DEF IsPrefix
<1> HIDE DEF up, down
<1>9. up \o down \in Clear
  BY <1>2, <1>5, ClearConcat
<1> QED BY <1>2, <1>5, <1>7, <1>8, <1>9 DEF up, down, Lands

\* Following it below the mount.
LEMMA FollowBelow ==
    ASSUME NEW V, NEW T, NEW m, IsView(V, T, m), NEW root, Tidy(T, root), NEW p \in Clear, LinksOn(T, p) # {}
    PROVE  FollowOne(V, m \o p) = m \o FollowOne(T, p)
<1>1. PICK k, t, n : Leads(T, root, p, k, t, n)
  BY Leading DEF IsView
<1> DEFINE base == SubSeq(p, 1, k - 1)
           link == T[SubSeq(p, 1, k)]
           rest == SubSeq(p, k + 1, Len(p))
           up == SubSeq(p, 1, k - 1 - n)
           down == SubSeq(t, n + 1, Len(t))
           M == Len(m)
<1>2. p \in Path /\ Len(p) \in Nat /\ k \in 1..Len(p) /\ t \in Path /\ Len(t) \in Nat /\ n \in Nat /\ n <= k - 1
      /\ n \in 0..Len(t) /\ m \in Path /\ M \in Nat /\ m \in Clear
  <2>1. m \in Clear /\ m \in Path /\ M \in Nat
    BY ClearIsPath DEF IsView
  <2>2. p \in Path /\ Len(p) \in Nat
    BY ClearIsPath
  <2>3. k \in 1..Len(p) /\ t \in Path /\ n \in 0..Len(t) /\ n <= k - 1
    BY <1>1 DEF Leads
  <2>4. Len(t) \in Nat
    BY <2>3, PathLen
  <2> QED BY <2>1, <2>2, <2>3, <2>4
<1>3. FollowOne(T, p) = up \o down /\ up \in Clear /\ down \in Clear
  <2>1. IsTree(T)
    BY DEF IsView
  <2>2. /\ FollowOne(T, p) = SubSeq(p, 1, k - 1 - n) \o SubSeq(t, n + 1, Len(t))
        /\ SubSeq(p, 1, k - 1 - n) \in Clear /\ SubSeq(t, n + 1, Len(t)) \in Clear
    <3>1. Lands(T, root, p, k, t, n)
      BY <1>1, <2>1, FollowTidy
    <3> QED BY <3>1 DEF Lands
  <2> QED BY <2>2
<1>4. Min(LinksOn(V, m \o p)) = M + k
  <2>1. LinksOn(V, m \o p) = {M + j : j \in LinksOn(T, p)}
    BY <1>2, ViewLinksOn
  <2>2. LinksOn(T, p) \in SUBSET Nat
    BY <1>2 DEF LinksOn
  <2>3. k \in LinksOn(T, p) /\ \A j \in LinksOn(T, p) : k <= j
    BY <1>1, <2>2, MinIsLeast DEF Leads
  <2> DEFINE S == LinksOn(V, m \o p)
  <2>4. S \in SUBSET Nat /\ S # {} /\ M + k \in S /\ \A j \in S : M + k <= j
    BY <1>2, <2>1, <2>2, <2>3
  <2> HIDE DEF S
  <2>5. Min(S) \in S /\ \A j \in S : Min(S) <= j
    BY <2>4, MinIsLeast
  <2>6. Min(S) = M + k
    <3>1. M + k <= Min(S) /\ Min(S) <= M + k /\ Min(S) \in Nat /\ M + k \in Nat
      BY <2>4, <2>5
    <3> QED BY <3>1
  <2> QED BY <2>6 DEF S
<1>5. base \in Clear /\ base \in Path /\ Len(base) = k - 1
  <2>1. 1 \in 1..(Len(p) + 1) /\ k - 1 \in 0..Len(p) /\ 1 <= (k - 1) + 1
    BY <1>2
  <2>2. base \in Clear
    BY <2>1, ClearSlice
  <2>3. (k - 1) - 1 + 1 = k - 1
    BY <1>2
  <2>4. Len(base) = k - 1
    BY <1>2, <2>1, <2>3, SliceElements
  <2> QED BY <2>2, <2>4, ClearIsPath
<1>6. /\ SubSeq(m \o p, 1, M + k) = m \o SubSeq(p, 1, k)
      /\ SubSeq(m \o p, 1, (M + k) - 1) = m \o base
      /\ SubSeq(m \o p, (M + k) + 1, Len(m \o p)) = rest
  <2>1. k \in 0..Len(p) /\ k - 1 \in 0..Len(p) /\ M + (k - 1) = (M + k) - 1 /\ k + 1 \in 1..(Len(p) + 1)
        /\ M + (k + 1) = (M + k) + 1 /\ Len(m \o p) = M + Len(p)
    BY <1>2, ConcatElements
  <2>2. SubSeq(m \o p, 1, M + k) = m \o SubSeq(p, 1, k) /\ SubSeq(m \o p, 1, M + (k - 1)) = m \o base
    BY <1>2, <2>1, SliceOfConcat
  <2>3. SubSeq(m \o p, M + (k + 1), M + Len(p)) = rest
    BY <1>2, <2>1, TailOfConcat
  <2> QED BY <2>1, <2>2, <2>3
<1>7. V[SubSeq(m \o p, 1, M + k)] = link /\ ~link.abs /\ t = link.to \o rest /\ link.to \in Path
  <2>1. SubSeq(p, 1, k) \in DOMAIN T /\ IsNode(link) /\ link.kind = "link"
    BY <1>1 DEF Leads, LinksOn, IsView, IsTree
  <2>2. V[m \o SubSeq(p, 1, k)] = link
    BY <2>1 DEF IsView
  <2> QED BY <1>1, <1>6, <2>1, <2>2 DEF Leads, IsNode
<1>8. FollowOne(V, m \o p) = Clean(((m \o base) \o link.to) \o rest)
  BY <1>4, <1>6, <1>7 DEF FollowOne, Follow
<1>9. ((m \o base) \o link.to) \o rest = (m \o base) \o t /\ m \o base \in Clear /\ Len(m \o base) = M + (k - 1)
  <2>1. rest \in Path
    <3>1. k + 1 \in 1..(Len(p) + 1) /\ Len(p) \in 0..Len(p)
      BY <1>2
    <3> QED BY <1>2, <3>1, PathSlice
  <2>2. m \o base \in Clear /\ m \o base \in Path /\ Len(m \o base) = M + (k - 1)
    <3> HIDE DEF base
    <3> QED BY <1>2, <1>5, ClearConcat, ConcatElements
  <2> DEFINE below == m \o base
  <2> HIDE DEF below, rest
  <2>3. (below \o link.to) \o rest = below \o t
    BY <1>7, <2>1, <2>2, ConcatAssoc DEF below
  <2> QED BY <2>2, <2>3 DEF below
<1>10. Clean((m \o base) \o t) = SubSeq(m \o base, 1, (M + (k - 1)) - n) \o down
  <2>1. GoesUp(t, n) /\ n <= M + (k - 1)
    BY <1>1, <1>2 DEF Leads
  <2> DEFINE below == m \o base
  <2> HIDE DEF below
  <2>2. Clean(below \o t) = SubSeq(below, 1, Len(below) - n) \o down
    BY <1>2, <1>9, <2>1, CleanUps DEF below
  <2> QED BY <1>9, <2>2 DEF below
<1>11. SubSeq(m \o base, 1, (M + (k - 1)) - n) = m \o up
  <2>1. (M + (k - 1)) - n = M + (k - 1 - n) /\ k - 1 - n \in 0..Len(base)
    BY <1>2, <1>5
  <2>2. SubSeq(base, 1, k - 1 - n) = up
    BY <1>2 DEF Path
  <2>3. SubSeq(m \o base, 1, M + (k - 1 - n)) = m \o SubSeq(base, 1, k - 1 - n)
    <3> HIDE DEF base
    <3> QED BY <1>2, <1>5, <2>1, SliceOfConcat
  <2> QED BY <2>1, <2>2, <2>3
<1> HIDE DEF base, link, rest, up, down
<1>12. (m \o up) \o down = m \o (up \o down)
  BY <1>2, <1>3, ClearIsPath, ConcatAssoc
<1> QED BY <1>3, <1>8, <1>9, <1>10, <1>11, <1>12

-----------------------------------------------------------------------------
(* Links on a tidy tree.                                                    *)

\* e, where q leads to on a tidy tree, and w, where it leads to below a mount.
Carried(root, m, q, e, w) == e \in Clear /\ w = m \o e /\ (IsPrefix(root, q) => IsPrefix(root, e))

LEMMA EmptyLinks ==
    ASSUME NEW V, NEW T, NEW m, IsView(V, T, m), NEW q \in Clear
    PROVE  m \o q \in Path /\ (LinksOn(V, m \o q) = {} <=> LinksOn(T, q) = {})
<1>1. q \in Path /\ m \in Path
  BY ClearIsPath DEF IsView
<1>2. LinksOn(V, m \o q) = {Len(m) + k : k \in LinksOn(T, q)}
  BY <1>1, ViewLinksOn
<1> QED BY <1>1, <1>2, PathConcat

LEMMA FollowCarried ==
    ASSUME NEW V, NEW T, NEW m, IsView(V, T, m), NEW root, Tidy(T, root), NEW q \in Clear, LinksOn(T, q) # {}
    PROVE  Carried(root, m, q, FollowOne(T, q), FollowOne(V, m \o q))
<1>1. IsTree(T)
  BY DEF IsView
<1>2. PICK k, t, n : Leads(T, root, q, k, t, n)
  BY <1>1, Leading
<1>3. Lands(T, root, q, k, t, n)
  BY <1>1, <1>2, FollowTidy
<1>4. FollowOne(V, m \o q) = m \o FollowOne(T, q)
  BY FollowBelow
<1> QED BY <1>3, <1>4 DEF Lands, Carried

\* filepath.EvalSymlinks on a tidy tree stays there, also below a mount.
LEMMA EvalCarried ==
    ASSUME NEW V, NEW T, NEW m, IsView(V, T, m), NEW root, Tidy(T, root), NEW p \in Clear
    PROVE  Carried(root, m, p, EvalSymlinks(T, p), EvalSymlinks(V, m \o p))
<1>1. IsTree(T) /\ IsTree(V)
  BY ViewIsTree DEF IsView
<1>2. PICK f : Followed(T, f) /\ \A q \in Path : EvalSymlinks(T, q) = f[MaxLinks][q]
  BY <1>1, EvalSymlinksRecursion
<1>3. PICK v : Followed(V, v) /\ \A q \in Path : EvalSymlinks(V, q) = v[MaxLinks][q]
  BY <1>1, EvalSymlinksRecursion
<1>4. MaxLinks \in Nat
  BY DiscoveryAssumption
<1> DEFINE S == {n \in 0..MaxLinks : \A q \in Clear : Carried(root, m, q, f[n][q], v[n][m \o q])}
<1>5. ASSUME NEW n \in 0..MaxLinks, NEW q \in Clear, n = 0 \/ LinksOn(T, q) = {}
      PROVE  Carried(root, m, q, f[n][q], v[n][m \o q])
  <2>1. q \in Path /\ m \o q \in Path /\ (LinksOn(V, m \o q) = {} <=> LinksOn(T, q) = {})
    BY ClearIsPath, EmptyLinks
  <2>2. f[n][q] = q /\ v[n][m \o q] = m \o q
    BY <1>2, <1>3, <1>5, <2>1 DEF Followed
  <2> QED BY <2>2 DEF Carried
<1>6. 0 \in S
  BY <1>4, <1>5
<1>7. ASSUME NEW n \in 1..MaxLinks, n - 1 \in S PROVE n \in S
  <2>1. n \in 0..MaxLinks /\ n # 0
    BY <1>4
  <2>2. ASSUME NEW q \in Clear, LinksOn(T, q) # {} PROVE Carried(root, m, q, f[n][q], v[n][m \o q])
    <3>1. q \in Path /\ m \o q \in Path /\ LinksOn(V, m \o q) # {}
      BY <2>2, ClearIsPath, EmptyLinks
    <3>2. f[n][q] = f[n - 1][FollowOne(T, q)] /\ v[n][m \o q] = v[n - 1][FollowOne(V, m \o q)]
      BY <1>2, <1>3, <2>1, <2>2, <3>1 DEF Followed
    <3>3. Carried(root, m, q, FollowOne(T, q), FollowOne(V, m \o q))
      BY <2>2, FollowCarried
    <3> DEFINE next == FollowOne(T, q)
    <3> HIDE DEF next
    <3>4. next \in Clear /\ FollowOne(V, m \o q) = m \o next /\ (IsPrefix(root, q) => IsPrefix(root, next))
      BY <3>3 DEF Carried, next
    <3>5. Carried(root, m, next, f[n - 1][next], v[n - 1][m \o next])
      BY <1>7, <3>4
    <3> QED BY <3>2, <3>4, <3>5 DEF Carried, next
  <2> QED BY <1>5, <2>1, <2>2
<1>8. MaxLinks \in S
  <2> HIDE DEF S
  <2> QED BY <1>4, <1>6, <1>7, InductionTo
<1>9. p \in Path /\ m \o p \in Path
  BY ClearIsPath, EmptyLinks
<1> QED BY <1>2, <1>3, <1>8, <1>9

\* What a program sees below the mount, in terms of the host's files.
LEMMA SeenBelow ==
    ASSUME NEW V, NEW T, NEW m, IsView(V, T, m), NEW root, Tidy(T, root), NEW p \in Clear
    PROVE  /\ EvalSymlinks(T, p) \in Clear
           /\ EvalSymlinks(V, m \o p) = m \o EvalSymlinks(T, p)
           /\ IsPrefix(root, p) => IsPrefix(root, EvalSymlinks(T, p))
           /\ Stat(V, m \o p) = Stat(T, p)
<1> DEFINE e == EvalSymlinks(T, p)
<1>1. Carried(root, m, p, e, EvalSymlinks(V, m \o p))
  BY EvalCarried
<1>2. e \in Clear /\ e \in Path /\ EvalSymlinks(V, m \o p) = m \o e /\ (IsPrefix(root, p) => IsPrefix(root, e))
  BY <1>1, ClearIsPath DEF Carried
<1> HIDE DEF e
<1>3. NodeAt(V, m \o e) = NodeAt(T, e)
  BY <1>2, ViewNode
<1> QED BY <1>2, <1>3 DEF Stat, e

LEMMA LastOf ==
    ASSUME NEW p \in Path, NEW x \in Name
    PROVE  /\ Append(p, x) \in Path /\ Front(Append(p, x)) = p /\ Last(Append(p, x)) = x
           /\ Len(Append(p, x)) = Len(p) + 1 /\ Append(p, x) = p \o <<x>>
           /\ \A k \in 1..Len(p) : SubSeq(Append(p, x), 1, k) = SubSeq(p, 1, k)
           /\ SubSeq(Append(p, x), 1, Len(p) + 1) = Append(p, x)
<1>1. Append(p, x) \in Path /\ Len(Append(p, x)) = Len(p) + 1 /\ Append(p, x) = p \o <<x>> /\ Len(p) \in Nat
  BY DEF Path
<1>2. Last(Append(p, x)) = x /\ SubSeq(Append(p, x), 1, Len(p) + 1) = Append(p, x)
  BY <1>1 DEF Last, Path
<1>3. Front(Append(p, x)) = p
  <2>1. SubSeq(Append(p, x), 1, Len(p)) = p
    BY DEF Path
  <2> QED BY <1>1, <2>1 DEF Front
<1>4. \A k \in 1..Len(p) : SubSeq(Append(p, x), 1, k) = SubSeq(p, 1, k)
  BY DEF Path
<1> QED BY <1>1, <1>2, <1>3, <1>4

LEMMA LinksAbove ==
    ASSUME NEW T, NEW p \in Path, NEW x \in Name
    PROVE  /\ LinksOn(T, p) = LinksOn(T, Append(p, x)) \cap (1..Len(p))
           /\ LinksOn(T, Append(p, x)) \subseteq LinksOn(T, p) \cup {Len(p) + 1}
           /\ Len(p) + 1 \in LinksOn(T, Append(p, x)) <=> Append(p, x) \in DOMAIN T /\ T[Append(p, x)].kind = "link"
<1>1. Len(p) \in Nat
  BY PathLen
<1>2. /\ Len(Append(p, x)) = Len(p) + 1
      /\ \A k \in 1..Len(p) : SubSeq(Append(p, x), 1, k) = SubSeq(p, 1, k)
      /\ SubSeq(Append(p, x), 1, Len(p) + 1) = Append(p, x)
  BY LastOf
<1>3. 1..(Len(p) + 1) = (1..Len(p)) \cup {Len(p) + 1} /\ Len(p) + 1 \in 1..(Len(p) + 1) /\ Len(p) + 1 \notin 1..Len(p)
  BY <1>1
<1> QED BY <1>2, <1>3 DEF LinksOn

\* A node of a tidy tree that is no link is where its path leads to.
LEMMA NodeIsThere ==
    ASSUME NEW T, NEW root, IsTree(T), Tidy(T, root), NEW e \in DOMAIN T, e = <<>> \/ T[e].kind # "link"
    PROVE  e \in Clear /\ LinksOn(T, e) = {} /\ EvalSymlinks(T, e) = e
<1>1. e \in Clear /\ e \in Path /\ Len(e) \in Nat
  BY ClearIsPath DEF Tidy
<1>2. LinksOn(T, e) = {}
  <2>1. CASE e = <<>>
    BY <1>1, <2>1 DEF LinksOn
  <2>2. CASE e # <<>>
    <3>1. Len(e) # 0 /\ SubSeq(e, 1, Len(e)) = e
      BY <1>1, <2>2 DEF Path
    <3>2. LinksOn(T, Front(e)) = {}
      BY DEF Tidy
    <3>3. Front(e) = SubSeq(e, 1, Len(e) - 1) /\ Len(SubSeq(e, 1, Len(e) - 1)) = Len(e) - 1
      BY <1>1, <3>1 DEF Front, Path
    <3>4. \A k \in 1..(Len(e) - 1) : SubSeq(SubSeq(e, 1, Len(e) - 1), 1, k) = SubSeq(e, 1, k)
      BY <1>1, <3>1 DEF Path
    <3>5. \A k \in 1..Len(e) : k = Len(e) \/ k \in 1..(Len(e) - 1)
      BY <1>1
    <3> QED BY <2>2, <3>1, <3>2, <3>3, <3>4, <3>5 DEF LinksOn
  <2> QED BY <2>1, <2>2
<1> QED BY <1>1, <1>2, EvalSymlinksType

LEMMA AppendElements ==
    ASSUME NEW p \in Path, NEW x \in Name
    PROVE  /\ Len(Append(p, x)) = Len(p) + 1
           /\ \A i \in 1..(Len(p) + 1) : Append(p, x)[i] = IF i = Len(p) + 1 THEN x ELSE p[i]
BY DEF Path

LEMMA AppendSlice ==
    ASSUME NEW p \in Path, NEW x \in Name, NEW n \in 0..Len(p)
    PROVE  SubSeq(Append(p, x), n + 1, Len(p) + 1) = Append(SubSeq(p, n + 1, Len(p)), x)
<1> DEFINE left == SubSeq(Append(p, x), n + 1, Len(p) + 1)
           some == SubSeq(p, n + 1, Len(p))
           right == Append(some, x)
<1>1. Len(p) \in Nat /\ Append(p, x) \in Path /\ Len(Append(p, x)) = Len(p) + 1
  BY PathLen, LastOf
<1>2. /\ some \in Path /\ Len(some) = Len(p) - n
      /\ \A i \in 1..(Len(p) - n) : some[i] = p[n + i]
  <2> DEFINE last == Len(p)
             first == n + 1
  <2>1. first \in 1..(Len(p) + 1) /\ last \in 0..Len(p) /\ first <= last + 1
    BY <1>1
  <2>2. last - first + 1 = Len(p) - n /\ \A i \in 1..(Len(p) - n) : first + i - 1 = n + i
    BY <1>1
  <2> HIDE DEF first, last
  <2>3. /\ SubSeq(p, first, last) \in Path /\ Len(SubSeq(p, first, last)) = last - first + 1
        /\ \A i \in 1..(last - first + 1) : SubSeq(p, first, last)[i] = p[first + i - 1]
    BY <2>1, SliceElements
  <2> QED BY <2>2, <2>3 DEF first, last
<1>3. /\ left \in Path /\ Len(left) = Len(p) - n + 1
      /\ \A i \in 1..(Len(p) - n + 1) : left[i] = Append(p, x)[n + i]
  <2> DEFINE px == Append(p, x)
             last == Len(p) + 1
  <2>1. n + 1 \in 1..(Len(px) + 1) /\ last \in 0..Len(px) /\ n + 1 <= last + 1
    BY <1>1
  <2>2. last - (n + 1) + 1 = Len(p) - n + 1 /\ \A i \in 1..(Len(p) - n + 1) : n + 1 + i - 1 = n + i
    BY <1>1
  <2> HIDE DEF px, last
  <2>3. /\ SubSeq(px, n + 1, last) \in Path /\ Len(SubSeq(px, n + 1, last)) = last - (n + 1) + 1
        /\ \A i \in 1..(last - (n + 1) + 1) : SubSeq(px, n + 1, last)[i] = px[n + 1 + i - 1]
    BY <1>1, <2>1, SliceElements DEF px
  <2> QED BY <2>2, <2>3 DEF px, last
<1> HIDE DEF left, some
<1>4. /\ right \in Path /\ Len(right) = Len(p) - n + 1
      /\ \A i \in 1..(Len(p) - n + 1) : right[i] = IF i = Len(p) - n + 1 THEN x ELSE some[i]
  <2>1. right \in Path /\ Len(right) = Len(some) + 1
    BY <1>2, LastOf
  <2>2. \A i \in 1..(Len(some) + 1) : right[i] = IF i = Len(some) + 1 THEN x ELSE some[i]
    BY <1>2, AppendElements
  <2> HIDE DEF right
  <2> QED BY <1>2, <2>1, <2>2
<1>5. ASSUME NEW i \in 1..(Len(p) - n + 1) PROVE left[i] = right[i]
  <2>1. n + i \in 1..(Len(p) + 1) /\ (n + i = Len(p) + 1 <=> i = Len(p) - n + 1)
    BY <1>1
  <2>2. left[i] = IF i = Len(p) - n + 1 THEN x ELSE p[n + i]
    BY <1>3, <2>1, AppendElements
  <2>3. i # Len(p) - n + 1 => i \in 1..(Len(p) - n)
    BY <1>1
  <2> QED BY <1>2, <1>4, <2>2, <2>3
<1> HIDE DEF right
<1>6. left = right
  BY <1>3, <1>4, <1>5, PathsEqual
<1> QED BY <1>6 DEF left, right, some

LEMMA ClearAppend ==
    ASSUME NEW p \in Clear, NEW x \in Name, x # ".."
    PROVE  Append(p, x) \in Clear
<1>1. p \in Path /\ Len(p) \in Nat /\ \A i \in 1..Len(p) : p[i] # ".."
  BY ClearIsPath
<1>2. Append(p, x) \in Path /\ Len(Append(p, x)) = Len(p) + 1
  BY <1>1, LastOf
<1>3. \A i \in 1..(Len(p) + 1) : Append(p, x)[i] = IF i = Len(p) + 1 THEN x ELSE p[i]
  BY <1>1 DEF Path
<1>4. \A i \in 1..(Len(p) + 1) : i # Len(p) + 1 => i \in 1..Len(p)
  BY <1>1
<1> QED BY <1>1, <1>2, <1>3, <1>4 DEF Clear

\* What follows a link on the way is carried along.
LEMMA FollowAppend ==
    ASSUME NEW T, NEW root, IsTree(T), Tidy(T, root), NEW q \in Clear, LinksOn(T, q) # {},
           NEW x \in Name, x # ".."
    PROVE  FollowOne(T, Append(q, x)) = Append(FollowOne(T, q), x) /\ LinksOn(T, Append(q, x)) # {}
<1> DEFINE qx == Append(q, x)
<1>1. PICK k, t, n : Leads(T, root, q, k, t, n)
  BY Leading
<1> DEFINE tx == Append(t, x)
           rest == SubSeq(q, k + 1, Len(q))
           to == T[SubSeq(q, 1, k)].to
<1>2. q \in Path /\ Len(q) \in Nat /\ root \in Path /\ Len(root) \in Nat
  BY ClearIsPath DEF Tidy
<1>3. /\ k \in 1..Len(q) /\ k = Min(LinksOn(T, q)) /\ k \in LinksOn(T, q) /\ ~T[SubSeq(q, 1, k)].abs
      /\ t = to \o rest /\ t \in Path /\ n \in 0..Len(t) /\ n <= k - 1 /\ GoesUp(t, n)
      /\ IsPrefix(root, q) => Len(root) + n <= k - 1
  BY <1>1 DEF Leads
<1>4. Len(t) \in Nat
  BY <1>3, PathLen
<1>5. /\ qx \in Path /\ Len(qx) = Len(q) + 1 /\ \A i \in 1..Len(q) : SubSeq(qx, 1, i) = SubSeq(q, 1, i)
      /\ tx \in Path /\ Len(tx) = Len(t) + 1
  BY <1>2, <1>3, LastOf
<1>6. qx \in Clear
  BY ClearAppend
<1>7. k \in LinksOn(T, qx) /\ k = Min(LinksOn(T, qx))
  <2>1. LinksOn(T, q) \in SUBSET Nat /\ LinksOn(T, qx) \in SUBSET Nat
    BY <1>2, <1>5 DEF LinksOn
  <2>2. \A j \in LinksOn(T, q) : k <= j
    BY <1>3, <2>1, MinIsLeast
  <2>3. k \in LinksOn(T, qx) /\ LinksOn(T, qx) \subseteq LinksOn(T, q) \cup {Len(q) + 1}
    BY <1>2, <1>3, LinksAbove
  <2> DEFINE L == LinksOn(T, qx)
  <2>4. L \in SUBSET Nat /\ k \in L /\ \A j \in L : k <= j
    BY <1>2, <1>3, <2>1, <2>2, <2>3
  <2> HIDE DEF L
  <2>5. Min(L) \in L /\ Min(L) <= k
    BY <2>4, MinIsLeast
  <2>6. k \in Nat /\ Min(L) \in Nat /\ k <= Min(L) /\ Min(L) <= k
    BY <2>4, <2>5
  <2>7. k = Min(L)
    BY <2>6
  <2> QED BY <2>4, <2>7 DEF L
<1>8. tx = to \o SubSeq(qx, k + 1, Len(qx))
  <2>1. SubSeq(qx, k + 1, Len(q) + 1) = Append(rest, x)
    <3>1. k \in 0..Len(q)
      BY <1>2, <1>3
    <3> QED BY <1>2, <3>1, AppendSlice
  <2>2. rest \in Path
    <3>1. k + 1 \in 1..(Len(q) + 1) /\ Len(q) \in 0..Len(q)
      BY <1>2, <1>3
    <3> QED BY <1>2, <3>1, PathSlice
  <2>3. to \in Path
    BY <1>3 DEF LinksOn, IsTree, IsNode
  <2> HIDE DEF rest, to, qx
  <2>4. Append(to \o rest, x) = to \o Append(rest, x)
    BY <2>2, <2>3, AppendConcat
  <2> QED BY <1>3, <1>5, <2>1, <2>4
<1>9. GoesUp(tx, n)
  <2>1. \A i \in 1..(Len(t) + 1) : tx[i] = IF i = Len(t) + 1 THEN x ELSE t[i]
    BY <1>3, AppendElements
  <2>2. \A i \in 1..Len(t) : t[i] = ".." <=> i <= n
    BY <1>3 DEF GoesUp
  <2>3. \A i \in 1..(Len(t) + 1) : i # Len(t) + 1 => i \in 1..Len(t)
    BY <1>4
  <2>4. n <= Len(t) + 1 /\ ~(Len(t) + 1 <= n)
    BY <1>3, <1>4
  <2> HIDE DEF tx
  <2> QED BY <1>5, <2>1, <2>2, <2>3, <2>4 DEF GoesUp
<1>10. IsPrefix(root, qx) => Len(root) + n <= k - 1
  <2> SUFFICES ASSUME IsPrefix(root, qx) PROVE Len(root) + n <= k - 1
    OBVIOUS
  <2>1. Len(root) <= Len(q) + 1
    BY <1>5 DEF IsPrefix
  <2>2. CASE Len(root) <= Len(q)
    <3>1. SubSeq(qx, 1, Len(root)) = SubSeq(q, 1, Len(root))
      BY <1>2, <2>2 DEF Path
    <3>2. IsPrefix(root, q)
      BY <2>2, <3>1 DEF IsPrefix
    <3> QED BY <1>3, <3>2
  <2>3. CASE Len(root) = Len(q) + 1
    <3>1. k \in 1..Len(qx) /\ k \in 1..Len(root) /\ k <= Len(root)
      BY <1>2, <1>3, <1>5, <2>3
    <3>2. SubSeq(qx, 1, k) = SubSeq(root, 1, k)
      <4> HIDE DEF qx
      <4> QED BY <1>2, <1>5, <3>1, PrefixOfSlice
    <3>3. k \in LinksOn(T, root)
      BY <1>3, <1>5, <3>1, <3>2 DEF LinksOn
    <3> QED BY <3>3 DEF Tidy
  <2> QED BY <1>2, <2>1, <2>2, <2>3
<1>11. Leads(T, root, qx, k, tx, n)
  <2>1. k \in 1..Len(qx) /\ n \in 0..Len(tx)
    BY <1>2, <1>3, <1>4, <1>5
  <2>2. SubSeq(qx, 1, k) = SubSeq(q, 1, k)
    BY <1>3, <1>5
  <2> HIDE DEF qx, tx
  <2> QED BY <1>3, <1>5, <1>7, <1>8, <1>9, <1>10, <2>1, <2>2 DEF Leads
<1> DEFINE up == SubSeq(q, 1, k - 1 - n)
           down == SubSeq(t, n + 1, Len(t))
<1>12. FollowOne(T, q) = up \o down /\ up \in Clear /\ down \in Clear
  <2>1. Lands(T, root, q, k, t, n)
    BY <1>1, FollowTidy
  <2> QED BY <2>1 DEF Lands
<1>13. FollowOne(T, qx) = SubSeq(qx, 1, k - 1 - n) \o SubSeq(tx, n + 1, Len(tx))
  <2> HIDE DEF qx, tx
  <2>1. Lands(T, root, qx, k, tx, n)
    BY <1>6, <1>11, FollowTidy
  <2> QED BY <2>1 DEF Lands
<1>14. SubSeq(qx, 1, k - 1 - n) = up
  BY <1>2, <1>3 DEF Path
<1>15. SubSeq(tx, n + 1, Len(t) + 1) = Append(down, x)
  BY <1>3, AppendSlice
<1> HIDE DEF up, down, qx, tx
<1>16. up \o Append(down, x) = Append(up \o down, x)
  BY <1>12, ClearIsPath, AppendConcat
<1> QED BY <1>5, <1>7, <1>12, <1>13, <1>14, <1>15, <1>16 DEF qx, tx

\* A file that os.Lstat finds, os.Stat finds.
LEMMA FileIsThere ==
    ASSUME NEW T, NEW root, IsTree(T), Tidy(T, root), NEW p \in Clear, NEW x \in Name, x # "..",
           NodeAt(T, Append(EvalSymlinks(T, p), x)).kind = "file"
    PROVE  Stat(T, Append(p, x)).kind = "file"
<1>1. PICK f : Followed(T, f) /\ \A q \in Path : EvalSymlinks(T, q) = f[MaxLinks][q]
  BY EvalSymlinksRecursion
<1>2. MaxLinks \in Nat
  BY DiscoveryAssumption
<1> DEFINE Same(n, q) == NodeAt(T, Append(f[n][q], x)).kind = "file" => f[n][Append(q, x)] = Append(f[n][q], x)
           S == {n \in 0..MaxLinks : \A q \in Clear : Same(n, q)}
<1>3. \A q \in Clear : q \in Path /\ Append(q, x) \in Clear /\ Append(q, x) \in Path
  BY ClearAppend, ClearIsPath
<1>4. 0 \in S
  <2>1. \A q \in Path : f[0][q] = q
    BY <1>1, <1>2 DEF Followed
  <2>2. \A q \in Clear : Same(0, q)
    BY <1>3, <2>1
  <2> HIDE DEF Same
  <2> QED BY <1>2, <2>2
<1>5. ASSUME NEW n \in 1..MaxLinks, n - 1 \in S, NEW q \in Clear PROVE Same(n, q)
  <2>1. n \in 0..MaxLinks /\ n # 0
    BY <1>2
  <2>2. \A y \in Path : f[n][y] = IF LinksOn(T, y) = {} THEN y ELSE f[n - 1][FollowOne(T, y)]
    BY <1>1, <2>1 DEF Followed
  <2>3. CASE LinksOn(T, q) = {}
    <3> SUFFICES ASSUME NodeAt(T, Append(q, x)).kind = "file" PROVE f[n][Append(q, x)] = Append(q, x)
      BY <1>3, <2>2, <2>3
    <3>1. Append(q, x) \in DOMAIN T /\ T[Append(q, x)].kind # "link"
      BY DEF NodeAt, NoNode
    <3> DEFINE e == Append(q, x)
    <3> HIDE DEF e
    <3>2. LinksOn(T, e) = {}
      BY <3>1, NodeIsThere DEF e
    <3> QED BY <1>3, <2>2, <3>2 DEF e
  <2>4. CASE LinksOn(T, q) # {}
    <3> DEFINE next == FollowOne(T, q)
    <3>1. FollowOne(T, Append(q, x)) = Append(next, x) /\ LinksOn(T, Append(q, x)) # {}
      BY <2>4, FollowAppend
    <3>2. next \in Clear
      <4>1. PICK k, t, m : Leads(T, root, q, k, t, m)
        BY <2>4, Leading
      <4>2. Lands(T, root, q, k, t, m)
        BY <4>1, FollowTidy
      <4> QED BY <4>2 DEF Lands
    <3> HIDE DEF next
    <3>3. f[n][q] = f[n - 1][next] /\ f[n][Append(q, x)] = f[n - 1][Append(next, x)]
      BY <1>3, <2>2, <2>4, <3>1 DEF next
    <3>4. Same(n - 1, next)
      BY <1>5, <3>2
    <3> QED BY <3>3, <3>4
  <2> QED BY <2>3, <2>4
<1>6. ASSUME NEW n \in 1..MaxLinks, n - 1 \in S PROVE n \in S
  <2>1. n \in 0..MaxLinks
    BY <1>2
  <2> HIDE DEF Same
  <2> QED BY <1>5, <1>6, <2>1
<1>7. MaxLinks \in S
  <2> HIDE DEF S
  <2> QED BY <1>2, <1>4, <1>6, InductionTo
<1>8. EvalSymlinks(T, Append(p, x)) = Append(EvalSymlinks(T, p), x)
  BY <1>1, <1>3, <1>7
<1> QED BY <1>8 DEF Stat, NoLink

-----------------------------------------------------------------------------
(* Paths put together and cut.                                              *)

LEMMA EmptyConcat == ASSUME NEW p \in Path PROVE <<>> \o p = p /\ p \o <<>> = p
BY DEF Path

LEMMA EmptyIsClear == <<>> \in Clear /\ <<>> \in Path /\ Len(<<>>) = 0
BY DEF Clear, Path

LEMMA SplitAt ==
    ASSUME NEW p \in Path, NEW k \in 0..Len(p)
    PROVE  p = SubSeq(p, 1, k) \o SubSeq(p, k + 1, Len(p))
<1> DEFINE a == SubSeq(p, 1, k)
           b == SubSeq(p, k + 1, Len(p))
<1>1. Len(p) \in Nat
  BY PathLen
<1>2. a \in Path /\ Len(a) = k /\ \A i \in 1..k : a[i] = p[i]
  BY <1>1 DEF Path
<1>3. b \in Path /\ Len(b) = Len(p) - k /\ \A i \in 1..(Len(p) - k) : b[i] = p[k + i]
  <2> DEFINE first == k + 1
             last == Len(p)
  <2>1. first \in 1..(Len(p) + 1) /\ last \in 0..Len(p) /\ first <= last + 1
    BY <1>1
  <2>2. last - first + 1 = Len(p) - k /\ \A i \in 1..(Len(p) - k) : first + i - 1 = k + i
    BY <1>1
  <2> HIDE DEF first, last
  <2>3. /\ SubSeq(p, first, last) \in Path /\ Len(SubSeq(p, first, last)) = last - first + 1
        /\ \A i \in 1..(last - first + 1) : SubSeq(p, first, last)[i] = p[first + i - 1]
    BY <2>1, SliceElements
  <2> QED BY <2>2, <2>3 DEF first, last
<1> HIDE DEF a, b
<1>4. /\ a \o b \in Path /\ Len(a \o b) = Len(a) + Len(b)
      /\ \A i \in 1..Len(a) : (a \o b)[i] = a[i]
      /\ \A i \in 1..(Len(a) + Len(b)) : i > Len(a) => (a \o b)[i] = b[i - Len(a)]
  BY <1>2, <1>3, ConcatElements
<1>5. Len(a \o b) = Len(p)
  BY <1>1, <1>2, <1>3, <1>4
<1>6. ASSUME NEW i \in 1..Len(p) PROVE p[i] = (a \o b)[i]
  <2>1. CASE i <= k
    <3>1. i \in 1..Len(a) /\ i \in 1..k
      BY <1>1, <1>2, <2>1
    <3> QED BY <1>2, <1>4, <3>1
  <2>2. CASE i > k
    <3>1. i - k \in 1..(Len(p) - k) /\ i \in 1..(Len(a) + Len(b)) /\ i > Len(a) /\ k + (i - k) = i
      BY <1>1, <1>2, <1>3, <2>2
    <3>2. (a \o b)[i] = b[i - k]
      BY <1>2, <1>4, <3>1
    <3> QED BY <1>3, <3>1, <3>2
  <2>3. i <= k \/ i > k
    BY <1>1
  <2> QED BY <2>1, <2>2, <2>3
<1>7. p = a \o b
  BY <1>4, <1>5, <1>6, PathsEqual
<1> QED BY <1>7 DEF a, b

LEMMA ClearSplit ==
    ASSUME NEW root \in Path, NEW p \in Clear, IsPrefix(root, p)
    PROVE  \E x \in Clear : p = root \o x /\ x = SubSeq(p, Len(root) + 1, Len(p))
<1> DEFINE x == SubSeq(p, Len(root) + 1, Len(p))
<1>1. p \in Path /\ Len(p) \in Nat /\ Len(root) \in Nat /\ Len(root) <= Len(p)
  BY ClearIsPath, PathLen DEF IsPrefix
<1>2. x \in Clear
  <2>1. Len(root) + 1 \in 1..(Len(p) + 1) /\ Len(p) \in 0..Len(p) /\ Len(root) + 1 <= Len(p) + 1
    BY <1>1
  <2> QED BY <2>1, ClearSlice
<1>3. SubSeq(p, 1, Len(root)) = root
  <2>1. SubSeq(p, 1, Len(root)) = SubSeq(root, 1, Len(root))
    BY DEF IsPrefix
  <2> QED BY <2>1 DEF Path
<1>4. p = SubSeq(p, 1, Len(root)) \o x
  <2>1. Len(root) \in 0..Len(p)
    BY <1>1
  <2> QED BY <1>1, <2>1, SplitAt
<1> HIDE DEF x
<1>5. p = root \o x
  BY <1>3, <1>4
<1> QED BY <1>2, <1>5 DEF x

LEMMA PrefixOfConcat ==
    ASSUME NEW root \in Path, NEW x \in Path
    PROVE  IsPrefix(root, root \o x)
<1>1. /\ Len(root) \in Nat /\ Len(x) \in Nat /\ root \o x \in Path /\ Len(root \o x) = Len(root) + Len(x)
      /\ Len(root) <= Len(root) + Len(x)
  BY PathLen, ConcatElements
<1>2. SubSeq(root \o x, 1, Len(root)) = root /\ SubSeq(root, 1, Len(root)) = root
  BY <1>1 DEF Path
<1> QED BY <1>1, <1>2 DEF IsPrefix

\* A path without ".." is clean.
LEMMA CleanClear ==
    ASSUME NEW p \in Clear
    PROVE  Clean(p) = p
<1> DEFINE none == <<>>
<1>1. p \in Path /\ Len(p) \in Nat /\ none \in Path /\ Len(none) = 0
  BY ClearIsPath, EmptyIsClear
<1>2. p \o none = p /\ SubSeq(p, 1, Len(p)) = p /\ SubSeq(none, 1, 0) = none
  BY <1>1 DEF Path
<1> HIDE DEF none
<1>3. 0 \in 0..Len(none) /\ 0 <= Len(p) /\ GoesUp(none, 0)
  BY <1>1 DEF GoesUp
<1>4. Clean(p \o none) = SubSeq(p, 1, Len(p) - 0) \o SubSeq(none, 0 + 1, Len(none))
  BY <1>1, <1>3, CleanUps
<1>5. Len(p) - 0 = Len(p) /\ 0 + 1 = 1
  BY <1>1
<1> QED BY <1>1, <1>2, <1>4, <1>5

\* filepath.Rel of what is below.
LEMMA RelBelow ==
    ASSUME NEW a \in Path, NEW x \in Path
    PROVE  Rel(a, a \o x) = x
<1> DEFINE p == a \o x
           both == {k \in 0..Len(a) : k <= Len(p) /\ SubSeq(a, 1, k) = SubSeq(p, 1, k)}
           shared == Max(both)
<1>1. Len(a) \in Nat /\ Len(x) \in Nat /\ p \in Path /\ Len(p) = Len(a) + Len(x) /\ Len(a) <= Len(p)
  BY PathLen, ConcatElements
<1>2. Len(a) \in both
  <2>1. IsPrefix(a, p)
    BY PrefixOfConcat
  <2> QED BY <1>1, <2>1 DEF IsPrefix
<1>3. shared = Len(a)
  <2>1. both \in SUBSET (0..Len(a)) /\ both # {}
    BY <1>2
  <2> HIDE DEF both
  <2>2. Max(both) \in both /\ Len(a) <= Max(both)
    BY <1>1, <1>2, <2>1, MaxIsGreatest
  <2>3. Max(both) \in 0..Len(a)
    BY <2>1, <2>2
  <2> QED BY <1>1, <2>2, <2>3
<1>4. Rel(a, p) = [i \in 1..(Len(a) - shared) |-> ".."] \o SubSeq(p, shared + 1, Len(p))
  BY DEF Rel
<1> HIDE DEF shared, both
<1>5. [i \in 1..(Len(a) - shared) |-> ".."] = <<>>
  <2>1. 1..(Len(a) - shared) = {}
    BY <1>1, <1>3
  <2> QED BY <2>1
<1>6. SubSeq(p, shared + 1, Len(p)) = x
  <2>1. 1 \in 1..(Len(x) + 1) /\ SubSeq(x, 1, Len(x)) = x
    BY <1>1 DEF Path
  <2>2. SubSeq(a \o x, Len(a) + 1, Len(a) + Len(x)) = SubSeq(x, 1, Len(x))
    BY <2>1, TailOfConcat
  <2> QED BY <1>1, <1>3, <2>1, <2>2
<1> QED BY <1>4, <1>5, <1>6, EmptyConcat

-----------------------------------------------------------------------------
(* Roots exchanged.                                                         *)

\* A program sees the host's files T below its mount.
Sees(c, V, T) ==
    /\ IsConfig(c) /\ IsView(V, T, c.hostRoot) /\ Tidy(T, c.driverRoot)
    /\ c.searchRoot = IF c.hostRoot = <<>> THEN <<>> ELSE c.hostRoot \o c.driverRoot
    /\ c.driverRoot # <<>> /\ c.hostRoot # <<>> => c.driverRoot[1] # c.hostRoot[1]

Below(c, x) == (c.hostRoot \o c.driverRoot) \o x
OnHostAt(c, x) == c.driverRoot \o x

LEMMA SeesPaths ==
    ASSUME NEW c, NEW V, NEW T, Sees(c, V, T)
    PROVE  /\ c.hostRoot \in Clear /\ c.driverRoot \in Clear /\ c.hostRoot \in Path /\ c.driverRoot \in Path
           /\ c.hostRoot \o c.driverRoot \in Clear /\ c.hostRoot \o c.driverRoot \in Path
           /\ SearchRoot(c) = c.hostRoot \o c.driverRoot
<1>1. c.hostRoot \in Clear /\ c.driverRoot \in Clear
  BY DEF Sees, IsView, Tidy
<1>2. c.hostRoot \in Path /\ c.driverRoot \in Path
  BY <1>1, ClearIsPath
<1>3. c.hostRoot \o c.driverRoot \in Clear /\ c.hostRoot \o c.driverRoot \in Path
  BY <1>1, <1>2, ClearConcat, PathConcat
<1>4. SearchRoot(c) = c.hostRoot \o c.driverRoot
  <2>1. CASE c.hostRoot = <<>>
    BY <1>2, <2>1, EmptyConcat DEF SearchRoot, Sees
  <2>2. CASE c.hostRoot # <<>>
    <3>1. c.hostRoot \o c.driverRoot # <<>>
      BY <1>2, <2>2 DEF Path
    <3> QED BY <2>2, <3>1 DEF SearchRoot, Sees
  <2> QED BY <2>1, <2>2
<1> QED BY <1>1, <1>2, <1>3, <1>4

\* The path below the mount and the path on the host are exchanged for one
\* another without loss.
LEMMA RootsExchanged ==
    ASSUME NEW c, NEW V, NEW T, Sees(c, V, T), NEW x \in Clear
    PROVE  /\ ToHostPath(c, Below(c, x)) = OnHostAt(c, x)
           /\ ToolHostPath(c, Below(c, x)) = OnHostAt(c, x)
           /\ ToSearchRootPath(c, OnHostAt(c, x)) = Below(c, x)
           /\ Apart(c.driverRoot, c.hostRoot, x) => ToDriverRootPath(c, x) = OnHostAt(c, x)
<1> DEFINE m == c.hostRoot
           r == c.driverRoot
<1>1. /\ m \in Path /\ r \in Path /\ x \in Path /\ r \in Clear /\ m \o r \in Path /\ SearchRoot(c) = m \o r
      /\ r \o x \in Path /\ r \o x \in Clear
  <2>1. m \in Path /\ r \in Path /\ x \in Path /\ r \in Clear /\ m \o r \in Path /\ SearchRoot(c) = m \o r
    BY SeesPaths, ClearIsPath
  <2> QED BY <2>1, PathConcat, ClearConcat
<1>2. /\ TrimPrefix(r \o x, r) = x /\ TrimPrefix((m \o r) \o x, m \o r) = x
      /\ Clean(r \o x) = r \o x
      /\ <<>> \o x = x /\ <<>> \o r = r
  BY <1>1, TrimRoot, CleanClear, EmptyConcat
<1>3. CASE m = <<>>
  <2>1. c.searchRoot = <<>> /\ m \o r = r /\ SearchRoot(c) = r /\ Below(c, x) = r \o x
    BY <1>1, <1>2, <1>3 DEF Sees, Below
  <2>2. ToHostPath(c, r \o x) = r \o x
    BY <1>2, <2>1 DEF ToHostPath
  <2>3. ToolHostPath(c, r \o x) = r \o x
    BY <2>2 DEF ToolHostPath
  <2>4. ToSearchRootPath(c, r \o x) = r \o x
    BY <2>1 DEF ToSearchRootPath
  <2>5. ASSUME Apart(r, m, x) PROVE ToDriverRootPath(c, x) = r \o x
    <3>1. ToDriverRootPath(c, x) = IF IsPrefix(r, x) THEN x ELSE r \o x
      BY <1>2, <2>1 DEF ToDriverRootPath
    <3>2. CASE r = <<>>
      BY <1>2, <3>1, <3>2
    <3>3. CASE r # <<>>
      BY <2>5, <3>1, <3>3 DEF Apart
    <3> QED BY <3>2, <3>3
  <2> QED BY <2>1, <2>2, <2>3, <2>4, <2>5 DEF OnHostAt
<1>4. CASE m # <<>>
  <2>1. c.searchRoot = m \o r
    BY <1>4 DEF Sees
  <2>2. m \o r # <<>> /\ m \o r # r /\ Len(m) \in Nat /\ Len(m) # 0 /\ ((m \o r) \o x)[1] = m[1]
    <3>1. Len(m) \in Nat /\ Len(m) # 0 /\ Len(r) \in Nat /\ Len(m \o r) = Len(m) + Len(r)
      BY <1>1, <1>4 DEF Path
    <3>2. Len(m \o r) # 0 /\ Len(m \o r) # Len(r) /\ 1 \in 1..Len(m) /\ 1 \in 1..Len(m \o r)
      <4> HIDE DEF m, r
      <4>1. Len(m) \in Nat \ {0}
        BY <3>1
      <4> QED BY <3>1, <4>1
    <3>3. (m \o r)[1] = m[1]
      BY <1>1, <3>2, ConcatElements
    <3> DEFINE seen == m \o r
    <3> HIDE DEF seen
    <3>4. (seen \o x)[1] = seen[1]
      BY <1>1, <3>2, ConcatElements DEF seen
    <3>5. m \o r # <<>>
      BY <3>2, EmptyIsClear
    <3> QED BY <3>1, <3>2, <3>3, <3>4, <3>5 DEF seen
  <2>3. ToHostPath(c, Below(c, x)) = r \o x
    BY <1>1, <1>2, <2>2 DEF ToHostPath, Below
  <2>4. r # <<>> => ~IsPrefix(r, Below(c, x))
    <3> SUFFICES ASSUME r # <<>>, IsPrefix(r, Below(c, x)) PROVE FALSE
      OBVIOUS
    <3> DEFINE p == (m \o r) \o x
    <3>1. p \in Path /\ p[1] = m[1] /\ IsPrefix(r, p)
      <4>1. (m \o r) \o x \in Path
        BY <1>1, PathConcat
      <4> QED BY <2>2, <4>1 DEF Below
    <3>2. Len(r) \in Nat /\ Len(r) # 0 /\ Len(p) \in Nat /\ Len(r) <= Len(p)
      <4> HIDE DEF p
      <4>1. Len(r) \in Nat /\ Len(r) # 0
        BY <1>1 DEF Path
      <4> QED BY <3>1, <4>1, PathLen DEF IsPrefix
    <3> HIDE DEF p
    <3>3. SubSeq(r, 1, Len(r))[1] = r[1] /\ SubSeq(p, 1, Len(r))[1] = p[1]
      BY <1>1, <3>1, <3>2 DEF Path
    <3>4. SubSeq(r, 1, Len(r)) = SubSeq(p, 1, Len(r))
      BY <3>1 DEF IsPrefix
    <3>5. r[1] = m[1]
      BY <3>1, <3>3, <3>4
    <3> QED BY <1>4, <3>5 DEF Sees
  <2>5. ToolHostPath(c, Below(c, x)) = r \o x
    BY <2>3, <2>4 DEF ToolHostPath
  <2>6. ToSearchRootPath(c, r \o x) = (m \o r) \o x
    BY <1>2, <2>1, <2>2 DEF ToSearchRootPath
  <2>7. ASSUME Apart(r, m, x) PROVE ToDriverRootPath(c, x) = r \o x
    <3>1. TrimPrefix(x, m \o r) = x
      BY <1>4, <2>7 DEF Apart, TrimPrefix
    <3> QED BY <1>2, <2>1, <2>2, <3>1 DEF ToDriverRootPath
  <2> QED BY <2>3, <2>5, <2>6, <2>7 DEF OnHostAt, Below
<1> QED BY <1>3, <1>4

-----------------------------------------------------------------------------
(* What is discovered is on the host.                                       *)

\* A mapped sequence and one laid end to end, by what their elements are in.
LEMMA MappedInto ==
    ASSUME NEW s, IsSeq(s), NEW t, t = [i \in DOMAIN s |-> t[i]], NEW S, \A i \in DOMAIN s : t[i] \in S
    PROVE  IsSeq(t) /\ DOMAIN t = DOMAIN s /\ ToSet(t) \subseteq S
BY MappedIsSeq DEF ToSet

LEMMA FlattenInto ==
    ASSUME NEW t, IsSeq(t), NEW S, \A i \in DOMAIN t : IsSeq(t[i]) /\ ToSet(t[i]) \subseteq S
    PROVE  IsSeq(FlattenSeq(t)) /\ ToSet(FlattenSeq(t)) \subseteq S
<1>1. DOMAIN t = 1..Len(t)
  BY IsSeqLen
<1>2. IsSeq(FlattenSeq(t)) /\ ToSet(FlattenSeq(t)) = UNION {ToSet(t[i]) : i \in 1..Len(t)}
  BY <1>1, FlattenSeqElements
<1> QED BY <1>1, <1>2

LEMMA AppendInto ==
    ASSUME NEW s, IsSeq(s), NEW i \in DOMAIN s
    PROVE  s[i] \in ToSet(s)
BY DEF ToSet

\* The directories, names and files a program looks for.
ClearNames(c) ==
    /\ \A s \in {c.libDirs, c.pluginDirs, c.binDirs} : ToSet(s) \subseteq Clear
    /\ \A t \in ToSet(c.tools) \cup ToSet(Names) : t # ".."
    /\ \A p \in ToSet(c.providers) : p.library \in Clear /\ p.driver \in Clear

\* What is there below the driver's root, where a program sees it, and where
\* the host has it.
There(c, T) == {x \in Clear \ {<<>>} : Stat(T, OnHostAt(c, x)) # NoNode}
SeenPaths(c, T) == {Below(c, x) : x \in There(c, T)}
HostPaths(c, T) == {OnHostAt(c, x) : x \in There(c, T)}

LEMMA SeenToHost ==
    ASSUME NEW c, NEW V, NEW T, Sees(c, V, T), NEW p \in SeenPaths(c, T)
    PROVE  ToHostPath(c, p) \in HostPaths(c, T) /\ ToolHostPath(c, p) \in HostPaths(c, T)
<1>1. PICK x \in There(c, T) : p = Below(c, x)
  BY DEF SeenPaths
<1>2. x \in Clear
  BY DEF There
<1>3. ToHostPath(c, Below(c, x)) = OnHostAt(c, x) /\ ToolHostPath(c, Below(c, x)) = OnHostAt(c, x)
  BY <1>2, RootsExchanged
<1> QED BY <1>1, <1>3 DEF HostPaths

\* What a program sees under a path is what the host has under its own.
LEMMA SeesBelow ==
    ASSUME NEW c, NEW V, NEW T, Sees(c, V, T), NEW x \in Clear
    PROVE  /\ Below(c, x) = c.hostRoot \o OnHostAt(c, x)
           /\ OnHostAt(c, x) \in Clear /\ Below(c, x) \in Clear
           /\ EvalSymlinks(T, OnHostAt(c, x)) \in Clear
           /\ EvalSymlinks(V, Below(c, x)) = c.hostRoot \o EvalSymlinks(T, OnHostAt(c, x))
           /\ IsPrefix(c.driverRoot, EvalSymlinks(T, OnHostAt(c, x)))
           /\ Stat(V, Below(c, x)) = Stat(T, OnHostAt(c, x))
<1> DEFINE m == c.hostRoot
           r == c.driverRoot
           q == OnHostAt(c, x)
<1>1. m \in Clear /\ r \in Clear /\ m \in Path /\ r \in Path /\ x \in Path
  BY SeesPaths, ClearIsPath
<1>2. Below(c, x) = m \o q
  BY <1>1, ConcatAssoc DEF Below, OnHostAt
<1>3. q \in Clear /\ m \o q \in Clear /\ IsPrefix(r, q)
  <2>1. q \in Clear /\ IsPrefix(r, q)
    BY <1>1, ClearConcat, PrefixOfConcat DEF OnHostAt
  <2> HIDE DEF q
  <2> QED BY <1>1, <2>1, ClearConcat
<1>4. IsView(V, T, m) /\ Tidy(T, r)
  BY DEF Sees
<1> HIDE DEF q, m, r
<1>5. /\ EvalSymlinks(T, q) \in Clear
      /\ EvalSymlinks(V, m \o q) = m \o EvalSymlinks(T, q)
      /\ IsPrefix(r, q) => IsPrefix(r, EvalSymlinks(T, q))
      /\ Stat(V, m \o q) = Stat(T, q)
  BY <1>3, <1>4, SeenBelow
<1> QED BY <1>2, <1>3, <1>5 DEF q, m, r

\* A name in a directory, where it is seen and where it is.
IsPlace(c, d, n, x) ==
    /\ x = d \o <<n>> /\ x \in Clear /\ x # <<>>
    /\ (SearchRoot(c) \o d) \o <<n>> = Below(c, x)
    /\ Append(SearchRoot(c) \o d, n) = Below(c, x)
    /\ SearchRoot(c) \o d = Below(c, d)
    /\ OnHostAt(c, x) = Append(OnHostAt(c, d), n)
    /\ Below(c, x) \in Path /\ Below(c, d) \in Path

LEMMA PlaceBelow ==
    ASSUME NEW c, NEW V, NEW T, Sees(c, V, T), NEW d \in Clear, NEW n \in Name, n # ".."
    PROVE  IsPlace(c, d, n, d \o <<n>>)
<1> DEFINE sr == c.hostRoot \o c.driverRoot
<1>1. d \in Path /\ <<n>> \in Path /\ sr \in Path /\ SearchRoot(c) = sr /\ c.driverRoot \in Path
  BY ClearIsPath, SeesPaths, SingletonPath
<1>2. d \o <<n>> = Append(d, n)
  BY <1>1, LastOf
<1>3. d \o <<n>> \in Clear /\ d \o <<n>> # <<>>
  <2>1. Len(Append(d, n)) # 0
    BY <1>1, LastOf, PathLen
  <2> QED BY <1>2, <2>1, ClearAppend, EmptyIsSeq
<1> HIDE DEF sr
<1>4. (sr \o d) \o <<n>> = sr \o (d \o <<n>>) /\ sr \o d \in Path
  BY <1>1, ConcatAssoc, PathConcat
<1>5. Append(sr \o d, n) = (sr \o d) \o <<n>>
  BY <1>4, LastOf
<1>6. Append(c.driverRoot \o d, n) = c.driverRoot \o (d \o <<n>>)
  <2> DEFINE r == c.driverRoot
  <2>1. r \in Path
    BY <1>1
  <2> HIDE DEF r
  <2>2. Append(r \o d, n) = r \o Append(d, n)
    BY <1>1, <2>1, AppendConcat
  <2> QED BY <1>2, <2>2 DEF r
<1>7. sr \o (d \o <<n>>) \in Path
  BY <1>1, <1>3, ClearIsPath, PathConcat
<1> QED BY <1>1, <1>3, <1>4, <1>5, <1>6, <1>7 DEF IsPlace, Below, OnHostAt, sr

LEMMA EntriesBelow ==
    ASSUME NEW c, NEW V, NEW T, Sees(c, V, T), NEW d \in Clear
    PROVE  /\ Entries(V, Below(c, d)) = Entries(T, OnHostAt(c, d))
           /\ \A n \in ToSet(Names) :
                NodeAt(V, Append(EvalSymlinks(V, Below(c, d)), n)) = NodeAt(T, Append(EvalSymlinks(T, OnHostAt(c, d)), n))
<1> DEFINE e == EvalSymlinks(T, OnHostAt(c, d))
           m == c.hostRoot
<1>1. e \in Clear /\ EvalSymlinks(V, Below(c, d)) = m \o e
  BY SeesBelow
<1>2. e \in Path /\ m \in Path /\ IsView(V, T, m)
  BY <1>1, ClearIsPath, SeesPaths DEF Sees
<1> HIDE DEF e
<1>3. \A n \in ToSet(Names) : n \in Name
  BY DiscoveryAssumption DEF ToSet
<1>4. ASSUME NEW n \in ToSet(Names)
      PROVE  /\ NodeAt(V, Append(m \o e, n)) = NodeAt(T, Append(e, n))
             /\ Append(m \o e, n) \in DOMAIN V <=> Append(e, n) \in DOMAIN T
  <2>1. Append(m \o e, n) = m \o Append(e, n) /\ Append(e, n) \in Path
    BY <1>2, <1>3, AppendConcat, LastOf
  <2> DEFINE q == Append(e, n)
  <2> HIDE DEF q
  <2>2. NodeAt(V, m \o q) = NodeAt(T, q) /\ (m \o q \in DOMAIN V <=> q \in DOMAIN T)
    BY <1>2, <2>1, ViewNode DEF q
  <2> QED BY <2>1, <2>2 DEF q
<1>5. /\ Entries(V, Below(c, d)) = Only(Names, {i \in DOMAIN Names : Append(m \o e, Names[i]) \in DOMAIN V})
      /\ Entries(T, OnHostAt(c, d)) = Only(Names, {i \in DOMAIN Names : Append(e, Names[i]) \in DOMAIN T})
  BY <1>1 DEF Entries, EntriesOf, Filter, e
<1>6. \A i \in DOMAIN Names : Append(m \o e, Names[i]) \in DOMAIN V <=> Append(e, Names[i]) \in DOMAIN T
  BY <1>4 DEF ToSet
<1>7. Entries(V, Below(c, d)) = Entries(T, OnHostAt(c, d))
  BY <1>5, <1>6
<1> QED BY <1>1, <1>4, <1>7 DEF e

LEMMA NamesAre ==
    ASSUME NEW c, ClearNames(c), NEW n \in ToSet(Names)
    PROVE  n \in Name /\ n # ".."
BY DiscoveryAssumption DEF ToSet, ClearNames

\* The driver's libraries are there.
LEMMA MatchesThere ==
    ASSUME NEW c, NEW V, NEW T, Sees(c, V, T), ClearNames(c), NEW d \in Clear
    PROVE  IsSeq(MatchesIn(V, SearchRoot(c) \o d)) /\ ToSet(MatchesIn(V, SearchRoot(c) \o d)) \subseteq SeenPaths(c, T)
<1> DEFINE dir == SearchRoot(c) \o d
           names == Entries(V, dir)
           paths == [i \in DOMAIN names |-> Append(dir, names[i])]
           kept == {i \in DOMAIN paths : Last(paths[i]) \in RblnName /\ Lstat(V, paths[i]).kind = "file"}
<1>1. IsSeq(names) /\ \A i \in DOMAIN names : names[i] \in ToSet(Names)
  BY EntriesElements DEF ToSet
<1>2. MatchesIn(V, dir) = Only(paths, kept)
  BY DEF MatchesIn, Filter
<1>3. IsSeq(paths) /\ DOMAIN paths = DOMAIN names
  <2>1. paths = [i \in DOMAIN names |-> paths[i]]
    OBVIOUS
  <2> HIDE DEF paths, names
  <2> QED BY <1>1, <2>1, MappedIsSeq
<1>4. IsSeq(Only(paths, kept)) /\ ToSet(Only(paths, kept)) = {paths[i] : i \in DOMAIN paths \cap kept}
  <2> HIDE DEF paths, kept
  <2> QED BY <1>3, OnlyElements
<1>5. ASSUME NEW i \in DOMAIN paths, i \in kept PROVE paths[i] \in SeenPaths(c, T)
  <2> DEFINE n == names[i]
             x == d \o <<n>>
             e == EvalSymlinks(T, OnHostAt(c, d))
  <2>1. n \in ToSet(Names)
    BY <1>1, <1>3
  <2> HIDE DEF n
  <2>2. n \in Name /\ n # ".."
    BY <2>1, NamesAre
  <2>3. /\ x \in Clear /\ x # <<>> /\ Append(dir, n) = Below(c, x) /\ dir = Below(c, d) /\ dir \in Path
        /\ OnHostAt(c, x) = Append(OnHostAt(c, d), n)
    <3>1. IsPlace(c, d, n, x)
      BY <2>2, PlaceBelow
    <3> QED BY <3>1 DEF IsPlace
  <2>4. Front(Append(dir, n)) = dir /\ Last(Append(dir, n)) = n
    BY <2>2, <2>3, LastOf
  <2>5. Lstat(V, Append(dir, n)).kind = "file"
    BY <1>5 DEF n
  <2>6. NodeAt(V, Append(EvalSymlinks(V, Below(c, d)), n)).kind = "file"
    BY <2>3, <2>4, <2>5 DEF Lstat
  <2>7. NodeAt(T, Append(e, n)).kind = "file"
    BY <2>1, <2>6, EntriesBelow
  <2>8. Stat(T, Append(OnHostAt(c, d), n)).kind = "file"
    <3>1. IsTree(T) /\ Tidy(T, c.driverRoot)
      BY DEF Sees, IsView
    <3>2. OnHostAt(c, d) \in Clear
      BY SeesBelow
    <3> QED BY <2>2, <2>7, <3>1, <3>2, FileIsThere
  <2>9. x \in There(c, T)
    <3> HIDE DEF x
    <3>1. Stat(T, OnHostAt(c, x)).kind = "file"
      BY <2>3, <2>8
    <3>2. Stat(T, OnHostAt(c, x)) # NoNode
      BY <3>1 DEF NoNode
    <3> QED BY <2>3, <3>2 DEF There
  <2>10. paths[i] = Below(c, x)
    BY <2>3 DEF n
  <2> QED BY <2>9, <2>10 DEF SeenPaths
<1> HIDE DEF paths, kept
<1> QED BY <1>2, <1>4, <1>5

LEMMA RBLNThere ==
    ASSUME NEW c, NEW V, NEW T, Sees(c, V, T), ClearNames(c)
    PROVE  \A l \in ToSet(DiscoverRBLN(c, V)) : l.path \in HostPaths(c, T)
<1> DEFINE matches == [i \in DOMAIN c.libDirs |-> MatchesIn(V, SearchRoot(c) \o c.libDirs[i])]
           all == FlattenSeq(matches)
           keys == [i \in DOMAIN all |-> RealPath(V, all[i])]
           once == Firsts(all, keys)
           libs == [i \in DOMAIN once |-> Library(c, ToHostPath(c, once[i]))]
<1>1. IsSeq(c.libDirs) /\ \A i \in DOMAIN c.libDirs : c.libDirs[i] \in Clear
  <2>1. IsSeq(c.libDirs) /\ ToSet(c.libDirs) \subseteq Clear
    BY SeqElements DEF Sees, IsConfig, ClearNames
  <2> QED BY <2>1, ElementsOfSeq
<1>2. \A i \in DOMAIN c.libDirs : IsSeq(matches[i]) /\ ToSet(matches[i]) \subseteq SeenPaths(c, T)
  BY <1>1, MatchesThere
<1>3. IsSeq(matches) /\ DOMAIN matches = DOMAIN c.libDirs
  <2>1. matches = [i \in DOMAIN c.libDirs |-> matches[i]]
    OBVIOUS
  <2> HIDE DEF matches
  <2> QED BY <1>1, <2>1, MappedIsSeq
<1> HIDE DEF matches
<1>4. IsSeq(all) /\ ToSet(all) \subseteq SeenPaths(c, T)
  BY <1>2, <1>3, FlattenInto
<1>5. DiscoverRBLN(c, V) = libs
  BY DEF DiscoverRBLN, Flatten, Map, FirstOf, matches
<1> HIDE DEF all
<1>6. DOMAIN keys = DOMAIN all
  OBVIOUS
<1> HIDE DEF keys
<1>7. IsSeq(once) /\ ToSet(once) \subseteq SeenPaths(c, T)
  BY <1>4, <1>6, KeptElements
<1> HIDE DEF once
<1>8. \A i \in DOMAIN once : libs[i].path \in HostPaths(c, T)
  BY <1>7, AppendInto, SeenToHost DEF Library
<1>9. DOMAIN libs = DOMAIN once
  OBVIOUS
<1> HIDE DEF libs
<1> QED BY <1>5, <1>8, <1>9 DEF ToSet

\* The plugins are there, unless one of them is a link to nowhere.
NoDangling(c, T) ==
    \A d \in ToSet(c.pluginDirs) :
        \A n \in ToSet(Entries(T, OnHostAt(c, d))) \cap SharedObject : d \o <<n>> \in There(c, T)

LEMMA PluginsThere ==
    ASSUME NEW c, NEW V, NEW T, Sees(c, V, T), ClearNames(c), NoDangling(c, T)
    PROVE  \A l \in ToSet(DiscoverPlugins(c, V)) : l.path \in HostPaths(c, T)
<1> DEFINE dir(i) == SearchRoot(c) \o c.pluginDirs[i]
           names(i) == Only(Entries(V, dir(i)), {j \in DOMAIN Entries(V, dir(i)) : Entries(V, dir(i))[j] \in SharedObject})
           inDir(i) == [j \in DOMAIN names(i) |-> dir(i) \o <<names(i)[j]>>]
           found == [i \in DOMAIN c.pluginDirs |-> inDir(i)]
           all == FlattenSeq(found)
           keys == [i \in DOMAIN all |-> RealPath(V, all[i])]
           once == Firsts(all, keys)
           plugins == [i \in DOMAIN once |-> Plugin(c, ToHostPath(c, once[i]), Last(Front(once[i])))]
<1>1. IsSeq(c.pluginDirs) /\ \A i \in DOMAIN c.pluginDirs : c.pluginDirs[i] \in Clear /\ c.pluginDirs[i] \in ToSet(c.pluginDirs)
  <2>1. IsSeq(c.pluginDirs) /\ ToSet(c.pluginDirs) \subseteq Clear
    BY SeqElements DEF Sees, IsConfig, ClearNames
  <2> QED BY <2>1, ElementsOfSeq, AppendInto
<1>2. ASSUME NEW i \in DOMAIN c.pluginDirs PROVE IsSeq(inDir(i)) /\ ToSet(inDir(i)) \subseteq SeenPaths(c, T)
  <2> DEFINE d == c.pluginDirs[i]
             entries == Entries(V, dir(i))
             kept == {j \in DOMAIN entries : entries[j] \in SharedObject}
             t == inDir(i)
  <2>1. d \in Clear /\ d \in ToSet(c.pluginDirs)
    BY <1>1
  <2>2. IsSeq(entries) /\ ToSet(entries) \subseteq ToSet(Names)
    BY EntriesElements
  <2>3. IsSeq(Only(entries, kept)) /\ ToSet(Only(entries, kept)) = {entries[j] : j \in DOMAIN entries \cap kept}
    <3> HIDE DEF entries, kept
    <3> QED BY <2>2, OnlyElements
  <2>4. ToSet(Only(entries, kept)) \subseteq ToSet(entries) \cap SharedObject
    <3>1. \A j \in DOMAIN entries \cap kept : entries[j] \in ToSet(entries) /\ entries[j] \in SharedObject
      <4> HIDE DEF entries
      <4> QED BY <2>2, AppendInto
    <3> HIDE DEF entries, kept
    <3> QED BY <2>3, <3>1
  <2>5. names(i) = Only(entries, kept)
    OBVIOUS
  <2>6. IsSeq(names(i)) /\ ToSet(names(i)) \subseteq ToSet(entries) \cap SharedObject
    <3> HIDE DEF names, entries, kept
    <3> QED BY <2>3, <2>4, <2>5
  <2> HIDE DEF d, kept
  <2>7. ASSUME NEW n \in ToSet(entries) \cap SharedObject PROVE dir(i) \o <<n>> \in SeenPaths(c, T)
    <3>1. n \in Name /\ n # ".."
      BY <2>2, <2>7, NamesAre
    <3>2. IsPlace(c, d, n, d \o <<n>>)
      BY <2>1, <3>1, PlaceBelow
    <3>3. dir(i) = Below(c, d) /\ dir(i) \o <<n>> = Below(c, d \o <<n>>)
      BY <3>2 DEF IsPlace, d
    <3>4. n \in ToSet(Entries(T, OnHostAt(c, d)))
      BY <2>1, <2>7, <3>3, EntriesBelow
    <3>5. d \o <<n>> \in There(c, T)
      BY <2>1, <2>7, <3>4 DEF NoDangling
    <3> QED BY <3>3, <3>5 DEF SeenPaths
  <2>8. t = [j \in DOMAIN names(i) |-> t[j]] /\ \A j \in DOMAIN names(i) : t[j] \in SeenPaths(c, T)
    <3>1. \A j \in DOMAIN names(i) : names(i)[j] \in ToSet(entries) \cap SharedObject
      <4> HIDE DEF names, entries
      <4> QED BY <2>6, ElementsOfSeq
    <3>2. t = [j \in DOMAIN names(i) |-> dir(i) \o <<names(i)[j]>>]
      OBVIOUS
    <3> HIDE DEF t, names, entries, dir
    <3> QED BY <2>7, <3>1, <3>2
  <2> HIDE DEF names, entries, t
  <2>9. IsSeq(t) /\ ToSet(t) \subseteq SeenPaths(c, T)
    BY <2>6, <2>8, MappedInto
  <2> QED BY <2>9 DEF t
<1>3. IsSeq(found) /\ DOMAIN found = DOMAIN c.pluginDirs /\ \A i \in DOMAIN found : found[i] = inDir(i)
  <2>1. found = [i \in DOMAIN c.pluginDirs |-> found[i]] /\ \A i \in DOMAIN c.pluginDirs : found[i] = inDir(i)
    OBVIOUS
  <2> HIDE DEF found, inDir
  <2> QED BY <1>1, <2>1, MappedIsSeq
<1> HIDE DEF inDir
<1>4. IsSeq(all) /\ ToSet(all) \subseteq SeenPaths(c, T)
  <2>1. \A i \in DOMAIN found : IsSeq(found[i]) /\ ToSet(found[i]) \subseteq SeenPaths(c, T)
    BY <1>2, <1>3
  <2> HIDE DEF found
  <2> QED BY <1>3, <2>1, FlattenInto
<1>5. DiscoverPlugins(c, V) = plugins
  BY DEF DiscoverPlugins, Flatten, Map, FirstOf, Filter, inDir
<1> HIDE DEF found, all
<1>6. DOMAIN keys = DOMAIN all
  OBVIOUS
<1> HIDE DEF keys
<1>7. IsSeq(once) /\ ToSet(once) \subseteq SeenPaths(c, T)
  BY <1>4, <1>6, KeptElements
<1> HIDE DEF once
<1>8. \A i \in DOMAIN once : plugins[i].path \in HostPaths(c, T)
  BY <1>7, AppendInto, SeenToHost DEF Plugin
<1>9. DOMAIN plugins = DOMAIN once
  OBVIOUS
<1> HIDE DEF plugins
<1> QED BY <1>5, <1>8, <1>9 DEF ToSet

\* A provider's files are there.
LEMMA ProvidersThere ==
    ASSUME NEW c, NEW V, NEW T, Sees(c, V, T), ClearNames(c)
    PROVE  \A p \in ToSet(DiscoverRDMAProviders(c, V)) :
              /\ p.path \in Clear /\ Stat(T, p.path) # NoNode
              /\ p.driver # <<>> => p.driver \in Clear /\ Stat(T, p.driver) # NoNode
<1> DEFINE isHostFile(p) == Stat(V, c.hostRoot \o p).kind = "file"
           kept == {i \in DOMAIN c.providers :
                      /\ isHostFile(c.providers[i].library)
                      /\ c.providers[i].driver # <<>> => isHostFile(c.providers[i].driver)}
           only == Only(c.providers, kept)
           found == [i \in DOMAIN only |->
                       [path |-> only[i].library, driver |-> only[i].driver,
                        cpath |-> Append(c.providerDir, Last(only[i].library))]]
<1>1. DiscoverRDMAProviders(c, V) = IF c.providerDir = <<>> THEN <<>> ELSE found
  BY DEF DiscoverRDMAProviders, Filter, Map
<1>2. ASSUME NEW i \in DOMAIN c.providers \cap kept
      PROVE  /\ c.providers[i] \in ToSet(c.providers)
             /\ isHostFile(c.providers[i].library)
             /\ c.providers[i].driver # <<>> => isHostFile(c.providers[i].driver)
  BY DEF ToSet
<1>3. ASSUME NEW q \in Clear, isHostFile(q) PROVE Stat(T, q) # NoNode
  <2>1. Stat(V, c.hostRoot \o q) = Stat(T, q)
    BY SeenBelow DEF Sees
  <2> QED BY <1>3, <2>1 DEF NoNode
<1> HIDE DEF kept, isHostFile
<1>4. IsSeq(only) /\ ToSet(only) = {c.providers[i] : i \in DOMAIN c.providers \cap kept}
  BY OnlyElements DEF Sees, IsConfig
<1>5. ASSUME NEW p \in ToSet(only)
      PROVE  /\ p.library \in Clear /\ Stat(T, p.library) # NoNode
             /\ p.driver # <<>> => p.driver \in Clear /\ Stat(T, p.driver) # NoNode
  <2>1. /\ p \in ToSet(c.providers) /\ isHostFile(p.library)
        /\ p.driver # <<>> => isHostFile(p.driver)
    BY <1>2, <1>4, <1>5
  <2>2. p.library \in Clear /\ p.driver \in Clear
    BY <2>1 DEF ClearNames
  <2> QED BY <1>3, <2>1, <2>2
<1> HIDE DEF only
<1>6. \A i \in DOMAIN only : /\ only[i] \in ToSet(only)
                             /\ found[i].path = only[i].library /\ found[i].driver = only[i].driver
  BY <1>4, AppendInto
<1>7. DOMAIN found = DOMAIN only
  OBVIOUS
<1> HIDE DEF found
<1>8. ASSUME NEW p \in ToSet(found)
      PROVE  /\ p.path \in Clear /\ Stat(T, p.path) # NoNode
             /\ p.driver # <<>> => p.driver \in Clear /\ Stat(T, p.driver) # NoNode
  <2>1. PICK i \in DOMAIN only : p = found[i]
    BY <1>7, <1>8 DEF ToSet
  <2> QED BY <1>5, <1>6, <2>1
<1>9. ToSet(<<>>) = {}
  BY EmptyIsSeq
<1> QED BY <1>1, <1>8, <1>9

\* The tools are there.
LEMMA ToolsThere ==
    ASSUME NEW c, NEW V, NEW T, Sees(c, V, T), ClearNames(c)
    PROVE  \A t \in ToSet(DiscoverTools(c, V)) : t.path \in HostPaths(c, T)
<1> DEFINE first(t) == FirstN(FindTool(c, V, t), 1)
           tool(t) == [i \in DOMAIN first(t) |-> Tool(c, ToolHostPath(c, first(t)[i]))]
           found == [i \in DOMAIN c.tools |-> tool(c.tools[i])]
           All == {Tool(c, p) : p \in HostPaths(c, T)}
<1>1. DiscoverTools(c, V) = FlattenSeq(found)
  BY DEF DiscoverTools, Flatten, Map
<1>2. ASSUME NEW t \in Name, t # ".." PROVE IsSeq(tool(t)) /\ ToSet(tool(t)) \subseteq All
  <2> DEFINE places == [i \in DOMAIN c.binDirs |-> SearchRoot(c) \o c.binDirs[i] \o <<t>>]
             kept == {i \in DOMAIN places : Stat(V, places[i]).kind = "file" /\ Stat(V, places[i]).exec}
             usable == Only(places, kept)
  <2>1. FindTool(c, V, t) = usable
    BY DEF FindTool, Map, Filter
  <2>2. IsSeq(c.binDirs) /\ \A i \in DOMAIN c.binDirs : c.binDirs[i] \in Clear
    <3>1. IsSeq(c.binDirs) /\ ToSet(c.binDirs) \subseteq Clear
      BY SeqElements DEF Sees, IsConfig, ClearNames
    <3> QED BY <3>1, ElementsOfSeq
  <2>3. IsSeq(places) /\ DOMAIN places = DOMAIN c.binDirs
    <3>1. places = [i \in DOMAIN c.binDirs |-> places[i]]
      OBVIOUS
    <3> HIDE DEF places
    <3> QED BY <2>2, <3>1, MappedIsSeq
  <2>4. ASSUME NEW i \in DOMAIN places \cap kept PROVE places[i] \in SeenPaths(c, T)
    <3> DEFINE d == c.binDirs[i]
               x == d \o <<t>>
    <3>1. d \in Clear /\ places[i] = (SearchRoot(c) \o d) \o <<t>> /\ Stat(V, places[i]).kind = "file"
      BY <2>2, <2>3
    <3> HIDE DEF d, places, kept
    <3>2. IsPlace(c, d, t, x)
      BY <1>2, <3>1, PlaceBelow
    <3>3. places[i] = Below(c, x) /\ x \in Clear /\ x # <<>>
      BY <3>1, <3>2 DEF IsPlace
    <3>4. Stat(V, Below(c, x)) = Stat(T, OnHostAt(c, x))
      BY <3>3, SeesBelow
    <3>5. Stat(T, OnHostAt(c, x)) # NoNode
      <4>1. Stat(T, OnHostAt(c, x)).kind = "file"
        BY <3>1, <3>3, <3>4
      <4> QED BY <4>1 DEF NoNode
    <3> QED BY <3>3, <3>5 DEF SeenPaths, There
  <2> HIDE DEF places, kept
  <2>5. IsSeq(usable) /\ ToSet(usable) \subseteq SeenPaths(c, T)
    <3>1. IsSeq(usable) /\ ToSet(usable) = {places[i] : i \in DOMAIN places \cap kept}
      BY <2>3, OnlyElements
    <3> QED BY <2>4, <3>1
  <2> HIDE DEF usable
  <2>6. FirstN(usable, 1) \in Seq(SeenPaths(c, T))
    <3>1. \A i \in DOMAIN usable : usable[i] \in SeenPaths(c, T)
      BY <2>5, ElementsOfSeq
    <3>2. usable \in Seq(SeenPaths(c, T))
      <4> DEFINE S == SeenPaths(c, T)
      <4>1. Len(usable) \in Nat /\ DOMAIN usable = 1..Len(usable) /\ usable = [i \in 1..Len(usable) |-> usable[i]]
        BY <2>5, IsSeqLen
      <4> HIDE DEF S
      <4> QED BY <3>1, <4>1 DEF S
    <3> QED BY <3>2 DEF FirstN
  <2>7. IsSeq(first(t)) /\ \A i \in DOMAIN first(t) : first(t)[i] \in SeenPaths(c, T)
    BY <2>1, <2>6, SeqElements
  <2> DEFINE s == first(t)
             r == tool(t)
  <2>8. r = [i \in DOMAIN s |-> r[i]] /\ \A i \in DOMAIN s : r[i] = Tool(c, ToolHostPath(c, s[i]))
    OBVIOUS
  <2> HIDE DEF s, r
  <2>9. \A i \in DOMAIN s : r[i] \in All
    BY <2>7, <2>8, SeenToHost DEF s
  <2> HIDE DEF All
  <2>10. IsSeq(r) /\ ToSet(r) \subseteq All
    BY <2>7, <2>8, <2>9, MappedInto DEF s
  <2> QED BY <2>10 DEF r
<1>3. \A x \in All : x.path \in HostPaths(c, T)
  BY DEF Tool
<1> HIDE DEF tool, All
<1>4. IsSeq(c.tools) /\ \A i \in DOMAIN c.tools : c.tools[i] \in Name /\ c.tools[i] # ".."
  <2>1. IsSeq(c.tools) /\ \A i \in DOMAIN c.tools : c.tools[i] \in Name
    BY SeqElements DEF Sees, IsConfig
  <2> QED BY <2>1, AppendInto DEF ClearNames
<1>5. IsSeq(found) /\ DOMAIN found = DOMAIN c.tools /\ \A i \in DOMAIN found : found[i] = tool(c.tools[i])
  <2>1. found = [i \in DOMAIN c.tools |-> found[i]] /\ \A i \in DOMAIN c.tools : found[i] = tool(c.tools[i])
    OBVIOUS
  <2> HIDE DEF found
  <2> QED BY <1>4, <2>1, MappedIsSeq
<1>6. \A i \in DOMAIN found : IsSeq(found[i]) /\ ToSet(found[i]) \subseteq All
  BY <1>2, <1>4, <1>5
<1> HIDE DEF found
<1>7. ToSet(FlattenSeq(found)) \subseteq All
  BY <1>5, <1>6, FlattenInto
<1> QED BY <1>1, <1>3, <1>7

\* Below the driver's root nothing has a path that looks like one from "/".
WellApart(c, T) ==
    /\ \A p \in DOMAIN T :
         IsPrefix(c.driverRoot, p) => Apart(c.driverRoot, c.hostRoot, SubSeq(p, Len(c.driverRoot) + 1, Len(p)))
    /\ \A d \in ToSet(c.libDirs), n \in ToSet(Names) : Apart(c.driverRoot, c.hostRoot, d \o <<n>>)

\* What the ELF resolver finds, and its queues.
Resolvable(c, T) == {x \in There(c, T) : Apart(c.driverRoot, c.hostRoot, x)}
BelowPaths(c) == {Below(c, x) : x \in Clear}
Queues(c, T) ==
    {v \in Seq([rel : Path, full : BelowPaths(c)]) :
       v # <<>> /\ \A i \in 1..Len(v) : i # 1 => v[i].rel \in Resolvable(c, T)}

\* Where os.Stat finds something, the path behind the links is the thing's own.
LEMMA RealIsThere ==
    ASSUME NEW T, NEW root, IsTree(T), Tidy(T, root), NEW q \in Clear, Stat(T, q) # NoNode
    PROVE  LET e == EvalSymlinks(T, q)
           IN  e \in DOMAIN T /\ EvalSymlinks(T, e) = e /\ Stat(T, e) = Stat(T, q) /\ Stat(T, q) = T[e]
<1> DEFINE e == EvalSymlinks(T, q)
<1>1. Stat(T, q) = NoLink(NodeAt(T, e))
  BY DEF Stat
<1> HIDE DEF e
<1>2. e \in DOMAIN T /\ T[e].kind # "link" /\ Stat(T, q) = T[e] /\ NodeAt(T, e) = T[e]
  BY <1>1 DEF NodeAt, NoLink, NoNode
<1>3. EvalSymlinks(T, e) = e
  BY <1>2, NodeIsThere
<1> QED BY <1>1, <1>2, <1>3 DEF Stat, e

LEMMA ResolvedThere ==
    ASSUME NEW c, NEW V, NEW T, Sees(c, V, T), ClearNames(c), WellApart(c, T), NEW name \in ToSet(Names)
    PROVE  ResolveLibrary(c, V, name) = <<>> \/ ResolveLibrary(c, V, name) \in Resolvable(c, T)
<1> DEFINE kept == {i \in DOMAIN c.libDirs : Stat(V, SearchRoot(c) \o c.libDirs[i] \o <<name>>) # NoNode}
           usable == Only(c.libDirs, kept)
           d == Head(usable)
           p == SearchRoot(c) \o d \o <<name>>
           x == d \o <<name>>
           q == OnHostAt(c, x)
           m == c.hostRoot
           r == c.driverRoot
<1>1. ResolveLibrary(c, V, name) = IF usable = <<>> THEN <<>> ELSE Resolved(c, V, p)
  BY DEF ResolveLibrary, Filter
<1> SUFFICES ASSUME usable # <<>> PROVE Resolved(c, V, p) = <<>> \/ Resolved(c, V, p) \in Resolvable(c, T)
  BY <1>1
<1>2. IsSeq(c.libDirs) /\ ToSet(c.libDirs) \subseteq Clear
  BY SeqElements DEF Sees, IsConfig, ClearNames
<1>3. IsSeq(usable) /\ ToSet(usable) = {c.libDirs[i] : i \in DOMAIN c.libDirs \cap kept}
  <2> HIDE DEF kept
  <2> QED BY <1>2, OnlyElements
<1>4. d \in ToSet(usable)
  <2> HIDE DEF usable
  <2>1. Len(usable) \in Nat /\ DOMAIN usable = 1..Len(usable) /\ usable \in Seq(ToSet(usable))
    BY <1>3, IsSeqLen DEF IsSeq
  <2>2. Len(usable) # 0 /\ Head(usable) = usable[1]
    BY <2>1
  <2>3. 1 \in DOMAIN usable
    BY <2>1, <2>2
  <2> QED BY <1>3, <2>2, <2>3, AppendInto
<1>5. d \in ToSet(c.libDirs) /\ d \in Clear /\ Stat(V, p) # NoNode
  <2>1. PICK i \in DOMAIN c.libDirs \cap kept : d = c.libDirs[i]
    BY <1>3, <1>4
  <2> HIDE DEF d
  <2> QED BY <1>2, <2>1, AppendInto
<1> HIDE DEF d, usable, kept
<1>6. name \in Name /\ name # ".."
  BY NamesAre
<1>7. x \in Clear /\ x # <<>> /\ p = Below(c, x)
  <2>1. IsPlace(c, d, name, x)
    BY <1>5, <1>6, PlaceBelow
  <2> QED BY <2>1 DEF IsPlace
<1> HIDE DEF p, x
<1>8. /\ EvalSymlinks(V, p) = m \o EvalSymlinks(T, q) /\ EvalSymlinks(T, q) \in Clear
      /\ IsPrefix(r, EvalSymlinks(T, q))
      /\ Stat(T, q) # NoNode /\ q \in Clear
  BY <1>5, <1>7, SeesBelow
<1>9. m \in Path /\ r \in Path /\ SearchRoot(c) = m \o r /\ m \o r \in Path /\ IsTree(T) /\ Tidy(T, r)
  BY SeesPaths DEF Sees, IsView
<1>10. CASE Lstat(V, p).kind = "link"
  <2> DEFINE e == EvalSymlinks(T, q)
  <2>1. e \in DOMAIN T /\ Stat(T, e) = Stat(T, q)
    BY <1>8, <1>9, RealIsThere
  <2>2. e \in Clear /\ IsPrefix(r, e) /\ EvalSymlinks(V, p) = m \o e
    BY <1>8
  <2> HIDE DEF e, m, r
  <2>3. PICK y \in Clear : e = r \o y /\ y = SubSeq(e, Len(r) + 1, Len(e))
    BY <1>9, <2>2, ClearSplit
  <2>4. y \in Path /\ m \o e = (m \o r) \o y
    BY <1>9, <2>3, ClearIsPath, ConcatAssoc
  <2>5. Rel(m \o r, (m \o r) \o y) = y
    <3> DEFINE a == m \o r
    <3>1. a \in Path
      BY <1>9
    <3> HIDE DEF a
    <3>2. Rel(a, a \o y) = y
      BY <2>4, <3>1, RelBelow
    <3> QED BY <3>2 DEF a
  <2>6. Resolved(c, V, p) = y
    BY <1>9, <1>10, <2>2, <2>4, <2>5 DEF Resolved, m, r
  <2>7. Apart(r, m, y)
    BY <2>1, <2>2, <2>3 DEF WellApart, m, r
  <2>8. Stat(T, OnHostAt(c, y)) # NoNode
    BY <1>8, <2>1, <2>3 DEF OnHostAt, r
  <2> QED BY <2>3, <2>6, <2>7, <2>8 DEF Resolvable, There, m, r
<1>11. CASE Lstat(V, p).kind # "link"
  <2>1. TrimPrefix(p, m \o r) = x
    BY <1>7, <1>9, ClearIsPath, TrimRoot DEF Below
  <2>2. Resolved(c, V, p) = x
    BY <1>9, <1>11, <2>1 DEF Resolved
  <2>3. Apart(r, m, x)
    BY <1>5 DEF WellApart, x
  <2> QED BY <1>7, <1>8, <2>2, <2>3 DEF Resolvable, There
<1> QED BY <1>10, <1>11

\* What a library needs is named by a name.
LEMMA NeededNames ==
    ASSUME NEW c, NEW V, NEW T, Sees(c, V, T), NEW full \in BelowPaths(c)
    PROVE  Needed(V, full) \in Seq(ToSet(Names))
<1>1. PICK x \in Clear : full = Below(c, x)
  BY DEF BelowPaths
<1>2. Stat(V, full) = Stat(T, OnHostAt(c, x)) /\ OnHostAt(c, x) \in Clear
  BY <1>1, SeesBelow
<1>3. CASE Stat(V, full).kind # "file"
  <2>1. <<>> \in Seq(ToSet(Names))
    OBVIOUS
  <2> QED BY <1>3, <2>1 DEF Needed
<1>4. CASE Stat(V, full).kind = "file"
  <2> DEFINE q == OnHostAt(c, x)
             e == EvalSymlinks(T, q)
  <2>1. IsTree(T) /\ Tidy(T, c.driverRoot)
    BY DEF Sees, IsView
  <2>2. Stat(T, q) # NoNode
    <3>1. Stat(T, q).kind = "file"
      BY <1>2, <1>4
    <3> QED BY <3>1 DEF NoNode
  <2>3. e \in DOMAIN T /\ Stat(T, q) = T[e]
    BY <1>2, <2>1, <2>2, RealIsThere
  <2> DEFINE needs == T[e].needs
  <2>4. T[e].kind = "file" /\ needs \in Seq(Name) /\ \A i \in DOMAIN needs : needs[i] \in ToSet(Names)
    BY <1>2, <1>4, <2>1, <2>3 DEF IsTree, IsNode, Tidy
  <2>5. Needed(V, full) = needs
    BY <1>2, <1>4, <2>3 DEF Needed
  <2> HIDE DEF needs
  <2>6. needs \in Seq(ToSet(Names))
    BY <2>4
  <2> QED BY <2>5, <2>6
<1> QED BY <1>3, <1>4

LEMMA QueueAppend ==
    ASSUME NEW c, NEW T, NEW v \in Queues(c, T), NEW x \in [rel : Path, full : BelowPaths(c)], x.rel \in Resolvable(c, T)
    PROVE  Append(v, x) \in Queues(c, T)
<1> DEFINE S == [rel : Path, full : BelowPaths(c)]
           more == Append(v, x)
<1>1. v \in Seq(S) /\ \A i \in 1..Len(v) : i # 1 => v[i].rel \in Resolvable(c, T)
  BY DEF Queues
<1> HIDE DEF S
<1>2. more \in Seq(S)
  BY <1>1, SeqAppend DEF S
<1>3. /\ Len(v) \in Nat /\ Len(more) = Len(v) + 1 /\ more[Len(v) + 1] = x
      /\ \A i \in 1..Len(v) : more[i] = v[i]
  BY <1>1
<1>4. more # <<>>
  <2> HIDE DEF more
  <2> QED BY <1>3, EmptyIsSeq
<1> HIDE DEF more
<1>5. ASSUME NEW i \in 1..Len(more), i # 1 PROVE more[i].rel \in Resolvable(c, T)
  <2>1. CASE i = Len(v) + 1
    BY <1>3, <2>1
  <2>2. CASE i # Len(v) + 1
    <3>1. i \in 1..Len(v)
      BY <1>3, <2>2
    <3> QED BY <1>1, <1>3, <1>5, <3>1
  <2> QED BY <2>1, <2>2
<1> QED BY <1>2, <1>4, <1>5 DEF Queues, S, more

LEMMA VisitThere ==
    ASSUME NEW c, NEW V, NEW T, Sees(c, V, T), ClearNames(c), WellApart(c, T),
           NEW v \in Queues(c, T), NEW name \in ToSet(Names)
    PROVE  VisitName(c, V, v, name) \in Queues(c, T)
<1> DEFINE rel == ResolveLibrary(c, V, name)
           full == Clean(SearchRoot(c) \o rel)
<1>1. VisitName(c, V, v, name) = Visit(v, rel, full)
  BY DEF VisitName
<1>2. rel = <<>> \/ rel \in Resolvable(c, T)
  BY ResolvedThere
<1> HIDE DEF rel
<1>3. CASE rel = <<>>
  BY <1>1, <1>3 DEF Visit
<1>4. CASE rel \in Resolvable(c, T)
  <2>1. rel \in Clear /\ rel \in Path
    BY <1>4, ClearIsPath DEF Resolvable, There
  <2>2. SearchRoot(c) \o rel = Below(c, rel) /\ Below(c, rel) \in Clear
    BY <2>1, SeesPaths, SeesBelow DEF Below
  <2>3. full \in BelowPaths(c)
    BY <2>1, <2>2, CleanClear DEF BelowPaths
  <2> HIDE DEF full
  <2>4. Append(v, [rel |-> rel, full |-> full]) \in Queues(c, T)
    BY <1>4, <2>1, <2>3, QueueAppend
  <2> QED BY <1>1, <2>4 DEF Visit
<1> QED BY <1>2, <1>3, <1>4

LEMMA RoundThere ==
    ASSUME NEW c, NEW V, NEW T, Sees(c, V, T), ClearNames(c), WellApart(c, T),
           NEW v \in Queues(c, T), NEW i \in Nat \ {0}
    PROVE  Round(c, V, v, i) \in Queues(c, T)
<1>1. CASE i > Len(v)
  BY <1>1 DEF Round
<1>2. CASE ~(i > Len(v))
  <2> DEFINE S == [rel : Path, full : BelowPaths(c)]
  <2>1. v \in Seq(S)
    BY DEF Queues
  <2>2. v[i] \in S
    <3> HIDE DEF S
    <3> QED BY <1>2, <2>1
  <2>3. Needed(V, v[i].full) \in Seq(ToSet(Names))
    BY <2>2, NeededNames
  <2> DEFINE W == Queues(c, T)
             N == ToSet(Names)
             needs == Needed(V, v[i].full)
  <2>4. v \in W /\ needs \in Seq(N) /\ \A u \in W : \A n \in N : VisitName(c, V, u, n) \in W
    BY <2>3, VisitThere
  <2> HIDE DEF W, N, needs
  <2>5. VisitNeeds(c, V, v, needs) \in W
    BY <2>4, VisitNeedsInto
  <2> QED BY <1>2, <2>5 DEF Round, W, needs
<1> QED BY <1>1, <1>2

LEMMA NeededThere ==
    ASSUME NEW c, NEW V, NEW T, Sees(c, V, T), ClearNames(c), WellApart(c, T), NEW start \in BelowPaths(c)
    PROVE  /\ IsSeq(NeededByLibrary(c, V, start))
           /\ \A x \in ToSet(NeededByLibrary(c, V, start)) : x.rel \in Resolvable(c, T)
<1> DEFINE W == Queues(c, T)
           S == [rel : Path, full : BelowPaths(c)]
           base == <<[rel |-> <<>>, full |-> start]>>
<1>1. base \in W
  <2>1. [rel |-> <<>>, full |-> start] \in S
    BY EmptyIsClear
  <2> QED BY <2>1 DEF Queues
<1>2. \A v \in W : \A i \in Nat \ {0} : Round(c, V, v, i) \in W
  BY RoundThere
<1> HIDE DEF W, S
<1>3. PICK queue \in W : NeededByLibrary(c, V, start) = Tail(queue)
  BY <1>1, <1>2, RoundsInto
<1>4. queue \in Seq(S) /\ queue # <<>> /\ \A i \in 1..Len(queue) : i # 1 => queue[i].rel \in Resolvable(c, T)
  BY <1>3 DEF Queues, W, S
<1>5. Tail(queue) \in Seq(S) /\ Len(Tail(queue)) = Len(queue) - 1 /\ Len(queue) \in Nat
      /\ \A i \in 1..(Len(queue) - 1) : Tail(queue)[i] = queue[i + 1]
  BY <1>4
<1>6. IsSeq(Tail(queue))
  BY <1>5, SeqIsSeq
<1> DEFINE t == Tail(queue)
<1> HIDE DEF t
<1>7. ASSUME NEW x \in ToSet(t) PROVE x.rel \in Resolvable(c, T)
  <2>1. DOMAIN t = 1..Len(t)
    BY <1>6, IsSeqLen DEF t
  <2>2. PICK i \in 1..Len(t) : x = t[i]
    BY <1>7, <2>1 DEF ToSet
  <2>3. i \in 1..(Len(queue) - 1) /\ i + 1 \in 1..Len(queue) /\ i + 1 # 1
    BY <1>5, <2>2 DEF t
  <2>4. x = queue[i + 1]
    BY <1>5, <2>2, <2>3 DEF t
  <2> QED BY <1>4, <2>3, <2>4
<1> QED BY <1>3, <1>6, <1>7 DEF t

\* The libraries' needs are there.
LEMMA DependenciesThere ==
    ASSUME NEW c, NEW V, NEW T, Sees(c, V, T), ClearNames(c), WellApart(c, T),
           NEW libs, IsSeq(libs), \A l \in ToSet(libs) : l.path \in HostPaths(c, T)
    PROVE  \A l \in ToSet(DiscoverDependencies(c, V, libs)) : l.path \in HostPaths(c, T)
<1> DEFINE needs == [i \in DOMAIN libs |-> NeededByLibrary(c, V, ToSearchRootPath(c, libs[i].path))]
           all == FlattenSeq(needs)
           keys == [i \in DOMAIN all |-> ToDriverRootPath(c, all[i].rel)]
           once == Firsts(all, keys)
           kept == {i \in DOMAIN once :
                      /\ Last(once[i].rel) \notin GlibcName
                      /\ \A j \in DOMAIN libs : libs[j].path # ToDriverRootPath(c, once[i].rel)}
           only == Only(once, kept)
           more == [i \in DOMAIN only |-> Library(c, ToDriverRootPath(c, only[i].rel))]
           R == {x \in ToSet(all) : x.rel \in Resolvable(c, T)}
<1>1. IsSeq(needs) /\ DOMAIN needs = DOMAIN libs /\ DOMAIN needs = 1..Len(needs)
  <2>1. needs = [i \in DOMAIN libs |-> needs[i]]
    OBVIOUS
  <2> HIDE DEF needs
  <2> QED BY <2>1, MappedIsSeq, IsSeqLen
<1>2. ASSUME NEW i \in DOMAIN needs
      PROVE  IsSeq(needs[i]) /\ \A x \in ToSet(needs[i]) : x.rel \in Resolvable(c, T)
  <2>1. libs[i].path \in HostPaths(c, T)
    BY <1>1, AppendInto
  <2>2. PICK x \in There(c, T) : libs[i].path = OnHostAt(c, x)
    BY <2>1 DEF HostPaths
  <2>3. ToSearchRootPath(c, libs[i].path) \in BelowPaths(c)
    BY <2>2, RootsExchanged DEF There, BelowPaths
  <2>4. needs[i] = NeededByLibrary(c, V, ToSearchRootPath(c, libs[i].path))
    BY <1>1
  <2> QED BY <2>3, <2>4, NeededThere
<1> HIDE DEF needs
<1>3. IsSeq(all) /\ \A x \in ToSet(all) : x.rel \in Resolvable(c, T)
  <2>1. IsSeq(all) /\ ToSet(all) = UNION {ToSet(needs[i]) : i \in 1..Len(needs)}
    BY <1>1, <1>2, FlattenSeqElements
  <2> QED BY <1>1, <1>2, <2>1
<1>4. DiscoverDependencies(c, V, libs) = more
  BY DEF DiscoverDependencies, Flatten, Map, FirstOf, Filter, needs
<1> HIDE DEF all
<1>5. DOMAIN keys = DOMAIN all
  OBVIOUS
<1> HIDE DEF keys
<1>6. IsSeq(once) /\ ToSet(once) \subseteq ToSet(all)
  BY <1>3, <1>5, KeptElements
<1> HIDE DEF once, kept
<1>7. IsSeq(only) /\ ToSet(only) \subseteq ToSet(once)
  BY <1>6, KeptElements
<1> HIDE DEF only
<1>8. DOMAIN more = DOMAIN only
  OBVIOUS
<1>9. ASSUME NEW i \in DOMAIN only PROVE more[i].path \in HostPaths(c, T)
  <2>1. only[i] \in ToSet(only)
    BY DEF ToSet
  <2>2. only[i].rel \in Resolvable(c, T)
    BY <1>3, <1>6, <1>7, <2>1
  <2>3. ToDriverRootPath(c, only[i].rel) = OnHostAt(c, only[i].rel)
    BY <2>2, RootsExchanged DEF Resolvable, There
  <2> QED BY <2>2, <2>3 DEF Library, HostPaths, Resolvable
<1> HIDE DEF more
<1> QED BY <1>4, <1>8, <1>9 DEF ToSet

-----------------------------------------------------------------------------
(* What a specification names is on the host.                               *)

\* What is mounted, or given as a device, is on the host.
IsThere(T, mounts) == \A m \in mounts : Stat(T, m.src) # NoNode

FoundThere(c, T, found) ==
    /\ \A l \in ToSet(found.libraries) \cup ToSet(found.tools) : l.path \in HostPaths(c, T)
    /\ \A p \in ToSet(found.providers) :
         /\ Stat(T, p.path) # NoNode
         /\ p.driver # <<>> => Stat(T, p.driver) # NoNode
    /\ \A d \in ToSet(found.devices) : Stat(T, d.path) # NoNode

LEMMA ProviderMountsThere ==
    ASSUME NEW T, NEW p, Stat(T, p.path) # NoNode, p.driver # <<>> => Stat(T, p.driver) # NoNode
    PROVE  IsSeq(ProviderMounts(p)) /\ IsThere(T, ToSet(ProviderMounts(p)))
<1> DEFINE first == <<[src |-> p.path, dst |-> p.cpath]>>
           second == IF p.driver = <<>> THEN <<>> ELSE <<[src |-> p.driver, dst |-> p.driver]>>
<1>1. IsSeq(first) /\ ToSet(first) = {[src |-> p.path, dst |-> p.cpath]}
  BY OneIsSeq
<1>2. IsSeq(second) /\ ToSet(second) = IF p.driver = <<>> THEN {} ELSE {[src |-> p.driver, dst |-> p.driver]}
  BY OneIsSeq, EmptyIsSeq
<1>3. ProviderMounts(p) = first \o second
  BY DEF ProviderMounts
<1> HIDE DEF first, second
<1>4. IsSeq(ProviderMounts(p)) /\ ToSet(ProviderMounts(p)) = ToSet(first) \cup ToSet(second)
  BY <1>1, <1>2, <1>3, ConcatIsSeq
<1>5. IsThere(T, ToSet(first))
  BY <1>1 DEF IsThere
<1>6. IsThere(T, ToSet(second))
  BY <1>2 DEF IsThere
<1> QED BY <1>4, <1>5, <1>6 DEF IsThere

LEMMA MountsThere ==
    ASSUME NEW c, NEW T, NEW s, IsSeq(s), \A l \in ToSet(s) : l.path \in HostPaths(c, T)
    PROVE  LET t == [i \in DOMAIN s |-> Mount(s[i])] IN IsSeq(t) /\ IsThere(T, ToSet(t))
<1> DEFINE t == [i \in DOMAIN s |-> Mount(s[i])]
           M == {m \in {Mount(l) : l \in ToSet(s)} : Stat(T, m.src) # NoNode}
<1>1. ASSUME NEW i \in DOMAIN s PROVE t[i] \in M
  <2>1. s[i] \in ToSet(s)
    BY AppendInto
  <2>2. s[i].path \in HostPaths(c, T)
    BY <2>1
  <2>3. Stat(T, s[i].path) # NoNode
    BY <2>2 DEF HostPaths, There
  <2>4. Mount(s[i]).src = s[i].path
    BY DEF Mount
  <2> QED BY <2>1, <2>3, <2>4
<1>2. t = [i \in DOMAIN s |-> t[i]]
  OBVIOUS
<1> HIDE DEF t, M
<1>3. IsSeq(t) /\ ToSet(t) \subseteq M
  BY <1>1, <1>2, MappedInto
<1>4. IsThere(T, ToSet(t))
  BY <1>3 DEF IsThere, M
<1> QED BY <1>3, <1>4 DEF t

LEMMA CommonMountsThere ==
    ASSUME NEW c, NEW T, NEW found, IsFound(found), FoundThere(c, T, found)
    PROVE  IsThere(T, ToSet(CommonMounts(found)))
<1> DEFINE provided == [i \in DOMAIN found.providers |-> ProviderMounts(found.providers[i])]
           libs == [i \in DOMAIN found.libraries |-> Mount(found.libraries[i])]
           tools == [i \in DOMAIN found.tools |-> Mount(found.tools[i])]
           flat == FlattenSeq(provided)
           all == flat \o libs
           keys == [i \in DOMAIN all |-> all[i].dst]
<1>1. CommonMounts(found) = Firsts(all, keys) \o tools
  BY DEF CommonMounts, FirstOf, Flatten, Map
<1>2. IsSeq(libs) /\ IsThere(T, ToSet(libs)) /\ IsSeq(tools) /\ IsThere(T, ToSet(tools))
  BY MountsThere DEF IsFound, IsFiles, FoundThere
<1>3. IsSeq(flat) /\ IsThere(T, ToSet(flat))
  <2>1. provided = [i \in DOMAIN found.providers |-> provided[i]]
    OBVIOUS
  <2>2. ASSUME NEW i \in DOMAIN found.providers
        PROVE  IsSeq(provided[i]) /\ IsThere(T, ToSet(provided[i]))
    <3>1. found.providers[i] \in ToSet(found.providers)
      BY AppendInto DEF IsFound
    <3>2. IsSeq(ProviderMounts(found.providers[i])) /\ IsThere(T, ToSet(ProviderMounts(found.providers[i])))
      BY <3>1, ProviderMountsThere DEF FoundThere
    <3> QED BY <3>2
  <2> HIDE DEF provided
  <2>3. IsSeq(provided) /\ DOMAIN provided = DOMAIN found.providers /\ DOMAIN provided = 1..Len(provided)
    BY <2>1, MappedIsSeq, IsSeqLen DEF IsFound
  <2>4. IsSeq(flat) /\ ToSet(flat) = UNION {ToSet(provided[i]) : i \in 1..Len(provided)}
    BY <2>2, <2>3, FlattenSeqElements
  <2> HIDE DEF flat
  <2> QED BY <2>2, <2>3, <2>4 DEF IsThere
<1> HIDE DEF libs, tools, flat
<1>4. IsSeq(all) /\ ToSet(all) = ToSet(flat) \cup ToSet(libs)
  BY <1>2, <1>3, ConcatIsSeq
<1>5. DOMAIN keys = DOMAIN all
  OBVIOUS
<1> HIDE DEF all, keys
<1>6. IsSeq(Firsts(all, keys)) /\ ToSet(Firsts(all, keys)) \subseteq ToSet(all)
  BY <1>4, <1>5, KeptElements
<1>7. ToSet(CommonMounts(found)) = ToSet(Firsts(all, keys)) \cup ToSet(tools)
  BY <1>1, <1>2, <1>6, ConcatIsSeq
<1> QED BY <1>2, <1>3, <1>4, <1>6, <1>7 DEF IsThere

LEMMA NodesThere ==
    ASSUME NEW T, NEW c, NEW devices, IsDevices(devices), \A d \in ToSet(devices) : Stat(T, d.path) # NoNode,
           NEW n, NEW nodes, NEW group,
           NodesOfEntry(n, nodes, Classify(c, devices, "rbln"), Classify(c, devices, "rsd"), group)
    PROVE  IsSeq(nodes) /\ IsThere(T, ToSet(nodes))
<1> DEFINE npus == Classify(c, devices, "rbln")
           rsds == Classify(c, devices, "rsd")
<1>1. ToSet(npus) \cup ToSet(rsds) \subseteq ToSet(devices)
  BY ClassifyElements
<1>2. NodesOfEntry(n, nodes, npus, rsds, group)
  OBVIOUS
<1> HIDE DEF npus, rsds
<1>3. ToSet(nodes) \subseteq {DeviceNode(d) : d \in ToSet(devices)} \cup {RSDAliasNode(d) : d \in ToSet(devices)}
  <2>1. CASE n[1] = "npu"
    <3>1. PICK d \in ToSet(npus) :
            ToSet(nodes) = {DeviceNode(d)} \cup
                 {RSDAliasNode(e) : e \in {e \in ToSet(rsds) : n[2] \in DOMAIN group /\ IndexOf(e) = group[n[2]]}}
      BY <1>2, <2>1 DEF NodesOfEntry
    <3> QED BY <1>1, <3>1
  <2>2. CASE n[1] = "rsd"
    <3>1. PICK d \in ToSet(rsds) : ToSet(nodes) = {RSDAliasNode(d)}
      BY <1>2, <2>2 DEF NodesOfEntry
    <3> QED BY <1>1, <3>1
  <2>3. CASE n[1] \notin {"npu", "rsd"}
    <3>1. ToSet(nodes) = {DeviceNode(d) : d \in ToSet(npus) \cup ToSet(rsds)}
      BY <1>2, <2>3 DEF NodesOfEntry
    <3> QED BY <1>1, <3>1
  <2> QED BY <2>1, <2>2, <2>3
<1>4. \A d \in ToSet(devices) : DeviceNode(d).src = d.path /\ RSDAliasNode(d).src = d.path
  BY DEF DeviceNode, RSDAliasNode
<1>5. IsThere(T, ToSet(nodes))
  BY <1>3, <1>4 DEF IsThere
<1>6. IsSeq(nodes)
  BY <1>2 DEF NodesOfEntry
<1> QED BY <1>5, <1>6

\* What a specification names is there, if what it is made of is.
LEMMA GenerateThere ==
    ASSUME NEW c, c.devicesDisabled \in BOOLEAN, NEW T, NEW fs, NEW found, NEW group,
           IsFound(found), FoundThere(c, T, found)
    PROVE  LET edits == Generate(c, fs, found, group)
           IN  \A q \in DOMAIN edits.devices :
                 IsThere(T, ToSet(EditsFor(edits, q).mounts)) /\ IsThere(T, ToSet(EditsFor(edits, q).nodes))
<1> DEFINE edits == Generate(c, fs, found, group)
           npus == Classify(c, found.devices, "rbln")
           rsds == Classify(c, found.devices, "rsd")
           entries == DeviceEntries(npus, rsds, group)
           common == BuildCommonEdits(c, fs, found)
           whole == Unfolded(c, fs, found, group)
<1>1. Generated(edits, c, fs, found, group)
  BY GenerateNodes
<1> HIDE DEF edits
<1>2. IsSpecification(edits) /\ edits.common.nodes = <<>>
      /\ \A n \in DOMAIN edits.devices : NodesOfEntry(n, edits.devices[n].nodes, npus, rsds, group)
  BY <1>1 DEF Generated
<1>3. IsThere(T, ToSet(common.mounts)) /\ IsThere(T, ToSet(NoEdits.mounts))
  <2>1. common.mounts = CommonMounts(found) /\ NoEdits.mounts = <<>>
    BY DEF BuildCommonEdits, NoEdits
  <2>2. IsThere(T, ToSet(<<>>))
    BY EmptyIsSeq DEF IsThere
  <2> QED BY <2>1, <2>2, CommonMountsThere
<1>4. \A nodes : WithNodes(nodes).mounts = NoEdits.mounts
  BY DEF WithNodes, NoEdits
<1>5. IsThere(T, ToSet(edits.common.mounts)) /\ \A n \in DOMAIN edits.devices : IsThere(T, ToSet(edits.devices[n].mounts))
  <2>1. CASE ~c.devicesDisabled
    <3>1. /\ edits.common = common
          /\ \A n \in DOMAIN edits.devices : edits.devices[n] = WithNodes(edits.devices[n].nodes)
      BY <1>1, <2>1 DEF Generated
    <3>2. \A n \in DOMAIN edits.devices : edits.devices[n].mounts = NoEdits.mounts
      BY <1>4, <3>1
    <3> HIDE DEF common
    <3> QED BY <1>3, <3>1, <3>2
  <2>2. CASE c.devicesDisabled
    <3>1. edits = FoldCommonEdits(whole)
      BY <1>1, <2>2 DEF Generated
    <3>2. whole.common = common /\ whole.devices = entries
      BY DEF Unfolded, BuildDeviceEntries
    <3>3. IsSeq(npus) /\ IsSeq(rsds)
      BY ClassifyElements DEF IsFound
    <3> HIDE DEF common, entries, whole, npus, rsds
    <3>4. \A n \in DOMAIN entries : entries[n].mounts = NoEdits.mounts
      <4>1. \A n \in DOMAIN entries : \E nodes : entries[n] = WithNodes(nodes)
        BY <3>3, DeviceEntriesNodes DEF entries
      <4> QED BY <1>4, <4>1
    <3>5. /\ edits.common \in {common, NoEdits} /\ DOMAIN edits.devices = DOMAIN entries
          /\ \A n \in DOMAIN entries : edits.devices[n] \in {entries[n], common}
      BY <3>1, <3>2 DEF FoldCommonEdits
    <3> QED BY <1>3, <3>4, <3>5
  <2> QED BY <2>1, <2>2
<1>6. ASSUME NEW q \in DOMAIN edits.devices
      PROVE  IsThere(T, ToSet(EditsFor(edits, q).mounts)) /\ IsThere(T, ToSet(EditsFor(edits, q).nodes))
  <2>1. IsEdits(edits.common) /\ IsEdits(edits.devices[q])
    BY <1>2 DEF IsSpecification
  <2>2. ToSet(EditsFor(edits, q).mounts) = ToSet(edits.common.mounts) \cup ToSet(edits.devices[q].mounts)
    BY <2>1, ConcatIsSeq DEF EditsFor, IsEdits
  <2>3. ToSet(EditsFor(edits, q).nodes) = ToSet(edits.common.nodes) \cup ToSet(edits.devices[q].nodes)
    BY <2>1, ConcatIsSeq DEF EditsFor, IsEdits
  <2>4. ToSet(edits.common.nodes) = {}
    BY <1>2, EmptyIsSeq
  <2>5. IsThere(T, ToSet(edits.devices[q].nodes))
    BY <1>2, NodesThere DEF IsFound, FoundThere
  <2> QED BY <1>5, <2>2, <2>3, <2>4, <2>5 DEF IsThere
<1> QED BY <1>6 DEF edits

-----------------------------------------------------------------------------
(* All programs find the same.  What one finds below its mount is what one  *)
(* on the host finds, moved there: as sequences, element by element.        *)

(* A sequence, element by element through a table.  Laying sequences end to *)
(* end, keeping some elements and keeping first ones do not look at them.   *)
Moved(F, s) == [i \in DOMAIN s |-> F[s[i]]]

LEMMA MovedIsSeq ==
    ASSUME NEW F, NEW s, IsSeq(s)
    PROVE  /\ IsSeq(Moved(F, s)) /\ Len(Moved(F, s)) = Len(s) /\ DOMAIN Moved(F, s) = DOMAIN s
           /\ \A i \in DOMAIN s : Moved(F, s)[i] = F[s[i]]
<1> DEFINE t == Moved(F, s)
<1>1. t = [i \in DOMAIN s |-> t[i]] /\ \A i \in DOMAIN s : t[i] = F[s[i]]
  BY DEF Moved
<1> HIDE DEF t
<1>2. IsSeq(t) /\ Len(t) = Len(s) /\ DOMAIN t = DOMAIN s
  BY <1>1, MappedIsSeq
<1> QED BY <1>1, <1>2 DEF t

\* Two sequences of the same length with the same elements.
LEMMA SeqsEqual ==
    ASSUME NEW s, IsSeq(s), NEW t, IsSeq(t), Len(s) = Len(t), \A i \in 1..Len(s) : s[i] = t[i]
    PROVE  s = t
<1>1. s = [i \in 1..Len(s) |-> s[i]] /\ t = [i \in 1..Len(t) |-> t[i]]
  BY IsSeqLen
<1>2. [i \in 1..Len(s) |-> s[i]] = [i \in 1..Len(t) |-> t[i]]
  OBVIOUS
<1> QED BY <1>1, <1>2

LEMMA MovedConcat ==
    ASSUME NEW F, NEW s, IsSeq(s), NEW t, IsSeq(t)
    PROVE  Moved(F, s \o t) = Moved(F, s) \o Moved(F, t)
<1> DEFINE a == Moved(F, s)
           b == Moved(F, t)
           st == s \o t
           ab == a \o b
           all == Moved(F, st)
<1>1. /\ Len(s) \in Nat /\ DOMAIN s = 1..Len(s) /\ s \in Seq(ToSet(s))
      /\ Len(t) \in Nat /\ DOMAIN t = 1..Len(t) /\ t \in Seq(ToSet(t))
  BY IsSeqLen DEF IsSeq
<1>2. /\ IsSeq(st) /\ Len(st) = Len(s) + Len(t) /\ DOMAIN st = 1..Len(st)
      /\ \A i \in 1..(Len(s) + Len(t)) : st[i] = IF i <= Len(s) THEN s[i] ELSE t[i - Len(s)]
  BY <1>1, ConcatIsSeq, IsSeqLen
<1>3. IsSeq(a) /\ Len(a) = Len(s) /\ IsSeq(b) /\ Len(b) = Len(t)
      /\ (\A i \in 1..Len(s) : a[i] = F[s[i]]) /\ (\A i \in 1..Len(t) : b[i] = F[t[i]])
  BY <1>1, MovedIsSeq
<1> HIDE DEF a, b, st
<1>4. a \in Seq(ToSet(a)) /\ b \in Seq(ToSet(b))
  BY <1>3 DEF IsSeq
<1>5. /\ IsSeq(ab) /\ Len(ab) = Len(s) + Len(t)
      /\ \A i \in 1..(Len(s) + Len(t)) : ab[i] = IF i <= Len(s) THEN a[i] ELSE b[i - Len(s)]
  <2>1. IsSeq(ab) /\ Len(ab) = Len(a) + Len(b)
    BY <1>3, ConcatIsSeq
  <2>2. \A i \in 1..(Len(a) + Len(b)) : ab[i] = IF i <= Len(a) THEN a[i] ELSE b[i - Len(a)]
    BY <1>4
  <2> QED BY <1>3, <2>1, <2>2
<1>6. IsSeq(all) /\ Len(all) = Len(s) + Len(t) /\ \A i \in 1..(Len(s) + Len(t)) : all[i] = F[st[i]]
  BY <1>2, MovedIsSeq
<1> HIDE DEF ab, all
<1>7. ASSUME NEW i \in 1..(Len(s) + Len(t)) PROVE all[i] = ab[i]
  <2>1. CASE i <= Len(s)
    <3>1. i \in 1..Len(s)
      BY <1>1, <2>1
    <3> QED BY <1>2, <1>3, <1>5, <1>6, <2>1, <3>1
  <2>2. CASE ~(i <= Len(s))
    <3>1. i - Len(s) \in 1..Len(t)
      BY <1>1, <2>2
    <3>2. all[i] = F[t[i - Len(s)]] /\ ab[i] = b[i - Len(s)]
      BY <1>2, <1>5, <1>6, <2>2
    <3> QED BY <1>3, <3>1, <3>2
  <2> QED BY <2>1, <2>2
<1>8. all = ab
  BY <1>5, <1>6, <1>7, SeqsEqual
<1> QED BY <1>8 DEF all, ab, st, a, b

LEMMA MovedFlat ==
    ASSUME NEW F, NEW t, IsSeq(t), \A i \in DOMAIN t : IsSeq(t[i]),
           NEW u, u = [i \in DOMAIN t |-> Moved(F, t[i])]
    PROVE  FlattenSeq(u) = Moved(F, FlattenSeq(t))
<1>1. Len(t) \in Nat /\ DOMAIN t = 1..Len(t) /\ Len(u) = Len(t) /\ DOMAIN u = DOMAIN t /\ IsSeq(u)
      /\ \A i \in DOMAIN t : u[i] = Moved(F, t[i])
  <2>1. u = [i \in DOMAIN t |-> u[i]] /\ \A i \in DOMAIN t : u[i] = Moved(F, t[i])
    OBVIOUS
  <2> QED BY <2>1, MappedIsSeq, IsSeqLen
<1>2. CASE Len(t) = 0
  <2>1. t = <<>> /\ u = <<>>
    BY <1>1, <1>2 DEF IsSeq
  <2>2. FlattenSeq(t) = <<>>
    BY <2>1 DEF FlattenSeq
  <2>3. Moved(F, <<>>) = <<>>
    BY DEF Moved
  <2> QED BY <2>1, <2>2, <2>3
<1>3. CASE Len(t) # 0
  <2>1. PICK a : FlattenSeq(t) = a[Len(t)] /\ a[1] = t[1] /\ \A i \in 2..Len(t) : a[i] = a[i - 1] \o t[i]
    BY <1>1, <1>3, FlattenSeqRecursion
  <2>2. PICK b : FlattenSeq(u) = b[Len(t)] /\ b[1] = u[1] /\ \A i \in 2..Len(t) : b[i] = b[i - 1] \o u[i]
    <3>1. \E b : FlattenSeq(u) = b[Len(u)] /\ b[1] = u[1] /\ \A i \in 2..Len(u) : b[i] = b[i - 1] \o u[i]
      <4>1. Len(u) \in Nat /\ Len(u) # 0
        BY <1>1, <1>3
      <4> QED BY <4>1, FlattenSeqRecursion
    <3> QED BY <1>1, <3>1
  <2> DEFINE Good(n) == IsSeq(a[n]) /\ b[n] = Moved(F, a[n])
             S == {n \in Nat : n \in 1..Len(t) => Good(n)}
  <2>3. 0 \in S
    OBVIOUS
  <2>4. ASSUME NEW n \in Nat, n \in S PROVE n + 1 \in S
    <3> SUFFICES ASSUME n + 1 \in 1..Len(t) PROVE Good(n + 1)
      OBVIOUS
    <3>1. CASE n = 0
      BY <1>1, <1>3, <2>1, <2>2, <3>1
    <3>2. CASE n # 0
      <4>1. n \in 1..Len(t) /\ Good(n) /\ n + 1 \in 2..Len(t) /\ (n + 1) - 1 = n
        BY <3>2, <2>4, <1>1
      <4>2. a[n + 1] = a[n] \o t[n + 1] /\ b[n + 1] = b[n] \o u[n + 1]
        BY <2>1, <2>2, <4>1
      <4>3. IsSeq(a[n]) /\ IsSeq(t[n + 1])
        BY <1>1, <4>1
      <4>4. IsSeq(a[n + 1]) /\ Moved(F, a[n + 1]) = Moved(F, a[n]) \o Moved(F, t[n + 1])
        <5> DEFINE x == a[n]
                   y == t[n + 1]
        <5>1. IsSeq(x) /\ IsSeq(y) /\ a[n + 1] = x \o y
          BY <4>2, <4>3
        <5> HIDE DEF x, y
        <5>2. IsSeq(x \o y) /\ Moved(F, x \o y) = Moved(F, x) \o Moved(F, y)
          BY <5>1, ConcatIsSeq, MovedConcat
        <5> QED BY <5>1, <5>2 DEF x, y
      <4> QED BY <1>1, <4>1, <4>2, <4>4
    <3> QED BY <3>1, <3>2
  <2>5. \A n \in Nat : n \in S
    <3> HIDE DEF S
    <3> QED BY <2>3, <2>4, Induction
  <2>6. Good(Len(t))
    BY <2>5, <1>1, <1>3
  <2> QED BY <2>1, <2>2, <2>6
<1> QED BY <1>1, <1>2, <1>3

LEMMA MovedOnly ==
    ASSUME NEW F, NEW s, IsSeq(s), NEW kept
    PROVE  Only(Moved(F, s), kept) = Moved(F, Only(s, kept))
<1> DEFINE t == [i \in DOMAIN s |-> IF i \in kept THEN <<s[i]>> ELSE <<>>]
           u == [i \in DOMAIN s |-> IF i \in kept THEN <<Moved(F, s)[i]>> ELSE <<>>]
<1>1. \A i \in DOMAIN s : IsSeq(t[i])
  BY OneIsSeq, EmptyIsSeq
<1>2. IsSeq(t) /\ DOMAIN t = DOMAIN s
  <2>1. t = [i \in DOMAIN s |-> t[i]]
    OBVIOUS
  <2> HIDE DEF t
  <2> QED BY <2>1, MappedIsSeq
<1>3. u = [i \in DOMAIN t |-> Moved(F, t[i])]
  <2>1. ASSUME NEW x PROVE Moved(F, <<x>>) = <<F[x]>>
    BY DEF Moved
  <2>2. Moved(F, <<>>) = <<>>
    BY DEF Moved
  <2>3. \A i \in DOMAIN s : Moved(F, s)[i] = F[s[i]]
    BY MovedIsSeq
  <2>4. \A i \in DOMAIN s : Moved(F, t[i]) = IF i \in kept THEN <<F[s[i]]>> ELSE <<>>
    BY <2>1, <2>2
  <2>5. \A i \in DOMAIN s : u[i] = Moved(F, t[i])
    BY <2>3, <2>4
  <2>6. u = [i \in DOMAIN s |-> u[i]] /\ DOMAIN t = DOMAIN s
    BY <1>2
  <2> HIDE DEF u, t
  <2> QED BY <2>5, <2>6
<1> HIDE DEF t, u
<1>4. FlattenSeq(u) = Moved(F, FlattenSeq(t))
  BY <1>1, <1>2, <1>3, MovedFlat
<1>5. DOMAIN Moved(F, s) = DOMAIN s
  BY MovedIsSeq
<1>6. Only(Moved(F, s), kept) = FlattenSeq(u) /\ Only(s, kept) = FlattenSeq(t)
  BY <1>5 DEF Only, t, u
<1> QED BY <1>4, <1>6

LEMMA MovedFirsts ==
    ASSUME NEW F, NEW s, IsSeq(s), NEW keys, DOMAIN keys = DOMAIN s
    PROVE  Firsts(Moved(F, s), keys) = Moved(F, Firsts(s, keys))
<1> DEFINE index == [i \in DOMAIN s |-> i]
           first == Only(index, First(keys))
           t == Moved(F, s)
<1>1. DOMAIN t = DOMAIN s /\ \A i \in DOMAIN s : t[i] = F[s[i]]
  BY MovedIsSeq
<1> HIDE DEF t
<1>2. IsSeq(index) /\ DOMAIN index = DOMAIN s
  <2>1. index = [i \in DOMAIN s |-> index[i]]
    OBVIOUS
  <2> HIDE DEF index
  <2> QED BY <2>1, MappedIsSeq
<1>3. IsSeq(first) /\ ToSet(first) \subseteq DOMAIN s
  <2>1. \A i \in DOMAIN s : index[i] = i
    OBVIOUS
  <2> HIDE DEF index
  <2> QED BY <1>2, <2>1, OnlyElements
<1>4. Firsts(s, keys) = [n \in DOMAIN first |-> s[first[n]]]
  BY DEF Firsts
<1>5. Firsts(t, keys) = [n \in DOMAIN first |-> t[first[n]]]
  BY <1>1 DEF Firsts
<1> HIDE DEF first
<1>6. \A n \in DOMAIN first : first[n] \in DOMAIN s
  BY <1>3, ElementsOfSeq
<1>7. Moved(F, Firsts(s, keys)) = [n \in DOMAIN first |-> F[s[first[n]]]]
  BY <1>4 DEF Moved
<1> QED BY <1>1, <1>5, <1>6, <1>7 DEF t

\* Which elements come first depends only on which keys are the same.
LEMMA SameFirsts ==
    ASSUME NEW s, IsSeq(s), NEW keys, NEW others, DOMAIN keys = DOMAIN s, DOMAIN others = DOMAIN s,
           \A i, j \in DOMAIN s : keys[i] = keys[j] <=> others[i] = others[j]
    PROVE  Firsts(s, keys) = Firsts(s, others)
<1>1. DOMAIN s = 1..Len(s) /\ Len(s) \in Nat
  BY IsSeqLen
<1>2. \A i \in DOMAIN s : \A j \in 1..(i - 1) : j \in DOMAIN s
  BY <1>1
<1>3. First(keys) = First(others)
  BY <1>2 DEF First
<1> QED BY <1>3 DEF Firsts

(* A configuration and the one of a program on the host itself.             *)
Twin(c, h) ==
    /\ h.hostRoot = <<>> /\ h.searchRoot = <<>>
    /\ h.driverRoot = c.driverRoot /\ h.containerPath = c.containerPath
    /\ h.libDirs = c.libDirs /\ h.pluginDirs = c.pluginDirs /\ h.binDirs = c.binDirs
    /\ h.tools = c.tools /\ h.providers = c.providers /\ h.providerDir = c.providerDir

\* Both programs see the same host, one of them below a mount.
BothSee(c, V, h, T) ==
    /\ Sees(c, V, T) /\ Sees(h, T, T) /\ Twin(c, h)
    /\ ClearNames(c) /\ ClearNames(h) /\ WellApart(c, T) /\ WellApart(h, T)

LEMMA TwinSees ==
    ASSUME NEW c, NEW V, NEW T, Sees(c, V, T), ClearNames(c), WellApart(c, T), NEW h, Twin(c, h)
    PROVE  BothSee(c, V, h, T)
<1>1. IsConfig(c) /\ IsView(V, T, c.hostRoot) /\ Tidy(T, c.driverRoot)
  BY DEF Sees
<1>2. IsConfig(h)
  <2>1. <<>> \in Path
    BY EmptyIsClear
  <2> QED BY <1>1, <2>1 DEF IsConfig, Twin
<1>3. IsView(T, T, <<>>)
  <2>1. \A q \in DOMAIN T : <<>> \o q = q
    BY <1>1, EmptyConcat DEF IsView, IsTree
  <2>2. DOMAIN T = {<<>> \o q : q \in DOMAIN T}
    BY <2>1
  <2> QED BY <1>1, <2>1, <2>2, EmptyIsClear DEF IsView
<1>4. Sees(h, T, T)
  BY <1>1, <1>2, <1>3 DEF Sees, Twin
<1>5. ClearNames(h)
  BY DEF ClearNames, Twin
<1>6. WellApart(h, T)
  BY DEF WellApart, Apart, Twin
<1> QED BY <1>4, <1>5, <1>6 DEF BothSee

\* What is below the driver's root on the host, and what a mount makes of it.
OnHostPaths(c) == {OnHostAt(c, x) : x \in Clear}
Under(m) == [p \in Clear |-> m \o p]

LEMMA TwinPaths ==
    ASSUME NEW c, NEW V, NEW h, NEW T, BothSee(c, V, h, T), NEW x \in Clear
    PROVE  /\ OnHostAt(c, x) = OnHostAt(h, x) /\ Below(h, x) = OnHostAt(c, x) /\ OnHostAt(c, x) \in Clear
           /\ Below(c, x) = Under(c.hostRoot)[OnHostAt(c, x)]
           /\ SearchRoot(c) \o x = Below(c, x) /\ SearchRoot(h) \o x = OnHostAt(c, x)
<1>1. OnHostAt(c, x) = OnHostAt(h, x)
  BY DEF OnHostAt, BothSee, Twin
<1>2. Below(c, x) = c.hostRoot \o OnHostAt(c, x) /\ OnHostAt(c, x) \in Clear
  BY SeesBelow DEF BothSee
<1>3. Below(h, x) = OnHostAt(h, x)
  <2>1. h.hostRoot = <<>> /\ h.driverRoot \in Path /\ c.driverRoot = h.driverRoot
    BY SeesPaths DEF BothSee, Twin
  <2>2. h.hostRoot \o h.driverRoot = h.driverRoot
    BY <2>1, EmptyConcat
  <2> QED BY <2>2 DEF Below, OnHostAt
<1>4. SearchRoot(c) \o x = Below(c, x) /\ SearchRoot(h) \o x = Below(h, x)
  BY SeesPaths DEF Below, BothSee
<1> QED BY <1>1, <1>2, <1>3, <1>4 DEF Under

\* The real path under the mount is the real path on the host.
LEMMA RealBelow ==
    ASSUME NEW c, NEW V, NEW h, NEW T, BothSee(c, V, h, T), NEW p \in OnHostPaths(c)
    PROVE  /\ RealPath(V, Under(c.hostRoot)[p]) = c.hostRoot \o RealPath(T, p)
           /\ RealPath(T, p) \in Path
           /\ ToHostPath(c, Under(c.hostRoot)[p]) = p /\ ToHostPath(h, p) = p
           /\ ToolHostPath(c, Under(c.hostRoot)[p]) = p /\ ToolHostPath(h, p) = p
<1>1. PICK x \in Clear : p = OnHostAt(c, x)
  BY DEF OnHostPaths
<1>2. Below(c, x) = Under(c.hostRoot)[p] /\ p \in Clear /\ p \in Path /\ Below(h, x) = p /\ OnHostAt(h, x) = p
  BY <1>1, TwinPaths, ClearIsPath
<1>3. /\ Below(c, x) = c.hostRoot \o p
      /\ EvalSymlinks(T, p) \in Clear
      /\ EvalSymlinks(V, Below(c, x)) = c.hostRoot \o EvalSymlinks(T, p)
      /\ Stat(V, Below(c, x)) = Stat(T, p)
  <2>1. Sees(c, V, T)
    BY DEF BothSee
  <2>2. /\ Below(c, x) = c.hostRoot \o OnHostAt(c, x)
        /\ EvalSymlinks(T, OnHostAt(c, x)) \in Clear
        /\ EvalSymlinks(V, Below(c, x)) = c.hostRoot \o EvalSymlinks(T, OnHostAt(c, x))
        /\ Stat(V, Below(c, x)) = Stat(T, OnHostAt(c, x))
    BY <2>1, SeesBelow
  <2> QED BY <1>1, <2>2
<1>4. EvalSymlinks(T, p) \in Path
  BY <1>3, ClearIsPath
<1>5. RealPath(V, Below(c, x)) = c.hostRoot \o RealPath(T, p) /\ RealPath(T, p) \in Path
  BY <1>2, <1>3, <1>4 DEF RealPath
<1>6. ToHostPath(c, Below(c, x)) = p /\ ToolHostPath(c, Below(c, x)) = p
  BY <1>1, RootsExchanged DEF BothSee
<1>7. ToHostPath(h, Below(h, x)) = p /\ ToolHostPath(h, Below(h, x)) = p
  BY <1>2, RootsExchanged DEF BothSee
<1> QED BY <1>2, <1>5, <1>6, <1>7

LEMMA RealFirsts ==
    ASSUME NEW c, NEW V, NEW h, NEW T, BothSee(c, V, h, T),
           NEW s, IsSeq(s), ToSet(s) \subseteq OnHostPaths(c),
           NEW t, t = Moved(Under(c.hostRoot), s)
    PROVE  LET once == Firsts(s, [i \in DOMAIN s |-> RealPath(T, s[i])])
           IN  /\ Firsts(t, [i \in DOMAIN t |-> RealPath(V, t[i])]) = Moved(Under(c.hostRoot), once)
               /\ IsSeq(once) /\ ToSet(once) \subseteq ToSet(s)
<1> DEFINE F == Under(c.hostRoot)
           m == c.hostRoot
           keys == [i \in DOMAIN s |-> RealPath(T, s[i])]
           others == [i \in DOMAIN t |-> RealPath(V, t[i])]
<1>1. IsSeq(t) /\ DOMAIN t = DOMAIN s /\ \A i \in DOMAIN s : t[i] = F[s[i]]
  BY MovedIsSeq
<1>2. \A i \in DOMAIN s : s[i] \in OnHostPaths(c)
  BY ElementsOfSeq
<1>3. DOMAIN keys = DOMAIN s /\ DOMAIN others = DOMAIN s
  BY <1>1
<1>4. m \in Path
  BY SeesPaths DEF BothSee
<1>5. \A i \in DOMAIN s : others[i] = m \o keys[i] /\ keys[i] \in Path
  BY <1>1, <1>2, RealBelow
<1> HIDE DEF keys, others, F, m
<1>6. \A i, j \in DOMAIN s : others[i] = others[j] <=> keys[i] = keys[j]
  BY <1>4, <1>5, ConcatCancel
<1>7. Firsts(t, others) = Firsts(t, keys)
  BY <1>1, <1>3, <1>6, SameFirsts
<1>8. Firsts(t, keys) = Moved(F, Firsts(s, keys))
  BY <1>3, MovedFirsts DEF F
<1>9. IsSeq(Firsts(s, keys)) /\ ToSet(Firsts(s, keys)) \subseteq ToSet(s)
  BY <1>3, KeptElements
<1> QED BY <1>7, <1>8, <1>9 DEF keys, others, F

\* The driver's libraries in a directory.
LEMMA MatchesMoved ==
    ASSUME NEW c, NEW V, NEW h, NEW T, BothSee(c, V, h, T), NEW d \in Clear
    PROVE  LET s == MatchesIn(T, SearchRoot(h) \o d)
           IN  /\ MatchesIn(V, SearchRoot(c) \o d) = Moved(Under(c.hostRoot), s)
               /\ IsSeq(s) /\ ToSet(s) \subseteq OnHostPaths(c)
<1> DEFINE F == Under(c.hostRoot)
           a == Below(c, d)
           b == OnHostAt(c, d)
           names == Entries(T, b)
           s == [i \in DOMAIN names |-> Append(b, names[i])]
           t == [i \in DOMAIN names |-> Append(a, names[i])]
           keptS == {i \in DOMAIN s : Last(s[i]) \in RblnName /\ Lstat(T, s[i]).kind = "file"}
           keptT == {i \in DOMAIN t : Last(t[i]) \in RblnName /\ Lstat(V, t[i]).kind = "file"}
<1>1. SearchRoot(c) \o d = a /\ SearchRoot(h) \o d = b /\ b \in Clear /\ b \in Path
  <2>1. SearchRoot(c) \o d = a /\ SearchRoot(h) \o d = b /\ b \in Clear
    BY TwinPaths
  <2> QED BY <2>1, ClearIsPath
<1>2. Sees(c, V, T) /\ ClearNames(c)
  BY DEF BothSee
<1>3. /\ Entries(V, a) = names
      /\ \A n \in ToSet(Names) : NodeAt(V, Append(EvalSymlinks(V, a), n)) = NodeAt(T, Append(EvalSymlinks(T, b), n))
  BY <1>2, EntriesBelow
<1>4. IsSeq(names) /\ \A i \in DOMAIN names : names[i] \in ToSet(Names)
  BY EntriesElements DEF ToSet
<1>5. MatchesIn(T, b) = Only(s, keptS)
  BY DEF MatchesIn, Filter
<1>6. MatchesIn(V, a) = Only(t, keptT)
  <2> HIDE DEF a
  <2> QED BY <1>3 DEF MatchesIn, Filter
<1>7. IsSeq(s) /\ DOMAIN s = DOMAIN names /\ \A i \in DOMAIN names : s[i] = Append(b, names[i])
  <2>1. s = [i \in DOMAIN names |-> s[i]] /\ \A i \in DOMAIN names : s[i] = Append(b, names[i])
    OBVIOUS
  <2> HIDE DEF s, names
  <2> QED BY <1>4, <2>1, MappedIsSeq
<1>8. DOMAIN t = DOMAIN names /\ t = [i \in DOMAIN names |-> t[i]] /\ \A i \in DOMAIN names : t[i] = Append(a, names[i])
  OBVIOUS
<1> HIDE DEF s, t
<1>9. ASSUME NEW i \in DOMAIN names
      PROVE  /\ t[i] = F[s[i]]
             /\ i \in keptT <=> i \in keptS
  <2> DEFINE n == names[i]
             x == d \o <<n>>
  <2>1. n \in ToSet(Names) /\ n \in Name /\ n # ".."
    BY <1>2, <1>4, NamesAre
  <2> HIDE DEF n, names
  <2>2. IsPlace(c, d, n, x)
    BY <1>2, <2>1, PlaceBelow
  <2>3. x \in Clear /\ Append(a, n) = Below(c, x) /\ Append(b, n) = OnHostAt(c, x) /\ a \in Path
    BY <1>1, <2>2 DEF IsPlace
  <2>4. Below(c, x) = F[OnHostAt(c, x)]
    BY <2>3, TwinPaths
  <2>5. Front(Append(a, n)) = a /\ Last(Append(a, n)) = n /\ Front(Append(b, n)) = b /\ Last(Append(b, n)) = n
    BY <1>1, <2>1, <2>3, LastOf
  <2>6. Lstat(V, Append(a, n)) = Lstat(T, Append(b, n))
    BY <1>3, <2>1, <2>5 DEF Lstat
  <2> HIDE DEF F, a, b
  <2>7. t[i] = Append(a, n) /\ s[i] = Append(b, n)
    BY <1>7, <1>8 DEF n
  <2>8. i \in DOMAIN t /\ i \in DOMAIN s
    BY <1>7, <1>8
  <2> QED BY <2>3, <2>4, <2>5, <2>6, <2>7, <2>8
<1> HIDE DEF names
<1>10. keptS = keptT
  BY <1>7, <1>8, <1>9
<1> HIDE DEF keptS, keptT, F
<1>11. t = Moved(F, s)
  BY <1>7, <1>8, <1>9 DEF Moved
<1>12. Only(t, keptT) = Moved(F, Only(s, keptS))
  BY <1>7, <1>10, <1>11, MovedOnly
<1>13. IsSeq(MatchesIn(T, b)) /\ ToSet(MatchesIn(T, b)) \subseteq OnHostPaths(c)
  <2>1. Sees(h, T, T) /\ ClearNames(h)
    BY DEF BothSee
  <2>2. IsSeq(MatchesIn(T, b)) /\ ToSet(MatchesIn(T, b)) \subseteq SeenPaths(h, T)
    BY <1>1, <2>1, MatchesThere
  <2>3. SeenPaths(h, T) \subseteq OnHostPaths(c)
    BY TwinPaths DEF SeenPaths, OnHostPaths, There
  <2> QED BY <2>2, <2>3
<1> QED BY <1>1, <1>5, <1>6, <1>12, <1>13 DEF F

LEMMA LibraryTwin ==
    ASSUME NEW c, NEW h, Twin(c, h), NEW p
    PROVE  /\ Library(c, p) = Library(h, p) /\ Tool(c, p) = Tool(h, p)
           /\ \A subdir : Plugin(c, p, subdir) = Plugin(h, p, subdir)
BY DEF Twin, Library, ToContainerPath, WithoutDriverRoot, Tool, Plugin, PluginContainerPath

\* All programs discover the same libraries.
LEMMA RBLNSame ==
    ASSUME NEW c, NEW V, NEW h, NEW T, BothSee(c, V, h, T)
    PROVE  DiscoverRBLN(c, V) = DiscoverRBLN(h, T)
<1> DEFINE F == Under(c.hostRoot)
           dirs == c.libDirs
           inT == [i \in DOMAIN dirs |-> MatchesIn(T, SearchRoot(h) \o dirs[i])]
           inV == [i \in DOMAIN dirs |-> MatchesIn(V, SearchRoot(c) \o dirs[i])]
           s == FlattenSeq(inT)
           t == FlattenSeq(inV)
           once == Firsts(s, [i \in DOMAIN s |-> RealPath(T, s[i])])
           twice == Firsts(t, [i \in DOMAIN t |-> RealPath(V, t[i])])
<1>1. Twin(c, h) /\ Sees(c, V, T) /\ ClearNames(c) /\ h.libDirs = dirs
  BY DEF BothSee, Twin
<1>2. IsSeq(dirs) /\ \A i \in DOMAIN dirs : dirs[i] \in Clear
  <2>1. IsSeq(dirs) /\ ToSet(dirs) \subseteq Clear
    BY <1>1, SeqElements DEF Sees, IsConfig, ClearNames
  <2> HIDE DEF dirs
  <2> QED BY <2>1, ElementsOfSeq
<1> HIDE DEF dirs
<1>3. \A i \in DOMAIN dirs : inV[i] = Moved(F, inT[i]) /\ IsSeq(inT[i]) /\ ToSet(inT[i]) \subseteq OnHostPaths(c)
  BY <1>2, MatchesMoved
<1>4. IsSeq(inT) /\ DOMAIN inT = DOMAIN dirs
  <2>1. inT = [i \in DOMAIN dirs |-> inT[i]]
    OBVIOUS
  <2> HIDE DEF inT
  <2> QED BY <1>2, <2>1, MappedIsSeq
<1>5. inV = [i \in DOMAIN dirs |-> inV[i]]
  OBVIOUS
<1>6. DiscoverRBLN(h, T) = [i \in DOMAIN once |-> Library(h, ToHostPath(h, once[i]))]
  BY <1>1 DEF DiscoverRBLN, Flatten, Map, FirstOf
<1>7. DiscoverRBLN(c, V) = [i \in DOMAIN twice |-> Library(c, ToHostPath(c, twice[i]))]
  BY DEF DiscoverRBLN, Flatten, Map, FirstOf, dirs
<1> HIDE DEF inT, inV, F
<1>8. IsSeq(s) /\ ToSet(s) \subseteq OnHostPaths(c)
  BY <1>3, <1>4, FlattenInto
<1>9. t = Moved(F, s)
  <2>1. inV = [i \in DOMAIN inT |-> Moved(F, inT[i])]
    BY <1>3, <1>4, <1>5
  <2> QED BY <1>3, <1>4, <2>1, MovedFlat
<1> HIDE DEF s, t
<1>10. twice = Moved(F, once) /\ IsSeq(once) /\ ToSet(once) \subseteq OnHostPaths(c)
  BY <1>8, <1>9, RealFirsts DEF F
<1> HIDE DEF once, twice
<1>11. DOMAIN twice = DOMAIN once /\ \A i \in DOMAIN once : twice[i] = F[once[i]] /\ once[i] \in OnHostPaths(c)
  BY <1>10, MovedIsSeq, ElementsOfSeq
<1>12. \A i \in DOMAIN once : Library(c, ToHostPath(c, twice[i])) = Library(h, ToHostPath(h, once[i]))
  BY <1>1, <1>11, RealBelow, LibraryTwin DEF F
<1> QED BY <1>6, <1>7, <1>11, <1>12

LEMMA LastOfConcat ==
    ASSUME NEW a \in Path, NEW b \in Path, b # <<>>
    PROVE  Last(a \o b) = Last(b)
<1>1. Len(b) \in Nat /\ Len(a) \in Nat /\ Len(b) # 0
  BY PathLen DEF Path
<1>2. a \o b \in Path /\ Len(a \o b) = Len(a) + Len(b) /\ \A i \in 1..Len(b) : (a \o b)[Len(a) + i] = b[i]
  BY ConcatElements
<1>3. Len(b) \in 1..Len(b)
  BY <1>1
<1> DEFINE p == a \o b
<1> HIDE DEF p
<1>4. Last(p) = p[Len(p)] /\ Last(b) = b[Len(b)]
  BY DEF Last
<1> QED BY <1>2, <1>3, <1>4 DEF p

\* A plugin is moved with the name of its directory.
LEMMA PluginMoved ==
    ASSUME NEW c, NEW V, NEW h, NEW T, BothSee(c, V, h, T), NEW d \in Clear, d # <<>>, NEW n \in Name, n # ".."
    PROVE  LET x == d \o <<n>>
           IN  /\ x \in Clear /\ SearchRoot(c) \o d \o <<n>> = Below(c, x) /\ SearchRoot(h) \o d \o <<n>> = OnHostAt(c, x)
               /\ Last(Front(Below(c, x))) = Last(d) /\ Last(Front(OnHostAt(c, x))) = Last(d)
<1> DEFINE x == d \o <<n>>
           r == c.driverRoot
           sr == c.hostRoot \o r
<1>1. Sees(c, V, T) /\ Sees(h, T, T)
  BY DEF BothSee
<1>2. IsPlace(c, d, n, x) /\ IsPlace(h, d, n, x)
  BY <1>1, PlaceBelow
<1>3. /\ x \in Clear /\ (SearchRoot(c) \o d) \o <<n>> = Below(c, x) /\ Append(SearchRoot(c) \o d, n) = Below(c, x)
      /\ (SearchRoot(h) \o d) \o <<n>> = Below(h, x) /\ SearchRoot(c) \o d = Below(c, d) /\ Below(c, d) \in Path
      /\ OnHostAt(c, x) = Append(OnHostAt(c, d), n)
  BY <1>2 DEF IsPlace
<1> HIDE DEF x
<1>4. Below(h, x) = OnHostAt(c, x) /\ OnHostAt(c, d) \in Clear
  <2>1. Below(h, x) = OnHostAt(c, x)
    <3>1. x \in Clear
      BY <1>3
    <3> QED BY <3>1, TwinPaths
  <2>2. OnHostAt(c, d) \in Clear
    BY TwinPaths
  <2> QED BY <2>1, <2>2
<1>5. r \in Path /\ sr \in Path /\ d \in Path /\ OnHostAt(c, d) \in Path
  BY <1>1, <1>4, SeesPaths, ClearIsPath
<1>6. Front(Below(c, x)) = Below(c, d) /\ Front(OnHostAt(c, x)) = OnHostAt(c, d)
  <2>1. Front(Append(Below(c, d), n)) = Below(c, d)
    BY <1>3, LastOf
  <2>2. Front(Append(OnHostAt(c, d), n)) = OnHostAt(c, d)
    BY <1>5, LastOf
  <2> QED BY <1>3, <2>1, <2>2
<1>7. Last(Below(c, d)) = Last(d) /\ Last(OnHostAt(c, d)) = Last(d)
  <2> HIDE DEF sr, r
  <2>1. Last(sr \o d) = Last(d) /\ Last(r \o d) = Last(d)
    BY <1>5, LastOfConcat
  <2> QED BY <2>1 DEF Below, OnHostAt, sr, r
<1> QED BY <1>3, <1>4, <1>6, <1>7 DEF x

Plugged(c) == {p \in OnHostPaths(c) : Last(Front(Under(c.hostRoot)[p])) = Last(Front(p))}

\* All programs discover the same plugins.
LEMMA PluginsSame ==
    ASSUME NEW c, NEW V, NEW h, NEW T, BothSee(c, V, h, T), <<>> \notin ToSet(c.pluginDirs)
    PROVE  DiscoverPlugins(c, V) = DiscoverPlugins(h, T)
<1> DEFINE F == Under(c.hostRoot)
           dirs == c.pluginDirs
           names(fs, dir) == Only(Entries(fs, dir), {j \in DOMAIN Entries(fs, dir) : Entries(fs, dir)[j] \in SharedObject})
           here(fs, dir) == [j \in DOMAIN names(fs, dir) |-> dir \o <<names(fs, dir)[j]>>]
           inT == [i \in DOMAIN dirs |-> here(T, SearchRoot(h) \o dirs[i])]
           inV == [i \in DOMAIN dirs |-> here(V, SearchRoot(c) \o dirs[i])]
           s == FlattenSeq(inT)
           t == FlattenSeq(inV)
           once == Firsts(s, [i \in DOMAIN s |-> RealPath(T, s[i])])
           twice == Firsts(t, [i \in DOMAIN t |-> RealPath(V, t[i])])
<1>1. Twin(c, h) /\ Sees(c, V, T) /\ ClearNames(c) /\ h.pluginDirs = dirs
  BY DEF BothSee, Twin
<1>2. IsSeq(dirs) /\ \A i \in DOMAIN dirs : dirs[i] \in Clear /\ dirs[i] # <<>>
  <2>1. IsSeq(dirs) /\ ToSet(dirs) \subseteq Clear \ {<<>>}
    BY <1>1, SeqElements DEF Sees, IsConfig, ClearNames
  <2> HIDE DEF dirs
  <2> QED BY <2>1, ElementsOfSeq
<1> HIDE DEF dirs
<1>3. ASSUME NEW i \in DOMAIN dirs
      PROVE  inV[i] = Moved(F, inT[i]) /\ IsSeq(inT[i]) /\ ToSet(inT[i]) \subseteq Plugged(c)
  <2> DEFINE d == dirs[i]
             a == SearchRoot(c) \o d
             b == SearchRoot(h) \o d
             ns == names(T, b)
             u == [j \in DOMAIN ns |-> b \o <<ns[j]>>]
             v == [j \in DOMAIN ns |-> a \o <<ns[j]>>]
  <2>1. d \in Clear /\ d # <<>>
    BY <1>2
  <2>2. Entries(V, a) = Entries(T, b)
    <3> HIDE DEF d
    <3>1. a = Below(c, d) /\ b = OnHostAt(c, d)
      BY <2>1, TwinPaths
    <3>2. Entries(V, Below(c, d)) = Entries(T, OnHostAt(c, d))
      BY <1>1, <2>1, EntriesBelow
    <3> QED BY <3>1, <3>2
  <2>3. inT[i] = u
    OBVIOUS
  <2>4. inV[i] = v
    <3>1. inV[i] = [j \in DOMAIN names(V, a) |-> a \o <<names(V, a)[j]>>]
      OBVIOUS
    <3>2. names(V, a) = ns
      BY <2>2
    <3> HIDE DEF ns, inV, names
    <3> QED BY <3>1, <3>2
  <2>5. IsSeq(ns) /\ ToSet(ns) \subseteq ToSet(Names)
    <3> DEFINE entries == Entries(T, b)
               kept == {j \in DOMAIN entries : entries[j] \in SharedObject}
    <3>1. ns = Only(entries, kept)
      OBVIOUS
    <3> HIDE DEF ns, kept
    <3>2. IsSeq(entries) /\ ToSet(entries) \subseteq ToSet(Names)
      BY EntriesElements
    <3> HIDE DEF entries
    <3>3. IsSeq(Only(entries, kept)) /\ ToSet(Only(entries, kept)) = {entries[j] : j \in DOMAIN entries \cap kept}
      BY <3>2, OnlyElements
    <3> QED BY <3>1, <3>2, <3>3, AppendInto
  <2> HIDE DEF ns, inT, inV, names
  <2>6. /\ u = [j \in DOMAIN ns |-> u[j]] /\ \A j \in DOMAIN ns : u[j] = b \o <<ns[j]>>
        /\ v = [j \in DOMAIN ns |-> v[j]] /\ \A j \in DOMAIN ns : v[j] = a \o <<ns[j]>>
    OBVIOUS
  <2>7. ASSUME NEW n \in ToSet(ns) PROVE a \o <<n>> = F[b \o <<n>>] /\ b \o <<n>> \in Plugged(c)
    <3> DEFINE x == d \o <<n>>
    <3>1. n \in Name /\ n # ".."
      BY <1>1, <2>5, <2>7, NamesAre
    <3> HIDE DEF d
    <3>2. /\ x \in Clear /\ a \o <<n>> = Below(c, x) /\ b \o <<n>> = OnHostAt(c, x)
          /\ Last(Front(Below(c, x))) = Last(Front(OnHostAt(c, x)))
      <4>1. /\ x \in Clear /\ SearchRoot(c) \o d \o <<n>> = Below(c, x) /\ SearchRoot(h) \o d \o <<n>> = OnHostAt(c, x)
            /\ Last(Front(Below(c, x))) = Last(d) /\ Last(Front(OnHostAt(c, x))) = Last(d)
        BY <2>1, <3>1, PluginMoved
      <4> QED BY <4>1
    <3> HIDE DEF x
    <3>3. Below(c, x) = F[OnHostAt(c, x)]
      BY <3>2, TwinPaths
    <3> QED BY <3>2, <3>3 DEF Plugged, OnHostPaths
  <2> HIDE DEF u, v, a, b, F
  <2>8. \A j \in DOMAIN ns : v[j] = F[u[j]] /\ u[j] \in Plugged(c)
    <3>1. \A j \in DOMAIN ns : ns[j] \in ToSet(ns)
      BY <2>5, AppendInto
    <3> QED BY <2>6, <2>7, <3>1
  <2>9. IsSeq(u) /\ ToSet(u) \subseteq Plugged(c) /\ DOMAIN u = DOMAIN ns
    BY <2>5, <2>6, <2>8, MappedInto
  <2>10. v = Moved(F, u)
    BY <2>6, <2>8, <2>9 DEF Moved
  <2> QED BY <2>3, <2>4, <2>9, <2>10
<1>4. IsSeq(inT) /\ DOMAIN inT = DOMAIN dirs
  <2>1. inT = [i \in DOMAIN dirs |-> inT[i]]
    OBVIOUS
  <2> HIDE DEF inT
  <2> QED BY <1>2, <2>1, MappedIsSeq
<1>5. inV = [i \in DOMAIN dirs |-> inV[i]]
  OBVIOUS
<1>6. DiscoverPlugins(h, T) = [i \in DOMAIN once |-> Plugin(h, ToHostPath(h, once[i]), Last(Front(once[i])))]
  BY <1>1 DEF DiscoverPlugins, Flatten, Map, FirstOf, Filter
<1>7. DiscoverPlugins(c, V) = [i \in DOMAIN twice |-> Plugin(c, ToHostPath(c, twice[i]), Last(Front(twice[i])))]
  BY DEF DiscoverPlugins, Flatten, Map, FirstOf, Filter, dirs
<1> HIDE DEF inT, inV, F, names, here
<1>8. IsSeq(s) /\ ToSet(s) \subseteq Plugged(c)
  BY <1>3, <1>4, FlattenInto
<1>9. t = Moved(F, s)
  <2>1. inV = [i \in DOMAIN inT |-> Moved(F, inT[i])]
    BY <1>3, <1>4, <1>5
  <2> QED BY <1>3, <1>4, <2>1, MovedFlat
<1> HIDE DEF s, t
<1>10. Plugged(c) \subseteq OnHostPaths(c) /\ \A p \in Plugged(c) : Last(Front(F[p])) = Last(Front(p))
  BY DEF Plugged, F
<1>11. twice = Moved(F, once) /\ IsSeq(once) /\ ToSet(once) \subseteq Plugged(c)
  <2>1. ToSet(s) \subseteq OnHostPaths(c)
    BY <1>8, <1>10
  <2>2. twice = Moved(F, once) /\ IsSeq(once) /\ ToSet(once) \subseteq ToSet(s)
    BY <1>8, <1>9, <2>1, RealFirsts DEF F
  <2> HIDE DEF once, twice
  <2> QED BY <1>8, <2>2
<1> HIDE DEF once, twice
<1>12. DOMAIN twice = DOMAIN once /\ \A i \in DOMAIN once : twice[i] = F[once[i]] /\ once[i] \in Plugged(c)
  BY <1>11, MovedIsSeq, ElementsOfSeq
<1>13. ASSUME NEW i \in DOMAIN once
       PROVE  Plugin(c, ToHostPath(c, twice[i]), Last(Front(twice[i]))) = Plugin(h, ToHostPath(h, once[i]), Last(Front(once[i])))
  <2>1. ToHostPath(c, twice[i]) = once[i] /\ ToHostPath(h, once[i]) = once[i]
    BY <1>10, <1>12, RealBelow DEF F
  <2> QED BY <1>1, <1>10, <1>12, <2>1, LibraryTwin
<1> QED BY <1>6, <1>7, <1>12, <1>13

\* All programs find the same providers on the host.
LEMMA ProvidersSame ==
    ASSUME NEW c, NEW V, NEW h, NEW T, BothSee(c, V, h, T)
    PROVE  DiscoverRDMAProviders(c, V) = DiscoverRDMAProviders(h, T)
<1> DEFINE ps == c.providers
           File(fs, m, p) == Stat(fs, m \o p).kind = "file"
           kept(fs, m) == {i \in DOMAIN ps : File(fs, m, ps[i].library) /\ (ps[i].driver # <<>> => File(fs, m, ps[i].driver))}
           found(fs, m) == [i \in DOMAIN Only(ps, kept(fs, m)) |->
                       [path |-> Only(ps, kept(fs, m))[i].library, driver |-> Only(ps, kept(fs, m))[i].driver,
                        cpath |-> Append(c.providerDir, Last(Only(ps, kept(fs, m))[i].library))]]
<1>1. h.providers = ps /\ h.providerDir = c.providerDir /\ h.hostRoot = <<>>
  BY DEF BothSee, Twin
<1>2. DiscoverRDMAProviders(c, V) = IF c.providerDir = <<>> THEN <<>> ELSE found(V, c.hostRoot)
  BY DEF DiscoverRDMAProviders, Filter, Map
<1>3. DiscoverRDMAProviders(h, T) = IF c.providerDir = <<>> THEN <<>> ELSE found(T, <<>>)
  BY <1>1 DEF DiscoverRDMAProviders, Filter, Map
<1>4. ASSUME NEW p \in Clear PROVE File(V, c.hostRoot, p) <=> File(T, <<>>, p)
  <2>1. Stat(V, c.hostRoot \o p) = Stat(T, p)
    BY SeenBelow DEF BothSee, Sees
  <2>2. <<>> \o p = p
    BY ClearIsPath, EmptyConcat
  <2> QED BY <2>1, <2>2
<1>5. \A i \in DOMAIN ps : ps[i].library \in Clear /\ ps[i].driver \in Clear
  <2>1. \A i \in DOMAIN ps : ps[i] \in ToSet(ps)
    BY DEF ToSet
  <2> QED BY <2>1 DEF BothSee, ClearNames
<1> HIDE DEF File, ps
<1>6. kept(V, c.hostRoot) = kept(T, <<>>)
  BY <1>4, <1>5
<1> HIDE DEF kept
<1> QED BY <1>2, <1>3, <1>6

\* The first of a sequence.
LEMMA MovedFirst ==
    ASSUME NEW F, NEW s, IsSeq(s)
    PROVE  FirstN(Moved(F, s), 1) = Moved(F, FirstN(s, 1))
<1>1. /\ IsSeq(Moved(F, s)) /\ Len(Moved(F, s)) = Len(s) /\ DOMAIN Moved(F, s) = DOMAIN s
      /\ \A i \in DOMAIN s : Moved(F, s)[i] = F[s[i]]
  BY MovedIsSeq
<1>2. Len(s) \in Nat /\ DOMAIN s = 1..Len(s)
  BY IsSeqLen
<1> DEFINE k == IF Len(s) < 1 THEN Len(s) ELSE 1
           t == Moved(F, s)
           some == SubSeq(s, 1, k)
           rest == SubSeq(t, 1, k)
<1>3. k \in 0..Len(s)
  BY <1>2
<1> HIDE DEF k, t
<1>4. some \in Seq(ToSet(s)) /\ Len(some) = k /\ DOMAIN some = 1..k /\ \A i \in 1..k : some[i] = s[i]
  BY <1>2, <1>3 DEF IsSeq
<1>5. rest \in Seq(ToSet(t)) /\ Len(rest) = k /\ DOMAIN rest = 1..k /\ \A i \in 1..k : rest[i] = t[i]
  BY <1>1, <1>2, <1>3 DEF IsSeq, t
<1> HIDE DEF some, rest
<1>6. IsSeq(rest) /\ IsSeq(some)
  BY <1>4, <1>5, SeqIsSeq
<1>7. IsSeq(Moved(F, some)) /\ Len(Moved(F, some)) = k /\ \A i \in 1..k : Moved(F, some)[i] = F[some[i]]
  BY <1>4, <1>6, MovedIsSeq
<1>8. \A i \in 1..k : rest[i] = Moved(F, some)[i]
  BY <1>1, <1>2, <1>3, <1>4, <1>5, <1>7 DEF t
<1>9. rest = Moved(F, some)
  BY <1>5, <1>6, <1>7, <1>8, SeqsEqual
<1>10. FirstN(s, 1) = some /\ FirstN(t, 1) = rest
  BY <1>1 DEF FirstN, some, rest, k, t
<1> QED BY <1>9, <1>10 DEF t

LEMMA FirstElements ==
    ASSUME NEW s, IsSeq(s)
    PROVE  IsSeq(FirstN(s, 1)) /\ ToSet(FirstN(s, 1)) \subseteq ToSet(s)
<1>1. s \in Seq(ToSet(s))
  BY DEF IsSeq
<1>2. FirstN(s, 1) \in Seq(ToSet(s))
  BY <1>1 DEF FirstN
<1> QED BY <1>2, SeqElements

\* All programs find the same tools.
LEMMA ToolsSame ==
    ASSUME NEW c, NEW V, NEW h, NEW T, BothSee(c, V, h, T)
    PROVE  DiscoverTools(c, V) = DiscoverTools(h, T)
<1> DEFINE F == Under(c.hostRoot)
           dirs == c.binDirs
           first(fs, e, t) == FirstN(FindTool(e, fs, t), 1)
           tool(fs, e, t) == [i \in DOMAIN first(fs, e, t) |-> Tool(e, ToolHostPath(e, first(fs, e, t)[i]))]
<1>1. Twin(c, h) /\ Sees(c, V, T) /\ Sees(h, T, T) /\ ClearNames(c) /\ h.binDirs = dirs /\ h.tools = c.tools
  BY DEF BothSee, Twin
<1>2. ASSUME NEW t \in Name, t # ".." PROVE tool(V, c, t) = tool(T, h, t)
  <2> DEFINE a == [i \in DOMAIN dirs |-> SearchRoot(h) \o dirs[i] \o <<t>>]
             b == [i \in DOMAIN dirs |-> SearchRoot(c) \o dirs[i] \o <<t>>]
             keptA == {i \in DOMAIN a : Stat(T, a[i]).kind = "file" /\ Stat(T, a[i]).exec}
             keptB == {i \in DOMAIN b : Stat(V, b[i]).kind = "file" /\ Stat(V, b[i]).exec}
             s == Only(a, keptA)
             one == FirstN(s, 1)
             other == FirstN(Only(b, keptB), 1)
  <2>1. IsSeq(dirs) /\ \A i \in DOMAIN dirs : dirs[i] \in Clear
    <3>1. IsSeq(dirs) /\ ToSet(dirs) \subseteq Clear
      BY <1>1, SeqElements DEF Sees, IsConfig, ClearNames
    <3> HIDE DEF dirs
    <3> QED BY <3>1, ElementsOfSeq
  <2>2. FindTool(h, T, t) = s /\ FindTool(c, V, t) = Only(b, keptB)
    BY <1>1 DEF FindTool, Map, Filter
  <2> HIDE DEF dirs
  <2>3. IsSeq(a) /\ DOMAIN a = DOMAIN dirs /\ DOMAIN b = DOMAIN dirs /\ b = [i \in DOMAIN dirs |-> b[i]]
    <3>1. a = [i \in DOMAIN dirs |-> a[i]]
      OBVIOUS
    <3> HIDE DEF a
    <3> QED BY <2>1, <3>1, MappedIsSeq
  <2>4. ASSUME NEW i \in DOMAIN dirs
        PROVE  b[i] = F[a[i]] /\ a[i] \in OnHostPaths(c) /\ Stat(V, b[i]) = Stat(T, a[i])
    <3> DEFINE d == dirs[i]
               x == d \o <<t>>
    <3>1. d \in Clear /\ b[i] = (SearchRoot(c) \o d) \o <<t>> /\ a[i] = (SearchRoot(h) \o d) \o <<t>>
      BY <2>1
    <3> HIDE DEF d
    <3>2. IsPlace(c, d, t, x) /\ IsPlace(h, d, t, x)
      BY <1>1, <1>2, <3>1, PlaceBelow
    <3>3. x \in Clear /\ b[i] = Below(c, x) /\ a[i] = Below(h, x)
      <4> HIDE DEF a, b, x
      <4> QED BY <3>1, <3>2 DEF IsPlace
    <3> HIDE DEF x, a, b
    <3>4. Below(h, x) = OnHostAt(c, x) /\ Below(c, x) = F[OnHostAt(c, x)]
      BY <3>3, TwinPaths
    <3>5. Stat(V, Below(c, x)) = Stat(T, OnHostAt(c, x))
      BY <1>1, <3>3, SeesBelow
    <3> QED BY <3>3, <3>4, <3>5 DEF OnHostPaths
  <2> HIDE DEF a, b, F
  <2>5. keptA = keptB
    BY <2>3, <2>4
  <2>6. b = Moved(F, a)
    BY <2>3, <2>4 DEF Moved
  <2> HIDE DEF keptA, keptB
  <2>7. Only(b, keptB) = Moved(F, s)
    BY <2>3, <2>5, <2>6, MovedOnly
  <2>8. IsSeq(s) /\ ToSet(s) \subseteq OnHostPaths(c)
    <3>1. IsSeq(s) /\ ToSet(s) = {a[i] : i \in DOMAIN a \cap keptA}
      BY <2>3, OnlyElements
    <3> HIDE DEF s
    <3> QED BY <2>3, <2>4, <3>1
  <2> HIDE DEF s
  <2>9. other = Moved(F, one) /\ IsSeq(one) /\ ToSet(one) \subseteq OnHostPaths(c)
    BY <2>7, <2>8, MovedFirst, FirstElements
  <2>10. tool(T, h, t) = [i \in DOMAIN one |-> Tool(h, ToolHostPath(h, one[i]))]
    BY <2>2
  <2>11. tool(V, c, t) = [i \in DOMAIN other |-> Tool(c, ToolHostPath(c, other[i]))]
    BY <2>2
  <2> HIDE DEF one, other
  <2>12. DOMAIN other = DOMAIN one /\ \A i \in DOMAIN one : other[i] = F[one[i]] /\ one[i] \in OnHostPaths(c)
    BY <2>9, MovedIsSeq, ElementsOfSeq
  <2>13. \A i \in DOMAIN one : Tool(c, ToolHostPath(c, other[i])) = Tool(h, ToolHostPath(h, one[i]))
    BY <1>1, <2>12, RealBelow, LibraryTwin DEF F
  <2> QED BY <2>10, <2>11, <2>12, <2>13
<1>3. DiscoverTools(c, V) = FlattenSeq([i \in DOMAIN c.tools |-> tool(V, c, c.tools[i])])
  BY DEF DiscoverTools, Flatten, Map
<1>4. DiscoverTools(h, T) = FlattenSeq([i \in DOMAIN c.tools |-> tool(T, h, c.tools[i])])
  BY <1>1 DEF DiscoverTools, Flatten, Map
<1>5. \A i \in DOMAIN c.tools : c.tools[i] \in Name /\ c.tools[i] # ".."
  <2>1. IsSeq(c.tools) /\ \A i \in DOMAIN c.tools : c.tools[i] \in Name
    BY <1>1, SeqElements DEF Sees, IsConfig
  <2> QED BY <1>1, <2>1, AppendInto DEF ClearNames
<1> HIDE DEF tool
<1>6. [i \in DOMAIN c.tools |-> tool(V, c, c.tools[i])] = [i \in DOMAIN c.tools |-> tool(T, h, c.tools[i])]
  BY <1>2, <1>5
<1> QED BY <1>3, <1>4, <1>6

LEMMA LstatBelow ==
    ASSUME NEW c, NEW V, NEW T, Sees(c, V, T), ClearNames(c), NEW d \in Clear, NEW n \in ToSet(Names),
           NEW x, x = d \o <<n>>
    PROVE  Lstat(V, Below(c, x)) = Lstat(T, OnHostAt(c, x))
<1>1. n \in Name /\ n # ".."
  BY NamesAre
<1>2. IsPlace(c, d, n, d \o <<n>>)
  BY <1>1, PlaceBelow
<1>3. /\ Below(c, x) = Append(Below(c, d), n) /\ OnHostAt(c, x) = Append(OnHostAt(c, d), n)
      /\ Below(c, d) \in Path
  BY <1>2 DEF IsPlace
<1>4. OnHostAt(c, d) \in Path
  BY SeesBelow, ClearIsPath
<1>5. /\ Front(Append(Below(c, d), n)) = Below(c, d) /\ Last(Append(Below(c, d), n)) = n
      /\ Front(Append(OnHostAt(c, d), n)) = OnHostAt(c, d) /\ Last(Append(OnHostAt(c, d), n)) = n
  BY <1>1, <1>3, <1>4, LastOf
<1>6. NodeAt(V, Append(EvalSymlinks(V, Below(c, d)), n)) = NodeAt(T, Append(EvalSymlinks(T, OnHostAt(c, d)), n))
  BY EntriesBelow
<1> QED BY <1>3, <1>5, <1>6 DEF Lstat

\* What is resolved below the search root and on the host.
LEMMA ResolvedEqually ==
    ASSUME NEW c, NEW V, NEW h, NEW T, BothSee(c, V, h, T), NEW d \in Clear, NEW name \in ToSet(Names)
    PROVE  LET p == SearchRoot(c) \o d \o <<name>>
               q == SearchRoot(h) \o d \o <<name>>
           IN  Stat(V, p) = Stat(T, q) /\ Resolved(c, V, p) = Resolved(h, T, q)
<1> DEFINE p == SearchRoot(c) \o d \o <<name>>
           q == SearchRoot(h) \o d \o <<name>>
           x == d \o <<name>>
           m == c.hostRoot
           r == c.driverRoot
           e == EvalSymlinks(T, q)
<1>1. Sees(c, V, T) /\ Sees(h, T, T) /\ ClearNames(c)
  BY DEF BothSee
<1>2. name \in Name /\ name # ".."
  BY <1>1, NamesAre
<1>3. x \in Clear /\ p = Below(c, x) /\ q = Below(h, x)
  <2>1. IsPlace(c, d, name, x) /\ IsPlace(h, d, name, x)
    BY <1>1, <1>2, PlaceBelow
  <2> QED BY <2>1 DEF IsPlace
<1>4. Below(h, x) = OnHostAt(c, x) /\ Below(c, x) = m \o q
  <2> HIDE DEF q, x, m
  <2>1. Below(h, x) = OnHostAt(c, x)
    BY <1>3, TwinPaths
  <2>2. Below(c, x) = c.hostRoot \o OnHostAt(c, x)
    BY <1>1, <1>3, SeesBelow
  <2> QED BY <1>3, <2>1, <2>2 DEF m
<1>5. Lstat(V, p) = Lstat(T, q)
  <2>1. Lstat(V, Below(c, x)) = Lstat(T, OnHostAt(c, x))
    BY <1>1, LstatBelow
  <2> QED BY <1>3, <1>4, <2>1
<1> HIDE DEF p, x
<1>6. /\ EvalSymlinks(V, p) = m \o e /\ e \in Clear /\ IsPrefix(r, e) /\ Stat(V, p) = Stat(T, q)
  <2>1. /\ EvalSymlinks(V, Below(c, x)) = c.hostRoot \o EvalSymlinks(T, OnHostAt(c, x))
        /\ EvalSymlinks(T, OnHostAt(c, x)) \in Clear
        /\ IsPrefix(c.driverRoot, EvalSymlinks(T, OnHostAt(c, x)))
        /\ Stat(V, Below(c, x)) = Stat(T, OnHostAt(c, x))
    BY <1>1, <1>3, SeesBelow
  <2> HIDE DEF q
  <2> QED BY <1>3, <1>4, <2>1
<1>7. m \in Path /\ r \in Path /\ SearchRoot(c) = m \o r /\ m \o r \in Path /\ SearchRoot(h) = r
  <2>1. m \in Path /\ r \in Path /\ SearchRoot(c) = m \o r /\ m \o r \in Path /\ SearchRoot(h) = h.hostRoot \o h.driverRoot
    BY <1>1, SeesPaths
  <2>2. h.hostRoot = <<>> /\ h.driverRoot = r
    BY DEF BothSee, Twin
  <2> QED BY <2>1, <2>2, EmptyConcat
<1> HIDE DEF q, e
<1>8. CASE Lstat(V, p).kind = "link"
  <2> HIDE DEF m, r
  <2>1. PICK y \in Clear : e = r \o y
    BY <1>6, <1>7, ClearSplit
  <2>2. y \in Path /\ m \o e = (m \o r) \o y
    BY <1>7, <2>1, ClearIsPath, ConcatAssoc
  <2>3. Rel(r, r \o y) = y
    BY <1>7, <2>2, RelBelow
  <2>4. Rel(m \o r, (m \o r) \o y) = y
    <3> DEFINE a == m \o r
    <3>1. a \in Path
      BY <1>7
    <3> HIDE DEF a
    <3>2. Rel(a, a \o y) = y
      BY <2>2, <3>1, RelBelow
    <3> QED BY <3>2 DEF a
  <2>5. Resolved(c, V, p) = y
    BY <1>6, <1>7, <1>8, <2>2, <2>4 DEF Resolved
  <2>6. Resolved(h, T, q) = y
    BY <1>5, <1>7, <1>8, <2>1, <2>3 DEF Resolved, e
  <2> QED BY <1>6, <2>5, <2>6 DEF p, q
<1>9. CASE Lstat(V, p).kind # "link"
  <2>1. x \in Path
    BY <1>3, ClearIsPath
  <2>2. TrimPrefix(p, m \o r) = x
    BY <1>3, <1>7, <2>1, TrimRoot DEF Below
  <2>3. q = r \o x
    BY <1>3, <1>4 DEF OnHostAt
  <2>4. TrimPrefix(q, r) = x
    BY <1>7, <2>1, <2>3, TrimRoot
  <2>5. Resolved(c, V, p) = x
    BY <1>7, <1>9, <2>2 DEF Resolved
  <2>6. Resolved(h, T, q) = x
    BY <1>5, <1>7, <1>9, <2>4 DEF Resolved
  <2> QED BY <1>6, <2>5, <2>6 DEF p, q
<1> QED BY <1>8, <1>9 DEF p, q

LEMMA ResolveSame ==
    ASSUME NEW c, NEW V, NEW h, NEW T, BothSee(c, V, h, T), NEW name \in ToSet(Names)
    PROVE  ResolveLibrary(c, V, name) = ResolveLibrary(h, T, name)
<1> DEFINE dirs == c.libDirs
           kept(e, fs) == {i \in DOMAIN dirs : Stat(fs, SearchRoot(e) \o dirs[i] \o <<name>>) # NoNode}
           usable == Only(dirs, kept(c, V))
           result(e, fs) == Resolved(e, fs, SearchRoot(e) \o Head(usable) \o <<name>>)
<1>1. IsSeq(dirs) /\ ToSet(dirs) \subseteq Clear /\ h.libDirs = dirs
  BY SeqElements DEF BothSee, Sees, IsConfig, ClearNames, Twin
<1>2. \A i \in DOMAIN dirs : dirs[i] \in Clear
  <2> HIDE DEF dirs
  <2> QED BY <1>1, ElementsOfSeq
<1>3. kept(c, V) = kept(h, T)
  BY <1>2, ResolvedEqually
<1>4. ResolveLibrary(c, V, name) = IF usable = <<>> THEN <<>> ELSE result(c, V)
  BY DEF ResolveLibrary, Filter
<1>5. ResolveLibrary(h, T, name) = IF usable = <<>> THEN <<>> ELSE result(h, T)
  <2> DEFINE other == Only(dirs, kept(h, T))
  <2>1. ResolveLibrary(h, T, name) = IF other = <<>> THEN <<>> ELSE Resolved(h, T, SearchRoot(h) \o Head(other) \o <<name>>)
    BY <1>1 DEF ResolveLibrary, Filter
  <2>2. other = usable
    BY <1>3
  <2> HIDE DEF other, usable
  <2> QED BY <2>1, <2>2
<1> HIDE DEF kept, dirs
<1>6. ASSUME usable # <<>> PROVE Head(usable) \in Clear
  <2>1. IsSeq(usable) /\ ToSet(usable) \subseteq ToSet(dirs)
    <3> DEFINE keys == [i \in DOMAIN dirs |-> i]
    <3>1. DOMAIN keys = DOMAIN dirs
      OBVIOUS
    <3> HIDE DEF keys
    <3> QED BY <1>1, <3>1, KeptElements
  <2> HIDE DEF usable
  <2>2. Len(usable) \in Nat /\ DOMAIN usable = 1..Len(usable) /\ usable \in Seq(ToSet(usable))
    BY <2>1, IsSeqLen DEF IsSeq
  <2>3. Len(usable) # 0 /\ Head(usable) = usable[1]
    BY <1>6, <2>2
  <2>4. 1 \in DOMAIN usable
    BY <2>2, <2>3
  <2> QED BY <1>1, <2>1, <2>3, <2>4, AppendInto
<1>7. ASSUME usable # <<>> PROVE result(c, V) = result(h, T)
  <2> HIDE DEF usable
  <2> QED BY <1>6, <1>7, ResolvedEqually
<1> HIDE DEF usable, result
<1> QED BY <1>4, <1>5, <1>7

\* A queue of the resolver below a mount, made of the one on the host.
Lifted(m) == [e \in [rel : Path, full : Path] |-> [rel |-> e.rel, full |-> m \o e.full]]

LEMMA MovedAppend ==
    ASSUME NEW F, NEW s, IsSeq(s), NEW x
    PROVE  Moved(F, Append(s, x)) = Append(Moved(F, s), F[x])
<1>1. Append(s, x) = s \o <<x>> /\ IsSeq(<<x>>) /\ Append(Moved(F, s), F[x]) = Moved(F, s) \o <<F[x]>>
  BY MovedIsSeq, OneIsSeq DEF IsSeq
<1>2. Moved(F, <<x>>) = <<F[x]>>
  BY DEF Moved
<1>3. Moved(F, s \o <<x>>) = Moved(F, s) \o Moved(F, <<x>>)
  BY <1>1, MovedConcat
<1> QED BY <1>1, <1>2, <1>3

LEMMA MovedTail ==
    ASSUME NEW F, NEW s, IsSeq(s), s # <<>>
    PROVE  Tail(Moved(F, s)) = Moved(F, Tail(s)) /\ IsSeq(Tail(s)) /\ ToSet(Tail(s)) \subseteq ToSet(s)
<1> DEFINE t == Moved(F, s)
           rest == Tail(s)
           other == Tail(t)
<1>1. /\ IsSeq(t) /\ Len(t) = Len(s) /\ DOMAIN t = DOMAIN s /\ \A i \in DOMAIN s : t[i] = F[s[i]]
  BY MovedIsSeq
<1>2. Len(s) \in Nat /\ DOMAIN s = 1..Len(s) /\ Len(s) # 0 /\ s \in Seq(ToSet(s))
  BY IsSeqLen DEF IsSeq
<1> HIDE DEF t
<1>3. Len(t) # 0 /\ t \in Seq(ToSet(t)) /\ t # <<>>
  <2>1. Len(t) # 0 /\ t \in Seq(ToSet(t))
    BY <1>1, <1>2 DEF IsSeq
  <2> QED BY <2>1
<1>4. rest \in Seq(ToSet(s)) /\ Len(rest) = Len(s) - 1 /\ \A i \in 1..(Len(s) - 1) : rest[i] = s[i + 1]
  BY <1>2
<1>5. other \in Seq(ToSet(t)) /\ Len(other) = Len(s) - 1 /\ \A i \in 1..(Len(s) - 1) : other[i] = t[i + 1]
  BY <1>1, <1>2, <1>3
<1> HIDE DEF rest, other
<1>6. IsSeq(rest) /\ IsSeq(other) /\ DOMAIN rest = 1..(Len(s) - 1) /\ ToSet(rest) \subseteq ToSet(s)
  BY <1>2, <1>4, <1>5, SeqIsSeq, IsSeqLen, SeqElements
<1>7. IsSeq(Moved(F, rest)) /\ Len(Moved(F, rest)) = Len(s) - 1 /\ \A i \in 1..(Len(s) - 1) : Moved(F, rest)[i] = F[rest[i]]
  BY <1>4, <1>6, MovedIsSeq
<1>8. \A i \in 1..(Len(s) - 1) : i + 1 \in DOMAIN s
  BY <1>2
<1>9. \A i \in 1..(Len(s) - 1) : other[i] = Moved(F, rest)[i]
  BY <1>1, <1>4, <1>5, <1>7, <1>8
<1>10. other = Moved(F, rest)
  BY <1>5, <1>6, <1>7, <1>9, SeqsEqual
<1> QED BY <1>6, <1>10 DEF t, rest, other

\* What is in a queue on the host, and in one below the mount.
InQueue(c, e, f) ==
    /\ e \in [rel : Path, full : Path] /\ e.full \in Path
    /\ \E x \in Clear : e.full = OnHostAt(c, x) /\ f.full = Below(c, x)
    /\ f = [rel |-> e.rel, full |-> c.hostRoot \o e.full]
    /\ f.rel = e.rel /\ f.full = c.hostRoot \o e.full

LEMMA QueueElements ==
    ASSUME NEW c, NEW V, NEW h, NEW T, BothSee(c, V, h, T), NEW u \in Queues(h, T)
    PROVE  /\ IsSeq(u) /\ u # <<>> /\ DOMAIN u = 1..Len(u) /\ Len(u) \in Nat
           /\ \A i \in DOMAIN u : InQueue(c, u[i], Lifted(c.hostRoot)[u[i]])
<1> DEFINE S == [rel : Path, full : BelowPaths(h)]
<1>1. u \in Seq(S) /\ u # <<>>
  BY DEF Queues
<1>2. IsSeq(u) /\ u # <<>> /\ DOMAIN u = 1..Len(u) /\ Len(u) \in Nat /\ \A i \in DOMAIN u : u[i] \in S
  <2> HIDE DEF S
  <2> QED BY <1>1, SeqElements, IsSeqLen
<1>3. ASSUME NEW i \in DOMAIN u
      PROVE  InQueue(c, u[i], Lifted(c.hostRoot)[u[i]])
  <2>1. u[i] \in S
    BY <1>2
  <2>2. PICK x \in Clear : u[i].full = Below(h, x)
    BY <2>1 DEF BelowPaths
  <2>3. Below(h, x) = OnHostAt(c, x) /\ OnHostAt(c, x) \in Clear
    BY TwinPaths
  <2>4. Sees(c, V, T)
    BY DEF BothSee
  <2>5. Below(c, x) = c.hostRoot \o OnHostAt(c, x)
    BY <2>4, SeesBelow
  <2>6. u[i].full \in Path
    BY <2>2, <2>3, ClearIsPath
  <2>7. u[i] \in [rel : Path, full : Path]
    BY <2>1, <2>6
  <2>8. Lifted(c.hostRoot)[u[i]] = [rel |-> u[i].rel, full |-> c.hostRoot \o u[i].full]
    BY <2>7 DEF Lifted
  <2>9. Lifted(c.hostRoot)[u[i]].full = Below(c, x)
    BY <2>2, <2>3, <2>5, <2>8
  <2> DEFINE e == u[i]
             f == Lifted(c.hostRoot)[u[i]]
  <2>10. /\ e \in [rel : Path, full : Path] /\ e.full \in Path /\ f = [rel |-> e.rel, full |-> c.hostRoot \o e.full]
         /\ e.full = OnHostAt(c, x) /\ f.full = Below(c, x)
    BY <2>2, <2>3, <2>6, <2>7, <2>8, <2>9
  <2> HIDE DEF e, f
  <2>11. f.rel = e.rel /\ f.full = c.hostRoot \o e.full
    BY <2>10
  <2>12. InQueue(c, e, f)
    BY <2>10, <2>11, Zenon DEF InQueue
  <2> QED BY <2>12 DEF e, f
<1> QED BY <1>2, <1>3

LEMMA VisitSame ==
    ASSUME NEW c, NEW V, NEW h, NEW T, BothSee(c, V, h, T), NEW u \in Queues(h, T), NEW name \in ToSet(Names)
    PROVE  VisitName(c, V, Moved(Lifted(c.hostRoot), u), name) = Moved(Lifted(c.hostRoot), VisitName(h, T, u, name))
<1> DEFINE m == c.hostRoot
           G == Lifted(m)
           v == Moved(G, u)
           rel == ResolveLibrary(h, T, name)
           full == Clean(SearchRoot(h) \o rel)
           upper == Clean(SearchRoot(c) \o rel)
<1>1. Sees(c, V, T) /\ Sees(h, T, T) /\ ClearNames(h) /\ WellApart(h, T)
  BY DEF BothSee
<1>2. VisitName(h, T, u, name) = Visit(u, rel, full) /\ VisitName(c, V, v, name) = Visit(v, rel, upper)
  BY ResolveSame DEF VisitName
<1>3. rel = <<>> \/ rel \in Resolvable(h, T)
  BY <1>1, ResolvedThere
<1>4. IsSeq(u) /\ \A i \in DOMAIN u : InQueue(c, u[i], G[u[i]])
  BY QueueElements
<1>5. DOMAIN v = DOMAIN u /\ \A i \in DOMAIN u : InQueue(c, u[i], v[i])
  BY <1>4, MovedIsSeq
<1> HIDE DEF rel, v
<1>6. CASE rel = <<>>
  BY <1>2, <1>6 DEF Visit, v
<1>7. CASE rel \in Resolvable(h, T)
  <2>1. rel \in Clear /\ rel \in Path
    BY <1>7, ClearIsPath DEF Resolvable, There
  <2>2. upper = m \o full /\ full \in Path /\ m \in Path
    <3>1. SearchRoot(h) \o rel = OnHostAt(c, rel) /\ SearchRoot(c) \o rel = Below(c, rel)
      BY <2>1, TwinPaths
    <3>2. OnHostAt(c, rel) \in Clear /\ Below(c, rel) \in Clear /\ Below(c, rel) = m \o OnHostAt(c, rel)
      BY <1>1, <2>1, SeesBelow
    <3>3. full = OnHostAt(c, rel) /\ upper = Below(c, rel)
      BY <3>1, <3>2, CleanClear
    <3> HIDE DEF full, upper
    <3> QED BY <1>1, <3>2, <3>3, ClearIsPath, SeesPaths
  <2> HIDE DEF full, upper, G, m
  <2>3. \A i \in DOMAIN u : v[i].full = upper <=> u[i].full = full
    <3>1. \A i \in DOMAIN u : v[i].full = m \o u[i].full /\ u[i].full \in Path
      BY <1>5 DEF InQueue, m
    <3> QED BY <2>2, <3>1, ConcatCancel
  <2>4. (\E i \in DOMAIN v : v[i].full = upper) <=> (\E i \in DOMAIN u : u[i].full = full)
    BY <1>5, <2>3
  <2>5. CASE \E i \in DOMAIN u : u[i].full = full
    BY <1>2, <2>4, <2>5 DEF Visit, v, G, m
  <2>6. CASE ~\E i \in DOMAIN u : u[i].full = full
    <3> DEFINE e == [rel |-> rel, full |-> full]
               f == [rel |-> rel, full |-> upper]
    <3>1. rel # <<>>
      BY <1>7 DEF Resolvable, There
    <3>2. Visit(u, rel, full) = Append(u, e) /\ Visit(v, rel, upper) = Append(v, f)
      BY <2>4, <2>6, <3>1 DEF Visit
    <3>3. G[e] = f
      BY <2>1, <2>2 DEF Lifted, G
    <3> HIDE DEF e, f
    <3>4. Moved(G, Append(u, e)) = Append(v, f)
      BY <1>4, <3>3, MovedAppend DEF v
    <3> QED BY <1>2, <3>2, <3>4 DEF v, G, m
  <2> QED BY <2>5, <2>6
<1> QED BY <1>3, <1>6, <1>7

\* The queues below a mount.
LiftedQueues(m, W) == {Moved(Lifted(m), u) : u \in W}

LEMMA VisitNeedsSame ==
    ASSUME NEW c, NEW V, NEW h, NEW T, BothSee(c, V, h, T), NEW u \in Queues(h, T), NEW needs \in Seq(ToSet(Names))
    PROVE  VisitNeeds(c, V, Moved(Lifted(c.hostRoot), u), needs) = Moved(Lifted(c.hostRoot), VisitNeeds(h, T, u, needs))
<1> DEFINE G == Lifted(c.hostRoot)
           W == Queues(h, T)
           U == LiftedQueues(c.hostRoot, W)
           N == ToSet(Names)
           k == Len(needs)
           v == Moved(G, u)
<1>1. Sees(h, T, T) /\ ClearNames(h) /\ WellApart(h, T)
  BY DEF BothSee
<1>2. \A w \in W : \A n \in N : VisitName(h, T, w, n) \in W /\ VisitName(c, V, Moved(G, w), n) = Moved(G, VisitName(h, T, w, n))
  BY <1>1, VisitThere, VisitSame
<1>3. u \in W /\ needs \in Seq(N)
  OBVIOUS
<1>4. k \in Nat /\ \A i \in 1..k : needs[i] \in N
  OBVIOUS
<1> HIDE DEF G, W, N
<1>5. v \in U /\ \A w \in U : \A n \in N : VisitName(c, V, w, n) \in U
  BY <1>2, <1>3 DEF LiftedQueues, G
<1> HIDE DEF U, v
<1>6. PICK acc : VisitsAre(h, T, u, needs, W, acc)
  BY <1>2, <1>3, VisitNeedsSteps
<1>7. PICK bcc : VisitsAre(c, V, v, needs, U, bcc)
  BY <1>3, <1>5, VisitNeedsSteps
<1>8. /\ acc[0] = u /\ bcc[0] = v /\ \A i \in 0..k : acc[i] \in W
      /\ \A i \in 1..k : acc[i] = VisitName(h, T, acc[i - 1], needs[i]) /\ bcc[i] = VisitName(c, V, bcc[i - 1], needs[i])
      /\ VisitNeeds(h, T, u, needs) = acc[k] /\ VisitNeeds(c, V, v, needs) = bcc[k]
  BY <1>6, <1>7 DEF VisitsAre
<1> HIDE DEF k
<1> DEFINE S == {i \in 0..k : bcc[i] = Moved(G, acc[i])}
<1>9. 0 \in S
  BY <1>4, <1>8 DEF v
<1>10. ASSUME NEW i \in 1..k, i - 1 \in S PROVE i \in S
  <2>1. i \in 0..k /\ i - 1 \in 0..k /\ bcc[i - 1] = Moved(G, acc[i - 1])
    BY <1>4, <1>10
  <2>2. VisitName(c, V, Moved(G, acc[i - 1]), needs[i]) = Moved(G, VisitName(h, T, acc[i - 1], needs[i]))
    BY <1>2, <1>4, <1>8, <2>1
  <2> QED BY <1>8, <2>1, <2>2
<1>11. \A i \in 0..k : i \in S
  <2> HIDE DEF S
  <2> QED BY <1>4, <1>9, <1>10, InductionTo
<1>12. bcc[k] = Moved(G, acc[k])
  BY <1>4, <1>11
<1> QED BY <1>8, <1>12 DEF G, v

LEMMA RoundSame ==
    ASSUME NEW c, NEW V, NEW h, NEW T, BothSee(c, V, h, T), NEW u \in Queues(h, T), NEW i \in Nat \ {0}
    PROVE  Round(c, V, Moved(Lifted(c.hostRoot), u), i) = Moved(Lifted(c.hostRoot), Round(h, T, u, i))
<1> DEFINE G == Lifted(c.hostRoot)
           v == Moved(G, u)
<1>1. IsSeq(u) /\ DOMAIN u = 1..Len(u) /\ Len(u) \in Nat /\ \A j \in DOMAIN u : InQueue(c, u[j], G[u[j]])
  BY QueueElements
<1>2. Len(v) = Len(u) /\ \A j \in DOMAIN u : v[j] = G[u[j]]
  BY <1>1, MovedIsSeq
<1> HIDE DEF v
<1>3. CASE i > Len(u)
  BY <1>2, <1>3 DEF Round, v
<1>4. CASE ~(i > Len(u))
  <2> HIDE DEF G
  <2>1. i \in DOMAIN u
    BY <1>1, <1>4
  <2>2. PICK x \in Clear : u[i].full = OnHostAt(c, x) /\ v[i].full = Below(c, x)
    BY <1>1, <1>2, <2>1 DEF InQueue
  <2>3. Sees(c, V, T) /\ Sees(h, T, T)
    BY DEF BothSee
  <2>4. Stat(V, v[i].full) = Stat(T, u[i].full)
    BY <2>2, <2>3, SeesBelow
  <2>5. Needed(V, v[i].full) = Needed(T, u[i].full)
    BY <2>4 DEF Needed
  <2>6. Needed(T, u[i].full) \in Seq(ToSet(Names))
    <3>1. u[i].full \in BelowPaths(h)
      BY <2>2, TwinPaths DEF BelowPaths
    <3> QED BY <2>3, <3>1, NeededNames
  <2>7. VisitNeeds(c, V, v, Needed(T, u[i].full)) = Moved(G, VisitNeeds(h, T, u, Needed(T, u[i].full)))
    BY <2>6, VisitNeedsSame DEF G, v
  <2>8. Round(c, V, v, i) = VisitNeeds(c, V, v, Needed(V, v[i].full)) /\ Round(h, T, u, i) = VisitNeeds(h, T, u, Needed(T, u[i].full))
    BY <1>2, <1>4 DEF Round
  <2> QED BY <2>5, <2>7, <2>8 DEF G, v
<1> QED BY <1>3, <1>4

\* The resolver finds the same below the mount and on the host.
LEMMA NeededSame ==
    ASSUME NEW c, NEW V, NEW h, NEW T, BothSee(c, V, h, T), NEW x \in Clear
    PROVE  /\ NeededByLibrary(c, V, Below(c, x)) = Moved(Lifted(c.hostRoot), NeededByLibrary(h, T, Below(h, x)))
           /\ IsSeq(NeededByLibrary(h, T, Below(h, x)))
           /\ \A e \in ToSet(NeededByLibrary(h, T, Below(h, x))) :
                 e.rel \in Resolvable(h, T) /\ Lifted(c.hostRoot)[e].rel = e.rel
<1> DEFINE G == Lifted(c.hostRoot)
           W == Queues(h, T)
           U == LiftedQueues(c.hostRoot, W)
           k == Len(Names) + 1
           e == [rel |-> <<>>, full |-> Below(h, x)]
           f == [rel |-> <<>>, full |-> Below(c, x)]
<1>1. Sees(c, V, T) /\ Sees(h, T, T) /\ ClearNames(h) /\ WellApart(h, T)
  BY DEF BothSee
<1>2. Below(h, x) \in BelowPaths(h) /\ Below(h, x) \in Path /\ Below(c, x) = c.hostRoot \o Below(h, x)
  <2>1. Below(h, x) = OnHostAt(c, x) /\ OnHostAt(c, x) \in Clear
    BY TwinPaths
  <2>2. Below(c, x) = c.hostRoot \o OnHostAt(c, x)
    BY <1>1, SeesBelow
  <2> QED BY <2>1, <2>2, ClearIsPath DEF BelowPaths
<1>3. G[e] = f
  BY <1>2, EmptyIsClear DEF Lifted
<1>4. <<e>> \in W
  <2> DEFINE S == [rel : Path, full : BelowPaths(h)]
  <2>1. e \in S
    BY <1>2, EmptyIsClear
  <2> QED BY <2>1 DEF Queues
<1>5. \A w \in W : \A i \in Nat \ {0} : Round(h, T, w, i) \in W /\ Round(c, V, Moved(G, w), i) = Moved(G, Round(h, T, w, i))
  BY <1>1, RoundThere, RoundSame
<1>6. <<f>> = Moved(G, <<e>>)
  <2> HIDE DEF e, f, G
  <2> QED BY <1>3 DEF Moved
<1> HIDE DEF G, W
<1>7. <<f>> \in U /\ \A w \in U : \A i \in Nat \ {0} : Round(c, V, w, i) \in U
  <2> HIDE DEF e, f
  <2> QED BY <1>4, <1>5, <1>6 DEF LiftedQueues, G
<1> HIDE DEF U
<1>8. PICK acc : RoundsAre(h, T, Below(h, x), W, acc)
  BY <1>4, <1>5, RoundsSteps
<1>9. PICK bcc : RoundsAre(c, V, Below(c, x), U, bcc)
  BY <1>7, RoundsSteps
<1>10. /\ acc[0] = <<e>> /\ bcc[0] = <<f>> /\ \A i \in 0..k : acc[i] \in W
       /\ \A i \in 1..k : acc[i] = Round(h, T, acc[i - 1], i) /\ bcc[i] = Round(c, V, bcc[i - 1], i)
       /\ NeededByLibrary(h, T, Below(h, x)) = Tail(acc[k]) /\ NeededByLibrary(c, V, Below(c, x)) = Tail(bcc[k])
  BY <1>8, <1>9 DEF RoundsAre
<1>11. k \in Nat
  BY DiscoveryAssumption
<1> HIDE DEF k, e, f
<1> DEFINE S == {i \in 0..k : bcc[i] = Moved(G, acc[i])}
<1>12. 0 \in S
  BY <1>6, <1>10, <1>11
<1>13. ASSUME NEW i \in 1..k, i - 1 \in S PROVE i \in S
  <2>1. i \in 0..k /\ i - 1 \in 0..k /\ i \in Nat \ {0} /\ bcc[i - 1] = Moved(G, acc[i - 1])
    BY <1>11, <1>13
  <2>2. Round(c, V, Moved(G, acc[i - 1]), i) = Moved(G, Round(h, T, acc[i - 1], i))
    BY <1>5, <1>10, <2>1
  <2> QED BY <1>10, <2>1, <2>2
<1>14. \A i \in 0..k : i \in S
  <2> HIDE DEF S
  <2> QED BY <1>11, <1>12, <1>13, InductionTo
<1>15. bcc[k] = Moved(G, acc[k]) /\ acc[k] \in W
  BY <1>10, <1>11, <1>14
<1> DEFINE u == acc[k]
<1> HIDE DEF u
<1>16. IsSeq(u) /\ u # <<>> /\ \A i \in DOMAIN u : InQueue(c, u[i], G[u[i]])
  BY <1>15, QueueElements DEF W, G, u
<1>17. Tail(Moved(G, u)) = Moved(G, Tail(u)) /\ IsSeq(Tail(u)) /\ ToSet(Tail(u)) \subseteq ToSet(u)
  BY <1>16, MovedTail
<1>18. \A y \in ToSet(u) : G[y].rel = y.rel
  BY <1>16 DEF ToSet, InQueue
<1>19. \A y \in ToSet(NeededByLibrary(h, T, Below(h, x))) : y.rel \in Resolvable(h, T)
  BY <1>1, <1>2, NeededThere
<1> QED BY <1>10, <1>15, <1>17, <1>18, <1>19 DEF G, u

\* Where a dependency is, to both programs.
SameOnHost(c, h, T, e, f) ==
    /\ f.rel = e.rel /\ e.rel \in Resolvable(c, T)
    /\ ToDriverRootPath(c, e.rel) = ToDriverRootPath(h, e.rel)
    /\ Library(c, ToDriverRootPath(c, e.rel)) = Library(h, ToDriverRootPath(c, e.rel))

LEMMA NeededSameOnHost ==
    ASSUME NEW c, NEW V, NEW h, NEW T, BothSee(c, V, h, T), NEW p \in HostPaths(c, T)
    PROVE  LET a == NeededByLibrary(h, T, ToSearchRootPath(h, p))
               b == NeededByLibrary(c, V, ToSearchRootPath(c, p))
           IN  /\ b = Moved(Lifted(c.hostRoot), a) /\ IsSeq(a)
               /\ \A e \in ToSet(a) : SameOnHost(c, h, T, e, Lifted(c.hostRoot)[e])
<1> DEFINE G == Lifted(c.hostRoot)
           a == NeededByLibrary(h, T, ToSearchRootPath(h, p))
           b == NeededByLibrary(c, V, ToSearchRootPath(c, p))
<1>1. Sees(c, V, T) /\ Sees(h, T, T) /\ ClearNames(c) /\ WellApart(c, T) /\ Twin(c, h)
  BY DEF BothSee
<1>2. PICK x \in Clear : p = OnHostAt(c, x)
  BY DEF HostPaths, There
<1>3. OnHostAt(c, x) = OnHostAt(h, x)
  BY <1>2, TwinPaths
<1>4. ToSearchRootPath(c, p) = Below(c, x) /\ ToSearchRootPath(h, p) = Below(h, x)
  BY <1>1, <1>2, <1>3, RootsExchanged
<1>5. /\ b = Moved(G, a) /\ IsSeq(a)
      /\ \A e \in ToSet(a) : e.rel \in Resolvable(h, T) /\ G[e].rel = e.rel
  BY <1>4, NeededSame
<1>6. \A e \in ToSet(b) : e.rel \in Resolvable(c, T)
  BY <1>1, <1>4, NeededThere DEF BelowPaths
<1> HIDE DEF a, b, G
<1>7. ASSUME NEW e \in ToSet(a) PROVE G[e] \in ToSet(b)
  <2>1. DOMAIN b = DOMAIN a /\ \A i \in DOMAIN a : b[i] = G[a[i]]
    BY <1>5, MovedIsSeq
  <2> QED BY <2>1 DEF ToSet
<1>8. ASSUME NEW e \in ToSet(a) PROVE SameOnHost(c, h, T, e, G[e])
  <2>1. G[e].rel = e.rel /\ e.rel \in Resolvable(h, T) /\ e.rel \in Resolvable(c, T)
    <3>1. G[e].rel = e.rel /\ e.rel \in Resolvable(h, T)
      BY <1>5
    <3>2. G[e].rel \in Resolvable(c, T)
      BY <1>6, <1>7
    <3> QED BY <3>1, <3>2
  <2> DEFINE r == e.rel
  <2>2. r \in Clear /\ Apart(c.driverRoot, c.hostRoot, r) /\ Apart(h.driverRoot, h.hostRoot, r)
    BY <2>1 DEF Resolvable, There
  <2> HIDE DEF r
  <2>3. ToDriverRootPath(c, r) = OnHostAt(c, r) /\ ToDriverRootPath(h, r) = OnHostAt(h, r)
    BY <1>1, <2>2, RootsExchanged
  <2>4. OnHostAt(c, r) = OnHostAt(h, r)
    BY <2>2, TwinPaths
  <2>5. Library(c, ToDriverRootPath(c, r)) = Library(h, ToDriverRootPath(c, r))
    BY <1>1, LibraryTwin
  <2> QED BY <2>1, <2>3, <2>4, <2>5 DEF SameOnHost, r
<1> QED BY <1>5, <1>8 DEF a, b, G

\* All programs find the same dependencies.
LEMMA DependenciesSame ==
    ASSUME NEW c, NEW V, NEW h, NEW T, BothSee(c, V, h, T),
           NEW libs, IsSeq(libs), \A l \in ToSet(libs) : l.path \in HostPaths(c, T)
    PROVE  DiscoverDependencies(c, V, libs) = DiscoverDependencies(h, T, libs)
<1> DEFINE G == Lifted(c.hostRoot)
           needs(e, fs) == [i \in DOMAIN libs |-> NeededByLibrary(e, fs, ToSearchRootPath(e, libs[i].path))]
           keys(e, all) == [i \in DOMAIN all |-> ToDriverRootPath(e, all[i].rel)]
           kept(e, once) == {i \in DOMAIN once :
                               /\ Last(once[i].rel) \notin GlibcName
                               /\ \A j \in DOMAIN libs : libs[j].path # ToDriverRootPath(e, once[i].rel)}
           more(e, only) == [i \in DOMAIN only |-> Library(e, ToDriverRootPath(e, only[i].rel))]
           t == needs(h, T)
           u == needs(c, V)
           all == FlattenSeq(t)
           once == Firsts(all, keys(h, all))
           only == Only(once, kept(h, once))
           all2 == FlattenSeq(u)
           once2 == Firsts(all2, keys(c, all2))
           only2 == Only(once2, kept(c, once2))
           Same == {e \in UNION {ToSet(t[i]) : i \in DOMAIN t} : SameOnHost(c, h, T, e, G[e])}
<1>1. DiscoverDependencies(h, T, libs) = more(h, only) /\ DiscoverDependencies(c, V, libs) = more(c, only2)
  BY DEF DiscoverDependencies, Flatten, Map, FirstOf, Filter
<1>2. \A i \in DOMAIN libs : libs[i].path \in HostPaths(c, T)
  BY AppendInto
<1>3. IsSeq(t) /\ DOMAIN t = DOMAIN libs
  <2>1. t = [i \in DOMAIN libs |-> t[i]]
    OBVIOUS
  <2> HIDE DEF t
  <2> QED BY <2>1, MappedIsSeq
<1>4. \A i \in DOMAIN libs : /\ u[i] = Moved(G, t[i]) /\ IsSeq(t[i])
                            /\ \A e \in ToSet(t[i]) : SameOnHost(c, h, T, e, G[e])
  BY <1>2, NeededSameOnHost
<1>5. u = [i \in DOMAIN t |-> Moved(G, t[i])]
  <2>1. u = [i \in DOMAIN libs |-> u[i]]
    OBVIOUS
  <2> HIDE DEF u, t, G
  <2> QED BY <1>3, <1>4, <2>1
<1> HIDE DEF needs, t, u, G
<1>6. all2 = Moved(G, all)
  BY <1>3, <1>4, <1>5, MovedFlat
<1>7. IsSeq(all) /\ ToSet(all) \subseteq Same
  <2>1. \A i \in DOMAIN t : IsSeq(t[i]) /\ ToSet(t[i]) \subseteq Same
    BY <1>3, <1>4
  <2> HIDE DEF Same
  <2> QED BY <1>3, <2>1, FlattenInto
<1>8. \A e \in Same : SameOnHost(c, h, T, e, G[e])
  OBVIOUS
<1> HIDE DEF all, all2, Same
<1>9. DOMAIN all2 = DOMAIN all /\ \A i \in DOMAIN all : all2[i] = G[all[i]] /\ all[i] \in Same
  BY <1>6, <1>7, MovedIsSeq, ElementsOfSeq
<1>10. keys(c, all2) = keys(h, all)
  BY <1>8, <1>9 DEF SameOnHost
<1>11. DOMAIN keys(h, all) = DOMAIN all
  OBVIOUS
<1> HIDE DEF keys
<1>12. once2 = Moved(G, once)
  BY <1>6, <1>7, <1>10, <1>11, MovedFirsts
<1>13. IsSeq(once) /\ ToSet(once) \subseteq Same
  BY <1>7, <1>11, KeptElements
<1> HIDE DEF once, once2
<1>14. DOMAIN once2 = DOMAIN once /\ \A i \in DOMAIN once : once2[i] = G[once[i]] /\ once[i] \in Same
  BY <1>12, <1>13, MovedIsSeq, ElementsOfSeq
<1>15. kept(c, once2) = kept(h, once)
  <2>1. \A i \in DOMAIN once : once2[i].rel = once[i].rel /\ ToDriverRootPath(c, once[i].rel) = ToDriverRootPath(h, once[i].rel)
    BY <1>8, <1>14 DEF SameOnHost
  <2> QED BY <1>14, <2>1
<1> HIDE DEF kept
<1>16. only2 = Moved(G, only)
  BY <1>12, <1>13, <1>15, MovedOnly
<1>17. IsSeq(only) /\ ToSet(only) \subseteq Same
  <2> DEFINE k == [i \in DOMAIN once |-> i]
  <2>1. DOMAIN k = DOMAIN once
    OBVIOUS
  <2> HIDE DEF k
  <2> QED BY <1>13, <2>1, KeptElements
<1> HIDE DEF only, only2
<1>18. DOMAIN only2 = DOMAIN only /\ \A i \in DOMAIN only : only2[i] = G[only[i]] /\ only[i] \in Same
  BY <1>16, <1>17, MovedIsSeq, ElementsOfSeq
<1>19. \A i \in DOMAIN only : Library(c, ToDriverRootPath(c, only2[i].rel)) = Library(h, ToDriverRootPath(h, only[i].rel))
  BY <1>8, <1>18 DEF SameOnHost
<1>20. more(c, only2) = more(h, only)
  BY <1>18, <1>19
<1> QED BY <1>1, <1>20

LEMMA FrontAndLast ==
    ASSUME NEW p \in Clear, p # <<>>
    PROVE  Front(p) \in Clear /\ Last(p) \in Name /\ p = Append(Front(p), Last(p))
<1>1. p \in Path /\ Len(p) \in Nat /\ Len(p) # 0
  BY ClearIsPath DEF Path
<1>2. Len(p) - 1 \in 0..Len(p) /\ 1 \in 1..(Len(p) + 1) /\ 1 <= (Len(p) - 1) + 1 /\ Len(p) \in 1..Len(p)
  BY <1>1
<1>3. SubSeq(p, 1, Len(p) - 1) \in Clear
  BY <1>2, ClearSlice
<1>4. Last(p) \in Name
  BY <1>1, <1>2 DEF Last, Path
<1>5. p = Append(SubSeq(p, 1, Len(p) - 1), p[Len(p)])
  <2> DEFINE S == Name
  <2>1. p \in Seq(S)
    BY <1>1 DEF Path
  <2> HIDE DEF S
  <2> QED BY <1>1, <2>1
<1> QED BY <1>3, <1>4, <1>5 DEF Front, Last

LEMMA FrontOfPlace ==
    ASSUME NEW a \in Path, NEW y \in Path, NEW n \in Name
    PROVE  Front(a \o Append(y, n)) = a \o y /\ Last(a \o Append(y, n)) = n
           /\ a \o Append(y, n) = Append(a \o y, n)
<1>1. a \o y \in Path /\ <<n>> \in Path /\ Append(y, n) = y \o <<n>> /\ Append(a \o y, n) = (a \o y) \o <<n>>
  BY PathConcat, SingletonPath, LastOf
<1>2. a \o (y \o <<n>>) = (a \o y) \o <<n>>
  BY <1>1, ConcatAssoc
<1> DEFINE b == a \o y
<1>3. b \in Path /\ a \o Append(y, n) = Append(b, n)
  BY <1>1, <1>2
<1> HIDE DEF b
<1>4. Front(Append(b, n)) = b /\ Last(Append(b, n)) = n
  BY <1>3, LastOf
<1> QED BY <1>3, <1>4 DEF b

\* From the driver's root to where the program sees it.
LEMMA SeenFromRoot ==
    ASSUME NEW c, NEW V, NEW T, Sees(c, V, T), NEW x \in Path
    PROVE  ToSearchRootPath(c, c.driverRoot \o x) = (c.hostRoot \o c.driverRoot) \o x
<1> DEFINE m == c.hostRoot
           r == c.driverRoot
<1>1. m \in Path /\ r \in Path /\ m \o r \in Path
  BY SeesPaths
<1>2. TrimPrefix(r \o x, r) = x /\ <<>> \o r = r
  BY <1>1, TrimRoot, EmptyConcat
<1>3. CASE m = <<>>
  <2>1. c.searchRoot = <<>>
    BY <1>3 DEF Sees
  <2> QED BY <1>2, <1>3, <2>1 DEF ToSearchRootPath
<1>4. CASE m # <<>>
  <2>1. c.searchRoot = m \o r
    BY <1>4 DEF Sees
  <2>2. m \o r # <<>> /\ m \o r # r
    <3>1. Len(m) \in Nat /\ Len(m) # 0 /\ Len(r) \in Nat /\ Len(m \o r) = Len(m) + Len(r)
      BY <1>1, <1>4 DEF Path
    <3> HIDE DEF m, r
    <3>2. Len(m \o r) # 0 /\ Len(m \o r) # Len(r)
      BY <3>1
    <3> QED BY <3>2, EmptyIsClear
  <2> QED BY <1>2, <2>1, <2>2 DEF ToSearchRootPath
<1> QED BY <1>3, <1>4

LEMMA LinkExistsSame ==
    ASSUME NEW c, NEW V, NEW h, NEW T, BothSee(c, V, h, T), NEW p \in HostPaths(c, T), NEW name \in Name
    PROVE  LinkExistsOnHost(c, V, Append(Front(p), name)) = LinkExistsOnHost(h, T, Append(Front(p), name))
<1> DEFINE m == c.hostRoot
           r == c.driverRoot
<1>1. Sees(c, V, T) /\ Sees(h, T, T) /\ h.hostRoot = <<>> /\ h.driverRoot = r
  BY DEF BothSee, Twin
<1>2. m \in Path /\ r \in Path /\ m \o r \in Path /\ IsView(V, T, m)
  BY <1>1, SeesPaths DEF Sees
<1>3. PICK x \in Clear \ {<<>>} : p = r \o x
  BY DEF HostPaths, There, OnHostAt
<1> DEFINE y == Front(x)
           z == Append(y, name)
           q == r \o y
           e == EvalSymlinks(T, q)
<1>4. y \in Clear /\ Last(x) \in Name /\ x = Append(y, Last(x))
  BY <1>3, FrontAndLast
<1>5. y \in Path /\ z \in Path
  BY <1>4, ClearIsPath, LastOf
<1> HIDE DEF y
<1>6. Front(p) = q
  <2> DEFINE n == Last(x)
  <2>1. n \in Name /\ p = r \o Append(y, n)
    BY <1>3, <1>4
  <2> HIDE DEF n, r
  <2>2. Front(r \o Append(y, n)) = r \o y
    BY <1>2, <1>5, <2>1, FrontOfPlace
  <2> QED BY <2>1, <2>2
<1>7. Append(Front(p), name) = r \o z
  <2> HIDE DEF r
  <2>1. r \o Append(y, name) = Append(r \o y, name)
    BY <1>2, <1>5, FrontOfPlace
  <2> QED BY <1>6, <2>1
<1>8. ToSearchRootPath(c, r \o z) = (m \o r) \o z /\ ToSearchRootPath(h, r \o z) = r \o z
  <2> HIDE DEF z
  <2>1. ToSearchRootPath(c, r \o z) = (m \o r) \o z
    BY <1>1, <1>5, SeenFromRoot
  <2>2. ToSearchRootPath(h, h.driverRoot \o z) = (h.hostRoot \o h.driverRoot) \o z
    BY <1>1, <1>5, SeenFromRoot
  <2>3. <<>> \o r = r
    BY <1>2, EmptyConcat
  <2> QED BY <1>1, <2>1, <2>2, <2>3
<1>9. /\ Front((m \o r) \o z) = (m \o r) \o y /\ Last((m \o r) \o z) = name
      /\ Front(r \o z) = r \o y /\ Last(r \o z) = name
  <2> DEFINE a == m \o r
  <2>1. a \in Path
    BY <1>2
  <2> HIDE DEF a
  <2>2. Front(a \o z) = a \o y /\ Last(a \o z) = name /\ Front(r \o z) = r \o y /\ Last(r \o z) = name
    BY <1>2, <1>5, <2>1, FrontOfPlace
  <2> QED BY <2>2 DEF a
<1>10. e \in Clear /\ EvalSymlinks(V, (m \o r) \o y) = m \o e
  <2>1. /\ EvalSymlinks(T, OnHostAt(c, y)) \in Clear
        /\ EvalSymlinks(V, Below(c, y)) = c.hostRoot \o EvalSymlinks(T, OnHostAt(c, y))
    BY <1>1, <1>4, SeesBelow
  <2> QED BY <2>1 DEF OnHostAt, Below
<1>11. Lstat(V, (m \o r) \o z) = NodeAt(V, Append(m \o e, name))
  BY <1>9, <1>10 DEF Lstat
<1>12. Lstat(T, r \o z) = NodeAt(T, Append(e, name))
  BY <1>9 DEF Lstat
<1> HIDE DEF e, m, r, z, q
<1>13. Append(m \o e, name) = m \o Append(e, name) /\ Append(e, name) \in Path
  <2>1. e \in Path
    BY <1>10, ClearIsPath
  <2> QED BY <1>2, <2>1, FrontOfPlace, LastOf
<1>14. NodeAt(V, m \o Append(e, name)) = NodeAt(T, Append(e, name))
  BY <1>2, <1>13, ViewNode
<1> QED BY <1>7, <1>8, <1>11, <1>12, <1>13, <1>14 DEF LinkExistsOnHost

\* The links of a library.
LEMMA SymlinksSame ==
    ASSUME NEW c, NEW V, NEW h, NEW T, BothSee(c, V, h, T), NEW l, l.path \in HostPaths(c, T)
    PROVE  SymlinksOf(c, V, l, Stat(V, ToSearchRootPath(c, l.path))) = SymlinksOf(h, T, l, Stat(T, ToSearchRootPath(h, l.path)))
<1> DEFINE p == l.path
           node == Stat(T, p)
           soname == ReadSONAME(node, Last(p))
<1>1. Sees(c, V, T) /\ Sees(h, T, T) /\ Twin(c, h)
  BY DEF BothSee
<1>2. PICK x \in Clear \ {<<>>} : p = OnHostAt(c, x) /\ node # NoNode
  BY DEF HostPaths, There
<1>3. p \in Clear /\ p # <<>>
  <2>1. c.driverRoot \in Path /\ x \in Path /\ Len(x) # 0
    <3>1. c.driverRoot \in Path
      BY <1>1, SeesPaths
    <3>2. x \in Path /\ x # <<>>
      BY <1>2, ClearIsPath
    <3> QED BY <3>1, <3>2 DEF Path
  <2>2. Len(c.driverRoot \o x) # 0
    BY <2>1 DEF Path
  <2>3. OnHostAt(c, x) # <<>>
    BY <2>2, EmptyIsClear DEF OnHostAt
  <2> QED BY <1>1, <1>2, <2>3, SeesBelow
<1>4. Stat(V, ToSearchRootPath(c, p)) = node /\ Stat(T, ToSearchRootPath(h, p)) = node
  <2>1. ToSearchRootPath(c, p) = Below(c, x) /\ Stat(V, Below(c, x)) = Stat(T, OnHostAt(c, x))
    BY <1>1, <1>2, RootsExchanged, SeesBelow
  <2>2. OnHostAt(c, x) = OnHostAt(h, x) /\ Below(h, x) = OnHostAt(c, x)
    BY <1>2, TwinPaths
  <2>3. ToSearchRootPath(h, p) = p
    BY <1>1, <1>2, <2>2, RootsExchanged
  <2> QED BY <1>2, <2>1, <2>3
<1>5. CASE node.kind # "file"
  BY <1>4, <1>5 DEF SymlinksOf
<1>6. CASE node.kind = "file"
  <2>1. soname \in Name
    <3>1. IsTree(T) /\ Tidy(T, c.driverRoot)
      BY <1>1 DEF Sees, IsView
    <3>2. EvalSymlinks(T, p) \in DOMAIN T /\ node = T[EvalSymlinks(T, p)]
      BY <1>2, <1>3, <3>1, RealIsThere
    <3>3. node.soname \in Name
      BY <1>6, <3>1, <3>2 DEF IsTree, IsNode
    <3>4. Last(p) \in Name
      BY <1>3, FrontAndLast
    <3> QED BY <3>3, <3>4 DEF ReadSONAME
  <2> HIDE DEF soname
  <2>2. GetSoLink(soname) \in Name
    BY GeneratorAssumption DEF GetSoLink
  <2>3. \A name \in Name : \A target : LinkIf(c, V, l, name, target) = LinkIf(h, T, l, name, target)
    <3>1. \A name \in Name : LinkExistsOnHost(c, V, Append(Front(p), name)) = LinkExistsOnHost(h, T, Append(Front(p), name))
      BY LinkExistsSame
    <3>2. SymlinkDir(c, l) = SymlinkDir(h, l)
      BY <1>1 DEF Twin, SymlinkDir
    <3> QED BY <3>1, <3>2 DEF LinkIf
  <2>4. LinksFor(c, V, l, soname) = LinksFor(h, T, l, soname)
    BY <2>1, <2>2, <2>3 DEF LinksFor
  <2> QED BY <1>4, <1>6, <2>4 DEF SymlinksOf, soname
<1> QED BY <1>5, <1>6

\* All programs make the same edits of the same files.
LEMMA CommonEditsSame ==
    ASSUME NEW c, NEW V, NEW h, NEW T, BothSee(c, V, h, T),
           NEW found, IsSeq(found.libraries), \A l \in ToSet(found.libraries) : l.path \in HostPaths(c, T)
    PROVE  BuildCommonEdits(c, V, found) = BuildCommonEdits(h, T, found)
<1> DEFINE libs == found.libraries
           links(e, fs) == [i \in DOMAIN libs |-> SymlinksOf(e, fs, libs[i], Stat(fs, ToSearchRootPath(e, libs[i].path)))]
           once(s) == Firsts(s, [i \in DOMAIN s |-> s[i]])
<1>1. \A i \in DOMAIN libs : libs[i].path \in HostPaths(c, T)
  BY AppendInto
<1>2. links(c, V) = links(h, T)
  BY <1>1, SymlinksSame
<1>3. ComputeSymlinks(c, V, libs) = once(FlattenSeq(links(c, V)))
  BY DEF ComputeSymlinks, FirstOf, Flatten, Map
<1>4. ComputeSymlinks(h, T, libs) = once(FlattenSeq(links(h, T)))
  BY DEF ComputeSymlinks, FirstOf, Flatten, Map
<1> HIDE DEF links, once
<1>5. ComputeSymlinks(c, V, libs) = ComputeSymlinks(h, T, libs)
  BY <1>2, <1>3, <1>4
<1> QED BY <1>5 DEF BuildCommonEdits
============================================================================
