--------------------------- MODULE SequenceLemmas ---------------------------
(***************************************************************************)
(* Facts about the operators on sequences that the modules of the gateway  *)
(* are built from: FlattenSeq, which puts the lines of a response or the   *)
(* requests of a client together, and IsPrefix, IsSuffix.                  *)
(***************************************************************************)
EXTENDS Integers, SequencesExt, SequenceTheorems, WellFoundedInduction, TLAPS

(* Induction, for a property that is given as the set of its numbers.      *)
LEMMA Induction ==
  ASSUME NEW P, 0 \in P, \A n \in Nat : n \in P => n + 1 \in P
  PROVE  \A n \in Nat : n \in P
<1> DEFINE Less == OpToRel(<, Nat)
           Q == {n \in Nat : n \notin P}
<1>1. SUFFICES ASSUME Q # {} PROVE FALSE
  OBVIOUS
<1>2. PICK k \in Q : \A i \in Q : <<i, k>> \notin Less
  <2>1. Q \subseteq Nat
    OBVIOUS
  <2> HIDE DEF Q
  <2> QED
    BY <1>1, <2>1, NatLessThanWellFounded, WFMin
<1>3. \A i, j \in Nat : i < j => <<i, j>> \in Less
  BY DEF OpToRel
<1>a. k \in Nat /\ k \notin P
  BY <1>2
<1>b. k # 0
  BY <1>a
<1>4. k - 1 \in Nat /\ k - 1 < k /\ (k - 1) + 1 = k
  BY <1>a, <1>b
<1> HIDE DEF Less
<1>5. k - 1 \in P
  <2>1. <<k - 1, k>> \in Less
    BY <1>a, <1>3, <1>4
  <2> QED
    BY <1>2, <1>4, <2>1
<1>6. k \in P
  BY <1>4, <1>5
<1> QED
  BY <1>a, <1>6

----------------------------------------------------------------------------
(* The concatenation of the first n of the sequences ss, for every n.      *)
IsRun(f, ss) ==
  /\ f[0] = <<>>
  /\ \A i \in 1..Len(ss) : f[i] = f[i - 1] \o ss[i]
  /\ FlattenSeq(ss) = f[Len(ss)]

Run(ss) == CHOOSE f : IsRun(f, ss)

Flattens(f, ss, n) == f = [i \in 1..n |-> IF i = 1 THEN ss[i] ELSE f[i - 1] \o ss[i]]

LEMMA FlattenExists ==
  ASSUME NEW T, NEW ss \in Seq(T)
  PROVE  \E f : Flattens(f, ss, Len(ss))
<1> DEFINE P == {n \in Nat : \E f : Flattens(f, ss, n)}
<1>1. 0 \in P
  <2>1. Flattens([i \in 1..0 |-> 0], ss, 0)
    BY DEF Flattens
  <2> QED
    BY <2>1
<1>2. ASSUME NEW n \in Nat, n \in P PROVE n + 1 \in P
  <2>1. PICK f : Flattens(f, ss, n)
    BY <1>2
  <2> DEFINE x == IF n + 1 = 1 THEN ss[n + 1] ELSE f[n] \o ss[n + 1]
             g == [i \in 1..n + 1 |-> IF i = n + 1 THEN x ELSE f[i]]
  <2>2. \A i \in 1..n : f[i] = IF i = 1 THEN ss[i] ELSE f[i - 1] \o ss[i]
    BY <2>1 DEF Flattens
  <2>3. \A i \in 1..n + 1 : g[i] = IF i = 1 THEN ss[i] ELSE g[i - 1] \o ss[i]
    <3> SUFFICES ASSUME NEW i \in 1..n + 1 PROVE g[i] = IF i = 1 THEN ss[i] ELSE g[i - 1] \o ss[i]
      OBVIOUS
    <3>1. CASE i = n + 1
      <4>1. i # 1 => i - 1 \in 1..n + 1 /\ i - 1 # n + 1 /\ i - 1 = n
        BY <3>1
      <4>2. g[i] = x
        BY <3>1
      <4>3. i # 1 => g[i - 1] = f[n]
        BY <4>1
      <4> HIDE DEF g
      <4> QED
        BY <3>1, <4>2, <4>3
    <3>2. CASE i # n + 1
      <4>1. i \in 1..n /\ (i # 1 => i - 1 \in 1..n + 1 /\ i - 1 # n + 1)
        BY <3>2
      <4>2. g[i] = f[i] /\ (i # 1 => g[i - 1] = f[i - 1])
        BY <3>2, <4>1
      <4> HIDE DEF g
      <4> QED
        BY <2>2, <4>1, <4>2
    <3> QED
      BY <3>1, <3>2
  <2>4. g = [i \in 1..n + 1 |-> IF i = 1 THEN ss[i] ELSE g[i - 1] \o ss[i]]
    <3>1. g = [i \in 1..n + 1 |-> g[i]]
      OBVIOUS
    <3> HIDE DEF g
    <3> QED
      BY <2>3, <3>1
  <2> HIDE DEF g
  <2>5. Flattens(g, ss, n + 1)
    BY <2>4 DEF Flattens
  <2> QED
    BY <2>5
<1> HIDE DEF P
<1>3. \A n \in Nat : n \in P
  BY <1>1, <1>2, Induction
<1>4. Len(ss) \in Nat
  BY LenProperties
<1> QED
  BY <1>3, <1>4 DEF P

LEMMA RunExists ==
  ASSUME NEW T, NEW ss \in Seq(Seq(T))
  PROVE  IsRun(Run(ss), ss)
<1>0. Len(ss) \in Nat /\ DOMAIN ss = 1..Len(ss) /\ \A i \in 1..Len(ss) : ss[i] \in Seq(T)
  BY LenProperties, ElementOfSeq
<1>1. \E f : IsRun(f, ss)
  <2>1. CASE Len(ss) = 0
    <3>1. ss = <<>>
      BY <2>1, EmptySeq
    <3>2. IsRun([i \in {0} |-> <<>>], ss)
      BY <1>0, <2>1, <3>1 DEF IsRun, FlattenSeq
    <3> QED
      BY <3>2
  <2>2. CASE Len(ss) # 0
    <3> DEFINE h == CHOOSE f : Flattens(f, ss, Len(ss))
    <3>1. Flattens(h, ss, Len(ss))
      BY FlattenExists
    <3>2. FlattenSeq(ss) = h[Len(ss)]
      BY <2>2 DEF FlattenSeq, Flattens
    <3> HIDE DEF h
    <3>3. \A i \in 1..Len(ss) : h[i] = IF i = 1 THEN ss[i] ELSE h[i - 1] \o ss[i]
      BY <3>1 DEF Flattens
    <3> DEFINE g == [i \in 0..Len(ss) |-> IF i = 0 THEN <<>> ELSE h[i]]
    <3>4. g[0] = <<>> /\ g[Len(ss)] = h[Len(ss)]
      BY <1>0, <2>2
    <3>5. ASSUME NEW i \in 1..Len(ss) PROVE g[i] = g[i - 1] \o ss[i]
      <4>1. g[i] = h[i]
        BY <1>0
      <4>2. CASE i = 1
        <5>1. g[i - 1] = <<>> /\ <<>> \o ss[i] = ss[i]
          BY <1>0, <4>2, ConcatEmptySeq
        <5> QED
          BY <3>3, <4>1, <4>2, <5>1
      <4>3. CASE i # 1
        <5>1. g[i - 1] = h[i - 1]
          BY <1>0, <4>3
        <5> QED
          BY <3>3, <4>1, <4>3, <5>1
      <4> QED
        BY <4>2, <4>3
    <3>6. IsRun(g, ss)
      BY <3>2, <3>4, <3>5 DEF IsRun
    <3> QED
      BY <3>6
  <2> QED
    BY <2>1, <2>2
<1> QED
  BY <1>1 DEF Run

(* The parts of a concatenation are sequences, and one grows to the next.  *)
LEMMA RunIsSequence ==
  ASSUME NEW T, NEW ss \in Seq(Seq(T))
  PROVE  /\ Run(ss)[0] = <<>>
         /\ \A n \in 0..Len(ss) : Run(ss)[n] \in Seq(T)
         /\ \A n \in 1..Len(ss) : Run(ss)[n] = Run(ss)[n - 1] \o ss[n]
         /\ FlattenSeq(ss) = Run(ss)[Len(ss)]
<1> DEFINE f == Run(ss)
           P == {n \in Nat : n <= Len(ss) => f[n] \in Seq(T)}
<1>0. Len(ss) \in Nat /\ \A i \in 1..Len(ss) : ss[i] \in Seq(T)
  BY LenProperties, ElementOfSeq
<1>1. f[0] = <<>> /\ (\A i \in 1..Len(ss) : f[i] = f[i - 1] \o ss[i]) /\ FlattenSeq(ss) = f[Len(ss)]
  BY RunExists DEF IsRun
<1> HIDE DEF f
<1>2. 0 \in P
  BY <1>1, EmptySeq
<1>3. ASSUME NEW n \in Nat, n \in P PROVE n + 1 \in P
  <2>1. SUFFICES ASSUME n + 1 <= Len(ss) PROVE f[n + 1] \in Seq(T)
    OBVIOUS
  <2>2. n + 1 \in 1..Len(ss) /\ (n + 1) - 1 = n /\ f[n] \in Seq(T)
    BY <1>0, <1>3, <2>1
  <2>3. f[n + 1] = f[n] \o ss[n + 1]
    BY <1>1, <2>2
  <2> QED
    BY <1>0, <2>2, <2>3, ConcatProperties
<1> HIDE DEF P
<1>4. \A n \in Nat : n \in P
  BY <1>2, <1>3, Induction
<1>5. \A n \in 0..Len(ss) : f[n] \in Seq(T)
  BY <1>0, <1>4 DEF P
<1> QED
  BY <1>1, <1>5 DEF f

LEMMA FlattenType ==
  ASSUME NEW T, NEW ss \in Seq(Seq(T))
  PROVE  FlattenSeq(ss) \in Seq(T)
<1>1. Len(ss) \in 0..Len(ss)
  BY LenProperties
<1> QED
  BY <1>1, RunIsSequence

----------------------------------------------------------------------------
(* Prefixes and suffixes.                                                  *)

LEMMA PrefixIs ==
  ASSUME NEW T, NEW s \in Seq(T), NEW t \in Seq(T)
  PROVE  IsPrefix(s, t) <=> Len(s) <= Len(t) /\ \A i \in 1..Len(s) : s[i] = t[i]
<1>0. Len(s) \in Nat /\ Len(t) \in Nat /\ (\A i \in 1..Len(s) : s[i] \in T) /\ \A i \in 1..Len(t) : t[i] \in T
  BY LenProperties, ElementOfSeq
<1> SUFFICES ASSUME Len(s) <= Len(t)
             PROVE  SubSeq(s, 1, Len(s)) = SubSeq(t, 1, Len(s)) <=> \A i \in 1..Len(s) : s[i] = t[i]
  BY DEF IsPrefix
<1>1. SubSeq(s, 1, Len(s)) = s
  BY SubSeqFull
<1>2. /\ SubSeq(t, 1, Len(s)) \in Seq(T) /\ Len(SubSeq(t, 1, Len(s))) = Len(s)
      /\ \A i \in 1..Len(s) : SubSeq(t, 1, Len(s))[i] = t[i]
  <2>1. 1 \in Int /\ Len(s) \in Int /\ \A i \in 1..Len(s) : t[i] \in T
    BY <1>0
  <2>2. /\ SubSeq(t, 1, Len(s)) \in Seq(T)
        /\ Len(SubSeq(t, 1, Len(s))) = IF 1 <= Len(s) THEN Len(s) - 1 + 1 ELSE 0
        /\ \A i \in 1..Len(s) - 1 + 1 : SubSeq(t, 1, Len(s))[i] = t[1 + i - 1]
    BY <2>1, SubSeqProperties
  <2> QED
    BY <1>0, <2>2
<1> QED
  BY <1>1, <1>2, SeqEqual

LEMMA PrefixOfConcat ==
  ASSUME NEW T, NEW s \in Seq(T), NEW t \in Seq(T)
  PROVE  IsPrefix(s, s \o t)
<1>1. /\ s \o t \in Seq(T) /\ Len(s \o t) = Len(s) + Len(t)
      /\ \A i \in 1..Len(s) + Len(t) : (s \o t)[i] = IF i <= Len(s) THEN s[i] ELSE t[i - Len(s)]
  BY ConcatProperties
<1>2. Len(s) \in Nat /\ Len(t) \in Nat
  BY LenProperties
<1>3. Len(s) <= Len(s \o t) /\ \A i \in 1..Len(s) : s[i] = (s \o t)[i]
  BY <1>1, <1>2
<1> QED
  BY <1>1, <1>3, PrefixIs

LEMMA PrefixTransitive ==
  ASSUME NEW T, NEW s \in Seq(T), NEW t \in Seq(T), NEW u \in Seq(T), IsPrefix(s, t), IsPrefix(t, u)
  PROVE  IsPrefix(s, u)
<1>1. Len(s) \in Nat /\ Len(t) \in Nat /\ Len(u) \in Nat
  BY LenProperties
<1>2. Len(s) <= Len(t) /\ \A i \in 1..Len(s) : s[i] = t[i]
  BY PrefixIs
<1>3. Len(t) <= Len(u) /\ \A i \in 1..Len(t) : t[i] = u[i]
  BY PrefixIs
<1>4. Len(s) <= Len(u) /\ \A i \in 1..Len(s) : s[i] = u[i]
  BY <1>1, <1>2, <1>3
<1> QED
  BY <1>4, PrefixIs

LEMMA RunIsPrefix ==
  ASSUME NEW T, NEW ss \in Seq(Seq(T)), NEW k \in 0..Len(ss)
  PROVE  IsPrefix(Run(ss)[k], FlattenSeq(ss))
<1> DEFINE f == Run(ss)
           P == {n \in Nat : k + n <= Len(ss) => IsPrefix(f[k], f[k + n])}
<1>0. /\ Len(ss) \in Nat /\ k \in Nat /\ k <= Len(ss)
      /\ \A n \in 0..Len(ss) : f[n] \in Seq(T)
      /\ \A n \in 1..Len(ss) : f[n] = f[n - 1] \o ss[n]
      /\ FlattenSeq(ss) = f[Len(ss)]
  <2>1. Len(ss) \in Nat
    BY LenProperties
  <2>2. k \in Nat /\ k <= Len(ss)
    BY <2>1
  <2> QED
    BY <2>1, <2>2, RunIsSequence
<1>a. \A n \in 1..Len(ss) : ss[n] \in Seq(T)
  BY ElementOfSeq
<1> HIDE DEF f
<1>1. 0 \in P
  <2>1. k + 0 = k /\ f[k] \in Seq(T)
    BY <1>0
  <2>2. IsPrefix(f[k], f[k])
    BY <2>1, PrefixIs, LenProperties
  <2> QED
    BY <2>1, <2>2
<1>2. ASSUME NEW n \in Nat, n \in P PROVE n + 1 \in P
  <2>1. SUFFICES ASSUME k + (n + 1) <= Len(ss) PROVE IsPrefix(f[k], f[k + (n + 1)])
    OBVIOUS
  <2>2. /\ k + (n + 1) \in 1..Len(ss) /\ k + (n + 1) - 1 = k + n /\ k + n \in 0..Len(ss)
        /\ k + (n + 1) \in 0..Len(ss) /\ k \in 0..Len(ss)
    BY <1>0, <2>1
  <2>3. IsPrefix(f[k], f[k + n])
    BY <1>0, <1>2, <2>2
  <2>4. f[k + (n + 1)] = f[k + n] \o ss[k + (n + 1)] /\ ss[k + (n + 1)] \in Seq(T)
    <3>1. PICK m : m = k + (n + 1)
      OBVIOUS
    <3>2. m \in 1..Len(ss) /\ m - 1 = k + n
      BY <2>2, <3>1
    <3>3. f[m] = f[m - 1] \o ss[m] /\ ss[m] \in Seq(T)
      BY <1>0, <1>a, <3>2
    <3> QED
      BY <3>1, <3>2, <3>3
  <2>5. f[k] \in Seq(T) /\ f[k + n] \in Seq(T) /\ f[k + (n + 1)] \in Seq(T)
    BY <1>0, <2>2
  <2>6. IsPrefix(f[k + n], f[k + (n + 1)])
    BY <2>4, <2>5, PrefixOfConcat
  <2> QED
    BY <2>3, <2>5, <2>6, PrefixTransitive
<1>3. \A n \in Nat : n \in P
  <2> HIDE DEF P
  <2> QED
    BY <1>1, <1>2, Induction
<1>4. Len(ss) - k \in Nat /\ k + (Len(ss) - k) = Len(ss) /\ k + (Len(ss) - k) <= Len(ss)
  BY <1>0
<1>5. IsPrefix(f[k], f[k + (Len(ss) - k)])
  BY <1>3, <1>4
<1> QED
  BY <1>0, <1>4, <1>5 DEF f

----------------------------------------------------------------------------
(* A sequence cut in two.                                                  *)
LEMMA Split ==
  ASSUME NEW T, NEW s \in Seq(T), NEW n \in 0..Len(s)
  PROVE  /\ SubSeq(s, 1, n) \in Seq(T) /\ SubSeq(s, n + 1, Len(s)) \in Seq(T)
         /\ Len(SubSeq(s, 1, n)) = n /\ Len(SubSeq(s, n + 1, Len(s))) = Len(s) - n
         /\ \A i \in 1..n : SubSeq(s, 1, n)[i] = s[i]
         /\ \A i \in 1..Len(s) - n : SubSeq(s, n + 1, Len(s))[i] = s[n + i]
         /\ SubSeq(s, 1, n) \o SubSeq(s, n + 1, Len(s)) = s
<1>1. Len(s) \in Nat /\ (\A i \in 1..Len(s) : s[i] \in T) /\ n \in Nat /\ n <= Len(s)
  BY LenProperties, ElementOfSeq
<1>2. SubSeq(s, 1, n) \o SubSeq(s, n + 1, Len(s)) = SubSeq(s, 1, Len(s)) /\ SubSeq(s, 1, Len(s)) = s
  <2>1. 1 \in 1..Len(s) + 1 /\ n \in 1 - 1..Len(s) /\ Len(s) \in n..Len(s)
    BY <1>1
  <2> QED
    BY <2>1, ConcatAdjacentSubSeq, SubSeqFull
<1>3. /\ SubSeq(s, 1, n) \in Seq(T) /\ Len(SubSeq(s, 1, n)) = n
      /\ \A i \in 1..n : SubSeq(s, 1, n)[i] = s[i]
  <2>1. 1 \in Int /\ n \in Int /\ \A i \in 1..n : s[i] \in T
    BY <1>1
  <2>2. /\ SubSeq(s, 1, n) \in Seq(T) /\ Len(SubSeq(s, 1, n)) = IF 1 <= n THEN n - 1 + 1 ELSE 0
        /\ \A i \in 1..n - 1 + 1 : SubSeq(s, 1, n)[i] = s[1 + i - 1]
    BY <2>1, SubSeqProperties
  <2>3. Len(SubSeq(s, 1, n)) = n
    <3>1. (IF 1 <= n THEN n - 1 + 1 ELSE 0) = n
      BY <1>1
    <3> QED
      BY <2>2, <3>1
  <2>4. ASSUME NEW i \in 1..n PROVE SubSeq(s, 1, n)[i] = s[i]
    <3>1. i \in 1..n - 1 + 1 /\ 1 + i - 1 = i
      BY <1>1
    <3> QED
      BY <2>2, <3>1
  <2> QED
    BY <2>2, <2>3, <2>4
<1>4. /\ SubSeq(s, n + 1, Len(s)) \in Seq(T) /\ Len(SubSeq(s, n + 1, Len(s))) = Len(s) - n
      /\ \A i \in 1..Len(s) - n : SubSeq(s, n + 1, Len(s))[i] = s[n + i]
  <2> DEFINE u == SubSeq(s, n + 1, Len(s))
  <2>1. n + 1 \in Int /\ Len(s) \in Int /\ \A i \in n + 1..Len(s) : s[i] \in T
    BY <1>1
  <2>2. /\ u \in Seq(T) /\ Len(u) = IF n + 1 <= Len(s) THEN Len(s) - (n + 1) + 1 ELSE 0
        /\ \A i \in 1..Len(s) - (n + 1) + 1 : u[i] = s[(n + 1) + i - 1]
    BY <2>1, SubSeqProperties
  <2> HIDE DEF u
  <2>3. Len(u) = Len(s) - n
    <3>1. (IF n + 1 <= Len(s) THEN Len(s) - (n + 1) + 1 ELSE 0) = Len(s) - n
      BY <1>1
    <3> QED
      BY <2>2, <3>1
  <2>4. ASSUME NEW i \in 1..Len(s) - n PROVE u[i] = s[n + i]
    <3>1. i \in 1..Len(s) - (n + 1) + 1 /\ (n + 1) + i - 1 = n + i
      BY <1>1
    <3> QED
      BY <2>2, <3>1
  <2> QED
    BY <2>2, <2>3, <2>4 DEF u
<1> QED
  BY <1>2, <1>3, <1>4

LEMMA PrefixOfItself ==
  ASSUME NEW T, NEW s \in Seq(T)
  PROVE  IsPrefix(s, s)
BY LenProperties DEF IsPrefix

(* What is behind a prefix.                                                *)
LEMMA RestOfPrefix ==
  ASSUME NEW T, NEW s \in Seq(T), NEW t \in Seq(T), IsPrefix(s, t)
  PROVE  /\ SubSeq(t, Len(s) + 1, Len(t)) \in Seq(T)
         /\ t = s \o SubSeq(t, Len(s) + 1, Len(t))
<1>1. Len(s) \in 0..Len(t) /\ SubSeq(s, 1, Len(s)) = SubSeq(t, 1, Len(s)) /\ SubSeq(s, 1, Len(s)) = s
  BY LenProperties, SubSeqFull DEF IsPrefix
<1> QED
  BY <1>1, Split

LEMMA PrefixAsLongIsEqual ==
  ASSUME NEW T, NEW s \in Seq(T), NEW t \in Seq(T), IsPrefix(s, t), Len(s) >= Len(t)
  PROVE  s = t
<1>1. Len(s) \in Nat /\ Len(t) \in Nat /\ Len(s) <= Len(t) /\ \A i \in 1..Len(s) : s[i] = t[i]
  BY PrefixIs, LenProperties
<1>2. Len(s) = Len(t)
  BY <1>1
<1> QED
  BY <1>1, <1>2, SeqEqual

LEMMA Reversed ==
  ASSUME NEW T, NEW s \in Seq(T)
  PROVE  /\ Reverse(s) \in Seq(T) /\ Len(Reverse(s)) = Len(s)
         /\ \A i \in 1..Len(s) : Reverse(s)[i] = s[Len(s) - i + 1]
<1>1. Len(s) \in Nat /\ \A i \in 1..Len(s) : s[i] \in T
  BY LenProperties, ElementOfSeq
<1>2. \A i \in 1..Len(s) : (Len(s) - i) + 1 \in 1..Len(s)
  BY <1>1
<1>3. Reverse(s) \in [1..Len(s) -> T] /\ \A i \in 1..Len(s) : Reverse(s)[i] = s[Len(s) - i + 1]
  BY <1>1, <1>2 DEF Reverse
<1>4. Reverse(s) \in Seq(T)
  BY <1>1, <1>3, SeqDef
<1>5. Len(Reverse(s)) \in Nat /\ DOMAIN Reverse(s) = 1..Len(Reverse(s)) /\ DOMAIN Reverse(s) = 1..Len(s)
  BY <1>3, <1>4, LenProperties
<1> QED
  BY <1>1, <1>3, <1>4, <1>5

LEMMA SuffixOfConcat ==
  ASSUME NEW T, NEW s \in Seq(T), NEW t \in Seq(T)
  PROVE  IsSuffix(t, s \o t)
<1> DEFINE u == s \o t
<1>1. /\ u \in Seq(T) /\ Len(u) = Len(s) + Len(t)
      /\ \A i \in 1..Len(s) + Len(t) : u[i] = IF i <= Len(s) THEN s[i] ELSE t[i - Len(s)]
  BY ConcatProperties
<1>2. Len(s) \in Nat /\ Len(t) \in Nat
  BY LenProperties
<1> HIDE DEF u
<1>3. ASSUME NEW i \in 1..Len(t) PROVE Reverse(t)[i] = Reverse(u)[i]
  <2>0. Len(t) - i + 1 \in 1..Len(t)
    BY <1>2
  <2>1. PICK j \in 1..Len(t) : j = Len(t) - i + 1
    BY <2>0
  <2>2. i \in 1..Len(u) /\ Len(u) - i + 1 = Len(s) + j
    BY <1>1, <1>2, <2>1
  <2>3. u[Len(s) + j] = t[j]
    <3>1. PICK m : m = Len(s) + j
      OBVIOUS
    <3>2. m \in 1..Len(s) + Len(t) /\ ~(m <= Len(s)) /\ m - Len(s) = j
      BY <1>2, <3>1
    <3> QED
      BY <1>1, <3>1, <3>2
  <2>4. Reverse(t)[i] = t[j]
    BY <2>1, Reversed
  <2>5. Reverse(u)[i] = u[Len(s) + j]
    <3>1. \A k \in 1..Len(u) : Reverse(u)[k] = u[Len(u) - k + 1]
      BY <1>1, Reversed
    <3>2. Reverse(u)[i] = u[Len(u) - i + 1]
      BY <2>2, <3>1
    <3> QED
      BY <2>2, <3>2
  <2> QED
    BY <2>3, <2>4, <2>5
<1>4. IsPrefix(Reverse(t), Reverse(u))
  <2>1. Reverse(t) \in Seq(T) /\ Reverse(u) \in Seq(T) /\ Len(Reverse(t)) = Len(t) /\ Len(Reverse(u)) = Len(u)
    BY <1>1, Reversed
  <2>2. Len(t) <= Len(u)
    BY <1>1, <1>2
  <2> QED
    BY <1>3, <2>1, <2>2, PrefixIs
<1> QED
  BY <1>4 DEF IsSuffix, u

(* What is before a suffix.                                                *)
LEMMA SuffixIs ==
  ASSUME NEW T, NEW s \in Seq(T), NEW t \in Seq(T), IsSuffix(t, s)
  PROVE  \E x \in Seq(T) : s = x \o t
<1>1. Len(s) \in Nat /\ Len(t) \in Nat
  BY LenProperties
<1>2. Len(t) <= Len(s) /\ \A i \in 1..Len(t) : Reverse(t)[i] = Reverse(s)[i]
  <2>1. Reverse(t) \in Seq(T) /\ Reverse(s) \in Seq(T) /\ Len(Reverse(t)) = Len(t) /\ Len(Reverse(s)) = Len(s)
    BY Reversed
  <2> QED
    BY <2>1, PrefixIs DEF IsSuffix
<1>3. PICK n \in 0..Len(s) : n = Len(s) - Len(t)
  <2>1. Len(s) - Len(t) \in 0..Len(s)
    BY <1>1, <1>2
  <2> QED
    BY <2>1
<1> DEFINE u == SubSeq(s, n + 1, Len(s))
<1>4. /\ u \in Seq(T) /\ Len(u) = Len(s) - n /\ (\A i \in 1..Len(s) - n : u[i] = s[n + i])
      /\ SubSeq(s, 1, n) \in Seq(T) /\ SubSeq(s, 1, n) \o u = s
  BY Split
<1> HIDE DEF u
<1>5. Len(u) = Len(t)
  BY <1>1, <1>3, <1>4
<1>6. ASSUME NEW j \in 1..Len(t) PROVE u[j] = t[j]
  <2>0. Len(t) - j + 1 \in 1..Len(t)
    BY <1>1
  <2>1. PICK i \in 1..Len(t) : i = Len(t) - j + 1
    BY <2>0
  <2>2. i \in 1..Len(s) /\ Len(t) - i + 1 = j /\ Len(s) - i + 1 = n + j /\ j \in 1..Len(s) - n
    BY <1>1, <1>2, <1>3, <2>1
  <2>3. Reverse(t)[i] = t[j]
    BY <2>2, Reversed
  <2>4. Reverse(s)[i] = s[n + j]
    BY <2>2, Reversed
  <2> QED
    BY <1>2, <1>4, <2>2, <2>3, <2>4
<1>7. u = t
  BY <1>4, <1>5, <1>6, SeqEqual
<1> QED
  BY <1>4, <1>7

----------------------------------------------------------------------------
(* Where a sequence stands in another one.                                 *)
At(s, p, t) == p \in Nat /\ p + Len(t) <= Len(s) /\ \A i \in 1..Len(t) : s[p + i] = t[i]

LEMMA AtConcat ==
  ASSUME NEW T, NEW s \in Seq(T), NEW t \in Seq(T), NEW u \in Seq(T), NEW p, At(s, p, t \o u)
  PROVE  At(s, p, t) /\ At(s, p + Len(t), u)
<1>1. /\ Len(s) \in Nat /\ Len(t) \in Nat /\ Len(u) \in Nat /\ p \in Nat
      /\ Len(t \o u) = Len(t) + Len(u)
      /\ \A i \in 1..Len(t) + Len(u) : (t \o u)[i] = IF i <= Len(t) THEN t[i] ELSE u[i - Len(t)]
  BY LenProperties, ConcatProperties DEF At
<1>2. p + (Len(t) + Len(u)) <= Len(s) /\ \A i \in 1..Len(t) + Len(u) : s[p + i] = (t \o u)[i]
  BY <1>1 DEF At
<1>3. ASSUME NEW i \in 1..Len(t) PROVE s[p + i] = t[i]
  <2>1. i \in 1..Len(t) + Len(u) /\ i <= Len(t)
    BY <1>1
  <2> QED
    BY <1>1, <1>2, <2>1
<1>4. ASSUME NEW i \in 1..Len(u) PROVE s[(p + Len(t)) + i] = u[i]
  <2>1. PICK j : j = Len(t) + i
    OBVIOUS
  <2>2. j \in 1..Len(t) + Len(u) /\ ~(j <= Len(t)) /\ j - Len(t) = i /\ p + j = (p + Len(t)) + i
    BY <1>1, <2>1
  <2>3. s[p + j] = u[j - Len(t)]
    BY <1>1, <1>2, <2>2
  <2> QED
    BY <2>2, <2>3
<1>5. p + Len(t) <= Len(s) /\ (p + Len(t)) + Len(u) <= Len(s) /\ p + Len(t) \in Nat
  BY <1>1, <1>2
<1> QED
  BY <1>1, <1>3, <1>4, <1>5 DEF At

LEMMA AtTransitive ==
  ASSUME NEW T, NEW s \in Seq(T), NEW t \in Seq(T), NEW u \in Seq(T), NEW p, NEW q, At(s, p, t), At(t, q, u)
  PROVE  At(s, p + q, u)
<1>1. /\ Len(s) \in Nat /\ Len(t) \in Nat /\ Len(u) \in Nat /\ p \in Nat /\ q \in Nat
      /\ p + Len(t) <= Len(s) /\ q + Len(u) <= Len(t)
  BY LenProperties DEF At
<1>2. ASSUME NEW i \in 1..Len(u) PROVE s[(p + q) + i] = u[i]
  <2>1. PICK j : j = q + i
    OBVIOUS
  <2>2. j \in 1..Len(t) /\ p + j = (p + q) + i
    BY <1>1, <2>1
  <2>3. s[p + j] = t[j] /\ t[j] = u[i]
    BY <2>1, <2>2 DEF At
  <2> QED
    BY <2>2, <2>3
<1>3. p + q \in Nat /\ (p + q) + Len(u) <= Len(s)
  BY <1>1
<1> QED
  BY <1>2, <1>3 DEF At

LEMMA AtStart ==
  ASSUME NEW T, NEW s \in Seq(T)
  PROVE  At(s, 0, s)
<1>1. Len(s) \in Nat /\ 0 + Len(s) <= Len(s) /\ \A i \in 1..Len(s) : 0 + i = i
  BY LenProperties
<1> QED
  BY <1>1 DEF At

(* The (k + 1)-th sequence stands in the concatenation behind the first k. *)
LEMMA RunAt ==
  ASSUME NEW T, NEW ss \in Seq(Seq(T)), NEW k \in Nat, k < Len(ss)
  PROVE  /\ ss[k + 1] \in Seq(T) /\ Run(ss)[k] \in Seq(T) /\ Run(ss)[k + 1] \in Seq(T)
         /\ Len(Run(ss)[k + 1]) = Len(Run(ss)[k]) + Len(ss[k + 1])
         /\ At(FlattenSeq(ss), Len(Run(ss)[k]), ss[k + 1])
<1>1. /\ Len(ss) \in Nat /\ k + 1 \in 1..Len(ss) /\ k + 1 \in 0..Len(ss) /\ k \in 0..Len(ss)
      /\ (k + 1) - 1 = k
  BY LenProperties
<1>2. PICK m : m = k + 1
  OBVIOUS
<1>3. /\ Run(ss)[k] \in Seq(T) /\ Run(ss)[m] \in Seq(T) /\ Run(ss)[m] = Run(ss)[m - 1] \o ss[m]
      /\ m \in 0..Len(ss)
  BY <1>1, <1>2, RunIsSequence
<1>4. ss[m] \in Seq(T) /\ FlattenSeq(ss) \in Seq(T)
  BY <1>1, <1>2, ElementOfSeq, FlattenType
<1>5. PICK x \in Seq(T), y \in Seq(T), z \in Seq(T) : x = Run(ss)[k] /\ y = ss[m] /\ z = Run(ss)[m]
  BY <1>3, <1>4
<1>6. z = x \o y
  BY <1>1, <1>2, <1>3, <1>5
<1>7. IsPrefix(z, FlattenSeq(ss))
  BY <1>3, <1>5, RunIsPrefix
<1>8. At(FlattenSeq(ss), 0, z)
  <2>1. PICK w \in Seq(T) : w = FlattenSeq(ss)
    BY <1>4
  <2>2. Len(z) \in Nat /\ Len(z) <= Len(w) /\ (\A i \in 1..Len(z) : z[i] = w[i])
    BY <1>7, <2>1, PrefixIs, LenProperties
  <2>3. 0 + Len(z) <= Len(w) /\ \A i \in 1..Len(z) : w[0 + i] = z[i]
    <3>1. 0 + Len(z) = Len(z) /\ \A i \in 1..Len(z) : 0 + i = i
      BY <2>2
    <3> QED
      BY <2>2, <3>1
  <2> QED
    BY <2>1, <2>3 DEF At
<1>9. At(FlattenSeq(ss), 0 + Len(x), y) /\ Len(x) \in Nat
  BY <1>4, <1>6, <1>8, AtConcat, LenProperties
<1>10. 0 + Len(x) = Len(x)
  BY <1>9
<1>11. Len(z) = Len(x) + Len(y)
  BY <1>6, ConcatProperties
<1> QED
  BY <1>2, <1>3, <1>4, <1>5, <1>9, <1>10, <1>11

(* The concatenation of the first n is the n-th part of the whole one.     *)
LEMMA RunOfPrefix ==
  ASSUME NEW T, NEW ss \in Seq(Seq(T)), NEW n \in 0..Len(ss)
  PROVE  SubSeq(ss, 1, n) \in Seq(Seq(T)) /\ FlattenSeq(SubSeq(ss, 1, n)) = Run(ss)[n]
<1> DEFINE pre == SubSeq(ss, 1, n)
<1>1. pre \in Seq(Seq(T)) /\ Len(pre) = n /\ \A i \in 1..n : pre[i] = ss[i]
  BY Split
<1>2. Len(ss) \in Nat /\ n \in Nat /\ n <= Len(ss)
  BY LenProperties
<1> HIDE DEF pre
<1> DEFINE f == Run(pre)
           g == Run(ss)
           P == {m \in Nat : m <= n => f[m] = g[m]}
<1>3. /\ f[0] = <<>> /\ (\A i \in 1..n : f[i] = f[i - 1] \o pre[i]) /\ FlattenSeq(pre) = f[n]
      /\ g[0] = <<>> /\ (\A i \in 1..Len(ss) : g[i] = g[i - 1] \o ss[i])
  BY <1>1, RunIsSequence
<1> HIDE DEF f, g
<1>4. 0 \in P
  BY <1>3
<1>5. ASSUME NEW m \in Nat, m \in P PROVE m + 1 \in P
  <2>1. SUFFICES ASSUME m + 1 <= n PROVE f[m + 1] = g[m + 1]
    OBVIOUS
  <2>2. PICK k : k = m + 1
    OBVIOUS
  <2>3. k \in 1..n /\ k \in 1..Len(ss) /\ k - 1 = m /\ m <= n
    BY <1>2, <2>1, <2>2
  <2>4. f[k] = f[k - 1] \o pre[k] /\ g[k] = g[k - 1] \o ss[k] /\ pre[k] = ss[k]
    BY <1>1, <1>3, <2>3
  <2>5. f[m] = g[m]
    BY <1>5, <2>3
  <2> QED
    BY <2>2, <2>3, <2>4, <2>5
<1>6. \A m \in Nat : m \in P
  <2> HIDE DEF P
  <2> QED
    BY <1>4, <1>5, Induction
<1>7. f[n] = g[n]
  BY <1>2, <1>6
<1> QED
  BY <1>1, <1>3, <1>7 DEF pre, g

(* One sequence more.                                                      *)
LEMMA FlattenAppend ==
  ASSUME NEW T, NEW ss \in Seq(Seq(T)), NEW s \in Seq(T)
  PROVE  FlattenSeq(Append(ss, s)) = FlattenSeq(ss) \o s
<1> DEFINE all == Append(ss, s)
<1>1. PICK n \in Nat : n = Len(ss)
  BY LenProperties
<1>2. /\ all \in Seq(Seq(T)) /\ Len(all) = n + 1 /\ all[n + 1] = s
      /\ \A i \in 1..n : all[i] = ss[i]
  BY <1>1, AppendProperties
<1> HIDE DEF all
<1>3. n \in 0..Len(all) /\ n + 1 \in 1..Len(all) /\ (n + 1) - 1 = n
  BY <1>2
<1>4. SubSeq(all, 1, n) = ss
  <2>1. /\ SubSeq(all, 1, n) \in Seq(Seq(T)) /\ Len(SubSeq(all, 1, n)) = n
        /\ \A i \in 1..n : SubSeq(all, 1, n)[i] = all[i]
    BY <1>2, <1>3, Split
  <2> QED
    BY <1>1, <1>2, <2>1, SeqEqual
<1>5. FlattenSeq(ss) = Run(all)[n]
  BY <1>2, <1>3, <1>4, RunOfPrefix
<1>6. /\ FlattenSeq(all) = Run(all)[Len(all)]
      /\ \A i \in 1..Len(all) : Run(all)[i] = Run(all)[i - 1] \o all[i]
  BY <1>2, RunIsSequence
<1>7. PICK m : m = n + 1
  OBVIOUS
<1>8. Run(all)[m] = Run(all)[m - 1] \o all[m] /\ m - 1 = n
  BY <1>3, <1>6, <1>7
<1> QED
  BY <1>2, <1>5, <1>6, <1>7, <1>8 DEF all
=============================================================================
