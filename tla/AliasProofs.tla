---------------------------- MODULE AliasProofs ----------------------------
(***************************************************************************)
(* Theorems about AliasStream.                                             *)
(*                                                                         *)
(* What the user has been told was made of a part x of the answer, and the *)
(* buffer holds the rest (CutAt).  The restorer holds back the longest     *)
(* ending that begins an alias; hence no alias stands across the cut,      *)
(* whatever the model goes on to write (Safe, HoldIsSafe).  Text with no   *)
(* alias across a cut may be restored part by part (RestoreParts): one     *)
(* alias after the other is replaced, which neither moves letters across   *)
(* the cut nor makes new words of them (ReplaceParts, ReplaceCut).         *)
(*                                                                         *)
(* restore_text is a recursion within a recursion.  That there are such    *)
(* functions, and what they compute, is shown by induction over positions  *)
(* (Backwards) and over sets of names (NamesInduction).  Both come from    *)
(* NatSets, induction over the members of a set of numbers, which needs no *)
(* more than that a finite set has no injection into a smaller one.        *)
(***************************************************************************)
EXTENDS AliasStream, FiniteSetTheorems, SequenceTheorems, TLAPS

-----------------------------------------------------------------------------
(* Induction.                                                              *)

\* Induction over the natural numbers, for a set: a counterexample m would make the successor an
\* injection of the members up to m into those that are not zero.
LEMMA NatSets ==
    ASSUME NEW S, 0 \in S, \A n \in Nat : n \in S => n + 1 \in S
    PROVE  Nat \subseteq S
  <1>. SUFFICES ASSUME NEW m \in Nat, m \notin S PROVE FALSE OBVIOUS
  <1>. DEFINE A == {n \in 0..m : n \in S}
              B == A \ {0}
              f == [n \in A |-> n + 1]
  <1>1. IsFiniteSet(A)
    <2>. HIDE DEF A
    <2>1. A \in SUBSET Nat /\ \A n \in A : n <= m BY DEF A
    <2>. QED BY <2>1, FS_BoundedSetOfNaturals
  <1>2. IsFiniteSet(B) /\ Cardinality(B) = Cardinality(A) - 1 /\ Cardinality(A) \in Nat /\ Cardinality(B) \in Nat
    <2>1. 0 \in A OBVIOUS
    <2>. HIDE DEF A
    <2>2. Cardinality(A) \in Nat BY <1>1, FS_CardinalityType
    <2>3. IsFiniteSet(B) /\ Cardinality(B) = Cardinality(A) - 1 BY <1>1, <2>1, FS_RemoveElement
    <2>4. Cardinality(B) \in Nat BY <2>3, FS_CardinalityType
    <2>. QED BY <2>2, <2>3, <2>4
  <1>3. f \in [A -> B] OBVIOUS
  <1>. HIDE DEF A, B
  <1>4. PICK x, y \in A : x # y /\ f[x] = f[y]
    <2>. HIDE DEF f
    <2>1. Cardinality(B) < Cardinality(A) BY <1>2
    <2>. QED BY <1>1, <1>2, <2>1, <1>3, FS_PigeonHole
  <1>. QED BY <1>4 DEF A

\* From the end of a text to its beginning
LEMMA Backwards ==
    ASSUME NEW L \in Nat, NEW S, L + 1 \in S,
           \A i \in 1..L : (\A j \in (i + 1)..(L + 1) : j \in S) => i \in S
    PROVE  \A i \in 1..(L + 1) : i \in S
  <1>. DEFINE T == {k \in Nat : \A j \in 1..(L + 1) : j + k >= L + 1 => j \in S}
  <1>1. 0 \in T OBVIOUS
  <1>2. ASSUME NEW k \in Nat, k \in T PROVE k + 1 \in T
    <2>. SUFFICES ASSUME NEW j \in 1..(L + 1), j + k + 1 >= L + 1 PROVE j \in S OBVIOUS
    <2>1. CASE j + k >= L + 1 BY <2>1, <1>2
    <2>2. CASE j + k = L
      <3>1. j \in 1..L /\ \A i \in (j + 1)..(L + 1) : i \in S BY <2>2, <1>2
      <3>. QED BY <3>1
    <2>. QED BY <2>1, <2>2
  <1>3. Nat \subseteq T
    <2>. HIDE DEF T
    <2>. QED BY <1>1, <1>2, NatSets
  <1>. QED BY <1>3

\* A set of natural numbers has a least element.
LEMMA NatMin == ASSUME NEW S, S \subseteq Nat, S # {} PROVE \E x \in S : \A y \in S : x <= y
  <1>. SUFFICES ASSUME \A x \in S : \E y \in S : y < x PROVE FALSE OBVIOUS
  <1>. DEFINE T == {k \in Nat : \A y \in S : k <= y}
  <1>1. 0 \in T OBVIOUS
  <1>2. ASSUME NEW k \in Nat, k \in T PROVE k + 1 \in T
    <2>1. k \notin S BY <1>2
    <2>. QED BY <1>2, <2>1
  <1>3. Nat \subseteq T
    <2>. HIDE DEF T
    <2>. QED BY <1>1, <1>2, NatSets
  <1>4. PICK z \in S : TRUE OBVIOUS
  <1>5. z + 1 \in T BY <1>3
  <1>. QED BY <1>4, <1>5

-----------------------------------------------------------------------------
(* str.replace.                                                            *)

Texts == Seq(Letters \cup Resources)
Words == Seq(Letters) \ {<<>>}

Stands(t, a, i) == Ext!IsPrefix(a, SubSeq(t, i, Len(t)))

StepAt(t, a, n, f, i) ==
    CASE i > Len(t) -> <<>>
      [] i <= Len(t) /\ Stands(t, a, i) -> <<n>> \o f[i + Len(a)]
      [] OTHER -> <<t[i]>> \o f[i + 1]

From(t, a, n) == CHOOSE f : f = [i \in 1..(Len(t) + 1) |-> StepAt(t, a, n, f, i)]

LEMMA StandsAt ==
    ASSUME NEW t \in Texts, NEW a \in Words, NEW i \in 1..Len(t)
    PROVE  Stands(t, a, i) <=> /\ i + Len(a) - 1 <= Len(t)
                               /\ \A j \in 1..Len(a) : t[i + j - 1] = a[j]
  <1>. DEFINE u == SubSeq(t, i, Len(t))
              v == SubSeq(u, 1, Len(a))
  <1>1. Len(t) \in Nat /\ Len(a) \in Nat \ {0} /\ a \in Texts BY EmptySeq, LenProperties, SeqMonotonic DEF Texts, Words
  <1>2. u \in Texts /\ Len(u) = Len(t) - i + 1 /\ \A j \in 1..Len(u) : u[j] = t[i + j - 1]
    BY <1>1, SubSeqProperties, ElementOfSeq DEF Texts
  <1>3. SubSeq(a, 1, Len(a)) = a BY <1>1, SubSeqFull DEF Texts
  <1>. HIDE DEF u
  <1>4. Stands(t, a, i) <=> Len(a) <= Len(u) /\ a = v BY <1>3 DEF Stands, Ext!IsPrefix, u
  <1>5. ASSUME Len(a) <= Len(u) PROVE a = v <=> \A j \in 1..Len(a) : u[j] = a[j]
    <2>1. v \in Texts /\ Len(v) = Len(a) /\ \A j \in 1..Len(a) : v[j] = u[j]
      BY <1>1, <1>2, <1>5, SubSeqProperties, ElementOfSeq DEF Texts
    <2>. HIDE DEF v
    <2>2. (\A j \in 1..Len(a) : v[j] = a[j]) => v = a BY <1>1, <2>1, SeqEqual DEF Texts
    <2>. QED BY <2>1, <2>2
  <1>. QED BY <1>1, <1>2, <1>4, <1>5

LEMMA Concats ==
    ASSUME NEW e \in Letters \cup Resources, NEW s \in Texts
    PROVE  /\ <<e>> \o s \in Texts /\ Len(<<e>> \o s) = Len(s) + 1 /\ Len(s) \in Nat
           /\ (<<e>> \o s)[1] = e
           /\ \A j \in 1..Len(s) : (<<e>> \o s)[j + 1] = s[j]
  <1>1. <<e>> \in Texts /\ Len(<<e>>) = 1 /\ <<e>>[1] = e BY DEF Texts
  <1>2. Len(s) \in Nat BY LenProperties DEF Texts
  <1>3. /\ <<e>> \o s \in Texts /\ Len(<<e>> \o s) = 1 + Len(s)
        /\ \A j \in 1..(1 + Len(s)) : (<<e>> \o s)[j] = IF j <= 1 THEN <<e>>[j] ELSE s[j - 1]
    BY <1>1, ConcatProperties DEF Texts
  <1>. QED BY <1>1, <1>2, <1>3

\* The recursion of Replace is well-founded: there is one such function.
LEMMA FromIsDefined ==
    ASSUME NEW t \in Texts, NEW a \in Words, NEW n \in Resources
    PROVE  /\ From(t, a, n) \in [1..(Len(t) + 1) -> Texts]
           /\ \A i \in 1..(Len(t) + 1) : From(t, a, n)[i] = StepAt(t, a, n, From(t, a, n), i)
  <1>. DEFINE L == Len(t)
              Fits(g, k) == /\ g \in [(L + 1 - k)..(L + 1) -> Texts]
                            /\ \A i \in (L + 1 - k)..(L + 1) : g[i] = StepAt(t, a, n, g, i)
              T == {k \in Nat : k <= L => \E g : Fits(g, k)}
  <1>0. L \in Nat /\ Len(a) \in Nat \ {0} /\ <<>> \in Texts BY EmptySeq, LenProperties DEF Texts, Words
  <1>1. 0 \in T
    <2>. DEFINE g == [i \in (L + 1)..(L + 1) |-> <<>>]
    <2>1. Fits(g, 0) BY <1>0 DEF StepAt
    <2>. QED BY <2>1
  <1>2. ASSUME NEW k \in Nat, k \in T PROVE k + 1 \in T
    <2>. SUFFICES ASSUME k + 1 <= L PROVE \E g : Fits(g, k + 1) BY <1>0
    <2>1. PICK g : Fits(g, k) BY <1>0, <1>2
    <2>. DEFINE m == L - k
                h == [i \in m..(L + 1) |-> IF i = m THEN StepAt(t, a, n, g, m) ELSE g[i]]
    <2>2. m \in 1..L /\ m = L + 1 - (k + 1) /\ m + 1 = L + 1 - k BY <1>0
    <2>3. t[m] \in Letters \cup Resources BY <2>2, ElementOfSeq DEF Texts
    <2>4. \A i \in m..L : Stands(t, a, i) => i + Len(a) \in (m + 1)..(L + 1) BY <1>0, <2>2, StandsAt
    <2>5. StepAt(t, a, n, g, m) \in Texts
      <3>1. CASE Stands(t, a, m)
        <4>1. g[m + Len(a)] \in Texts BY <3>1, <2>1, <2>2, <2>4
        <4>. QED BY <3>1, <4>1, <2>2, <1>0, Concats DEF StepAt
      <3>2. CASE ~Stands(t, a, m)
        <4>1. g[m + 1] \in Texts BY <2>1, <2>2, <1>0
        <4>. QED BY <3>2, <4>1, <2>2, <2>3, <1>0, Concats DEF StepAt
      <3>. QED BY <3>1, <3>2
    <2>6. h \in [m..(L + 1) -> Texts] BY <2>1, <2>2, <2>5, <1>0
    <2>7. \A i \in (m + 1)..(L + 1) : h[i] = g[i] BY <2>2, <1>0
    <2>8. h[m] = StepAt(t, a, n, g, m) BY <2>2, <1>0
    <2>. HIDE DEF h
    <2>9. ASSUME NEW i \in m..(L + 1) PROVE StepAt(t, a, n, h, i) = StepAt(t, a, n, g, i)
      <3>1. CASE i > L BY <3>1, <1>0 DEF StepAt
      <3>2. CASE i <= L
        <4>1. h[i + 1] = g[i + 1] BY <3>2, <2>7, <2>2, <1>0
        <4>2. Stands(t, a, i) => h[i + Len(a)] = g[i + Len(a)] BY <3>2, <2>4, <2>7, <2>2, <1>0
        <4>. QED BY <4>1, <4>2 DEF StepAt
      <3>. QED BY <3>1, <3>2, <2>2, <1>0
    <2>10. ASSUME NEW i \in m..(L + 1) PROVE h[i] = StepAt(t, a, n, h, i)
      <3>1. CASE i = m BY <3>1, <2>8, <2>9
      <3>2. CASE i # m
        <4>1. i \in (m + 1)..(L + 1) BY <3>2, <2>2, <1>0
        <4>. QED BY <4>1, <2>1, <2>2, <2>7, <2>9
      <3>. QED BY <3>1, <3>2
    <2>11. Fits(h, k + 1) BY <2>2, <2>6, <2>10
    <2>. QED BY <2>11
  <1>3. Nat \subseteq T
    <2>. HIDE DEF T
    <2>. QED BY <1>1, <1>2, NatSets
  <1>4. PICK g : Fits(g, L) BY <1>0, <1>3
  <1>5. g \in [1..(L + 1) -> Texts] /\ \A i \in 1..(L + 1) : g[i] = StepAt(t, a, n, g, i) BY <1>4, <1>0
  <1>6. g = [i \in 1..(L + 1) |-> StepAt(t, a, n, g, i)] BY <1>5
  <1>. DEFINE f == From(t, a, n)
  <1>7. f = [i \in 1..(L + 1) |-> StepAt(t, a, n, f, i)] BY <1>6 DEF From
  <1>. HIDE DEF f
  <1>8. \A i \in 1..(L + 1) : f[i] = StepAt(t, a, n, f, i) BY <1>7
  <1>9. \A i \in 1..(L + 1) : f[i] = g[i]
    <2>. DEFINE S == {i \in 1..(L + 1) : f[i] = g[i]}
    <2>1. L + 1 \in S
      <3>1. StepAt(t, a, n, f, L + 1) = <<>> /\ StepAt(t, a, n, g, L + 1) = <<>> BY <1>0 DEF StepAt
      <3>. QED BY <3>1, <1>0, <1>5, <1>8
    <2>2. ASSUME NEW i \in 1..L, \A j \in (i + 1)..(L + 1) : j \in S PROVE i \in S
      <3>1. f[i + 1] = g[i + 1] BY <2>2, <1>0
      <3>2. Stands(t, a, i) => f[i + Len(a)] = g[i + Len(a)] BY <2>2, <1>0, StandsAt
      <3>3. StepAt(t, a, n, f, i) = StepAt(t, a, n, g, i) BY <3>1, <3>2, <1>0 DEF StepAt
      <3>. QED BY <3>3, <1>0, <1>5, <1>8
    <2>3. \A i \in 1..(L + 1) : i \in S
      <3>. HIDE DEF S
      <3>. QED BY <1>0, <2>1, <2>2, Backwards
    <2>. QED BY <2>3
  <1>10. f \in [1..(L + 1) -> Texts]
    <2>1. DOMAIN f = 1..(L + 1) /\ f = [i \in 1..(L + 1) |-> f[i]] BY <1>7
    <2>. QED BY <2>1, <1>9, <1>5
  <1>. QED BY <1>8, <1>10 DEF f

LEMMA Lens == ASSUME NEW t \in Texts PROVE Len(t) \in Nat /\ \A i \in 1..Len(t) : t[i] \in Letters \cup Resources
  BY LenProperties, ElementOfSeq DEF Texts

LEMMA WordLens == ASSUME NEW a \in Words PROVE Len(a) \in Nat \ {0} /\ a \in Texts /\ \A i \in 1..Len(a) : a[i] \in Letters
  BY EmptySeq, LenProperties, SeqMonotonic, ElementOfSeq DEF Texts, Words

\* What is left of the text from i on
LEMMA FromSteps ==
    ASSUME NEW t \in Texts, NEW a \in Words, NEW n \in Resources, NEW i \in 1..(Len(t) + 1)
    PROVE  LET f == From(t, a, n)
           IN  /\ f[i] \in Texts
               /\ i = Len(t) + 1 => f[i] = <<>>
               /\ i <= Len(t) /\ Stands(t, a, i) => /\ i + Len(a) \in (i + 1)..(Len(t) + 1)
                                                    /\ f[i + Len(a)] \in Texts
                                                    /\ f[i] = <<n>> \o f[i + Len(a)]
               /\ i <= Len(t) /\ ~Stands(t, a, i) => /\ f[i + 1] \in Texts
                                                     /\ f[i] = <<t[i]>> \o f[i + 1]
  <1>. DEFINE f == From(t, a, n)
  <1>1. f \in [1..(Len(t) + 1) -> Texts] /\ f[i] = StepAt(t, a, n, f, i) BY FromIsDefined
  <1>2. Len(t) \in Nat /\ Len(a) \in Nat \ {0} BY Lens, WordLens
  <1>. HIDE DEF f
  <1>3. i <= Len(t) /\ Stands(t, a, i) => i + Len(a) \in (i + 1)..(Len(t) + 1) BY <1>2, StandsAt
  <1>4. i = Len(t) + 1 => f[i] = <<>> BY <1>1, <1>2 DEF StepAt
  <1>5. i <= Len(t) /\ Stands(t, a, i) => f[i] = <<n>> \o f[i + Len(a)] BY <1>1, <1>2 DEF StepAt
  <1>6. i <= Len(t) /\ ~Stands(t, a, i) => f[i] = <<t[i]>> \o f[i + 1] BY <1>1, <1>2 DEF StepAt
  <1>7. i <= Len(t) /\ Stands(t, a, i) => f[i + Len(a)] \in Texts BY <1>1, <1>2, <1>3
  <1>8. i <= Len(t) => f[i + 1] \in Texts BY <1>1, <1>2
  <1>9. f[i] \in Texts BY <1>1
  <1>. QED BY <1>3, <1>4, <1>5, <1>6, <1>7, <1>8, <1>9 DEF f

LEMMA ReplaceIsFrom ==
    ASSUME NEW t \in Texts, NEW a \in Words, NEW n \in Resources
    PROVE  Replace(t, a, n) = From(t, a, n)[1] /\ Replace(t, a, n) \in Texts
  <1>1. Replace(t, a, n) = From(t, a, n)[1] BY DEF Replace, From, StepAt, Stands
  <1>. QED BY <1>1, FromIsDefined, Lens

-----------------------------------------------------------------------------
(* Words across a cut.                                                     *)

Ends(u, b, k) == k <= Len(u) /\ \A j \in 1..k : u[Len(u) - k + j] = b[j]
Begins(v, b, k) == Len(b) - k <= Len(v) /\ \A j \in 1..(Len(b) - k) : v[j] = b[k + j]

\* The word b stands in u \o v, and begins in u and ends in v.
Across(b, u, v) == \E k \in 1..(Len(b) - 1) : Ends(u, b, k) /\ Begins(v, b, k)

LEMMA Joined ==
    ASSUME NEW u \in Texts, NEW v \in Texts
    PROVE  /\ u \o v \in Texts /\ Len(u \o v) = Len(u) + Len(v) /\ Len(u) \in Nat /\ Len(v) \in Nat
           /\ \A i \in 1..Len(u) : (u \o v)[i] = u[i]
           /\ \A i \in 1..Len(v) : (u \o v)[Len(u) + i] = v[i]
  <1>1. /\ u \o v \in Texts /\ Len(u \o v) = Len(u) + Len(v)
        /\ \A i \in 1 .. Len(u) + Len(v) : (u \o v)[i] = IF i <= Len(u) THEN u[i] ELSE v[i - Len(u)]
    BY ConcatProperties DEF Texts
  <1>2. Len(u) \in Nat /\ Len(v) \in Nat BY Lens
  <1>3. ASSUME NEW i \in 1..Len(v) PROVE (u \o v)[Len(u) + i] = v[i]
    <2>1. Len(u) + i \in 1 .. Len(u) + Len(v) /\ ~(Len(u) + i <= Len(u)) /\ Len(u) + i - Len(u) = i BY <1>2
    <2>. QED BY <2>1, <1>1
  <1>. QED BY <1>1, <1>2, <1>3

LEMMA StandsInFirst ==
    ASSUME NEW u \in Texts, NEW v \in Texts, NEW a \in Words, NEW i \in 1..Len(u), ~Across(a, u, v)
    PROVE  Stands(u \o v, a, i) <=> Stands(u, a, i)
  <1>1. Len(a) \in Nat \ {0} BY WordLens
  <1>. DEFINE t == u \o v
  <1>2. /\ t \in Texts /\ Len(t) = Len(u) + Len(v) /\ Len(u) \in Nat /\ Len(v) \in Nat
        /\ \A j \in 1..Len(u) : t[j] = u[j]
        /\ \A j \in 1..Len(v) : t[Len(u) + j] = v[j]
    BY Joined
  <1>. HIDE DEF t
  <1>3. Stands(t, a, i) <=> i + Len(a) - 1 <= Len(t) /\ \A j \in 1..Len(a) : t[i + j - 1] = a[j]
    <2>1. i \in 1..Len(t) BY <1>2
    <2>. QED BY <1>2, <2>1, StandsAt
  <1>4. Stands(u, a, i) <=> i + Len(a) - 1 <= Len(u) /\ \A j \in 1..Len(a) : u[i + j - 1] = a[j]
    BY StandsAt
  <1>5. CASE i + Len(a) - 1 <= Len(u)
    <2>1. \A j \in 1..Len(a) : t[i + j - 1] = u[i + j - 1] BY <1>1, <1>2, <1>5
    <2>. QED BY <2>1, <1>1, <1>2, <1>3, <1>4, <1>5 DEF t
  <1>6. CASE i + Len(a) - 1 > Len(u)
    <2>1. SUFFICES ASSUME Stands(t, a, i) PROVE FALSE BY <1>1, <1>2, <1>4, <1>6 DEF t
    <2>. DEFINE k == Len(u) - i + 1
    <2>2. k \in 1..(Len(a) - 1) /\ k <= Len(u) /\ Len(a) - k <= Len(v) BY <1>1, <1>2, <1>3, <1>6, <2>1
    <2>3. ASSUME NEW j \in 1..k PROVE u[Len(u) - k + j] = a[j]
      <3>1. Len(u) - k + j = i + j - 1 /\ i + j - 1 \in 1..Len(u) /\ j \in 1..Len(a) BY <1>1, <1>2, <2>2
      <3>. QED BY <3>1, <1>2, <1>3, <2>1
    <2>4. ASSUME NEW j \in 1..(Len(a) - k) PROVE v[j] = a[k + j]
      <3>1. i + (k + j) - 1 = Len(u) + j /\ j \in 1..Len(v) /\ k + j \in 1..Len(a) BY <1>1, <1>2, <2>2
      <3>. QED BY <3>1, <1>2, <1>3, <2>1
    <2>. HIDE DEF k
    <2>. QED BY <2>2, <2>3, <2>4 DEF Across, Ends, Begins
  <1>. QED BY <1>5, <1>6, <1>1, <1>2

LEMMA StandsInSecond ==
    ASSUME NEW u \in Texts, NEW v \in Texts, NEW a \in Words, NEW i \in 1..Len(v)
    PROVE  Stands(u \o v, a, Len(u) + i) <=> Stands(v, a, i)
  <1>1. Len(a) \in Nat \ {0} BY WordLens
  <1>. DEFINE t == u \o v
  <1>2. /\ t \in Texts /\ Len(t) = Len(u) + Len(v) /\ Len(u) \in Nat /\ Len(v) \in Nat
        /\ \A j \in 1..Len(v) : t[Len(u) + j] = v[j]
    BY Joined
  <1>. HIDE DEF t
  <1>3. Stands(t, a, Len(u) + i) <=>
            Len(u) + i + Len(a) - 1 <= Len(t) /\ \A j \in 1..Len(a) : t[Len(u) + i + j - 1] = a[j]
    <2>1. Len(u) + i \in 1..Len(t) BY <1>2
    <2>. QED BY <1>2, <2>1, StandsAt
  <1>4. Stands(v, a, i) <=> i + Len(a) - 1 <= Len(v) /\ \A j \in 1..Len(a) : v[i + j - 1] = a[j]
    BY StandsAt
  <1>5. ASSUME i + Len(a) - 1 <= Len(v), NEW j \in 1..Len(a) PROVE t[Len(u) + i + j - 1] = v[i + j - 1]
    <2>1. i + j - 1 \in 1..Len(v) /\ Len(u) + i + j - 1 = Len(u) + (i + j - 1) BY <1>1, <1>2, <1>5
    <2>. QED BY <2>1, <1>2
  <1>6. Len(u) + i + Len(a) - 1 <= Len(t) <=> i + Len(a) - 1 <= Len(v) BY <1>1, <1>2
  <1>7. Stands(t, a, Len(u) + i) <=> Stands(v, a, i) BY <1>3, <1>4, <1>5, <1>6
  <1>. QED BY <1>7 DEF t

LEMMA Associative ==
    ASSUME NEW e \in Letters \cup Resources, NEW s \in Texts, NEW r \in Texts
    PROVE  (<<e>> \o s) \o r = <<e>> \o (s \o r)
  <1>1. <<e>> \in Texts BY DEF Texts
  <1>. QED BY <1>1, ConcatAssociative DEF Texts

\* Replacing may be cut wherever the word does not stand across the cut.
LEMMA ReplaceParts ==
    ASSUME NEW u \in Texts, NEW v \in Texts, NEW a \in Words, NEW n \in Resources, ~Across(a, u, v)
    PROVE  Replace(u \o v, a, n) = Replace(u, a, n) \o Replace(v, a, n)
  <1>. DEFINE t == u \o v
              f == From(t, a, n)
              g == From(u, a, n)
              h == From(v, a, n)
  <1>1. /\ t \in Texts /\ Len(t) = Len(u) + Len(v) /\ Len(u) \in Nat /\ Len(v) \in Nat
        /\ \A j \in 1..Len(u) : t[j] = u[j]
        /\ \A j \in 1..Len(v) : t[Len(u) + j] = v[j]
    BY Joined
  <1>2. Len(a) \in Nat \ {0} BY WordLens
  <1>3. \A i \in 1..Len(u) : Stands(t, a, i) <=> Stands(u, a, i) BY StandsInFirst
  <1>4. \A i \in 1..Len(v) : Stands(t, a, Len(u) + i) <=> Stands(v, a, i) BY StandsInSecond
  <1>5. Replace(t, a, n) = f[1] /\ Replace(u, a, n) = g[1] /\ Replace(v, a, n) = h[1] BY <1>1, ReplaceIsFrom
  <1>. HIDE DEF t, f, g, h
  <1>6. \A i \in 1..(Len(v) + 1) : f[Len(u) + i] = h[i]
    <2>. DEFINE S == {i \in 1..(Len(v) + 1) : f[Len(u) + i] = h[i]}
    <2>1. Len(v) + 1 \in S
      <3>1. Len(u) + (Len(v) + 1) = Len(t) + 1 /\ Len(t) + 1 \in 1..(Len(t) + 1) /\ Len(v) + 1 \in 1..(Len(v) + 1)
        BY <1>1
      <3>2. f[Len(t) + 1] = <<>> BY <3>1, <1>1, FromSteps DEF f
      <3>3. h[Len(v) + 1] = <<>> BY <3>1, FromSteps DEF h
      <3>. QED BY <3>1, <3>2, <3>3
    <2>2. ASSUME NEW i \in 1..Len(v), \A j \in (i + 1)..(Len(v) + 1) : j \in S PROVE i \in S
      <3>1. /\ i \in 1..(Len(v) + 1) /\ i <= Len(v)
            /\ Len(u) + i \in 1..(Len(t) + 1) /\ Len(u) + i <= Len(t)
            /\ Len(u) + i + 1 = Len(u) + (i + 1) /\ Len(u) + i + Len(a) = Len(u) + (i + Len(a))
        BY <1>1, <1>2
      <3>2. CASE Stands(v, a, i)
        <4>1. i + Len(a) \in (i + 1)..(Len(v) + 1) /\ h[i] = <<n>> \o h[i + Len(a)]
          BY <3>1, <3>2, FromSteps DEF h
        <4>2. f[Len(u) + i] = <<n>> \o f[Len(u) + i + Len(a)] BY <3>1, <3>2, <1>1, <1>4, FromSteps DEF f
        <4>3. f[Len(u) + (i + Len(a))] = h[i + Len(a)] BY <4>1, <2>2
        <4>. QED BY <4>1, <4>2, <4>3, <3>1
      <3>3. CASE ~Stands(v, a, i)
        <4>1. h[i] = <<v[i]>> \o h[i + 1] BY <3>1, <3>3, FromSteps DEF h
        <4>2. f[Len(u) + i] = <<t[Len(u) + i]>> \o f[Len(u) + i + 1] BY <3>1, <3>3, <1>1, <1>4, FromSteps DEF f
        <4>3. i + 1 \in (i + 1)..(Len(v) + 1) BY <1>1
        <4>4. f[Len(u) + (i + 1)] = h[i + 1] /\ t[Len(u) + i] = v[i] BY <4>3, <2>2, <1>1
        <4>. QED BY <4>1, <4>2, <4>4, <3>1
      <3>. QED BY <3>2, <3>3
    <2>3. \A i \in 1..(Len(v) + 1) : i \in S
      <3>. HIDE DEF S
      <3>. QED BY <1>1, <2>1, <2>2, Backwards
    <2>. QED BY <2>3
  <1>7. h[1] \in Texts
    <2>1. 1 \in 1..(Len(v) + 1) BY <1>1
    <2>. QED BY <2>1, FromSteps DEF h
  <1>8. \A i \in 1..(Len(u) + 1) : f[i] = g[i] \o h[1]
    <2>. DEFINE S == {i \in 1..(Len(u) + 1) : f[i] = g[i] \o h[1]}
    <2>1. Len(u) + 1 \in S
      <3>1. Len(u) + 1 \in 1..(Len(u) + 1) /\ 1 \in 1..(Len(v) + 1) BY <1>1
      <3>2. f[Len(u) + 1] = h[1] BY <3>1, <1>6
      <3>3. g[Len(u) + 1] = <<>> BY <3>1, FromSteps DEF g
      <3>4. <<>> \o h[1] = h[1] BY <1>7, ConcatEmptySeq DEF Texts
      <3>. QED BY <3>1, <3>2, <3>3, <3>4
    <2>2. ASSUME NEW i \in 1..Len(u), \A j \in (i + 1)..(Len(u) + 1) : j \in S PROVE i \in S
      <3>1. /\ i \in 1..(Len(u) + 1) /\ i <= Len(u) /\ i \in 1..(Len(t) + 1) /\ i <= Len(t)
            /\ t[i] = u[i] /\ u[i] \in Letters \cup Resources
        BY <1>1, Lens
      <3>2. CASE Stands(u, a, i)
        <4>1. /\ i + Len(a) \in (i + 1)..(Len(u) + 1) /\ g[i] = <<n>> \o g[i + Len(a)]
              /\ g[i + Len(a)] \in Texts
          BY <3>1, <3>2, FromSteps DEF g
        <4>2. f[i] = <<n>> \o f[i + Len(a)] BY <3>1, <3>2, <1>1, <1>3, FromSteps DEF f
        <4>3. f[i + Len(a)] = g[i + Len(a)] \o h[1] BY <4>1, <2>2
        <4>4. (<<n>> \o g[i + Len(a)]) \o h[1] = <<n>> \o (g[i + Len(a)] \o h[1])
          BY <4>1, <1>7, Associative
        <4>. QED BY <4>1, <4>2, <4>3, <4>4, <3>1
      <3>3. CASE ~Stands(u, a, i)
        <4>1. g[i] = <<u[i]>> \o g[i + 1] /\ g[i + 1] \in Texts BY <3>1, <3>3, FromSteps DEF g
        <4>2. f[i] = <<t[i]>> \o f[i + 1] BY <3>1, <3>3, <1>1, <1>3, FromSteps DEF f
        <4>3. i + 1 \in (i + 1)..(Len(u) + 1) BY <1>1
        <4>4. f[i + 1] = g[i + 1] \o h[1] BY <4>3, <2>2
        <4>5. (<<u[i]>> \o g[i + 1]) \o h[1] = <<u[i]>> \o (g[i + 1] \o h[1])
          BY <4>1, <3>1, <1>7, Associative
        <4>. QED BY <4>1, <4>2, <4>4, <4>5, <3>1
      <3>. QED BY <3>2, <3>3
    <2>3. \A i \in 1..(Len(u) + 1) : i \in S
      <3>. HIDE DEF S
      <3>. QED BY <1>1, <2>1, <2>2, Backwards
    <2>. QED BY <2>3
  <1>9. f[1] = g[1] \o h[1]
    <2>1. 1 \in 1..(Len(u) + 1) BY <1>1
    <2>. QED BY <2>1, <1>8
  <1>. QED BY <1>5, <1>9 DEF t

\* Letters at an end of what is made of the text from i on are the letters at that end of it.
LettersLast(r, c) == c <= Len(r) /\ \A j \in 1..c : r[Len(r) - c + j] \in Letters
SameLast(r, t, c) == c <= Len(t) /\ \A j \in 1..c : r[Len(r) - c + j] = t[Len(t) - c + j]
KeepsLast(r, t, i) ==
    \A c \in Nat : LettersLast(r, c) =>
        SameLast(r, t, c) /\ c <= Len(t) - i + 1 /\ (c = Len(r) => c = Len(t) - i + 1)

LettersFirst(r, c) == c <= Len(r) /\ \A j \in 1..c : r[j] \in Letters
KeepsFirst(r, t, i) ==
    \A c \in Nat : LettersFirst(r, c) => c <= Len(t) - i + 1 /\ \A j \in 1..c : r[j] = t[i + j - 1]

LEMMA KeepsLastStep ==
    ASSUME NEW t \in Texts, NEW i \in 1..Len(t), NEW e \in Letters \cup Resources, NEW r \in Texts,
           NEW m \in (i + 1)..(Len(t) + 1), e \in Letters => e = t[i] /\ m = i + 1, KeepsLast(r, t, m)
    PROVE  KeepsLast(<<e>> \o r, t, i)
  <1>. DEFINE s == <<e>> \o r
              L == Len(t)
  <1>1. /\ Len(s) = Len(r) + 1 /\ Len(r) \in Nat /\ L \in Nat /\ s[1] = e
        /\ \A j \in 1..Len(r) : s[j + 1] = r[j]
    BY Concats, Lens
  <1>. HIDE DEF s
  <1>. SUFFICES ASSUME NEW c \in Nat, LettersLast(s, c)
                PROVE  SameLast(s, t, c) /\ c <= L - i + 1 /\ (c = Len(s) => c = L - i + 1)
    BY DEF KeepsLast, s
  <1>2. CASE c <= Len(r)
    <2>1. ASSUME NEW j \in 1..c PROVE s[Len(s) - c + j] = r[Len(r) - c + j]
      <3>1. Len(r) - c + j \in 1..Len(r) /\ Len(s) - c + j = (Len(r) - c + j) + 1 BY <1>1, <1>2
      <3>. QED BY <3>1, <1>1
    <2>2. LettersLast(r, c) BY <2>1, <1>2 DEF LettersLast
    <2>3. SameLast(r, t, c) /\ c <= L - m + 1 BY <2>2 DEF KeepsLast
    <2>4. SameLast(s, t, c) BY <2>1, <2>3 DEF SameLast
    <2>. QED BY <2>3, <2>4, <1>1, <1>2
  <1>3. CASE c > Len(r)
    <2>. DEFINE d == Len(r)
    <2>1. c <= Len(s) BY DEF LettersLast
    <2>2. c = Len(s) /\ c = d + 1 BY <1>1, <1>3, <2>1
    <2>3. \A j \in 1..c : s[j] \in Letters
      <3>. TAKE j \in 1..c
      <3>1. Len(s) - c + j = j BY <2>2, <1>1
      <3>. QED BY <3>1 DEF LettersLast
    <2>4. e = t[i] /\ m = i + 1
      <3>1. 1 \in 1..c BY <2>2, <1>1
      <3>. QED BY <3>1, <2>3, <1>1
    <2>5. LettersLast(r, d)
      <3>1. ASSUME NEW j \in 1..d PROVE r[Len(r) - d + j] \in Letters
        <4>1. Len(r) - d + j = j /\ j + 1 \in 1..c BY <1>1, <2>2
        <4>. QED BY <4>1, <1>1, <2>3
      <3>. QED BY <3>1, <1>1 DEF LettersLast
    <2>6. SameLast(r, t, d) /\ d = L - m + 1 BY <2>5, <1>1 DEF KeepsLast
    <2>7. c = L - i + 1 BY <2>6, <2>4, <2>2, <1>1
    <2>8. ASSUME NEW j \in 1..c PROVE s[Len(s) - c + j] = t[L - c + j]
      <3>1. CASE j = 1
        <4>1. Len(s) - c + j = 1 /\ L - c + j = i BY <3>1, <2>2, <2>7, <1>1
        <4>. QED BY <4>1, <1>1, <2>4
      <3>2. CASE j # 1
        <4>1. /\ j - 1 \in 1..d /\ Len(s) - c + j = (j - 1) + 1
              /\ Len(r) - d + (j - 1) = j - 1 /\ L - d + (j - 1) = L - c + j
          BY <3>2, <2>2, <1>1
        <4>2. s[Len(s) - c + j] = r[j - 1] BY <4>1, <1>1
        <4>3. r[j - 1] = t[L - d + (j - 1)] BY <4>1, <2>6 DEF SameLast
        <4>. QED BY <4>1, <4>2, <4>3
      <3>. QED BY <3>1, <3>2
    <2>9. SameLast(s, t, c) BY <2>7, <2>8, <1>1 DEF SameLast
    <2>. QED BY <2>7, <2>9, <1>1
  <1>. QED BY <1>2, <1>3, <1>1

LEMMA KeepsFirstStep ==
    ASSUME NEW t \in Texts, NEW i \in 1..Len(t), NEW e \in Letters \cup Resources, NEW r \in Texts,
           NEW m \in (i + 1)..(Len(t) + 1), e \in Letters => e = t[i] /\ m = i + 1, KeepsFirst(r, t, m)
    PROVE  KeepsFirst(<<e>> \o r, t, i)
  <1>. DEFINE s == <<e>> \o r
              L == Len(t)
  <1>1. /\ Len(s) = Len(r) + 1 /\ Len(r) \in Nat /\ L \in Nat /\ s[1] = e
        /\ \A j \in 1..Len(r) : s[j + 1] = r[j]
    BY Concats, Lens
  <1>. HIDE DEF s
  <1>. SUFFICES ASSUME NEW c \in Nat, LettersFirst(s, c)
                PROVE  c <= L - i + 1 /\ \A j \in 1..c : s[j] = t[i + j - 1]
    BY DEF KeepsFirst, s
  <1>2. CASE c = 0 BY <1>2, <1>1
  <1>3. CASE c # 0
    <2>1. c <= Len(s) /\ \A j \in 1..c : s[j] \in Letters BY DEF LettersFirst
    <2>2. e = t[i] /\ m = i + 1
      <3>1. 1 \in 1..c BY <1>3
      <3>. QED BY <3>1, <2>1, <1>1
    <2>. DEFINE d == c - 1
    <2>3. d \in Nat /\ d <= Len(r) BY <1>1, <1>3, <2>1
    <2>4. ASSUME NEW j \in 1..d PROVE s[j + 1] = r[j] /\ j + 1 \in 1..c BY <1>1, <2>3
    <2>5. LettersFirst(r, d) BY <2>1, <2>3, <2>4 DEF LettersFirst
    <2>6. d <= L - m + 1 /\ \A j \in 1..d : r[j] = t[m + j - 1] BY <2>3, <2>5 DEF KeepsFirst
    <2>7. ASSUME NEW j \in 1..c PROVE s[j] = t[i + j - 1]
      <3>1. CASE j = 1 BY <3>1, <1>1, <2>2
      <3>2. CASE j # 1
        <4>1. j - 1 \in 1..d /\ (j - 1) + 1 = j /\ m + (j - 1) - 1 = i + j - 1 BY <3>2, <2>2
        <4>. QED BY <4>1, <2>4, <2>6
      <3>. QED BY <3>1, <3>2
    <2>8. c <= L - i + 1 BY <2>6, <2>2, <1>1
    <2>. QED BY <2>7, <2>8
  <1>. QED BY <1>2, <1>3

\* What replacing leaves of the letters at both ends
LEMMA ReplaceKeeps ==
    ASSUME NEW t \in Texts, NEW a \in Words, NEW n \in Resources, n \notin Letters
    PROVE  KeepsLast(Replace(t, a, n), t, 1) /\ KeepsFirst(Replace(t, a, n), t, 1)
  <1>. DEFINE L == Len(t)
              f == From(t, a, n)
              S == {i \in 1..(L + 1) : KeepsLast(f[i], t, i) /\ KeepsFirst(f[i], t, i)}
  <1>1. L \in Nat /\ Len(a) \in Nat \ {0} BY Lens, WordLens
  <1>2. L + 1 \in S
    <2>1. L + 1 \in 1..(L + 1) BY <1>1
    <2>2. f[L + 1] = <<>> BY <2>1, FromSteps
    <2>3. KeepsLast(<<>>, t, L + 1) /\ KeepsFirst(<<>>, t, L + 1)
      BY <1>1 DEF KeepsLast, KeepsFirst, LettersLast, LettersFirst, SameLast
    <2>. HIDE DEF f
    <2>. QED BY <2>1, <2>2, <2>3
  <1>3. ASSUME NEW i \in 1..L, \A j \in (i + 1)..(L + 1) : j \in S PROVE i \in S
    <2>1. i \in 1..(L + 1) /\ i <= L BY <1>1
    <2>2. PICK e \in Letters \cup Resources, m \in (i + 1)..(L + 1) :
              /\ f[m] \in Texts /\ f[i] = <<e>> \o f[m]
              /\ e \in Letters => e = t[i] /\ m = i + 1
      <3>1. CASE Stands(t, a, i)
        <4>1. i + Len(a) \in (i + 1)..(L + 1) /\ f[i + Len(a)] \in Texts /\ f[i] = <<n>> \o f[i + Len(a)]
          BY <2>1, <3>1, FromSteps
        <4>. HIDE DEF f
        <4>. QED BY <4>1
      <3>2. CASE ~Stands(t, a, i)
        <4>1. f[i + 1] \in Texts /\ f[i] = <<t[i]>> \o f[i + 1] BY <2>1, <3>2, FromSteps
        <4>2. t[i] \in Letters \cup Resources /\ i + 1 \in (i + 1)..(L + 1) BY Lens, <1>1
        <4>. HIDE DEF f
        <4>. QED BY <4>1, <4>2
      <3>. QED BY <3>1, <3>2
    <2>. HIDE DEF f
    <2>3. KeepsLast(f[m], t, m) /\ KeepsFirst(f[m], t, m) BY <1>3
    <2>4. KeepsLast(f[i], t, i) BY <2>2, <2>3, KeepsLastStep
    <2>5. KeepsFirst(f[i], t, i) BY <2>2, <2>3, KeepsFirstStep
    <2>. QED BY <2>1, <2>4, <2>5
  <1>4. \A i \in 1..(L + 1) : i \in S
    <2>. HIDE DEF S
    <2>. QED BY <1>1, <1>2, <1>3, Backwards
  <1>5. 1 \in 1..(L + 1) BY <1>1
  <1>6. Replace(t, a, n) = f[1] BY ReplaceIsFrom
  <1>. HIDE DEF f
  <1>. QED BY <1>4, <1>5, <1>6

\* A word that stands across the cut of what is made of two texts stood across the cut of the texts.
LEMMA ReplaceCut ==
    ASSUME NEW u \in Texts, NEW v \in Texts, NEW a \in Words, NEW n \in Resources, n \notin Letters,
           NEW b \in Words, Across(b, Replace(u, a, n), Replace(v, a, n))
    PROVE  Across(b, u, v)
  <1>. DEFINE x == Replace(u, a, n)
              y == Replace(v, a, n)
  <1>1. /\ KeepsLast(x, u, 1) /\ KeepsFirst(y, v, 1) /\ Len(u) \in Nat /\ Len(v) \in Nat
        /\ Len(b) \in Nat /\ \A j \in 1..Len(b) : b[j] \in Letters
    BY ReplaceKeeps, Lens, WordLens
  <1>. HIDE DEF x, y
  <1>2. PICK k \in 1..(Len(b) - 1) : Ends(x, b, k) /\ Begins(y, b, k) BY DEF Across, x, y
  <1>3. Ends(u, b, k)
    <2>1. k \in Nat /\ \A j \in 1..k : b[j] \in Letters BY <1>1
    <2>2. LettersLast(x, k) BY <1>2, <2>1 DEF LettersLast, Ends
    <2>3. SameLast(x, u, k) BY <2>1, <2>2, <1>1 DEF KeepsLast
    <2>. QED BY <2>3, <1>2 DEF SameLast, Ends
  <1>4. Begins(v, b, k)
    <2>. DEFINE c == Len(b) - k
    <2>1. c \in Nat /\ \A j \in 1..c : k + j \in 1..Len(b) BY <1>1
    <2>2. c <= Len(y) /\ \A j \in 1..c : y[j] = b[k + j] BY <1>2 DEF Begins
    <2>3. LettersFirst(y, c) BY <2>1, <2>2, <1>1 DEF LettersFirst
    <2>4. c <= Len(v) - 1 + 1 /\ \A j \in 1..c : y[j] = v[1 + j - 1] BY <2>1, <2>3, <1>1 DEF KeepsFirst
    <2>5. \A j \in 1..c : v[j] = y[j] BY <2>4
    <2>. QED BY <2>2, <2>4, <2>5, <1>1 DEF Begins
  <1>. QED BY <1>3, <1>4 DEF Across

-----------------------------------------------------------------------------
(* restore_text.                                                           *)

LEMMA Aliases ==
    ASSUME NEW n \in Resources
    PROVE  AliasOf[n] \in Words /\ n \notin Letters /\ Len(AliasOf[n]) \in Nat \ {0}
  <1>1. AliasOf[n] \in Words /\ n \notin Letters BY AliasAssumption DEF Words
  <1>. QED BY <1>1, WordLens

LEMMA ShortestIsOne == ASSUME NEW s \in SUBSET Resources, s # {} PROVE Shortest(s) \in s
  <1>. DEFINE S == {Len(AliasOf[n]) : n \in s}
  <1>1. S \subseteq Nat /\ S # {} BY Aliases
  <1>2. PICK x \in S : \A y \in S : x <= y BY <1>1, NatMin
  <1>3. PICK n \in s : x = Len(AliasOf[n]) BY <1>2
  <1>4. \A m \in s : Len(AliasOf[n]) <= Len(AliasOf[m]) BY <1>2, <1>3
  <1>. QED BY <1>4 DEF Shortest

\* Induction over sets of names, the way restore_text goes through them
LEMMA NamesInduction ==
    ASSUME named \in SUBSET Resources, NEW S, {} \in S,
           \A s \in SUBSET named : s # {} /\ s \ {Shortest(s)} \in S => s \in S
    PROVE  \A s \in SUBSET named : s \in S
  <1>. DEFINE T == {k \in Nat : \A s \in SUBSET named : Cardinality(s) <= k => s \in S}
  <1>1. IsFiniteSet(named) BY AliasAssumption, FS_Subset
  <1>2. \A s \in SUBSET named : IsFiniteSet(s) /\ Cardinality(s) \in Nat BY <1>1, FS_Subset, FS_CardinalityType
  <1>3. 0 \in T BY <1>2, FS_EmptySet
  <1>4. ASSUME NEW k \in Nat, k \in T PROVE k + 1 \in T
    <2>. SUFFICES ASSUME NEW s \in SUBSET named, Cardinality(s) <= k + 1 PROVE s \in S OBVIOUS
    <2>1. CASE s = {} BY <2>1
    <2>2. CASE s # {}
      <3>1. Shortest(s) \in s BY <2>2, ShortestIsOne
      <3>2. Cardinality(s \ {Shortest(s)}) = Cardinality(s) - 1 BY <3>1, <1>2, FS_RemoveElement
      <3>3. Cardinality(s \ {Shortest(s)}) <= k BY <3>2, <1>2
      <3>4. s \ {Shortest(s)} \in S BY <3>3, <1>4
      <3>. QED BY <3>4, <2>2
    <2>. QED BY <2>1, <2>2
  <1>5. Nat \subseteq T
    <2>. HIDE DEF T
    <2>. QED BY <1>3, <1>4, NatSets
  <1>. QED BY <1>2, <1>5

Folded(t, f, s) ==
    IF s = {} THEN t ELSE Replace(f[s \ {Shortest(s)}], AliasOf[Shortest(s)], Shortest(s))

After(t) == CHOOSE f : f = [s \in SUBSET named |-> Folded(t, f, s)]

LEMMA RestoreIsAfter == ASSUME NEW t PROVE RestoreText(t) = After(t)[named]
  BY DEF RestoreText, Ext!MapThenFoldSet, After, Folded

\* The recursion of restore_text is well-founded, too.
LEMMA AfterIsDefined ==
    ASSUME named \in SUBSET Resources, NEW t \in Texts
    PROVE  /\ After(t)[{}] = t
           /\ \A s \in SUBSET named : s # {} =>
                  After(t)[s] = Replace(After(t)[s \ {Shortest(s)}], AliasOf[Shortest(s)], Shortest(s))
           /\ \A s \in SUBSET named : After(t)[s] \in Texts
  <1>. DEFINE Small(k) == {s \in SUBSET named : Cardinality(s) <= k}
              Fits(g, k) == g \in [Small(k) -> Texts] /\ \A s \in Small(k) : g[s] = Folded(t, g, s)
              T == {k \in Nat : \E g : Fits(g, k)}
  <1>1. IsFiniteSet(named) BY AliasAssumption, FS_Subset
  <1>2. \A s \in SUBSET named : IsFiniteSet(s) /\ Cardinality(s) \in Nat BY <1>1, FS_Subset, FS_CardinalityType
  <1>3. 0 \in T
    <2>. DEFINE g == [s \in Small(0) |-> t]
    <2>1. \A s \in Small(0) : s = {} BY <1>2, FS_EmptySet
    <2>2. g \in [Small(0) -> Texts] OBVIOUS
    <2>3. \A s \in Small(0) : g[s] = Folded(t, g, s) BY <2>1 DEF Folded
    <2>. HIDE DEF g
    <2>4. Fits(g, 0) BY <2>2, <2>3
    <2>. QED BY <2>4
  <1>4. ASSUME NEW k \in Nat, k \in T PROVE k + 1 \in T
    <2>1. PICK g : Fits(g, k) BY <1>4
    <2>. DEFINE h == [s \in Small(k + 1) |-> Folded(t, g, s)]
    <2>2. ASSUME NEW s \in Small(k + 1), s # {}
          PROVE  /\ Shortest(s) \in s /\ Shortest(s) \in Resources
                 /\ s \ {Shortest(s)} \in Small(k) /\ s \ {Shortest(s)} \in Small(k + 1)
      <3>1. Shortest(s) \in s BY <2>2, ShortestIsOne
      <3>2. Cardinality(s \ {Shortest(s)}) = Cardinality(s) - 1 BY <3>1, <1>2, FS_RemoveElement
      <3>3. s \ {Shortest(s)} \in SUBSET named OBVIOUS
      <3>4. Cardinality(s \ {Shortest(s)}) <= k /\ Cardinality(s \ {Shortest(s)}) <= k + 1 BY <3>2, <1>2
      <3>. QED BY <3>1, <3>3, <3>4
    <2>3. ASSUME NEW s \in Small(k + 1) PROVE Folded(t, g, s) \in Texts
      <3>1. CASE s = {} BY <3>1 DEF Folded
      <3>2. CASE s # {}
        <4>1. g[s \ {Shortest(s)}] \in Texts BY <3>2, <2>1, <2>2
        <4>. QED BY <3>2, <4>1, <2>2, Aliases, ReplaceIsFrom DEF Folded
      <3>. QED BY <3>1, <3>2
    <2>4. h \in [Small(k + 1) -> Texts] /\ \A s \in Small(k + 1) : h[s] = Folded(t, g, s) BY <2>3
    <2>. HIDE DEF h
    <2>5. ASSUME NEW s \in Small(k + 1) PROVE Folded(t, h, s) = Folded(t, g, s)
      <3>1. CASE s = {} BY <3>1 DEF Folded
      <3>2. CASE s # {}
        <4>. DEFINE p == s \ {Shortest(s)}
        <4>1. p \in Small(k) /\ p \in Small(k + 1) BY <3>2, <2>2
        <4>. HIDE DEF p
        <4>2. h[p] = g[p] BY <4>1, <2>1, <2>4
        <4>. QED BY <3>2, <4>2 DEF Folded, p
      <3>. QED BY <3>1, <3>2
    <2>6. \A s \in Small(k + 1) : h[s] = Folded(t, h, s)
      <3>. HIDE DEF Small
      <3>. QED BY <2>4, <2>5
    <2>. HIDE DEF Small
    <2>7. Fits(h, k + 1) BY <2>4, <2>6
    <2>. QED BY <2>7
  <1>5. Nat \subseteq T
    <2>. HIDE DEF T
    <2>. QED BY <1>3, <1>4, NatSets
  <1>6. Small(Cardinality(named)) = SUBSET named BY <1>1, FS_Subset
  <1>7. PICK g : Fits(g, Cardinality(named)) BY <1>2, <1>5
  <1>8. g = [s \in SUBSET named |-> Folded(t, g, s)] BY <1>6, <1>7
  <1>. DEFINE f == After(t)
  <1>9. f = [s \in SUBSET named |-> Folded(t, f, s)] BY <1>8 DEF After
  <1>. HIDE DEF f
  <1>10. \A s \in SUBSET named : f[s] = Folded(t, f, s) BY <1>9
  <1>11. f[{}] = t BY <1>10 DEF Folded
  <1>12. \A s \in SUBSET named : s # {} =>
            f[s] = Replace(f[s \ {Shortest(s)}], AliasOf[Shortest(s)], Shortest(s)) BY <1>10 DEF Folded
  <1>13. \A s \in SUBSET named : f[s] \in Texts
    <2>. DEFINE S == {s \in SUBSET named : f[s] \in Texts}
    <2>1. {} \in S BY <1>11
    <2>2. ASSUME NEW s \in SUBSET named, s # {} /\ s \ {Shortest(s)} \in S PROVE s \in S
      <3>. DEFINE n == Shortest(s)
      <3>1. n \in Resources BY <2>2, ShortestIsOne
      <3>2. AliasOf[n] \in Words BY <3>1, Aliases
      <3>3. f[s \ {n}] \in Texts /\ f[s] = Replace(f[s \ {n}], AliasOf[n], n) BY <2>2, <1>12
      <3>. HIDE DEF n
      <3>4. f[s] \in Texts BY <3>1, <3>2, <3>3, ReplaceIsFrom
      <3>. QED BY <3>4
    <2>3. \A s \in SUBSET named : s \in S
      <3>. HIDE DEF S
      <3>. QED BY <2>1, <2>2, NamesInduction
    <2>. QED BY <2>3
  <1>. QED BY <1>11, <1>12, <1>13 DEF f

LEMMA RestoreTexts == ASSUME named \in SUBSET Resources, NEW t \in Texts PROVE RestoreText(t) \in Texts
  BY AfterIsDefined, RestoreIsAfter

NoneAcross(u, v) == \A n \in named : ~Across(AliasOf[n], u, v)

\* Names may be restored part by part wherever no alias stands across the cut.
LEMMA RestoreParts ==
    ASSUME named \in SUBSET Resources, NEW u \in Texts, NEW v \in Texts, NoneAcross(u, v)
    PROVE  RestoreText(u \o v) = RestoreText(u) \o RestoreText(v)
  <1>. DEFINE f == After(u \o v)
              g == After(u)
              h == After(v)
              S == {s \in SUBSET named : f[s] = g[s] \o h[s] /\ NoneAcross(g[s], h[s])}
  <1>1. u \o v \in Texts BY Joined
  <1>2. {} \in S BY <1>1, AfterIsDefined
  <1>3. ASSUME NEW s \in SUBSET named, s # {} /\ s \ {Shortest(s)} \in S PROVE s \in S
    <2>. DEFINE n == Shortest(s)
                p == s \ {n}
                a == AliasOf[n]
    <2>1. n \in named /\ n \in Resources BY <1>3, ShortestIsOne
    <2>2. a \in Words /\ n \notin Letters BY <2>1, Aliases
    <2>3. /\ f[s] = Replace(f[p], a, n) /\ g[s] = Replace(g[p], a, n) /\ h[s] = Replace(h[p], a, n)
          /\ g[p] \in Texts /\ h[p] \in Texts
      BY <1>1, <1>3, AfterIsDefined
    <2>4. f[p] = g[p] \o h[p] /\ NoneAcross(g[p], h[p]) BY <1>3
    <2>. HIDE DEF f, g, h, n, p
    <2>5. ~Across(a, g[p], h[p]) BY <2>1, <2>4 DEF NoneAcross
    <2>. HIDE DEF a
    <2>6. f[s] = g[s] \o h[s] BY <2>1, <2>2, <2>3, <2>4, <2>5, ReplaceParts
    <2>7. ASSUME NEW m \in named, Across(AliasOf[m], g[s], h[s]) PROVE FALSE
      <3>1. AliasOf[m] \in Words BY Aliases
      <3>2. Across(AliasOf[m], g[p], h[p]) BY <3>1, <2>7, <2>1, <2>2, <2>3, ReplaceCut
      <3>. QED BY <3>2, <2>4 DEF NoneAcross
    <2>. QED BY <2>6, <2>7 DEF NoneAcross
  <1>4. \A s \in SUBSET named : s \in S
    <2>. HIDE DEF S
    <2>. QED BY <1>2, <1>3, NamesInduction
  <1>. HIDE DEF f, g, h
  <1>5. f[named] = g[named] \o h[named] BY <1>4
  <1>. QED BY <1>5, RestoreIsAfter DEF f, g, h

-----------------------------------------------------------------------------
(* What the restorer holds back.                                           *)

Answers == Seq(Letters)

LEMMA AnswerTexts ==
    ASSUME NEW t \in Answers
    PROVE  t \in Texts /\ Len(t) \in Nat /\ \A i \in 1..Len(t) : t[i] \in Letters
  BY SeqMonotonic, LenProperties, ElementOfSeq DEF Answers, Texts

LEMMA EndingCuts ==
    ASSUME NEW t \in Answers, NEW k \in 0..Len(t)
    PROVE  LET p == SubSeq(t, 1, Len(t) - k)
           IN  /\ Ending(t, k) \in Answers /\ Len(Ending(t, k)) = k
               /\ \A j \in 1..k : Ending(t, k)[j] = t[Len(t) - k + j]
               /\ p \in Answers /\ Len(p) = Len(t) - k /\ \A j \in 1..(Len(t) - k) : p[j] = t[j]
               /\ t = p \o Ending(t, k)
  <1>. DEFINE L == Len(t)
              p == SubSeq(t, 1, L - k)
              q == SubSeq(t, L - k + 1, L)
  <1>1. L \in Nat /\ \A i \in 1..L : t[i] \in Letters BY AnswerTexts
  <1>2. q \in Answers /\ Len(q) = k /\ \A j \in 1..k : q[j] = t[L - k + j]
    <2>1. /\ q \in Answers /\ Len(q) = IF L - k + 1 <= L THEN L - (L - k + 1) + 1 ELSE 0
          /\ \A j \in 1..(L - (L - k + 1) + 1) : q[j] = t[L - k + 1 + j - 1]
      BY <1>1, SubSeqProperties DEF Answers
    <2>2. L - (L - k + 1) + 1 = k BY <1>1
    <2>3. \A j \in 1..k : L - k + 1 + j - 1 = L - k + j BY <1>1
    <2>. HIDE DEF q
    <2>. QED BY <2>1, <2>2, <2>3, <1>1
  <1>3. p \in Answers /\ Len(p) = L - k /\ \A j \in 1..(L - k) : p[j] = t[j]
    <2>1. /\ p \in Answers /\ Len(p) = IF 1 <= L - k THEN (L - k) - 1 + 1 ELSE 0
          /\ \A j \in 1..((L - k) - 1 + 1) : p[j] = t[1 + j - 1]
      BY <1>1, SubSeqProperties DEF Answers
    <2>. HIDE DEF p
    <2>. QED BY <2>1, <1>1
  <1>4. p \o q = t
    <2>1. 1 \in 1..(L + 1) /\ L - k \in (1 - 1)..L /\ L \in (L - k)..L BY <1>1
    <2>2. p \o q = SubSeq(t, 1, L) BY <2>1, ConcatAdjacentSubSeq DEF Answers
    <2>. QED BY <2>2, SubSeqFull DEF Answers
  <1>. QED BY <1>2, <1>3, <1>4 DEF Ending

LEMMA EndingBegins ==
    ASSUME NEW t \in Answers, NEW k \in 1..Len(t), NEW b \in Words
    PROVE  Ext!IsPrefix(Ending(t, k), b) <=> k <= Len(b) /\ Ends(t, b, k)
  <1>. DEFINE e == Ending(t, k)
              v == SubSeq(b, 1, k)
  <1>0. Len(t) \in Nat /\ k \in 0..Len(t) BY AnswerTexts
  <1>1. /\ e \in Answers /\ Len(e) = k
        /\ \A j \in 1..k : e[j] = t[Len(t) - k + j]
        /\ Len(b) \in Nat \ {0} /\ b \in Answers
        /\ \A j \in 1..Len(b) : b[j] \in Letters
    BY <1>0, EndingCuts, WordLens DEF Words, Answers
  <1>. HIDE DEF e
  <1>2. SubSeq(e, 1, Len(e)) = e BY <1>1, SubSeqFull DEF Answers
  <1>3. Ext!IsPrefix(e, b) <=> k <= Len(b) /\ e = v BY <1>1, <1>2 DEF Ext!IsPrefix
  <1>4. ASSUME k <= Len(b) PROVE e = v <=> \A j \in 1..k : e[j] = b[j]
    <2>1. \A j \in 1..k : j \in 1..Len(b) /\ b[j] \in Letters BY <1>1, <1>4
    <2>2. /\ v \in Answers /\ Len(v) = IF 1 <= k THEN k - 1 + 1 ELSE 0
          /\ \A j \in 1..(k - 1 + 1) : v[j] = b[1 + j - 1]
      <3>1. k \in Int /\ 1 \in Int BY <1>0
      <3>. QED BY <2>1, <3>1, SubSeqProperties DEF Answers
    <2>. HIDE DEF v
    <2>3. Len(v) = k /\ \A j \in 1..k : v[j] = b[j] BY <2>2, <1>0
    <2>4. (\A j \in 1..k : e[j] = b[j]) => e = v BY <2>2, <2>3, <1>1, SeqEqual DEF Answers
    <2>. QED BY <2>3, <2>4
  <1>5. Ends(t, b, k) <=> \A j \in 1..k : e[j] = b[j]
    <2>1. Ends(t, b, k) <=> \A j \in 1..k : t[Len(t) - k + j] = b[j] BY <1>0 DEF Ends
    <2>. QED BY <2>1, <1>1
  <1>. QED BY <1>3, <1>4, <1>5 DEF e

LEMMA NatMax ==
    ASSUME NEW S, S \subseteq Nat, S # {}, NEW B \in Nat, \A x \in S : x <= B
    PROVE  Ext!Max(S) \in S /\ \A x \in S : x <= Ext!Max(S)
  <1>. DEFINE T == {B - x : x \in S}
  <1>1. T \subseteq Nat /\ T # {}
    <2>1. \A x \in S : B - x \in Nat OBVIOUS
    <2>2. \E x \in S : B - x \in T OBVIOUS
    <2>. QED BY <2>1, <2>2
  <1>2. PICK d \in T : \A y \in T : d <= y BY <1>1, NatMin
  <1>3. PICK x \in S : d = B - x BY <1>2
  <1>4. \A y \in S : x >= y
    <2>. TAKE y \in S
    <2>1. B - y \in T /\ x \in Nat /\ y \in Nat OBVIOUS
    <2>2. B - x <= B - y BY <2>1, <1>2, <1>3
    <2>. QED BY <2>1, <2>2
  <1>5. \E m \in S : \A y \in S : m >= y BY <1>4
  <1>6. Ext!Max(S) \in S /\ \A y \in S : Ext!Max(S) >= y BY <1>5 DEF Ext!Max
  <1>. QED BY <1>6

LEMMA AliasesBounded ==
    ASSUME named \in SUBSET Resources
    PROVE  \E B \in Nat : \A n \in named : Len(AliasOf[n]) <= B
  <1>. DEFINE S == {s \in SUBSET named : \E B \in Nat : \A n \in s : Len(AliasOf[n]) <= B}
  <1>1. {} \in S
    <2>1. \A n \in {} : Len(AliasOf[n]) <= 0 OBVIOUS
    <2>. QED BY <2>1
  <1>2. ASSUME NEW s \in SUBSET named, s # {} /\ s \ {Shortest(s)} \in S PROVE s \in S
    <2>. DEFINE m == Shortest(s)
    <2>1. m \in s /\ Len(AliasOf[m]) \in Nat BY <1>2, ShortestIsOne, Aliases
    <2>2. PICK B \in Nat : \A n \in s \ {m} : Len(AliasOf[n]) <= B BY <1>2
    <2>. HIDE DEF m
    <2>3. B + Len(AliasOf[m]) \in Nat /\ \A n \in s : Len(AliasOf[n]) <= B + Len(AliasOf[m])
      BY <2>1, <2>2, Aliases
    <2>. QED BY <2>3
  <1>3. \A s \in SUBSET named : s \in S
    <2>. HIDE DEF S
    <2>. QED BY <1>1, <1>2, NamesInduction
  <1>. QED BY <1>3

\* The restorer holds back the longest ending of the text that begins an alias.
LEMMA HoldsLongest ==
    ASSUME named \in SUBSET Resources, NEW t \in Answers
    PROVE  LET h == HoldLength(t)
           IN  /\ h \in 0..Len(t)
               /\ h # 0 => /\ \E n \in named : h < Len(AliasOf[n])
                           /\ \E n \in named : h <= Len(AliasOf[n]) /\ Ends(t, AliasOf[n], h)
               /\ \A n \in named : \A k \in 1..(Len(AliasOf[n]) - 1) : Ends(t, AliasOf[n], k) => k <= h
  <1>. DEFINE L == Len(t)
              M == {Len(AliasOf[n]) - 1 : n \in named} \cup {0}
              maximum == Ext!Max(M)
              least == Ext!Min({maximum, L})
              P == PrefixLengths(t)
              h == Ext!Max(P \cup {0})
  <1>1. L \in Nat BY AnswerTexts
  <1>2. maximum \in M /\ M \subseteq Nat /\ \A x \in M : x <= maximum
    <2>1. PICK B \in Nat : \A n \in named : Len(AliasOf[n]) <= B BY AliasesBounded
    <2>2. M \subseteq Nat /\ M # {} /\ \A x \in M : x <= B BY <2>1, Aliases
    <2>. HIDE DEF M
    <2>. QED BY <2>2, NatMax
  <1>. HIDE DEF maximum, M
  <1>3. least \in {maximum, L} /\ least <= maximum /\ least <= L /\ least \in Nat
    <2>1. \E x \in {maximum, L} : \A y \in {maximum, L} : x =< y BY <1>1, <1>2
    <2>2. least \in {maximum, L} /\ \A y \in {maximum, L} : least =< y BY <2>1 DEF Ext!Min
    <2>. HIDE DEF least
    <2>. QED BY <2>2, <1>1, <1>2
  <1>4. P = {k \in 1..least : \E n \in named : Ext!IsPrefix(Ending(t, k), AliasOf[n])}
    BY DEF PrefixLengths, maximum, M
  <1>. HIDE DEF least
  <1>5. \A k \in P : /\ k \in 1..L /\ k <= maximum
                     /\ \E n \in named : k <= Len(AliasOf[n]) /\ Ends(t, AliasOf[n], k)
    <2>. TAKE k \in P
    <2>1. k \in 1..L /\ k <= maximum BY <1>1, <1>2, <1>3, <1>4
    <2>2. PICK n \in named : Ext!IsPrefix(Ending(t, k), AliasOf[n]) BY <1>4
    <2>. QED BY <2>1, <2>2, EndingBegins, Aliases
  <1>6. h \in P \cup {0} /\ \A k \in P : k <= h
    <2>1. P \cup {0} \subseteq Nat /\ P \cup {0} # {} /\ \A x \in P \cup {0} : x <= L BY <1>1, <1>5
    <2>. HIDE DEF P
    <2>. QED BY <1>1, <2>1, NatMax
  <1>. HIDE DEF P, h
  <1>7. h \in 0..L BY <1>1, <1>5, <1>6
  <1>8. ASSUME h # 0
        PROVE  /\ \E n \in named : h < Len(AliasOf[n])
               /\ \E n \in named : h <= Len(AliasOf[n]) /\ Ends(t, AliasOf[n], h)
    <2>1. h \in P /\ h <= maximum /\ h \in 1..L BY <1>5, <1>6, <1>8
    <2>2. PICK n \in named : maximum = Len(AliasOf[n]) - 1 BY <2>1, <1>2 DEF M
    <2>3. h < Len(AliasOf[n]) BY <2>1, <2>2, Aliases
    <2>. QED BY <2>1, <2>3, <1>5
  <1>9. ASSUME NEW n \in named, NEW k \in 1..(Len(AliasOf[n]) - 1), Ends(t, AliasOf[n], k) PROVE k <= h
    <2>1. Len(AliasOf[n]) - 1 \in M BY DEF M
    <2>2. k <= maximum BY <2>1, <1>2, Aliases
    <2>3. k <= L BY <1>9 DEF Ends
    <2>4. k \in 1..least /\ k \in 1..L /\ k <= Len(AliasOf[n]) BY <2>2, <2>3, <1>1, <1>2, <1>3, Aliases
    <2>5. Ext!IsPrefix(Ending(t, k), AliasOf[n]) BY <2>4, <1>9, EndingBegins, Aliases
    <2>6. k \in P BY <2>4, <2>5, <1>4
    <2>. QED BY <2>6, <1>6
  <1>10. h = HoldLength(t) BY DEF HoldLength, h, P
  <1>. QED BY <1>7, <1>8, <1>9, <1>10

-----------------------------------------------------------------------------
(* Where the text has been cut, no alias stands across, whatever follows.  *)

Safe(x, y) ==
    \A n \in named : \A k \in 1..(Len(AliasOf[n]) - 1) : Ends(x, AliasOf[n], k) =>
        \E j \in 1..(Len(AliasOf[n]) - k) : j <= Len(y) /\ y[j] # AliasOf[n][k + j]

LEMMA SafeLonger ==
    ASSUME NEW x \in Texts, NEW y \in Texts, NEW z \in Texts, Safe(x, y)
    PROVE  Safe(x, y \o z)
  <1>. SUFFICES ASSUME NEW n \in named, NEW k \in 1..(Len(AliasOf[n]) - 1), Ends(x, AliasOf[n], k)
                PROVE  \E j \in 1..(Len(AliasOf[n]) - k) : j <= Len(y \o z) /\ (y \o z)[j] # AliasOf[n][k + j]
    BY DEF Safe
  <1>1. PICK j \in 1..(Len(AliasOf[n]) - k) : j <= Len(y) /\ y[j] # AliasOf[n][k + j] BY DEF Safe
  <1>2. j \in 1..Len(y) BY <1>1, Lens
  <1>3. j <= Len(y \o z) /\ (y \o z)[j] = y[j] BY <1>2, Joined
  <1>. QED BY <1>1, <1>3

LEMMA SafeParts ==
    ASSUME named \in SUBSET Resources, NEW x \in Texts, NEW y \in Texts, Safe(x, y)
    PROVE  NoneAcross(x, y)
  <1>. SUFFICES ASSUME NEW n \in named, Across(AliasOf[n], x, y) PROVE FALSE BY DEF NoneAcross
  <1>1. PICK k \in 1..(Len(AliasOf[n]) - 1) : Ends(x, AliasOf[n], k) /\ Begins(y, AliasOf[n], k) BY DEF Across
  <1>2. PICK j \in 1..(Len(AliasOf[n]) - k) : y[j] # AliasOf[n][k + j] BY <1>1 DEF Safe
  <1>. QED BY <1>1, <1>2 DEF Begins

LEMMA PartsOfFirst ==
    ASSUME NEW x \in Texts, NEW y \in Texts, NEW z \in Texts, named \in SUBSET Resources, NoneAcross(x, y \o z)
    PROVE  NoneAcross(x, y)
  <1>. SUFFICES ASSUME NEW n \in named, Across(AliasOf[n], x, y) PROVE FALSE BY DEF NoneAcross
  <1>. DEFINE b == AliasOf[n]
  <1>0. Len(b) \in Nat BY Aliases
  <1>1. PICK k \in 1..(Len(b) - 1) : Ends(x, b, k) /\ Begins(y, b, k) BY DEF Across
  <1>. HIDE DEF b
  <1>2. Len(b) - k <= Len(y) /\ \A j \in 1..(Len(b) - k) : y[j] = b[k + j] BY <1>1 DEF Begins
  <1>3. Len(y) \in Nat /\ Len(z) \in Nat /\ Len(y \o z) = Len(y) + Len(z) /\ \A j \in 1..Len(y) : (y \o z)[j] = y[j] BY Joined
  <1>4. \A j \in 1..(Len(b) - k) : j \in 1..Len(y) BY <1>0, <1>2, <1>3
  <1>5. Len(b) - k <= Len(y \o z) /\ \A j \in 1..(Len(b) - k) : (y \o z)[j] = b[k + j] BY <1>0, <1>2, <1>3, <1>4
  <1>6. Begins(y \o z, b, k) BY <1>5 DEF Begins
  <1>. QED BY <1>1, <1>6 DEF NoneAcross, Across, b

\* No ending of an alias begins one: what Separate says, letter by letter
LEMMA SeparateEnds ==
    ASSUME named \in SUBSET Resources, Separate, NEW m \in named, NEW n \in named,
           NEW k \in 1..(Len(AliasOf[m]) - 1), k <= Len(AliasOf[n]), Ends(AliasOf[m], AliasOf[n], k)
    PROVE  FALSE
  <1>1. AliasOf[m] \in Words /\ AliasOf[n] \in Words /\ Len(AliasOf[m]) \in Nat BY Aliases
  <1>2. AliasOf[m] \in Answers /\ k \in 1..Len(AliasOf[m]) BY <1>1 DEF Words, Answers
  <1>3. Ext!IsPrefix(Ending(AliasOf[m], k), AliasOf[n]) BY <1>1, <1>2, EndingBegins
  <1>. QED BY <1>3 DEF Separate

\* Holding back the longest ending that begins an alias is safe.
LEMMA HoldIsSafe ==
    ASSUME named \in SUBSET Resources, Separate, NEW x \in Answers, NEW p \in Answers, NEW q \in Answers,
           Safe(x, p \o q),
           Len(q) # 0 => \E n \in named : Len(q) <= Len(AliasOf[n]) /\ Ends(p \o q, AliasOf[n], Len(q)),
           \A n \in named : \A k \in 1..(Len(AliasOf[n]) - 1) : Ends(p \o q, AliasOf[n], k) => k <= Len(q)
    PROVE  Safe(x \o p, q)
  <1>. SUFFICES ASSUME NEW n \in named, NEW k \in 1..(Len(AliasOf[n]) - 1), Ends(x \o p, AliasOf[n], k),
                       \A j \in 1..(Len(AliasOf[n]) - k) : j <= Len(q) => q[j] = AliasOf[n][k + j]
                PROVE  FALSE
    BY DEF Safe
  <1>. DEFINE b == AliasOf[n]
              B == Len(b)
              t == p \o q
              P == Len(p)
              Q == Len(q)
              X == Len(x)
  <1>1. b \in Words /\ B \in Nat \ {0} BY Aliases
  <1>2. /\ P \in Nat /\ Q \in Nat /\ X \in Nat /\ Len(t) = P + Q /\ Len(x \o p) = X + P
        /\ \A j \in 1..P : t[j] = p[j] /\ (x \o p)[X + j] = p[j]
        /\ \A j \in 1..Q : t[P + j] = q[j]
        /\ \A j \in 1..X : (x \o p)[j] = x[j]
    BY AnswerTexts, Joined
  <1>. HIDE DEF b, B, t, P, Q, X
  <1>3. k \in 1..(B - 1) /\ k <= X + P /\ \A j \in 1..k : (x \o p)[X + P - k + j] = b[j]
    BY <1>2 DEF Ends, b, B
  <1>4. \A j \in 1..(B - k) : j <= Q => q[j] = b[k + j] BY DEF b, B, Q
  <1>5. CASE k > P
    <2>. DEFINE l == k - P
    <2>1. l \in 1..(B - 1) /\ l <= X BY <1>1, <1>2, <1>3, <1>5
    <2>2. ASSUME NEW j \in 1..l PROVE x[X - l + j] = b[j]
      <3>1. X - l + j \in 1..X /\ X + P - k + j = X - l + j /\ j \in 1..k BY <1>2, <1>3, <2>1
      <3>. QED BY <3>1, <1>2, <1>3
    <2>3. Ends(x, b, l) BY <2>1, <2>2 DEF Ends, X
    <2>4. PICK j \in 1..(B - l) : j <= Len(t) /\ t[j] # b[l + j] BY <2>1, <2>3 DEF Safe, b, B, t
    <2>5. CASE j <= P
      <3>0. j \in Nat /\ 1 <= j /\ k \in Int BY <2>1, <1>1
      <3>1. j \in 1..P /\ l + j \in 1..k /\ X + P - k + (l + j) = X + j BY <3>0, <2>1, <2>5, <1>2
      <3>2. (x \o p)[X + P - k + (l + j)] = b[l + j] BY <3>1, <1>3
      <3>. QED BY <3>1, <3>2, <2>4, <1>2
    <2>6. CASE j > P
      <3>. DEFINE i == j - P
      <3>1. i \in 1..(B - k) /\ i <= Q /\ i \in 1..Q /\ k + i = l + j /\ P + i = j
        BY <2>1, <2>4, <2>6, <1>1, <1>2, <1>3
      <3>2. q[i] = b[l + j] BY <3>1, <1>4
      <3>3. t[j] = q[i] BY <3>1, <1>2
      <3>. QED BY <3>2, <3>3, <2>4
    <2>. QED BY <2>5, <2>6, <2>1, <1>1, <1>2
  <1>6. CASE k <= P
    <2>1. \A j \in 1..k : p[P - k + j] = b[j]
      <3>. TAKE j \in 1..k
      <3>1. P - k + j \in 1..P /\ X + P - k + j = X + (P - k + j) BY <1>2, <1>3, <1>6
      <3>. QED BY <3>1, <1>2, <1>3
    <2>2. CASE Q < B - k
      <3>. DEFINE l == k + Q
      <3>1. l \in 1..(B - 1) /\ l <= P + Q BY <2>2, <1>1, <1>2, <1>3, <1>6
      <3>2. ASSUME NEW j \in 1..l PROVE t[P + Q - l + j] = b[j]
        <4>1. CASE j <= k
          <5>1. P - k + j \in 1..P /\ P + Q - l + j = P - k + j /\ j \in 1..k BY <4>1, <1>2, <1>3, <1>6
          <5>. QED BY <5>1, <2>1, <1>2
        <4>2. CASE j > k
          <5>. DEFINE i == j - k
          <5>1. i \in 1..Q /\ i \in 1..(B - k) /\ i <= Q /\ P + Q - l + j = P + i /\ k + i = j
            BY <4>2, <2>2, <1>1, <1>2, <1>3
          <5>2. q[i] = b[j] BY <5>1, <1>4
          <5>3. t[P + i] = q[i] BY <5>1, <1>2
          <5>. QED BY <5>1, <5>2, <5>3
        <4>. QED BY <4>1, <4>2, <1>2, <1>3
      <3>3. Ends(t, b, l) BY <3>1, <3>2, <1>2 DEF Ends
      <3>4. l <= Q BY <3>1, <3>3 DEF t, b, B, Q
      <3>. QED BY <3>4, <1>2, <1>3
    <2>3. CASE Q >= B - k
      <3>. DEFINE l == B - k
      <3>1. l \in 1..(B - 1) /\ l <= Q /\ Q # 0 BY <2>3, <1>1, <1>2, <1>3
      <3>2. PICK m \in named : Q <= Len(AliasOf[m]) /\ Ends(t, AliasOf[m], Q) BY <3>1 DEF t, Q
      <3>. DEFINE c == AliasOf[m]
      <3>3. ASSUME NEW j \in 1..l PROVE b[B - l + j] = c[j]
        <4>1. B - l + j = k + j /\ j <= Q /\ j \in 1..Q /\ P + Q - Q + j = P + j BY <3>1, <1>1, <1>2, <1>3
        <4>2. q[j] = b[B - l + j] BY <4>1, <1>4
        <4>3. t[P + Q - Q + j] = c[j] BY <4>1, <3>2, <1>2 DEF Ends
        <4>. QED BY <4>1, <4>2, <4>3, <1>2
      <3>4. Ends(b, c, l) /\ l <= Len(c)
        <4>1. l <= B /\ Len(c) \in Nat BY <3>1, <1>1, Aliases
        <4>2. l <= Len(c) BY <4>1, <3>1, <3>2, <1>2, <1>1, <1>3
        <4>. QED BY <4>1, <4>2, <3>3 DEF Ends, B
      <3>. QED BY <3>1, <3>4, SeparateEnds DEF b, B
    <2>. QED BY <2>2, <2>3, <1>1, <1>2, <1>3
  <1>. QED BY <1>5, <1>6, <1>2, <1>3

-----------------------------------------------------------------------------
(* The specification.                                                      *)

\* What has been told was made of x, and the rest of what was said is held back.
CutAt(x) ==
    /\ said = x \o buffer /\ told = RestoreText(x)
    /\ stage = "ended" => buffer = <<>>
    /\ stage # "ended" => Safe(x, buffer)

AliasIInv == AliasTypeOK /\ (Separate => \E x \in Answers : CutAt(x))

LEMMA EmptyAnswer == <<>> \in Answers /\ Len(<<>>) = 0 BY EmptySeq DEF Answers

LEMMA RestoreEmpty == ASSUME named \in SUBSET Resources PROVE RestoreText(<<>>) = <<>>
  <1>1. <<>> \in Texts /\ <<>> \o <<>> = <<>> BY EmptyAnswer, AnswerTexts, ConcatEmptySeq DEF Answers
  <1>2. NoneAcross(<<>>, <<>>)
    <2>. SUFFICES ASSUME NEW n \in named, Across(AliasOf[n], <<>>, <<>>) PROVE FALSE BY DEF NoneAcross
    <2>1. PICK k \in 1..(Len(AliasOf[n]) - 1) : Ends(<<>>, AliasOf[n], k) BY DEF Across
    <2>. QED BY <2>1, Aliases DEF Ends
  <1>3. RestoreText(<<>>) = RestoreText(<<>>) \o RestoreText(<<>>) BY <1>1, <1>2, RestoreParts
  <1>4. RestoreText(<<>>) \in Texts BY <1>1, RestoreTexts
  <1>. HIDE DEF RestoreText
  <1>. QED BY <1>3, <1>4, ConcatEqualIffEmpty DEF Texts

LEMMA AliasInitial == AliasInit => AliasIInv
  <1>. SUFFICES ASSUME AliasInit PROVE AliasIInv OBVIOUS
  <1>1. named \in SUBSET Resources BY DEF AliasInit
  <1>2. <<>> \in Answers /\ <<>> \in Texts /\ <<>> \o <<>> = <<>>
    BY EmptyAnswer, AnswerTexts, ConcatEmptySeq DEF Answers
  <1>3. AliasTypeOK BY <1>1, <1>2 DEF AliasInit, AliasTypeOK, Answers, Texts
  <1>4. Safe(<<>>, <<>>)
    <2>. SUFFICES ASSUME NEW n \in named, NEW k \in 1..(Len(AliasOf[n]) - 1), Ends(<<>>, AliasOf[n], k) PROVE FALSE
      BY DEF Safe
    <2>. QED BY <1>1, Aliases DEF Ends
  <1>5. CutAt(<<>>) BY <1>1, <1>2, <1>4, RestoreEmpty DEF CutAt, AliasInit
  <1>. QED BY <1>2, <1>3, <1>5 DEF AliasIInv

\* The aliases of a completion do not change.
LEMMA SameNames ==
    ASSUME UNCHANGED named
    PROVE  /\ \A t : RestoreText(t)' = RestoreText(t)
           /\ Separate' <=> Separate
  <1>1. \A t : RestoreText(t)' = RestoreText(t) BY DEF RestoreText, Ext!MapThenFoldSet
  <1>2. Separate' <=> Separate BY DEF Separate
  <1>. QED BY <1>1, <1>2

LEMMA FeedStep ==
    ASSUME AliasIInv, NEW chunk \in Chunks, Feed(chunk)
    PROVE  AliasIInv'
  <1>. DEFINE t == buffer \o chunk
              h == HoldLength(t)
              p == SubSeq(t, 1, Len(t) - h)
              q == Ending(t, h)
  <1>1. named \in SUBSET Resources /\ said \in Answers /\ buffer \in Answers /\ told \in Texts
    BY DEF AliasIInv, AliasTypeOK, Answers, Texts
  <1>2. chunk \in Answers
    <2>1. PICK k \in 1..MaxChunk : chunk \in [1..k -> Letters] BY DEF Chunks
    <2>2. k \in Nat BY <2>1, AliasAssumption
    <2>. QED BY <2>1, <2>2, SeqDef DEF Answers
  <1>3. t \in Answers BY <1>1, <1>2, ConcatProperties DEF Answers
  <1>. HIDE DEF t
  <1>4. /\ h \in 0..Len(t)
        /\ h # 0 => /\ \E n \in named : h < Len(AliasOf[n])
                    /\ \E n \in named : h <= Len(AliasOf[n]) /\ Ends(t, AliasOf[n], h)
        /\ \A n \in named : \A k \in 1..(Len(AliasOf[n]) - 1) : Ends(t, AliasOf[n], k) => k <= h
    BY <1>1, <1>3, HoldsLongest
  <1>. HIDE DEF h
  <1>5. q \in Answers /\ Len(q) = h /\ p \in Answers /\ t = p \o q BY <1>3, <1>4, EndingCuts
  <1>6. /\ said' = said \o chunk /\ told' = told \o RestoreText(p) /\ buffer' = q
        /\ stage = "streaming" /\ stage' = stage /\ named' = named
    BY DEF Feed, t, h
  <1>. HIDE DEF p, q
  <1>7. AliasTypeOK'
    <2>1. said' \in Answers BY <1>1, <1>2, <1>6, ConcatProperties DEF Answers
    <2>2. told' \in Texts BY <1>1, <1>5, <1>6, AnswerTexts, RestoreTexts, Joined
    <2>3. buffer' \in Answers BY <1>5, <1>6
    <2>4. buffer' # <<>> => \E n \in named : Len(buffer') < Len(AliasOf[n])
      <3>1. q # <<>> => h # 0 BY <1>5, EmptySeq DEF Answers
      <3>. QED BY <3>1, <1>4, <1>5, <1>6
    <2>. QED BY <1>1, <1>6, <2>1, <2>2, <2>3, <2>4 DEF AliasTypeOK, Answers, Texts
  <1>8. ASSUME Separate PROVE \E x \in Answers : CutAt(x)'
    <2>1. PICK x \in Answers : CutAt(x) BY <1>8 DEF AliasIInv
    <2>2. said = x \o buffer /\ told = RestoreText(x) /\ Safe(x, buffer) BY <2>1, <1>6 DEF CutAt
    <2>3. Safe(x, t) BY <1>1, <1>2, <2>2, AnswerTexts, SafeLonger DEF t
    <2>4. Safe(x \o p, q)
      <3>1. Safe(x, p \o q) /\ t = p \o q BY <2>3, <1>5
      <3>. QED BY <3>1, <1>1, <1>4, <1>5, <1>8, HoldIsSafe
    <2>5. said' = (x \o p) \o q
      <3>1. (x \o buffer) \o chunk = x \o t BY <1>1, <1>2, ConcatAssociative DEF Answers, t
      <3>2. x \o (p \o q) = (x \o p) \o q BY <1>5, ConcatAssociative DEF Answers
      <3>. QED BY <3>1, <3>2, <2>2, <1>5, <1>6
    <2>6. told' = RestoreText(x \o p)
      <3>1. x \in Texts /\ p \in Texts /\ q \in Texts /\ t \in Texts BY <1>3, <1>5, AnswerTexts
      <3>2. NoneAcross(x, t) BY <3>1, <2>3, <1>1, SafeParts
      <3>3. NoneAcross(x, p) BY <3>1, <3>2, <1>1, <1>5, PartsOfFirst
      <3>4. RestoreText(x \o p) = RestoreText(x) \o RestoreText(p) BY <3>1, <3>3, <1>1, RestoreParts
      <3>. QED BY <3>4, <2>2, <1>6
    <2>7. x \o p \in Answers BY <1>5, ConcatProperties DEF Answers
    <2>8. PICK y \in Answers : y = x \o p BY <2>7
    <2>9. RestoreText(y)' = RestoreText(y) BY <1>6, SameNames
    <2>10. Safe(y, buffer)' <=> Safe(y, q) BY <1>6 DEF Safe
    <2>11. CutAt(y)' BY <2>4, <2>5, <2>6, <2>8, <2>9, <2>10, <1>6 DEF CutAt
    <2>. QED BY <2>11
  <1>9. Separate' <=> Separate BY <1>6, SameNames
  <1>. QED BY <1>7, <1>8, <1>9 DEF AliasIInv

LEMMA CutParts ==
    ASSUME AliasTypeOK, NEW x \in Answers, CutAt(x)
    PROVE  told \o RestoreText(buffer) = RestoreText(said)
  <1>1. named \in SUBSET Resources /\ buffer \in Answers BY DEF AliasTypeOK, Answers
  <1>2. x \in Texts /\ buffer \in Texts BY <1>1, AnswerTexts
  <1>3. CASE stage = "ended"
    <2>1. buffer = <<>> /\ said = x /\ told = RestoreText(x)
      BY <1>2, <1>3, ConcatEmptySeq DEF CutAt, Texts
    <2>2. RestoreText(x) \o <<>> = RestoreText(x) BY <1>1, <1>2, RestoreTexts, ConcatEmptySeq DEF Texts
    <2>. QED BY <1>1, <2>1, <2>2, RestoreEmpty
  <1>4. CASE stage # "ended"
    <2>1. NoneAcross(x, buffer) BY <1>1, <1>2, <1>4, SafeParts DEF CutAt
    <2>. QED BY <1>1, <1>2, <2>1, RestoreParts DEF CutAt
  <1>. QED BY <1>3, <1>4

LEMMA FlushStep ==
    ASSUME AliasIInv, Flush
    PROVE  AliasIInv'
  <1>1. /\ named \in SUBSET Resources /\ said \in Answers /\ buffer \in Answers /\ told \in Texts
        /\ AliasTypeOK
    BY DEF AliasIInv, AliasTypeOK, Answers, Texts
  <1>2. /\ told' = told \o RestoreText(buffer) /\ buffer' = <<>> /\ stage' = "ended"
        /\ said' = said /\ named' = named
    BY DEF Flush
  <1>3. <<>> \in Answers BY EmptyAnswer
  <1>4. AliasTypeOK'
    <2>1. told' \in Texts BY <1>1, <1>2, AnswerTexts, RestoreTexts, Joined
    <2>. QED BY <1>1, <1>2, <1>3, <2>1 DEF AliasTypeOK, Answers, Texts
  <1>5. ASSUME Separate PROVE CutAt(said)'
    <2>1. PICK x \in Answers : CutAt(x) BY <1>5 DEF AliasIInv
    <2>2. told' = RestoreText(said) BY <2>1, <1>1, <1>2, CutParts
    <2>3. said \o <<>> = said BY <1>1, ConcatEmptySeq DEF Answers
    <2>4. \A t : RestoreText(t)' = RestoreText(t) BY <1>2, SameNames
    <2>. QED BY <2>2, <2>3, <2>4, <1>2 DEF CutAt
  <1>6. Separate' <=> Separate BY <1>2, SameNames
  <1>. QED BY <1>1, <1>2, <1>4, <1>5, <1>6 DEF AliasIInv

LEMMA StageStep ==
    ASSUME AliasIInv, UNCHANGED <<named, said, buffer, told>>, stage' = stage \/ (stage # "ended" /\ stage' = "broken")
    PROVE  AliasIInv'
  <1>1. AliasTypeOK' BY DEF AliasIInv, AliasTypeOK
  <1>2. ASSUME NEW x \in Answers, CutAt(x) PROVE CutAt(x)'
    <2>1. RestoreText(x)' = RestoreText(x) BY SameNames
    <2>2. Safe(x, buffer)' <=> Safe(x, buffer) BY DEF Safe
    <2>. QED BY <1>2, <2>1, <2>2 DEF CutAt
  <1>3. Separate' <=> Separate BY SameNames
  <1>. QED BY <1>1, <1>2, <1>3 DEF AliasIInv

LEMMA AliasInductive == AliasIInv /\ [AliasNext]_aliasVars => AliasIInv'
  <1>. SUFFICES ASSUME AliasIInv, [AliasNext]_aliasVars PROVE AliasIInv' OBVIOUS
  <1>1. ASSUME NEW chunk \in Chunks, Feed(chunk) PROVE AliasIInv' BY <1>1, FeedStep
  <1>2. CASE Flush BY <1>2, FlushStep
  <1>3. CASE BreakOff BY <1>3, StageStep DEF BreakOff
  <1>4. CASE UNCHANGED aliasVars BY <1>4, StageStep DEF aliasVars
  <1>. QED BY <1>1, <1>2, <1>3, <1>4 DEF AliasNext

LEMMA AliasInvariant == AliasSpec => []AliasIInv
  BY AliasInitial, AliasInductive, PTL DEF AliasSpec

\* The buffer, the answer and what the user has been told stay what they are, and the restorer
\* never holds back as much as the longest alias.
THEOREM AliasTypeCorrect == AliasSpec => []AliasTypeOK
  <1>1. AliasIInv => AliasTypeOK BY DEF AliasIInv
  <1>. QED BY <1>1, AliasInvariant, PTL

\* Wherever the stream is cut, the user sees what restore_text makes of the whole answer.
THEOREM CutsHidden == AliasSpec => []CutsDoNotShow
  <1>1. AliasIInv => CutsDoNotShow BY CutParts DEF AliasIInv, CutsDoNotShow
  <1>. QED BY <1>1, AliasInvariant, PTL
=============================================================================
