----------------------- MODULE CanonicalEncodingProofs -----------------------
(***************************************************************************)
(* Theorem about the canonical encoding, for fields of any bytes, lengths  *)
(* and number: the fields can be read back from the bytes.  Where a proof  *)
(* by induction would be expected, the least counterexample is refuted.    *)
(***************************************************************************)
EXTENDS CanonicalEncoding, WellFoundedInduction, SequenceTheorems, TLAPS

\* A set of naturals has a least element.
LEMMA LeastNatural ==
    ASSUME NEW S \in SUBSET Nat, S # {}
    PROVE  \E i \in S : \A j \in S : i <= j
<1> DEFINE below == {ss \in Nat \X Nat : ss[1] < ss[2]}
<1>1. IsWellFoundedOn(below, Nat)
  BY NatLessThanWellFounded, Zenon DEF OpToRel
<1>2. \E i \in S : \A j \in S : <<j, i>> \notin below
  <2> HIDE DEF below
  <2> QED BY <1>1, WFMin, Zenon
<1>3. \A i, j \in Nat : <<j, i>> \notin below => i <= j
  OBVIOUS
<1> HIDE DEF below
<1> QED BY <1>2, <1>3

\* A set of the indices 0..n that holds 0, and with each index the next, is all
\* of them.
LEMMA Reaches ==
    ASSUME NEW n \in Nat, NEW S, 0 \in S,
           \A i \in 1 .. n : i - 1 \in S => i \in S
    PROVE  \A i \in 0 .. n : i \in S
<1> SUFFICES ASSUME {i \in 0 .. n : i \notin S} # {} PROVE FALSE
  OBVIOUS
<1>1. PICK i \in {j \in 0 .. n : j \notin S} : \A j \in {k \in 0 .. n : k \notin S} : i <= j
  <2> DEFINE T == {j \in 0 .. n : j \notin S}
  <2>1. T \in SUBSET Nat /\ T # {}
    OBVIOUS
  <2> HIDE DEF T
  <2>2. \E j \in T : \A k \in T : j <= k
    BY <2>1, LeastNatural
  <2> QED BY <2>2 DEF T
<1>2. i # 0 /\ i \in 1 .. n /\ i - 1 \in 0 .. n
  BY <1>1
<1>3. i - 1 \in S
  BY <1>1, <1>2
<1> QED BY <1>1, <1>2, <1>3

-----------------------------------------------------------------------------
\* The bytes after each field.

Strings == Seq(Nat)

\* Named, so that the provers leave it alone.
Joined(a, b) == a \o b

\* The concatenations of the first i of the strings `s'.
Sums(c, s, n) ==
    /\ DOMAIN c = 0 .. n /\ c[0] = << >>
    /\ \A i \in 1 .. n : c[i] = Joined(c[i - 1], s[i])

\* What one more string adds.
LEMMA SumsStep ==
    ASSUME NEW c, NEW s, NEW n, Sums(c, s, n), NEW i \in 1 .. n
    PROVE  c[i] = Joined(c[i - 1], s[i])
<1> QED BY Zenon DEF Sums

\* They exist, for as many strings as there are.
LEMMA SumsExist ==
    ASSUME NEW s, NEW m \in Nat
    PROVE  \E c : Sums(c, s, m)
<1> DEFINE S == {n \in 0 .. m : \E c : Sums(c, s, n)}
<1>1. 0 \in S
  <2>1. Sums([i \in 0 .. 0 |-> << >>], s, 0)
    BY DEF Sums
  <2> QED BY <2>1
<1>2. ASSUME NEW n \in 1 .. m, n - 1 \in S PROVE n \in S
  <2>1. PICK c : Sums(c, s, n - 1)
    BY <1>2
  <2> DEFINE d == [i \in 0 .. n |-> IF i = n THEN Joined(c[n - 1], s[n]) ELSE c[i]]
  <2>2. d[0] = << >>
    BY <2>1 DEF Sums
  <2>3. ASSUME NEW i \in 1 .. n PROVE d[i] = Joined(d[i - 1], s[i])
    <3>1. CASE i = n
      BY <3>1
    <3>2. CASE i # n
      <4>1. i \in 1 .. (n - 1) /\ d[i] = c[i] /\ d[i - 1] = c[i - 1]
        BY <3>2
      <4> QED BY <2>1, <4>1 DEF Sums
    <3> QED BY <3>1, <3>2
  <2>4. Sums(d, s, n)
    <3>1. DOMAIN d = 0 .. n
      OBVIOUS
    <3> HIDE DEF d
    <3> QED BY <2>2, <2>3, <3>1 DEF Sums
  <2> QED BY <2>4
<1> HIDE DEF S
<1>3. \A n \in 0 .. m : n \in S
  BY <1>1, <1>2, Reaches
<1> QED BY <1>3 DEF S

\* Each is a string.
LEMMA SumsAreStrings ==
    ASSUME NEW n \in Nat, NEW s, \A i \in 1 .. n : s[i] \in Strings, NEW c, Sums(c, s, n)
    PROVE  \A i \in 0 .. n : c[i] \in Strings
<1> DEFINE S == {i \in 0 .. n : c[i] \in Strings}
<1>1. 0 \in S
  <2>1. c[0] = << >>
    BY Zenon DEF Sums
  <2>2. c[0] \in Strings
    BY <2>1, EmptySeq, Zenon DEF Strings
  <2> QED BY <2>2
<1>2. ASSUME NEW i \in 1 .. n, i - 1 \in S PROVE i \in S
  <2>1. c[i - 1] \in Seq(Nat) /\ s[i] \in Seq(Nat)
    BY <1>2 DEF Strings
  <2>2. Joined(c[i - 1], s[i]) \in Seq(Nat)
    BY <2>1, ConcatProperties, Zenon DEF Joined
  <2>3. c[i] \in Seq(Nat)
    BY <2>2, SumsStep
  <2> QED BY <2>3 DEF Strings
<1> HIDE DEF S
<1>3. \A i \in 0 .. n : i \in S
  BY <1>1, <1>2, Reaches
<1> QED BY <1>3 DEF S

\* The last of them is what the list of strings flattens to.
LEMMA SumsFlatten ==
    ASSUME NEW s \in Seq(Strings), NEW c, Sums(c, s, Len(s))
    PROVE  FlattenSeq(s) = c[Len(s)]
<1> DEFINE n == Len(s)
           Runs(f) == f = [i \in 1 .. n |-> IF i = 1 THEN s[i] ELSE Joined(f[i - 1], s[i])]
<1>0. n \in Nat /\ DOMAIN s = 1 .. n /\ \A i \in 1 .. n : s[i] \in Strings
  BY LenProperties, ElementOfSeq
<1>1. CASE n = 0
  BY <1>1, EmptySeq DEF FlattenSeq, Sums
<1>2. CASE n # 0
  <2> DEFINE f == [i \in 1 .. n |-> c[i]]
             g == CHOOSE h : Runs(h)
  <2>1. c[1] = s[1]
    <3>1. c[1] = Joined(<< >>, s[1])
      <4>1. 1 \in 1 .. n /\ 1 - 1 = 0
        BY <1>0, <1>2
      <4>2. c[1] = Joined(c[1 - 1], s[1])
        BY <4>1, SumsStep
      <4> QED BY <4>1, <4>2 DEF Sums
    <3> QED BY <1>0, <1>2, <3>1, ConcatEmptySeq DEF Strings, Joined
  <2>2. Runs(f)
    <3>1. \A i \in 1 .. n : i # 1 => c[i] = Joined(c[i - 1], s[i]) /\ f[i - 1] = c[i - 1]
      BY <1>0 DEF Sums
    <3> QED BY <2>1, <3>1
  <2>3. Runs(g)
    <3> HIDE DEF Runs, f
    <3> QED BY <2>2, Zenon
  <2>4. FlattenSeq(s) = g[n]
    BY <1>2 DEF FlattenSeq, Joined
  <2>5. g[1] = s[1] /\ \A i \in 1 .. n : i # 1 => g[i] = Joined(g[i - 1], s[i])
    <3>1. ASSUME NEW h, Runs(h)
          PROVE  h[1] = s[1] /\ \A i \in 1 .. n : i # 1 => h[i] = Joined(h[i - 1], s[i])
      <4>1. ASSUME NEW i \in 1 .. n PROVE h[i] = IF i = 1 THEN s[i] ELSE Joined(h[i - 1], s[i])
        BY <3>1, Zenon
      <4> QED BY <1>0, <1>2, <4>1
    <3> HIDE DEF Runs, g
    <3> QED BY <2>3, <3>1
  <2> HIDE DEF g, Runs, f
  <2> DEFINE S == {i \in 0 .. n : i # 0 => g[i] = c[i]}
  <2>6. 0 \in S
    BY <1>0
  <2>7. ASSUME NEW i \in 1 .. n, i - 1 \in S PROVE i \in S
    <3>1. CASE i = 1
      BY <1>0, <2>1, <2>5, <3>1
    <3>2. CASE i # 1
      <4>1. i - 1 # 0 /\ g[i - 1] = c[i - 1]
        BY <1>0, <2>7, <3>2
      <4>2. c[i] = Joined(c[i - 1], s[i])
        BY SumsStep
      <4>3. g[i] = Joined(g[i - 1], s[i])
        BY <2>5, <3>2, Zenon
      <4> QED BY <1>0, <4>1, <4>2, <4>3
    <3> QED BY <3>1, <3>2
  <2> HIDE DEF S
  <2>8. \A i \in 0 .. n : i \in S
    BY <1>0, <2>6, <2>7, Reaches
  <2> QED BY <1>0, <1>2, <2>4, <2>8 DEF S
<1> QED BY <1>1, <1>2

\* Two strings one behind the other.
LEMMA JoinedFacts ==
    ASSUME NEW a \in Strings, NEW b \in Strings
    PROVE  /\ Joined(a, b) \in Strings
           /\ Len(a) \in Nat /\ Len(b) \in Nat
           /\ Len(Joined(a, b)) = Len(a) + Len(b)
           /\ \A k \in 1 .. Len(a) : Joined(a, b)[k] = a[k]
           /\ \A k \in 1 .. Len(b) : Joined(a, b)[Len(a) + k] = b[k]
<1>1. a \in Seq(Nat) /\ b \in Seq(Nat)
  BY DEF Strings
<1>2. /\ a \o b \in Seq(Nat)
      /\ Len(a \o b) = Len(a) + Len(b)
      /\ \A i \in 1 .. Len(a) + Len(b) :
             (a \o b)[i] = IF i <= Len(a) THEN a[i] ELSE b[i - Len(a)]
  BY <1>1, ConcatProperties, Zenon
<1>3. /\ Joined(a, b) \in Strings
      /\ Len(Joined(a, b)) = Len(a) + Len(b)
      /\ \A i \in 1 .. Len(a) + Len(b) :
             Joined(a, b)[i] = IF i <= Len(a) THEN a[i] ELSE b[i - Len(a)]
  BY <1>2, Zenon DEF Joined, Strings
<1>4. Len(a) \in Nat /\ Len(b) \in Nat
  BY <1>1, LenProperties
<1>5. ASSUME NEW k \in 1 .. Len(a) PROVE Joined(a, b)[k] = a[k]
  BY <1>3, <1>4
<1>6. ASSUME NEW k \in 1 .. Len(b) PROVE Joined(a, b)[Len(a) + k] = b[k]
  <2>1. Len(a) + k \in 1 .. Len(a) + Len(b) /\ ~(Len(a) + k <= Len(a)) /\ Len(a) + k - Len(a) = k
    BY <1>4
  <2> QED BY <1>3, <2>1
<1> QED BY <1>3, <1>4, <1>5, <1>6

\* A string behind its length.
LEMMA FramedFacts ==
    ASSUME NEW v \in Strings
    PROVE  /\ Framed(v) \in Strings
           /\ Len(v) \in Nat
           /\ Len(Framed(v)) = 1 + Len(v)
           /\ Framed(v)[1] = Len(v)
           /\ \A k \in 1 .. Len(v) : Framed(v)[1 + k] = v[k]
<1>1. v \in Seq(Nat) /\ Len(v) \in Nat
  BY LenProperties DEF Strings
<1> DEFINE u == << Len(v) >>
<1>2. u \in Strings /\ Len(u) = 1 /\ u[1] = Len(v)
  BY <1>1 DEF Strings
<1>3. Framed(v) = Joined(u, v)
  BY Zenon DEF Framed, Joined
<1> HIDE DEF u
<1>4. /\ Joined(u, v) \in Strings
      /\ Len(Joined(u, v)) = Len(u) + Len(v)
      /\ \A k \in 1 .. Len(u) : Joined(u, v)[k] = u[k]
      /\ \A k \in 1 .. Len(v) : Joined(u, v)[Len(u) + k] = v[k]
  BY <1>2, JoinedFacts, Zenon
<1>5. Framed(v)[1] = Len(v)
  BY <1>2, <1>3, <1>4
<1>6. \A k \in 1 .. Len(v) : Framed(v)[1 + k] = v[k]
  BY <1>2, <1>3, <1>4
<1> QED BY <1>1, <1>2, <1>3, <1>4, <1>5, <1>6

\* One string begins with another.
Begins(a, b) == Len(a) <= Len(b) /\ \A k \in 1 .. Len(a) : b[k] = a[k]

\* Two strings joined begin with the first of them.
LEMMA JoinedBegins ==
    ASSUME NEW a \in Strings, NEW b \in Strings, NEW d, d = Joined(a, b)
    PROVE  Begins(a, d)
<1>1. /\ Len(a) \in Nat /\ Len(b) \in Nat /\ Len(d) = Len(a) + Len(b)
      /\ \A k \in 1 .. Len(a) : d[k] = a[k]
  <2>1. /\ Len(a) \in Nat /\ Len(b) \in Nat
        /\ Len(Joined(a, b)) = Len(a) + Len(b)
        /\ \A k \in 1 .. Len(a) : Joined(a, b)[k] = a[k]
    BY JoinedFacts, Zenon
  <2> QED BY <2>1, Zenon
<1>2. Len(a) <= Len(d)
  BY <1>1
<1> QED BY <1>1, <1>2, Zenon DEF Begins

\* What begins with a string begins with what that string begins with.
LEMMA BeginsTransitive ==
    ASSUME NEW a, NEW b, NEW d, Len(a) \in Nat, Len(b) \in Nat, Len(d) \in Nat,
           Begins(a, b), Begins(b, d)
    PROVE  Begins(a, d)
<1>1. Len(a) <= Len(d)
  BY DEF Begins
<1>2. ASSUME NEW k \in 1 .. Len(a) PROVE d[k] = a[k]
  <2>1. k \in 1 .. Len(b)
    BY DEF Begins
  <2>2. b[k] = a[k] /\ d[k] = b[k]
    BY <2>1, Zenon DEF Begins
  <2> QED BY <2>2
<1> QED BY <1>1, <1>2, Zenon DEF Begins

\* The sum of all the strings begins with each of the others.
LEMMA SumBegins ==
    ASSUME NEW n \in Nat, NEW s, \A i \in 1 .. n : s[i] \in Strings, NEW c, Sums(c, s, n)
    PROVE  \A i \in 0 .. n : Begins(c[i], c[n])
<1>0. \A i \in 0 .. n : c[i] \in Strings /\ Len(c[i]) \in Nat
  <2>1. \A i \in 0 .. n : c[i] \in Strings
    BY SumsAreStrings
  <2> QED BY <2>1, JoinedFacts
<1> DEFINE S == {i \in 0 .. n : Begins(c[n - i], c[n])}
<1>1. 0 \in S
  BY <1>0 DEF Begins
<1>2. ASSUME NEW i \in 1 .. n, i - 1 \in S PROVE i \in S
  <2> DEFINE j == n - i
  <2>1. j + 1 \in 1 .. n /\ j \in 0 .. n /\ (j + 1) - 1 = j /\ n - (i - 1) = j + 1
    OBVIOUS
  <2>2. Begins(c[j + 1], c[n])
    BY <1>2, <2>1
  <2>3. c[j + 1] = Joined(c[j], s[j + 1])
    <3> HIDE DEF j
    <3>1. c[j + 1] = Joined(c[(j + 1) - 1], s[j + 1])
      BY <2>1, SumsStep
    <3> QED BY <2>1, <3>1
  <2> HIDE DEF j
  <2>4. Begins(c[j], c[j + 1])
    <3>1. c[j] \in Strings /\ s[j + 1] \in Strings
      BY <1>0, <2>1
    <3> QED BY <2>3, <3>1, JoinedBegins
  <2>5. Len(c[j]) \in Nat /\ Len(c[j + 1]) \in Nat /\ Len(c[n]) \in Nat
    BY <1>0, <2>1
  <2>6. Begins(c[j], c[n])
    BY <2>2, <2>4, <2>5, BeginsTransitive
  <2> QED BY <2>6 DEF j
<1> HIDE DEF S
<1>3. \A i \in 0 .. n : i \in S
  BY <1>1, <1>2, Reaches
<1>4. ASSUME NEW i \in 0 .. n PROVE Begins(c[i], c[n])
  <2>1. n - i \in 0 .. n /\ n - (n - i) = i
    OBVIOUS
  <2> QED BY <1>3, <2>1 DEF S
<1> QED BY <1>4


-----------------------------------------------------------------------------
\* Reading the fields back.

\* What a list of fields is flattened from.
Frames(f) == [i \in DOMAIN f |-> Framed(f[i])]

\* The frames of a list of fields are strings, one for each field.
LEMMA FramesFacts ==
    ASSUME NEW f \in Seq(Strings)
    PROVE  /\ Len(f) \in Nat /\ DOMAIN f = 1 .. Len(f)
           /\ \A i \in 1 .. Len(f) : f[i] \in Strings
           /\ \A i \in 1 .. Len(f) : Frames(f)[i] = Framed(f[i])
           /\ \A i \in 1 .. Len(f) : Frames(f)[i] \in Strings
           /\ Frames(f) \in Seq(Strings) /\ Len(Frames(f)) = Len(f)
<1>1. Len(f) \in Nat /\ DOMAIN f = 1 .. Len(f) /\ \A i \in 1 .. Len(f) : f[i] \in Strings
  BY LenProperties, ElementOfSeq
<1>2. \A i \in 1 .. Len(f) : Frames(f)[i] = Framed(f[i])
  BY <1>1 DEF Frames
<1>3. \A i \in 1 .. Len(f) : Framed(f[i]) \in Strings
  BY <1>1, FramedFacts
<1>4. \A i \in 1 .. Len(f) : Frames(f)[i] \in Strings
  BY <1>2, <1>3
<1>5. Frames(f) \in [1 .. Len(f) -> Strings]
  BY <1>1, <1>3 DEF Frames
<1>6. Frames(f) \in Seq(Strings) /\ Len(Frames(f)) = Len(f)
  <2> DEFINE g == Frames(f)
             n == Len(f)
  <2>1. g \in [1 .. n -> Strings] /\ n \in Nat
    BY <1>1, <1>5
  <2> HIDE DEF g, n
  <2>2. g \in Seq(Strings) /\ Len(g) = n
    BY <2>1
  <2> QED BY <2>2 DEF g, n
<1> QED BY <1>1, <1>2, <1>3, <1>4, <1>6

\* The sums of the frames of a list of fields.
SumOf(c, f) == Sums(c, Frames(f), Len(f))

\* Each sum is the one before it with one more frame, and all of them begin
\* the last one, which is what the list is flattened to.
LEMMA SumOfFacts ==
    ASSUME NEW f \in Seq(Strings), NEW c, SumOf(c, f)
    PROVE  /\ Len(f) \in Nat /\ c[0] = << >> /\ FlattenSeq(Frames(f)) = c[Len(f)]
           /\ \A i \in 0 .. Len(f) : c[i] \in Strings /\ Begins(c[i], c[Len(f)])
           /\ \A i \in 1 .. Len(f) : c[i] = Joined(c[i - 1], Framed(f[i]))
<1> DEFINE n == Len(f)
           s == Frames(f)
<1>1. /\ n \in Nat /\ s \in Seq(Strings) /\ Len(s) = n
      /\ \A i \in 1 .. n : s[i] \in Strings /\ s[i] = Framed(f[i])
  BY FramesFacts
<1>2. Sums(c, s, n)
  BY Zenon DEF SumOf
<1> HIDE DEF n, s
<1>3. c[0] = << >>
  BY <1>2, Zenon DEF Sums
<1>4. FlattenSeq(s) = c[n]
  BY <1>1, <1>2, SumsFlatten
<1>5. \A i \in 1 .. n : s[i] \in Strings
  BY <1>1
<1>6. \A i \in 0 .. n : c[i] \in Strings
  BY <1>1, <1>2, <1>5, SumsAreStrings
<1>7. \A i \in 0 .. n : Begins(c[i], c[n])
  BY <1>1, <1>2, <1>5, SumBegins
<1>8. ASSUME NEW i \in 1 .. n PROVE c[i] = Joined(c[i - 1], Framed(f[i]))
  <2>1. c[i] = Joined(c[i - 1], s[i])
    BY <1>2, SumsStep
  <2> QED BY <1>1, <2>1, Zenon
<1> QED BY <1>1, <1>3, <1>4, <1>6, <1>7, <1>8, Zenon DEF n, s

\* Behind the bytes `a' of `b' is the field `v': its length, then itself.
FieldBehind(b, a, v) ==
    /\ b[Len(a) + 1] = Len(v)
    /\ \A k \in 1 .. Len(v) : b[Len(a) + (1 + k)] = v[k]

\* Every field is in the sum of all the frames, behind the fields before it.
LEMMA FrameInSum ==
    ASSUME NEW f \in Seq(Strings), NEW c, SumOf(c, f), NEW i \in 1 .. Len(f)
    PROVE  /\ c[i - 1] \in Strings /\ Len(c[i - 1]) \in Nat /\ Len(f[i]) \in Nat
           /\ c[i] = Joined(c[i - 1], Framed(f[i]))
           /\ Len(c[i]) = Len(c[i - 1]) + 1 + Len(f[i])
           /\ Len(c[i]) <= Len(c[Len(f)])
           /\ FieldBehind(c[Len(f)], c[i - 1], f[i])
<1> DEFINE n == Len(f)
           a == c[i - 1]
           v == f[i]
           w == Framed(v)
           d == c[i]
           b == c[n]
<1>1. i - 1 \in 0 .. n /\ i \in 0 .. n
  BY FramesFacts
<1>2. a \in Strings /\ v \in Strings
  BY <1>1, SumOfFacts, FramesFacts, Zenon
<1>3. d = Joined(a, w) /\ Begins(d, b)
  BY <1>1, SumOfFacts, Zenon
<1> HIDE DEF v
<1>4. /\ w \in Strings /\ Len(v) \in Nat /\ Len(w) = 1 + Len(v) /\ w[1] = Len(v)
      /\ \A k \in 1 .. Len(v) : w[1 + k] = v[k]
  BY <1>2, FramedFacts, Zenon
<1> HIDE DEF a, w, d, b
<1>5. /\ Len(a) \in Nat /\ Len(w) \in Nat /\ Len(d) = Len(a) + Len(w)
      /\ \A k \in 1 .. Len(w) : d[Len(a) + k] = w[k]
  <2>1. /\ Len(a) \in Nat /\ Len(w) \in Nat /\ Len(Joined(a, w)) = Len(a) + Len(w)
        /\ \A k \in 1 .. Len(w) : Joined(a, w)[Len(a) + k] = w[k]
    BY <1>2, <1>4, JoinedFacts, Zenon
  <2> QED BY <1>3, <2>1, Zenon
<1>6. Len(d) \in Nat /\ Len(d) = Len(a) + 1 + Len(v)
  BY <1>4, <1>5
<1>7. Len(d) <= Len(b) /\ \A k \in 1 .. Len(d) : b[k] = d[k]
  BY <1>3, Zenon DEF Begins
<1>8. b[Len(a) + 1] = Len(v)
  <2>1. 1 \in 1 .. Len(w) /\ Len(a) + 1 \in 1 .. Len(d)
    BY <1>4, <1>5, <1>6
  <2>2. b[Len(a) + 1] = d[Len(a) + 1] /\ d[Len(a) + 1] = w[1]
    BY <1>5, <1>7, <2>1, Zenon
  <2> QED BY <1>4, <2>2, Zenon
<1>9. ASSUME NEW k \in 1 .. Len(v) PROVE b[Len(a) + (1 + k)] = v[k]
  <2>1. 1 + k \in 1 .. Len(w) /\ Len(a) + (1 + k) \in 1 .. Len(d)
    BY <1>4, <1>5, <1>6
  <2>2. d[Len(a) + (1 + k)] = w[1 + k] /\ b[Len(a) + (1 + k)] = d[Len(a) + (1 + k)]
    BY <1>5, <1>7, <2>1, Zenon
  <2> QED BY <1>4, <2>2, Zenon
<1>10. FieldBehind(b, a, v)
  BY <1>8, <1>9, Zenon DEF FieldBehind
<1> QED BY <1>2, <1>3, <1>4, <1>5, <1>6, <1>7, <1>10, Zenon DEF n, a, v, w, d, b

\* The lists `f' and `g', with the sums `c' and `d', have the same bytes.
SameBytes(f, c, g, d) == SumOf(c, f) /\ SumOf(d, g) /\ c[Len(f)] = d[Len(g)]

\* Two lists of fields with the same bytes agree as far as the shorter goes.
LEMMA FieldsAgree ==
    ASSUME NEW f \in Seq(Strings), NEW c, NEW g \in Seq(Strings), NEW d, SameBytes(f, c, g, d),
           NEW p \in Nat, p <= Len(f), p <= Len(g)
    PROVE  \A i \in 0 .. p : c[i] = d[i] /\ (i # 0 => f[i] = g[i])
<1> DEFINE m == Len(f)
           n == Len(g)
           S == {i \in 0 .. p : c[i] = d[i] /\ (i # 0 => f[i] = g[i])}
<1>0. SumOf(c, f) /\ SumOf(d, g) /\ c[m] = d[n]
  BY Zenon DEF SameBytes
<1>1. 0 \in S
  <2>1. c[0] = << >> /\ d[0] = << >>
    BY <1>0, SumOfFacts, Zenon
  <2> QED BY <2>1
<1>2. ASSUME NEW i \in 1 .. p, i - 1 \in S PROVE i \in S
  <2> DEFINE a == c[i - 1]
             v == f[i]
             w == g[i]
             b == c[m]
  <2>1. i \in 1 .. m /\ i \in 1 .. n
    BY FramesFacts
  <2>2. /\ a \in Strings /\ Len(a) \in Nat /\ Len(v) \in Nat
        /\ c[i] = Joined(a, Framed(v)) /\ FieldBehind(b, a, v)
    BY <1>0, <2>1, FrameInSum, Zenon
  <2>3. d[i] = Joined(d[i - 1], Framed(w)) /\ FieldBehind(d[n], d[i - 1], w)
    BY <1>0, <2>1, FrameInSum, Zenon
  <2>4. d[i - 1] = a /\ d[n] = b
    BY <1>0, <1>2
  <2>5. v \in Strings /\ w \in Strings
    BY <2>1, FramesFacts, Zenon
  <2> HIDE DEF a, v, w, b, n
  <2>6. d[i] = Joined(a, Framed(w)) /\ FieldBehind(b, a, w)
    BY <2>3, <2>4, Zenon
  <2>7. Len(v) = Len(w) /\ \A k \in 1 .. Len(v) : v[k] = w[k]
    <3>1. Len(v) = Len(w)
      BY <2>2, <2>6, Zenon DEF FieldBehind
    <3>2. ASSUME NEW k \in 1 .. Len(v) PROVE v[k] = w[k]
      BY <2>2, <2>6, <3>1, Zenon DEF FieldBehind
    <3> QED BY <3>1, <3>2
  <2>8. v = w
    <3>1. v \in Seq(Nat) /\ w \in Seq(Nat)
      BY <2>5 DEF Strings
    <3> QED BY <2>7, <3>1, SeqEqual, Zenon
  <2>9. c[i] = d[i] /\ f[i] = g[i]
    <3>1. c[i] = d[i]
      BY <2>2, <2>6, <2>8, Zenon
    <3> QED BY <2>8, <3>1 DEF v, w
  <2> QED BY <2>9
<1> HIDE DEF S
<1>3. \A i \in 0 .. p : i \in S
  BY <1>1, <1>2, Reaches
<1> QED BY <1>3 DEF S

\* Neither goes further, for one more field is at least one more byte.
LEMMA NoFieldMore ==
    ASSUME NEW f \in Seq(Strings), NEW c, NEW g \in Seq(Strings), NEW d, SameBytes(f, c, g, d)
    PROVE  ~(Len(f) < Len(g))
<1> SUFFICES ASSUME Len(f) < Len(g) PROVE FALSE
  OBVIOUS
<1> DEFINE m == Len(f)
           n == Len(g)
           i == m + 1
<1>1. m \in Nat /\ n \in Nat /\ m <= m /\ m <= n /\ m \in 0 .. m /\ i \in 1 .. n /\ i - 1 = m
  BY FramesFacts
<1>0. SumOf(c, f) /\ SumOf(d, g) /\ c[m] = d[n]
  BY Zenon DEF SameBytes
<1>2. c[m] = d[m]
  BY <1>1, FieldsAgree
<1> HIDE DEF i
<1>3. /\ Len(d[i - 1]) \in Nat /\ Len(g[i]) \in Nat
      /\ Len(d[i]) = Len(d[i - 1]) + 1 + Len(g[i])
      /\ Len(d[i]) <= Len(d[n])
  BY <1>0, <1>1, FrameInSum, Zenon
<1>4. d[i - 1] = d[n]
  BY <1>0, <1>1, <1>2, Zenon
<1> DEFINE x == Len(d[n])
           y == Len(g[i])
           z == Len(d[i])
<1>5. x \in Nat /\ y \in Nat /\ z = x + 1 + y /\ z <= x
  BY <1>3, <1>4, Zenon
<1> HIDE DEF x, y, z
<1> QED BY <1>5

\* Two lists of fields with the same bytes are the same.
LEMMA FieldsReadBack ==
    ASSUME NEW f \in Seq(Strings), NEW g \in Seq(Strings),
           FlattenSeq(Frames(f)) = FlattenSeq(Frames(g))
    PROVE  f = g
<1>1. Len(f) \in Nat /\ Len(g) \in Nat
  BY FramesFacts
<1>2. PICK c : SumOf(c, f)
  BY <1>1, SumsExist DEF SumOf
<1>3. PICK d : SumOf(d, g)
  BY <1>1, SumsExist DEF SumOf
<1>4. SameBytes(f, c, g, d) /\ SameBytes(g, d, f, c)
  <2>1. FlattenSeq(Frames(f)) = c[Len(f)] /\ FlattenSeq(Frames(g)) = d[Len(g)]
    BY <1>2, <1>3, SumOfFacts, Zenon
  <2> QED BY <1>2, <1>3, <2>1, Zenon DEF SameBytes
<1>5. Len(f) = Len(g)
  <2>2. ~(Len(f) < Len(g))
    BY <1>4, NoFieldMore, Zenon
  <2>3. ~(Len(g) < Len(f))
    BY <1>4, NoFieldMore, Zenon
  <2> QED BY <1>1, <2>2, <2>3
<1>6. \A i \in 1 .. Len(f) : f[i] = g[i]
  <2>1. Len(f) <= Len(f) /\ Len(f) <= Len(g)
    BY <1>1, <1>5
  <2>2. \A i \in 0 .. Len(f) : c[i] = d[i] /\ (i # 0 => f[i] = g[i])
    BY <1>1, <1>4, <2>1, FieldsAgree
  <2>3. \A i \in 1 .. Len(f) : i \in 0 .. Len(f) /\ i # 0
    BY <1>1
  <2> QED BY <2>2, <2>3, Zenon
<1> QED BY <1>5, <1>6, SeqEqual, Zenon

\* Pushing a field appends its frame.
LEMMA FlattenAppend ==
    ASSUME NEW s \in Seq(Strings), NEW x \in Strings
    PROVE  FlattenSeq(Append(s, x)) = FlattenSeq(s) \o x
<1> DEFINE m == Len(s)
           n == m + 1
           t == Append(s, x)
<1>1. m \in Nat /\ n \in Nat /\ n - 1 = m /\ n \in 1 .. n /\ m \in 0 .. m
  BY LenProperties
<1>2. t \in Seq(Strings) /\ Len(t) = n /\ t[n] = x /\ \A i \in 1 .. m : t[i] = s[i]
  BY AppendProperties
<1> HIDE DEF t, n
<1>3. PICK c : Sums(c, t, n)
  BY <1>1, SumsExist
<1> DEFINE d == [i \in 0 .. m |-> c[i]]
<1>4. Sums(d, s, m)
  <2>1. c[0] = << >>
    BY <1>3, Zenon DEF Sums
  <2>2. DOMAIN d = 0 .. m /\ d[0] = << >>
    BY <1>1, <2>1
  <2>3. ASSUME NEW i \in 1 .. m PROVE d[i] = Joined(d[i - 1], s[i])
    <3>1. i \in 1 .. n /\ d[i] = c[i] /\ d[i - 1] = c[i - 1]
      BY <1>1 DEF n
    <3>2. c[i] = Joined(c[i - 1], t[i])
      BY <1>3, <3>1, SumsStep
    <3> QED BY <1>2, <3>1, <3>2, Zenon
  <2> HIDE DEF d
  <2> QED BY <2>2, <2>3, Zenon DEF Sums
<1>5. d[m] = c[m]
  BY <1>1
<1> HIDE DEF d
<1>6. FlattenSeq(t) = c[n] /\ FlattenSeq(s) = d[m]
  <2>1. FlattenSeq(t) = c[n]
    BY <1>2, <1>3, SumsFlatten
  <2>2. FlattenSeq(s) = d[m]
    BY <1>4, SumsFlatten
  <2> QED BY <2>1, <2>2
<1>7. c[n] = Joined(c[m], x)
  <2>1. c[n] = Joined(c[n - 1], t[n])
    BY <1>1, <1>3, SumsStep
  <2> QED BY <1>1, <1>2, <2>1, Zenon
<1> QED BY <1>5, <1>6, <1>7, Zenon DEF Joined, t


-----------------------------------------------------------------------------
\* The encoder.

\* A field is a string of bytes.
LEMMA FieldsAreStrings == Field \subseteq Strings
<1> SUFFICES ASSUME NEW v \in Field PROVE v \in Strings
  OBVIOUS
<1>1. PICK m \in 0 .. MaxField : v \in [1 .. m -> Bytes]
  BY DEF Field, BoundedSeq, SeqOf
<1>2. m \in Nat /\ \A b \in Bytes : b \in Nat
  BY EncodingAssumption
<1>3. v \in [1 .. m -> Nat]
  BY <1>1, <1>2
<1> QED BY <1>2, <1>3 DEF Strings

\* A list that may be pushed is a list of strings.
LEMMA ListsAreOfStrings ==
    ASSUME NEW f \in BoundedSeq(Field, MaxFields)
    PROVE  f \in Seq(Strings)
<1>1. PICK m \in 0 .. MaxFields : f \in [1 .. m -> Field]
  BY DEF BoundedSeq, SeqOf
<1>2. m \in Nat /\ f \in [1 .. m -> Strings]
  BY <1>1, EncodingAssumption, FieldsAreStrings
<1> QED BY <1>2

\* The buffer is the frames of the fields pushed, one behind the other.
BufferHoldsTheFields ==
    /\ fields \in Seq(Strings)
    /\ bytes = FlattenSeq(Frames(fields))

\* An encoder that was given no field has an empty buffer.
LEMMA InitBuffer == Init => BufferHoldsTheFields
<1> SUFFICES ASSUME Init PROVE BufferHoldsTheFields
  OBVIOUS
<1>1. fields = << >> /\ bytes = << >>
  BY DEF Init
<1>2. fields \in Seq(Strings)
  BY <1>1, EmptySeq, Zenon
<1> DEFINE s == Frames(fields)
<1>3. s \in Seq(Strings) /\ Len(s) = Len(fields)
  BY <1>2, FramesFacts, Zenon
<1>4. Len(s) = 0
  BY <1>1, <1>3
<1> HIDE DEF s
<1>5. s = << >>
  BY <1>3, <1>4
<1>6. FlattenSeq(s) = s
  BY <1>4, Zenon DEF FlattenSeq
<1> QED BY <1>1, <1>2, <1>5, <1>6, Zenon DEF BufferHoldsTheFields, s

\* The frames of one field more.
LEMMA FramesAppend ==
    ASSUME NEW f \in Seq(Strings), NEW v \in Strings
    PROVE  /\ Append(f, v) \in Seq(Strings)
           /\ Frames(Append(f, v)) = Append(Frames(f), Framed(v))
<1> DEFINE g == Append(f, v)
           s == Frames(f)
           t == Append(s, Framed(v))
           n == Len(f)
<1>1. g \in Seq(Strings) /\ Len(g) = n + 1 /\ g[n + 1] = v /\ \A i \in 1 .. n : g[i] = f[i]
  BY AppendProperties
<1>2. /\ n \in Nat /\ s \in Seq(Strings) /\ Len(s) = n
      /\ \A i \in 1 .. n : s[i] = Framed(f[i])
  BY FramesFacts
<1> HIDE DEF g, s, n
<1>3. Framed(v) \in Strings
  BY FramedFacts
<1>4. /\ t \in Seq(Strings) /\ Len(t) = n + 1 /\ t[n + 1] = Framed(v)
      /\ \A i \in 1 .. n : t[i] = s[i]
  BY <1>2, <1>3, AppendProperties
<1>5. /\ Frames(g) \in Seq(Strings) /\ Len(Frames(g)) = n + 1
      /\ \A i \in 1 .. n + 1 : Frames(g)[i] = Framed(g[i])
  BY <1>1, FramesFacts
<1> HIDE DEF t
<1>6. ASSUME NEW i \in 1 .. n + 1 PROVE Frames(g)[i] = t[i]
  <2>1. CASE i = n + 1
    BY <1>1, <1>4, <1>5, <2>1
  <2>2. CASE i # n + 1
    <3>1. i \in 1 .. n
      BY <1>2, <2>2
    <3> QED BY <1>1, <1>2, <1>4, <1>5, <3>1
  <2> QED BY <2>1, <2>2
<1>7. Frames(g) = t
  BY <1>4, <1>5, <1>6, SeqEqual
<1> QED BY <1>1, <1>7 DEF g, s, t

\* push_bytes appends the frame of the field it is given.
LEMMA NextBuffer == BufferHoldsTheFields /\ [Next]_<<fields, bytes>> => BufferHoldsTheFields'
<1> SUFFICES ASSUME BufferHoldsTheFields, [Next]_<<fields, bytes>>
             PROVE  BufferHoldsTheFields'
  OBVIOUS
<1>1. ASSUME NEW value \in Field, Push(value) PROVE BufferHoldsTheFields'
  <2>1. value \in Strings /\ Framed(value) \in Strings /\ fields \in Seq(Strings)
    BY FieldsAreStrings, FramedFacts DEF BufferHoldsTheFields
  <2>2. fields' = Append(fields, value) /\ bytes' = bytes \o Framed(value)
    BY <1>1 DEF Push
  <2>3. /\ Append(fields, value) \in Seq(Strings)
        /\ Frames(Append(fields, value)) = Append(Frames(fields), Framed(value))
    BY <2>1, FramesAppend
  <2>4. Frames(fields) \in Seq(Strings)
    BY <2>1, FramesFacts
  <2>5. FlattenSeq(Append(Frames(fields), Framed(value)))
            = FlattenSeq(Frames(fields)) \o Framed(value)
    BY <2>1, <2>4, FlattenAppend
  <2>6. bytes' = FlattenSeq(Frames(fields'))
    BY <2>2, <2>3, <2>5, Zenon DEF BufferHoldsTheFields
  <2> QED BY <2>2, <2>3, <2>6, Zenon DEF BufferHoldsTheFields
<1>2. CASE UNCHANGED <<fields, bytes>>
  BY <1>2 DEF BufferHoldsTheFields
<1> QED BY <1>1, <1>2 DEF Next

\* No two lists of fields have one encoding, whatever the fields hold, however
\* long they are and however many: a fingerprint stands for one plan only.
THEOREM NoTwoPlansShareAnEncoding == Spec => []EncodingIsUnambiguous
<1>1. BufferHoldsTheFields => EncodingIsUnambiguous
  <2> SUFFICES ASSUME BufferHoldsTheFields, NEW other \in BoundedSeq(Field, MaxFields),
                      FlattenSeq([i \in DOMAIN other |-> Framed(other[i])]) = bytes
               PROVE  other = fields
    BY DEF EncodingIsUnambiguous
  <2>1. other \in Seq(Strings)
    BY ListsAreOfStrings
  <2>2. fields \in Seq(Strings) /\ FlattenSeq(Frames(other)) = FlattenSeq(Frames(fields))
    BY Zenon DEF BufferHoldsTheFields, Frames
  <2> QED BY <2>1, <2>2, FieldsReadBack
<1> QED BY <1>1, InitBuffer, NextBuffer, PTL DEF Spec

=============================================================================
