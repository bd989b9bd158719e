------------------------ MODULE DocumentFormat_proofs ------------------------
(***************************************************************************)
(* A document nobody edited comes back byte for byte, and what was saved   *)
(* is what the next reader finds: the decoders undo what the encoders do,  *)
(* for sequences of every length.                                          *)
(***************************************************************************)
EXTENDS DocumentFormat, SequenceTheorems, WellFoundedInduction, TLAPS

\* A set of natural numbers has a least member.
LEMMA LeastNatural ==
    ASSUME NEW S \in SUBSET Nat, S # {}
    PROVE  \E x \in S : \A y \in S : x <= y
<1>1. PICK x \in S : \A y \in S : ~(<<y, x>> \in OpToRel(<, Nat))
  BY NatLessThanWellFounded, WFMin
<1>2. \A y \in S : ~(y < x)
  BY <1>1 DEF OpToRel
<1> QED
  BY <1>2

\* Induction, for a set of numbers.
LEMMA AllNaturals ==
    ASSUME NEW N \in SUBSET Nat, 0 \in N, \A n \in N : n + 1 \in N
    PROVE  N = Nat
<1> SUFFICES ASSUME Nat \ N # {}
             PROVE  FALSE
  OBVIOUS
<1>1. PICK x \in Nat \ N : \A y \in Nat \ N : x <= y
  BY LeastNatural, Nat \ N \in SUBSET Nat
<1>2. x # 0 /\ x - 1 \in N
  BY <1>1
<1> QED
  BY <1>2

-----------------------------------------------------------------------------
(* Sequences, and sequences of sequences. *)

\* A sequence that is not empty has a last member and what comes before it.
LEMMA FrontAndLast ==
    ASSUME NEW S, NEW s \in Seq(S), Len(s) # 0
    PROVE  \E front \in Seq(S), x \in S : s = Append(front, x) /\ Len(front) = Len(s) - 1
<1>1. PICK front \in Seq(S), x \in S : s = Append(front, x)
  BY SequenceEmptyOrAppend, EmptySeq
<1>2. Len(s) = Len(front) + 1 /\ Len(front) \in Nat
  BY <1>1, AppendProperties, LenProperties
<1> QED
  BY <1>1, <1>2

\* And a first member and what comes after it.
LEMMA HeadAndRest ==
    ASSUME NEW S, NEW s \in Seq(S), Len(s) # 0
    PROVE  \E x \in S, rest \in Seq(S) : s = <<x>> \o rest /\ Len(rest) = Len(s) - 1
<1>1. s[1] \in S /\ Tail(s) \in Seq(S) /\ Len(Tail(s)) = Len(s) - 1
  OBVIOUS
<1>2. s = <<s[1]>> \o Tail(s)
  OBVIOUS
<1> QED
  BY <1>1, <1>2

\* What FlattenSeq adds up from the left exists.
LEMMA FlattenIs ==
    ASSUME NEW p, NEW n \in Nat \ {0}, Len(p) = n
    PROVE  \E f : /\ f[1] = p[1]
                  /\ \A i \in 1 .. n - 1 : f[i + 1] = f[i] \o p[i + 1]
                  /\ FlattenSeq(p) = f[n]
<1> DEFINE IsRun(g, k) == g = [i \in 1 .. k |-> IF i = 1 THEN p[i] ELSE g[i - 1] \o p[i]]
           Runs == {k \in Nat : \E g : IsRun(g, k)}
<1>1. 0 \in Runs
  <2>1. IsRun([i \in 1 .. 0 |-> p], 0)
    OBVIOUS
  <2> QED
    BY <2>1
<1>2. ASSUME NEW k \in Runs
      PROVE  k + 1 \in Runs
  <2>1. PICK g : IsRun(g, k)
    OBVIOUS
  <2> DEFINE h == [i \in 1 .. k + 1 |-> IF i <= k THEN g[i] ELSE IF i = 1 THEN p[i] ELSE g[i - 1] \o p[i]]
  <2>2. ASSUME NEW i \in 1 .. k + 1
        PROVE  h[i] = IF i = 1 THEN p[i] ELSE h[i - 1] \o p[i]
    <3>1. CASE i <= k
      <4>1. i \in 1 .. k /\ h[i] = g[i] /\ (i # 1 => h[i - 1] = g[i - 1])
        BY <3>1
      <4>2. g[i] = IF i = 1 THEN p[i] ELSE g[i - 1] \o p[i]
        BY <2>1, <4>1
      <4> QED
        BY <4>1, <4>2
    <3>2. CASE i = k + 1
      <4>1. h[i] = (IF i = 1 THEN p[i] ELSE g[i - 1] \o p[i]) /\ (i # 1 => h[i - 1] = g[i - 1])
        BY <3>2
      <4> QED
        BY <4>1
    <3> QED
      BY <3>1, <3>2
  <2>3. IsRun(h, k + 1)
    BY <2>2
  <2> HIDE DEF h, IsRun
  <2> QED
    BY <2>3
<1>3. Runs = Nat
  <2> HIDE DEF Runs
  <2>1. Runs \in SUBSET Nat
    BY DEF Runs
  <2> QED
    BY <1>1, <1>2, <2>1, AllNaturals
<1>4. FlattenSeq(p) = (CHOOSE g : IsRun(g, n))[n]
  BY DEF FlattenSeq
<1>5. \E g : IsRun(g, n)
  BY <1>3
<1> QED
  <2> DEFINE f == CHOOSE g : IsRun(g, n)
  <2>1. IsRun(f, n)
    <3> HIDE DEF IsRun
    <3> QED
      BY <1>5
  <2>2. FlattenSeq(p) = f[n]
    BY <1>4
  <2> HIDE DEF f
  <2>3. f[1] = p[1]
    BY <2>1
  <2>4. ASSUME NEW i \in 1 .. n - 1
        PROVE  f[i + 1] = f[i] \o p[i + 1]
    <3>1. i + 1 \in 1 .. n /\ i + 1 # 1 /\ (i + 1) - 1 = i
      OBVIOUS
    <3>2. f[i + 1] = IF i + 1 = 1 THEN p[i + 1] ELSE f[(i + 1) - 1] \o p[i + 1]
      BY <2>1, <3>1
    <3> QED
      BY <3>1, <3>2
  <2> QED
    BY <2>2, <2>3, <2>4

\* Nothing flattens to nothing.
LEMMA FlattenEmpty == FlattenSeq(<<>>) = <<>>
  BY DEF FlattenSeq

\* FlattenSeq goes on at the end.
LEMMA FlattenAppend ==
    ASSUME NEW S, NEW p \in Seq(Seq(S)), NEW x \in Seq(S)
    PROVE  FlattenSeq(Append(p, x)) = IF p = <<>> THEN x ELSE FlattenSeq(p) \o x
<1> DEFINE n == Len(p)  q == Append(p, x)
<1>1. n \in Nat /\ Len(q) = n + 1 /\ q[n + 1] = x /\ \A i \in 1 .. n : q[i] = p[i]
  OBVIOUS
<1>2. PICK f : /\ f[1] = q[1] /\ (\A i \in 1 .. n : f[i + 1] = f[i] \o q[i + 1])
               /\ FlattenSeq(q) = f[n + 1]
  <2> HIDE DEF q, n
  <2> DEFINE m == n + 1
  <2>1. m \in Nat \ {0} /\ m - 1 = n /\ Len(q) = m
    BY <1>1
  <2> HIDE DEF m
  <2>2. \E f : /\ f[1] = q[1] /\ (\A i \in 1 .. m - 1 : f[i + 1] = f[i] \o q[i + 1])
              /\ FlattenSeq(q) = f[m]
    BY <2>1, FlattenIs, ZenonT(60)
  <2> QED
    BY <2>1, <2>2 DEF m
<1>3. CASE p = <<>>
  BY <1>1, <1>2, <1>3
<1>4. CASE p # <<>>
  <2>1. n \in Nat \ {0}
    BY <1>4
  <2>2. PICK g : /\ g[1] = p[1] /\ (\A i \in 1 .. n - 1 : g[i + 1] = g[i] \o p[i + 1])
                 /\ FlattenSeq(p) = g[n]
    <3> HIDE DEF n
    <3> QED
      BY <2>1, FlattenIs, ZenonT(60) DEF n
  <2> HIDE DEF n, q
  <2> DEFINE Same == {k \in Nat : k < n => f[k + 1] = g[k + 1]}
  <2>3. 0 \in Same
    BY <1>1, <1>2, <2>1, <2>2
  <2>4. ASSUME NEW k \in Same
        PROVE  k + 1 \in Same
    <3> SUFFICES ASSUME k + 1 < n
                 PROVE  f[k + 2] = g[k + 2]
      BY DEF Same
    <3>1. f[k + 1] = g[k + 1] /\ k + 1 \in 1 .. n - 1 /\ k + 1 \in 1 .. n /\ k + 2 \in 1 .. n
      BY <2>1 DEF Same
    <3>2. f[(k + 1) + 1] = f[k + 1] \o q[(k + 1) + 1] /\ g[(k + 1) + 1] = g[k + 1] \o p[(k + 1) + 1]
      BY <3>1, <1>2, <2>2
    <3>3. (k + 1) + 1 = k + 2
      BY <3>1
    <3> QED
      BY <3>1, <3>2, <3>3, <1>1
  <2>5. Same = Nat
    <3> HIDE DEF Same
    <3>1. Same \in SUBSET Nat
      BY DEF Same
    <3> QED
      BY <2>3, <2>4, <3>1, AllNaturals
  <2>6. f[n] = g[n]
    <3>1. n - 1 \in Nat /\ n - 1 < n /\ (n - 1) + 1 = n
      BY <2>1
    <3>2. n - 1 < n => f[(n - 1) + 1] = g[(n - 1) + 1]
      BY <2>5, <3>1
    <3> QED
      BY <3>1, <3>2
  <2>7. f[n + 1] = f[n] \o q[n + 1]
    <3>1. n \in 1 .. n
      BY <2>1
    <3> QED
      BY <1>2, <3>1
  <2> QED
    BY <1>1, <1>2, <1>4, <2>2, <2>6, <2>7 DEF q
<1> QED
  BY <1>3, <1>4

\* FlattenSeq of the pieces of two sequences, one after the other.
LEMMA FlattenConcat ==
    ASSUME NEW S, NEW p \in Seq(Seq(S)), NEW q \in Seq(Seq(S))
    PROVE  /\ FlattenSeq(p) \in Seq(S) /\ FlattenSeq(p \o q) = FlattenSeq(p) \o FlattenSeq(q)
           /\ \A x \in Seq(S) : FlattenSeq(<<x>> \o q) = x \o FlattenSeq(q)
<1> DEFINE Good == {n \in Nat : \A r \in Seq(Seq(S)) : Len(r) = n => FlattenSeq(r) \in Seq(S)}
           Joins == {n \in Nat : \A r, t \in Seq(Seq(S)) : Len(t) = n => FlattenSeq(r \o t) = FlattenSeq(r) \o FlattenSeq(t)}
<1>0. ASSUME NEW a \in Seq(S), NEW b \in Seq(S), NEW c \in Seq(S)
      PROVE  (a \o b) \o c = a \o (b \o c)
  BY SMTT(30)
<1>1. ASSUME NEW r \in Seq(Seq(S)), Len(r) # 0
      PROVE  \E front \in Seq(Seq(S)), x \in Seq(S) : r = Append(front, x) /\ Len(front) = Len(r) - 1
  BY <1>1, FrontAndLast, Zenon
<1>2. 0 \in Good
  BY FlattenEmpty
<1>3. ASSUME NEW n \in Good
      PROVE  n + 1 \in Good
  <2> SUFFICES ASSUME NEW r \in Seq(Seq(S)), Len(r) = n + 1
               PROVE  FlattenSeq(r) \in Seq(S)
    OBVIOUS
  <2>0. Len(r) # 0 /\ (n + 1) - 1 = n
    OBVIOUS
  <2>1. PICK front \in Seq(Seq(S)), x \in Seq(S) : r = Append(front, x) /\ Len(front) = Len(r) - 1
    BY <1>1, <2>0, Zenon
  <2>2. FlattenSeq(front) \in Seq(S)
    BY <2>1
  <2>3. FlattenSeq(r) = IF front = <<>> THEN x ELSE FlattenSeq(front) \o x
    BY <2>1, FlattenAppend
  <2> QED
    BY <2>2, <2>3
<1>4. Good = Nat
  <2> HIDE DEF Good
  <2>1. Good \in SUBSET Nat
    BY DEF Good
  <2> QED
    BY <1>2, <1>3, <2>1, AllNaturals
<1>5. ASSUME NEW r \in Seq(Seq(S))
      PROVE  FlattenSeq(r) \in Seq(S)
  <2>1. Len(r) \in Good
    BY <1>4, LenProperties, Zenon
  <2> QED
    BY <2>1
<1>6. ASSUME NEW r \in Seq(Seq(S)), NEW x \in Seq(S)
      PROVE  FlattenSeq(Append(r, x)) = FlattenSeq(r) \o x
  <2>1. FlattenSeq(Append(r, x)) = IF r = <<>> THEN x ELSE FlattenSeq(r) \o x
    BY FlattenAppend
  <2>2. <<>> \o x = x
    BY ConcatEmptySeq
  <2> QED
    BY <2>1, <2>2, FlattenEmpty
<1>7. 0 \in Joins
  <2> SUFFICES ASSUME NEW r \in Seq(Seq(S)), NEW t \in Seq(Seq(S)), Len(t) = 0
               PROVE  FlattenSeq(r \o t) = FlattenSeq(r) \o FlattenSeq(t)
    OBVIOUS
  <2>1. t = <<>> /\ r \o <<>> = r
    BY ConcatEmptySeq
  <2>2. FlattenSeq(r) \o <<>> = FlattenSeq(r)
    BY <1>5, ConcatEmptySeq
  <2> QED
    BY <2>1, <2>2, FlattenEmpty
<1>8. ASSUME NEW n \in Joins
      PROVE  n + 1 \in Joins
  <2> SUFFICES ASSUME NEW r \in Seq(Seq(S)), NEW t \in Seq(Seq(S)), Len(t) = n + 1
               PROVE  FlattenSeq(r \o t) = FlattenSeq(r) \o FlattenSeq(t)
    OBVIOUS
  <2>0. Len(t) # 0 /\ (n + 1) - 1 = n
    OBVIOUS
  <2>1. PICK front \in Seq(Seq(S)), x \in Seq(S) : t = Append(front, x) /\ Len(front) = Len(t) - 1
    BY <1>1, <2>0, Zenon
  <2>2. FlattenSeq(r \o front) = FlattenSeq(r) \o FlattenSeq(front)
    BY <2>1
  <2>3. r \o t = Append(r \o front, x) /\ r \o front \in Seq(Seq(S))
    <3>1. r \o front \in Seq(Seq(S)) /\ <<x>> \in Seq(Seq(S))
      BY ConcatProperties
    <3>2. t = front \o <<x>> /\ Append(r \o front, x) = (r \o front) \o <<x>>
      BY <2>1, <3>1, AppendIsConcat
    <3>3. r \o (front \o <<x>>) = (r \o front) \o <<x>>
      BY <3>1, SMTT(30)
    <3> QED
      BY <3>1, <3>2, <3>3
  <2>4. FlattenSeq(r \o t) = (FlattenSeq(r) \o FlattenSeq(front)) \o x
    BY <1>6, <2>2, <2>3
  <2>5. FlattenSeq(t) = FlattenSeq(front) \o x
    BY <1>6, <2>1
  <2> HIDE DEF Joins, Good
  <2>6. FlattenSeq(r) \in Seq(S) /\ FlattenSeq(front) \in Seq(S)
    BY <1>5
  <2> DEFINE a == FlattenSeq(r)  b == FlattenSeq(front)
  <2>7. a \in Seq(S) /\ b \in Seq(S) /\ x \in Seq(S)
    BY <2>1, <2>6
  <2> HIDE DEF a, b
  <2>8. (a \o b) \o x = a \o (b \o x)
    BY <1>0, <2>7, Zenon
  <2> QED
    BY <2>4, <2>5, <2>8 DEF a, b
<1>9. Joins = Nat
  <2> HIDE DEF Joins
  <2>1. Joins \in SUBSET Nat
    BY DEF Joins
  <2> QED
    BY <1>7, <1>8, <2>1, AllNaturals
<1>10. ASSUME NEW r \in Seq(Seq(S)), NEW t \in Seq(Seq(S))
       PROVE  FlattenSeq(r \o t) = FlattenSeq(r) \o FlattenSeq(t)
  <2>1. Len(t) \in Joins
    BY <1>9, LenProperties, Zenon
  <2> QED
    BY <2>1
<1>11. ASSUME NEW x \in Seq(S)
       PROVE  FlattenSeq(<<x>> \o q) = x \o FlattenSeq(q)
  <2>1. FlattenSeq(<<x>>) = x
    <3>1. <<x>> = Append(<<>>, x) /\ <<>> \in Seq(Seq(S))
      OBVIOUS
    <3> QED
      BY <3>1, FlattenAppend
  <2>2. <<x>> \in Seq(Seq(S))
    OBVIOUS
  <2> QED
    BY <1>10, <2>1, <2>2
<1> QED
  BY <1>5, <1>10, <1>11

-----------------------------------------------------------------------------
(* Cutting. *)

\* A length function takes at least one and at most all of what is left.
Cuts(length) == length \in [Seq(Int) -> Nat] /\ \A t \in Seq(Int) : t # <<>> => length[t] \in 1 .. Len(t)

Rest(t, length) == SubSeq(t, length[t] + 1, Len(t))

\* A cut leaves a shorter sequence, and loses nothing.
LEMMA RestIs ==
    ASSUME NEW S, S \subseteq Int, NEW length, Cuts(length), NEW t \in Seq(S), t # <<>>
    PROVE  /\ t \in Seq(Int) /\ length[t] \in 1 .. Len(t)
           /\ Rest(t, length) \in Seq(S) /\ Len(Rest(t, length)) = Len(t) - length[t]
           /\ SubSeq(t, 1, length[t]) \in Seq(S) /\ Len(SubSeq(t, 1, length[t])) = length[t]
           /\ t = SubSeq(t, 1, length[t]) \o Rest(t, length)
<1>1. t \in Seq(Int)
  BY SeqMonotonic
<1>2. length[t] \in 1 .. Len(t)
  BY <1>1 DEF Cuts
<1> DEFINE n == length[t]
<1>3. n \in 1 .. Len(t) /\ n \in Nat /\ Len(t) \in Nat /\ \A i \in 1 .. Len(t) : t[i] \in S
  BY <1>2
<1> HIDE DEF n
<1>4. /\ SubSeq(t, n + 1, Len(t)) \in Seq(S) /\ Len(SubSeq(t, n + 1, Len(t))) = Len(t) - n
      /\ SubSeq(t, 1, n) \in Seq(S) /\ Len(SubSeq(t, 1, n)) = n
  BY <1>3
<1>5. t = SubSeq(t, 1, n) \o SubSeq(t, n + 1, Len(t))
  BY <1>3, <1>4
<1> QED
  BY <1>1, <1>2, <1>4, <1>5 DEF n, Rest

\* The cutting exists: what is cut from a sequence is determined by what is cut from its rest.
LEMMA PiecesIs ==
    ASSUME NEW length, Cuts(length)
    PROVE  \A t \in Seq(Int) : Pieces(t, length) = IF t = <<>> THEN <<>>
                                 ELSE <<SubSeq(t, 1, length[t])>> \o Pieces(Rest(t, length), length)
<1> DEFINE Body(g, t) == IF t = <<>> THEN <<>> ELSE <<SubSeq(t, 1, length[t])>> \o g[Rest(t, length)]
           Short(k) == {t \in Seq(Int) : Len(t) <= k}
           IsRun(g, k) == g = [t \in Short(k) |-> Body(g, t)]
           Runs == {k \in Nat : \E g : IsRun(g, k)}
           Run(k) == CHOOSE g : IsRun(g, k)
           F == [t \in Seq(Int) |-> Run(Len(t))[t]]
           IsCut(f) == f = [t \in Seq(Int) |-> Body(f, t)]
<1>1. ASSUME NEW t \in Seq(Int), t # <<>>
      PROVE  Rest(t, length) \in Seq(Int) /\ Len(Rest(t, length)) < Len(t) /\ Len(t) \in Nat
  <2>1. Rest(t, length) \in Seq(Int) /\ length[t] \in 1 .. Len(t) /\ Len(Rest(t, length)) = Len(t) - length[t]
    <3>1. Int \subseteq Int
      OBVIOUS
    <3> QED
      BY <1>1, <3>1, RestIs, ZenonT(60)
  <2> QED
    BY <2>1
<1>2. ASSUME NEW g, NEW h, NEW t \in Seq(Int), t # <<>> => g[Rest(t, length)] = h[Rest(t, length)]
      PROVE  Body(g, t) = Body(h, t)
  BY <1>2
<1>3. ASSUME NEW g, NEW k, IsRun(g, k), NEW t \in Short(k)
      PROVE  g[t] = Body(g, t)
  <2> HIDE DEF Body
  <2> QED
    BY <1>3
<1> HIDE DEF Body
<1>4. ASSUME NEW g, NEW h, NEW i \in Nat, NEW j \in Nat, IsRun(g, i), IsRun(h, j),
             NEW t \in Seq(Int), Len(t) <= i, Len(t) <= j
      PROVE  g[t] = h[t]
  <2> DEFINE Bad == {k \in Nat : \E u \in Seq(Int) : Len(u) = k /\ k <= i /\ k <= j /\ g[u] # h[u]}
  <2>1. Bad \subseteq Nat /\ (Len(t) \notin Bad => g[t] = h[t])
    BY <1>4
  <2>2. ASSUME Bad # {}
        PROVE  FALSE
    <3>1. PICK k \in Bad : \A m \in Bad : k <= m
      <4> HIDE DEF Bad
      <4> QED
        BY <2>1, <2>2, LeastNatural, Zenon
    <3>2. PICK u \in Seq(Int) : Len(u) = k /\ k <= i /\ k <= j /\ g[u] # h[u]
      BY <3>1
    <3>3. u \in Short(i) /\ u \in Short(j)
      BY <3>2
    <3>4. g[u] = Body(g, u) /\ h[u] = Body(h, u)
      <4> HIDE DEF IsRun, Short
      <4> QED
        BY <1>3, <1>4, <3>3, Zenon
    <3>5. u # <<>> => g[Rest(u, length)] = h[Rest(u, length)]
      <4> SUFFICES ASSUME u # <<>>
                   PROVE  g[Rest(u, length)] = h[Rest(u, length)]
        OBVIOUS
      <4> DEFINE v == Rest(u, length)
      <4>1. v \in Seq(Int) /\ Len(v) < Len(u) /\ Len(u) \in Nat
        BY <1>1
      <4> HIDE DEF v
      <4>2. Len(v) \in Nat /\ Len(v) <= i /\ Len(v) <= j /\ ~(k <= Len(v))
        BY <3>2, <4>1
      <4>3. Len(v) \notin Bad
        <5> HIDE DEF Bad
        <5> QED
          BY <3>1, <4>2
      <4> QED
        BY <4>1, <4>2, <4>3 DEF v
    <3> QED
      BY <1>2, <3>2, <3>4, <3>5
  <2> QED
    <3> HIDE DEF Bad
    <3> QED
      BY <2>1, <2>2
<1>5. 0 \in Runs
  <2> DEFINE g == [t \in Short(0) |-> <<>>]
  <2>1. ASSUME NEW t \in Short(0)
        PROVE  Body(g, t) = <<>>
    BY DEF Body
  <2>2. IsRun(g, 0)
    BY <2>1
  <2> QED
    BY <2>2
<1>6. ASSUME NEW k \in Runs
      PROVE  k + 1 \in Runs
  <2>1. k \in Nat
    OBVIOUS
  <2>2. PICK g : IsRun(g, k)
    OBVIOUS
  <2> DEFINE h == [t \in Short(k + 1) |-> Body(g, t)]
  <2>3. ASSUME NEW t \in Short(k + 1)
        PROVE  Body(g, t) = Body(h, t)
    <3>1. ASSUME t # <<>>
          PROVE  g[Rest(t, length)] = h[Rest(t, length)]
      <4> DEFINE v == Rest(t, length)
      <4>1. v \in Seq(Int) /\ Len(v) < Len(t) /\ Len(t) \in Nat /\ Len(t) <= k + 1
        BY <1>1, <3>1
      <4> HIDE DEF v
      <4>2. v \in Short(k) /\ v \in Short(k + 1)
        BY <2>1, <4>1
      <4>3. g[v] = Body(g, v)
        <5> HIDE DEF IsRun, Short
        <5> QED
          BY <1>3, <2>2, <4>2, Zenon
      <4>4. h[v] = Body(g, v)
        <5> HIDE DEF Short
        <5> QED
          BY <4>2
      <4> QED
        BY <4>3, <4>4 DEF v
    <3>2. t \in Seq(Int)
      OBVIOUS
    <3> HIDE DEF h
    <3> QED
      BY <1>2, <3>1, <3>2, Zenon
  <2>4. IsRun(h, k + 1)
    <3>1. h = [t \in Short(k + 1) |-> Body(h, t)]
      <4> HIDE DEF Short
      <4> QED
        BY <2>3, Zenon
    <3> QED
      BY <3>1
  <2> HIDE DEF h, IsRun
  <2> QED
    BY <2>1, <2>4
<1>7. Runs = Nat
  <2> HIDE DEF Runs
  <2>1. Runs \in SUBSET Nat
    BY DEF Runs
  <2> QED
    BY <1>5, <1>6, <2>1, AllNaturals
<1>8. ASSUME NEW k \in Nat
      PROVE  IsRun(Run(k), k)
  <2>1. \E g : IsRun(g, k)
    BY <1>7
  <2> HIDE DEF IsRun
  <2> QED
    BY <2>1
<1> HIDE DEF Run, Runs
<1>9. ASSUME NEW t \in Seq(Int)
      PROVE  F[t] = Body(F, t)
  <2>1. Len(t) \in Nat /\ t \in Short(Len(t)) /\ F[t] = Run(Len(t))[t]
    OBVIOUS
  <2>2. F[t] = Body(Run(Len(t)), t)
    <3> HIDE DEF IsRun, Short, F
    <3> QED
      BY <1>3, <1>8, <2>1
  <2>3. ASSUME t # <<>>
        PROVE  Run(Len(t))[Rest(t, length)] = F[Rest(t, length)]
    <3> DEFINE v == Rest(t, length)
    <3>1. v \in Seq(Int) /\ Len(v) < Len(t) /\ Len(t) \in Nat
      BY <1>1, <2>3
    <3> HIDE DEF v
    <3>2. Len(v) \in Nat /\ Len(v) <= Len(t) /\ Len(v) <= Len(v)
      BY <3>1
    <3>3. Run(Len(t))[v] = Run(Len(v))[v]
      <4> HIDE DEF IsRun
      <4> QED
        BY <1>4, <1>8, <3>1, <3>2
    <3>4. F[v] = Run(Len(v))[v]
      BY <3>1
    <3> QED
      BY <3>3, <3>4 DEF v
  <2> HIDE DEF F
  <2> QED
    BY <1>2, <2>2, <2>3, Zenon
<1>10. IsCut(F)
  <2>1. F = [t \in Seq(Int) |-> F[t]]
    OBVIOUS
  <2> HIDE DEF F
  <2> QED
    BY <1>9, <2>1
<1>11. PICK f : IsCut(f) /\ \A t \in Seq(Int) : Pieces(t, length) = f[t]
  <2> DEFINE f == CHOOSE g : IsCut(g)
  <2>1. IsCut(f)
    <3> HIDE DEF IsCut
    <3> QED
      BY <1>10
  <2>2. \A t \in Seq(Int) : Pieces(t, length) = f[t]
    BY DEF Pieces, Body, Rest
  <2> HIDE DEF f, IsCut
  <2> QED
    BY <2>1, <2>2
<1>12. ASSUME NEW t \in Seq(Int)
       PROVE  Pieces(t, length) = Body(f, t)
  BY <1>11
<1>13. ASSUME NEW t \in Seq(Int), t # <<>>
       PROVE  f[Rest(t, length)] = Pieces(Rest(t, length), length)
  BY <1>1, <1>11, <1>13
<1> QED
  BY <1>12, <1>13 DEF Body

\* Nothing is cut into no piece.
LEMMA PiecesEmpty ==
    ASSUME NEW length, Cuts(length)
    PROVE  Pieces(<<>>, length) = <<>>
<1>1. <<>> \in Seq(Int)
  OBVIOUS
<1> QED
  BY <1>1, PiecesIs

\* A piece of the right length at the head is the first one.
LEMMA PiecesOf ==
    ASSUME NEW length, Cuts(length), NEW x \in Seq(Int), NEW t \in Seq(Int), x # <<>>,
           length[x \o t] = Len(x)
    PROVE  Pieces(x \o t, length) = <<x>> \o Pieces(t, length)
<1> DEFINE s == x \o t
<1>1. s \in Seq(Int) /\ s # <<>> /\ Len(x) \in Nat /\ Len(s) = Len(x) + Len(t)
  OBVIOUS
<1>2. SubSeq(s, 1, Len(x)) = x /\ SubSeq(s, Len(x) + 1, Len(s)) = t
  OBVIOUS
<1>3. length[s] = Len(x)
  OBVIOUS
<1> HIDE DEF s
<1>4. Pieces(s, length) = <<SubSeq(s, 1, length[s])>> \o Pieces(Rest(s, length), length)
  BY <1>1, PiecesIs
<1> QED
  BY <1>2, <1>3, <1>4 DEF s, Rest

\* A piece is what is cut off the head of something.
IsCut(x, S, length) == x # <<>> /\ \E t \in Seq(S) : t # <<>> /\ x = SubSeq(t, 1, length[t])

\* Cutting loses nothing.
LEMMA PiecesSound ==
    ASSUME NEW S, S \subseteq Int, NEW length, Cuts(length), NEW s \in Seq(S)
    PROVE  /\ Pieces(s, length) \in Seq(Seq(S)) /\ FlattenSeq(Pieces(s, length)) = s
           /\ \A k \in DOMAIN Pieces(s, length) : IsCut(Pieces(s, length)[k], S, length)
<1> DEFINE Sound(t) == /\ Pieces(t, length) \in Seq(Seq(S)) /\ FlattenSeq(Pieces(t, length)) = t
                       /\ \A k \in DOMAIN Pieces(t, length) : IsCut(Pieces(t, length)[k], S, length)
           Fine == {n \in Nat : \A t \in Seq(S) : Len(t) <= n => Sound(t)}
<1>1. Sound(<<>>)
  <2>1. <<>> \in Seq(Seq(S)) /\ \A k \in DOMAIN <<>> : IsCut(<<>>[k], S, length)
    OBVIOUS
  <2>2. Pieces(<<>>, length) = <<>>
    BY PiecesEmpty, Zenon
  <2> QED
    BY <2>1, <2>2, FlattenEmpty
<1>2. 0 \in Fine
  <2>1. \A t \in Seq(S) : Len(t) <= 0 => t = <<>>
    OBVIOUS
  <2> HIDE DEF Sound
  <2> QED
    BY <1>1, <2>1
<1>3. ASSUME NEW n \in Fine
      PROVE  n + 1 \in Fine
  <2> SUFFICES ASSUME NEW t \in Seq(S), Len(t) <= n + 1, t # <<>>
               PROVE  Sound(t)
    <3> HIDE DEF Sound
    <3> QED
      BY <1>1
  <2> DEFINE x == SubSeq(t, 1, length[t])  rest == Rest(t, length)
  <2>1. /\ t \in Seq(Int) /\ length[t] \in 1 .. Len(t) /\ rest \in Seq(S) /\ Len(rest) = Len(t) - length[t]
        /\ x \in Seq(S) /\ Len(x) = length[t] /\ t = x \o rest
    BY RestIs
  <2>2. Pieces(t, length) = <<x>> \o Pieces(rest, length)
    BY <2>1, PiecesIs
  <2> HIDE DEF x, rest
  <2>3. Len(rest) <= n /\ IsCut(x, S, length)
    <3>1. x # <<>> /\ Len(rest) <= n
      BY <2>1
    <3> QED
      BY <3>1 DEF IsCut, x
  <2>4. Sound(rest)
    <3> HIDE DEF Sound
    <3> QED
      BY <2>1, <2>3
  <2> DEFINE p == Pieces(rest, length)
  <2>5. p \in Seq(Seq(S)) /\ FlattenSeq(p) = rest /\ \A k \in DOMAIN p : IsCut(p[k], S, length)
    BY <2>4
  <2> HIDE DEF p
  <2>6. <<x>> \o p \in Seq(Seq(S))
    BY <2>1, <2>5
  <2>7. FlattenSeq(<<x>> \o p) = x \o FlattenSeq(p)
    BY <2>1, <2>5, FlattenConcat
  <2>8. ASSUME NEW k \in DOMAIN (<<x>> \o p)
        PROVE  IsCut((<<x>> \o p)[k], S, length)
    <3>1. k \in 1 .. 1 + Len(p) /\ Len(p) \in Nat
      BY <2>5
    <3>2. CASE k = 1
      BY <2>3, <3>2
    <3>3. CASE k # 1
      <4>1. k - 1 \in DOMAIN p /\ (<<x>> \o p)[k] = p[k - 1]
        BY <2>5, <3>1, <3>3
      <4> QED
        BY <2>5, <4>1
    <3> QED
      BY <3>2, <3>3
  <2> QED
    BY <2>1, <2>2, <2>5, <2>6, <2>7, <2>8 DEF p
<1>4. Fine = Nat
  <2> HIDE DEF Fine
  <2>1. Fine \in SUBSET Nat
    BY DEF Fine
  <2> QED
    BY <1>2, <1>3, <2>1, AllNaturals
<1>5. Sound(s)
  <2>1. Len(s) \in Fine
    BY <1>4, LenProperties
  <2> HIDE DEF Sound
  <2> QED
    BY <2>1
<1> QED
  BY <1>5

\* Sequences that follow each other so that each is cut from what is left are the pieces.
LEMMA PiecesUnique ==
    ASSUME NEW S, S \subseteq Int, NEW length, Cuts(length), NEW p \in Seq(Seq(S)),
           \A k \in 1 .. Len(p) :
              p[k] # <<>> /\ \A t \in Seq(S) :
                  (IF k = Len(p) THEN t = <<>> ELSE \E r \in Seq(S) : t = p[k + 1] \o r) => length[p[k] \o t] = Len(p[k])
    PROVE  Pieces(FlattenSeq(p), length) = p
<1> DEFINE After(k) == SubSeq(p, Len(p) + 1 - k, Len(p))
           Right == {k \in Nat : k <= Len(p) => Pieces(FlattenSeq(After(k)), length) = After(k)}
<1>0. Len(p) \in Nat
  OBVIOUS
<1>1. 0 \in Right
  <2>1. After(0) = <<>>
    BY <1>0
  <2>2. Pieces(<<>>, length) = <<>>
    BY PiecesEmpty, Zenon
  <2> HIDE DEF After
  <2> QED
    BY <2>1, <2>2, FlattenEmpty
<1>2. ASSUME NEW k \in Right
      PROVE  k + 1 \in Right
  <2> SUFFICES ASSUME k + 1 <= Len(p)
               PROVE  Pieces(FlattenSeq(After(k + 1)), length) = After(k + 1)
    OBVIOUS
  <2> DEFINE j == Len(p) - k  x == p[j]  q == After(k)
  <2>1. k \in Nat /\ Pieces(FlattenSeq(q), length) = q /\ j \in 1 .. Len(p) /\ Len(p) \in Nat
    OBVIOUS
  <2>2. After(k + 1) = <<x>> \o q /\ q \in Seq(Seq(S)) /\ x \in Seq(S)
    <3>1. Len(p) + 1 - (k + 1) = j /\ Len(p) + 1 - k = j + 1
      BY <2>1
    <3>2. SubSeq(p, j, Len(p)) = <<p[j]>> \o SubSeq(p, j + 1, Len(p)) /\ SubSeq(p, j + 1, Len(p)) \in Seq(Seq(S))
      BY <2>1, SMTT(30)
    <3>3. x \in Seq(S)
      BY <2>1
    <3> HIDE DEF j
    <3> QED
      BY <3>1, <3>2, <3>3
  <2>3. FlattenSeq(After(k + 1)) = x \o FlattenSeq(q) /\ FlattenSeq(q) \in Seq(S)
    <3> HIDE DEF x, q
    <3> QED
      BY <2>2, FlattenConcat
  <2>4. j = Len(p) => q = <<>>
    BY <2>1
  <2>5. j # Len(p) => \E r \in Seq(S) : FlattenSeq(q) = p[j + 1] \o r
    <3> SUFFICES ASSUME j # Len(p)
                 PROVE  \E r \in Seq(S) : FlattenSeq(q) = p[j + 1] \o r
      OBVIOUS
    <3>1. q = <<p[j + 1]>> \o SubSeq(p, j + 2, Len(p)) /\ p[j + 1] \in Seq(S) /\ SubSeq(p, j + 2, Len(p)) \in Seq(Seq(S))
      BY <2>1, SMTT(30)
    <3> DEFINE after == SubSeq(p, j + 2, Len(p))  y == p[j + 1]
    <3> HIDE DEF after, y, q
    <3>2. FlattenSeq(q) = y \o FlattenSeq(after) /\ FlattenSeq(after) \in Seq(S)
      BY <3>1, FlattenConcat DEF after, y
    <3> QED
      BY <3>2 DEF y
  <2>6. x # <<>> /\ length[x \o FlattenSeq(q)] = Len(x)
    <3> HIDE DEF q, j
    <3> QED
      BY <2>1, <2>3, <2>4, <2>5, FlattenEmpty
  <2>7. x \in Seq(Int) /\ FlattenSeq(q) \in Seq(Int)
    BY <2>2, <2>3, SeqMonotonic
  <2> HIDE DEF x, q
  <2>8. Pieces(x \o FlattenSeq(q), length) = <<x>> \o Pieces(FlattenSeq(q), length)
    BY <2>6, <2>7, PiecesOf
  <2> QED
    BY <2>1, <2>2, <2>3, <2>8
<1>3. Right = Nat
  <2> HIDE DEF Right
  <2>1. Right \in SUBSET Nat
    BY DEF Right
  <2> QED
    BY <1>1, <1>2, <2>1, AllNaturals
<1>4. Pieces(FlattenSeq(After(Len(p))), length) = After(Len(p))
  <2>1. Len(p) \in Right
    BY <1>0, <1>3
  <2> QED
    BY <1>0, <2>1
<1>5. After(Len(p)) = p
  BY <1>0
<1> QED
  BY <1>4, <1>5

-----------------------------------------------------------------------------
(* UTF-8. *)

Byte == 0..255
Scalar == {c \in Nat : c \div 65536 <= 16 /\ c \notin 55296..57343}

\* The characters of UTF-8 are pieces.
LEMMA CharacterCuts == Cuts(CharLength)
<1>1. ASSUME NEW t \in Seq(Int)
      PROVE  CharLength[t] \in Nat /\ (t # <<>> => CharLength[t] \in 1 .. Len(t))
  <2> DEFINE n == Announced(t[1])
  <2>1. CharLength[t] = IF n \in 1 .. Len(t) /\ IsCharacter(SubSeq(t, 1, n)) THEN n ELSE 1
    BY DEF CharLength
  <2> HIDE DEF n
  <2>2. Len(t) \in Nat /\ (t # <<>> => Len(t) >= 1)
    OBVIOUS
  <2> QED
    BY <2>1, <2>2
<1>2. CharLength = [t \in Seq(Int) |-> CharLength[t]]
  BY DEF CharLength
<1> QED
  BY <1>1, <1>2 DEF Cuts

\* What BytesOf makes of each length of a character.
LEMMA OneByte ==
    ASSUME NEW c \in Scalar, c < 128
    PROVE  /\ BytesOf(c) = <<c>> /\ c \in Byte /\ IsCharacter(<<c>>) /\ CodePoint(<<c>>) = c
  BY SMT DEF BytesOf, Byte, Scalar, IsCharacter, CodePoint, Announced

\* The two bytes of a code point below 2048 are a character, with that code point.
LEMMA TwoBytes ==
    ASSUME NEW c \in Scalar, c >= 128, c < 2048
    PROVE  /\ BytesOf(c) \in Seq(Byte) /\ BytesOf(c) # <<>>
           /\ IsCharacter(BytesOf(c)) /\ CodePoint(BytesOf(c)) = c
<1> DEFINE a == 192 + (c \div 64)  b == 128 + (c % 64)
<1>1. c \in Int
  BY SMT DEF Scalar
<1>2. BytesOf(c) = <<a, b>>
  BY <1>1, SMT DEF BytesOf, Trail
<1>3. a \in 194..223 /\ b \in 128..191 /\ 64 * (a % 32) + (b % 64) = c
  BY <1>1, SMT
<1> HIDE DEF a, b
<1>4. CodePoint(<<a, b>>) = c
  BY <1>3, SMT DEF CodePoint
<1>5. IsCharacter(<<a, b>>)
  BY <1>1, <1>3, <1>4, SMT DEF IsCharacter, Announced, Scalar
<1>6. a \in Byte /\ b \in Byte
  BY <1>3 DEF Byte
<1>7. <<a, b>> \in Seq(Byte) /\ <<a, b>> # <<>>
  BY <1>6
<1> QED
  BY <1>2, <1>4, <1>5, <1>7

\* And the three of one below 65536.
LEMMA ThreeBytes ==
    ASSUME NEW c \in Scalar, c >= 2048, c < 65536
    PROVE  /\ BytesOf(c) \in Seq(Byte) /\ BytesOf(c) # <<>>
           /\ IsCharacter(BytesOf(c)) /\ CodePoint(BytesOf(c)) = c
<1> DEFINE a == 224 + (c \div 4096)  b == 128 + ((c \div 64) % 64)  d == 128 + (c % 64)
<1>1. c \in Int
  BY SMT DEF Scalar
<1>2. BytesOf(c) = <<a, b, d>>
  BY <1>1, SMT DEF BytesOf, Trail
<1>3. a \in 224..239 /\ b \in 128..191 /\ d \in 128..191 /\ 64 * (64 * (a % 16) + (b % 64)) + (d % 64) = c
  BY <1>1, SMT
<1> HIDE DEF a, b, d
<1>4. CodePoint(<<a, b, d>>) = c
  BY <1>3, SMT DEF CodePoint
<1>5. IsCharacter(<<a, b, d>>)
  BY <1>1, <1>3, <1>4, SMT DEF IsCharacter, Announced, Scalar
<1>6. a \in Byte /\ b \in Byte /\ d \in Byte
  BY <1>3 DEF Byte
<1>7. <<a, b, d>> \in Seq(Byte) /\ <<a, b, d>> # <<>>
  BY <1>6
<1> QED
  BY <1>2, <1>4, <1>5, <1>7

\* And the four of one above.
LEMMA FourBytes ==
    ASSUME NEW c \in Scalar, c >= 65536
    PROVE  /\ BytesOf(c) \in Seq(Byte) /\ BytesOf(c) # <<>>
           /\ IsCharacter(BytesOf(c)) /\ CodePoint(BytesOf(c)) = c
<1> DEFINE a == 240 + ((c \div 4096) \div 64)  b == 128 + ((c \div 4096) % 64)  d == 128 + ((c \div 64) % 64)  e == 128 + (c % 64)
<1>1. c \in Int /\ c \div 65536 <= 16
  BY SMT DEF Scalar
<1>2. BytesOf(c) = <<a, b, d, e>>
  BY <1>1, SMT DEF BytesOf, Trail
<1>3. /\ a \in 240..244 /\ b \in 128..191 /\ d \in 128..191 /\ e \in 128..191
      /\ 64 * (64 * (64 * (a % 8) + (b % 64)) + (d % 64)) + (e % 64) = c
  BY <1>1, SMT
<1> HIDE DEF a, b, d, e
<1>4. CodePoint(<<a, b, d, e>>) = c
  BY <1>3, SMT DEF CodePoint
<1>5. IsCharacter(<<a, b, d, e>>)
  BY <1>1, <1>3, <1>4, SMT DEF IsCharacter, Announced, Scalar
<1>6. a \in Byte /\ b \in Byte /\ d \in Byte /\ e \in Byte
  BY <1>3 DEF Byte
<1>7. <<a, b, d, e>> \in Seq(Byte) /\ <<a, b, d, e>> # <<>>
  BY <1>6
<1> QED
  BY <1>2, <1>4, <1>5, <1>7

\* The bytes of every code point are a character, with that code point.
LEMMA BytesIs ==
    ASSUME NEW c \in Scalar
    PROVE  /\ BytesOf(c) \in Seq(Byte) /\ BytesOf(c) # <<>>
           /\ IsCharacter(BytesOf(c)) /\ CodePoint(BytesOf(c)) = c
<1>1. CASE c < 128
  <2>1. BytesOf(c) = <<c>> /\ c \in Byte /\ IsCharacter(<<c>>) /\ CodePoint(<<c>>) = c
    BY <1>1, OneByte
  <2> QED
    BY <2>1
<1>2. CASE c >= 128 /\ c < 2048
  BY <1>2, TwoBytes
<1>3. CASE c >= 2048 /\ c < 65536
  BY <1>3, ThreeBytes
<1>4. CASE c >= 65536
  BY <1>4, FourBytes
<1>5. c \in Int
  BY SMT DEF Scalar
<1> QED
  BY <1>1, <1>2, <1>3, <1>4, <1>5

\* Which lead bytes announce how many.
LEMMA AnnouncedIs ==
    ASSUME NEW b \in Byte
    PROVE  /\ Announced(b) \in 0..4 /\ (Announced(b) = 1 => b \in 0..127) /\ (Announced(b) = 2 => b \in 192..223)
           /\ (Announced(b) = 3 => b \in 224..239) /\ (Announced(b) = 4 => b \in 240..247)
  BY DEF Announced, Byte

\* Six more bits, from a byte that continues a character.
Join(bits, b) == 64 * bits + (b % 64)

\* Both can be had back.
LEMMA JoinIs ==
    ASSUME NEW bits \in Nat, NEW b \in 128..191
    PROVE  Join(bits, b) \in Nat /\ Join(bits, b) \div 64 = bits /\ 128 + (Join(bits, b) % 64) = b
<1> DEFINE r == b - 128  j == 64 * bits + r
<1>1. b % 64 = r /\ r \in 0..63
  BY SMT
<1>2. Join(bits, b) = j
  BY <1>1, Zenon DEF Join
<1> HIDE DEF r
<1>3. j \in Nat /\ j \div 64 = bits /\ j % 64 = r
  BY <1>1, SMT
<1> HIDE DEF j
<1>4. 128 + r = b
  BY SMT DEF r
<1> QED
  BY <1>2, <1>3, <1>4, Zenon

\* Twelve bits less, six by six.
LEMMA TwelveLess ==
    ASSUME NEW c \in Nat, NEW h \in Nat, c \div 64 = h
    PROVE  c \div 4096 = h \div 64
<1>1. c \div 4096 = (c \div 64) \div 64
  BY SMT
<1> QED
  BY <1>1

\* What a character may not be leaves the code points.
LEMMA ScalarIs ==
    ASSUME NEW c \in Nat, c \div 65536 <= 16, c \notin 55296..57343
    PROVE  c \in Scalar
  BY SMT DEF Scalar

\* A character has the bytes of its code point.
LEMMA CharacterIs ==
    ASSUME NEW x \in Seq(Byte), x # <<>>, IsCharacter(x)
    PROVE  CodePoint(x) \in Scalar /\ BytesOf(CodePoint(x)) = x
<1> DEFINE n == Len(x)
<1>0. x[1] \in Byte
  OBVIOUS
<1>1. x[1] \in Byte /\ n \in Nat /\ n >= 1 /\ x = [i \in 1 .. n |-> x[i]]
  OBVIOUS
<1>2. n = Announced(x[1]) /\ \A k \in 2 .. n : x[k] \in 128..191
  BY SMT DEF IsCharacter
<1>3. CodePoint(x) >= <<0, 128, 2048, 65536>>[n]
  BY SMT DEF IsCharacter
<1>10. CodePoint(x) \div 65536 <= 16 /\ CodePoint(x) \notin 55296..57343
  BY SMT DEF IsCharacter
<1>9. /\ (Announced(x[1]) = 1 => x[1] \in 0..127) /\ (Announced(x[1]) = 2 => x[1] \in 192..223)
      /\ (Announced(x[1]) = 3 => x[1] \in 224..239) /\ (Announced(x[1]) = 4 => x[1] \in 240..247)
  BY <1>0, AnnouncedIs
<1> HIDE DEF n
<1>4. n \in 1..4
  BY <1>1, <1>2, AnnouncedIs
<1>5. CASE n = 1
  <2>1. x = <<x[1]>>
    BY <1>1, <1>5
  <2>2. x[1] \in 0..127
    BY <1>2, <1>5, <1>9
  <2>3. CodePoint(x) = x[1]
    BY <1>5 DEF CodePoint, n
  <2> DEFINE c == x[1]
  <2>4. c \in 0..127
    BY <2>2
  <2> HIDE DEF c
  <2>5. BytesOf(c) = <<c>>
    BY <2>4, SMT DEF BytesOf
  <2>6. c \in Scalar
    <3>1. c \in Nat
      BY <2>4
    <3>2. c \div 65536 <= 16 /\ c \notin 55296..57343
      BY <1>10, <2>3 DEF c
    <3> QED
      BY <3>1, <3>2, ScalarIs
  <2> QED
    BY <2>1, <2>3, <2>5, <2>6 DEF c
<1>6. CASE n = 2
  <2> DEFINE a == x[1]  b == x[2]  c == Join(a % 32, b)
  <2>1. x = <<a, b>>
    BY <1>1, <1>6
  <2>2. a \in 192..223 /\ b \in 128..191
    <3>1. x[1] \in 192..223
      BY <1>2, <1>6, <1>9
    <3>2. 2 \in 2 .. n
      BY <1>6
    <3> QED
      BY <1>2, <3>1, <3>2
  <2>3. CodePoint(x) = c
    BY <1>6 DEF CodePoint, Join, n
  <2>4. CodePoint(x) >= 128 /\ CodePoint(x) \div 65536 <= 16 /\ CodePoint(x) \notin 55296..57343
    <3>1. <<0, 128, 2048, 65536>>[n] = 128
      BY <1>6
    <3>2. CodePoint(x) >= 128
      BY <1>3, <3>1
    <3> QED
      BY <1>10, <3>2
  <2> HIDE DEF a, b
  <2>5. a % 32 = a - 192 /\ a % 32 \in 0..31
    BY <2>2, SMT
  <2>6. c \in Nat /\ c \div 64 = a % 32 /\ 128 + (c % 64) = b
    <3>1. a % 32 \in Nat /\ b \in 128..191
      BY <2>2, <2>5
    <3> QED
      BY <3>1, JoinIs, Zenon
  <2> HIDE DEF c
  <2>7. c < 2048
    <3>1. a % 32 <= 31
      BY <2>2, <2>5, SMT
    <3>2. c \in Nat /\ c \div 64 <= 31
      BY <2>6, <3>1, Zenon
    <3> QED
      BY <3>2, SMTT(30)
  <2>8. c >= 128 /\ c \div 65536 <= 16 /\ c \notin 55296..57343
    BY <2>3, <2>4
  <2>9. BytesOf(c) = <<192 + (c \div 64), 128 + (c % 64)>>
    BY <2>6, <2>7, <2>8, SMT DEF BytesOf, Trail
  <2>10. 192 + (c \div 64) = a
    BY <2>2, <2>5, <2>6, SMT
  <2>11. c \in Scalar
    BY <2>6, <2>8, ScalarIs
  <2> QED
    BY <2>1, <2>3, <2>6, <2>9, <2>10, <2>11, ZenonT(60)
<1>7. CASE n = 3
  <2> DEFINE a == x[1]  b == x[2]  d == x[3]  h == Join(a % 16, b)  c == Join(h, d)
  <2>1. x = <<a, b, d>>
    BY <1>1, <1>7
  <2>2. a \in 224..239 /\ b \in 128..191 /\ d \in 128..191
    <3>1. x[1] \in 224..239
      BY <1>2, <1>7, <1>9
    <3>2. 2 \in 2 .. n /\ 3 \in 2 .. n
      BY <1>7
    <3> QED
      BY <1>2, <3>1, <3>2
  <2>3. CodePoint(x) = c
    BY <1>7 DEF CodePoint, Join, n
  <2>4. CodePoint(x) >= 2048 /\ CodePoint(x) \div 65536 <= 16 /\ CodePoint(x) \notin 55296..57343
    <3>1. <<0, 128, 2048, 65536>>[n] = 2048
      BY <1>7
    <3>2. CodePoint(x) >= 2048
      BY <1>3, <3>1
    <3> QED
      BY <1>10, <3>2
  <2> HIDE DEF a, b, d
  <2>5. a % 16 = a - 224 /\ a % 16 \in 0..15
    BY <2>2, SMT
  <2>6. h \in Nat /\ h \div 64 = a % 16 /\ 128 + (h % 64) = b
    <3>1. a % 16 \in Nat /\ b \in 128..191
      BY <2>2, <2>5
    <3> QED
      BY <3>1, JoinIs, Zenon
  <2> HIDE DEF h
  <2>7. c \in Nat /\ c \div 64 = h /\ 128 + (c % 64) = d
    <3>1. h \in Nat /\ d \in 128..191
      BY <2>2, <2>6
    <3> QED
      BY <3>1, JoinIs, Zenon
  <2> HIDE DEF c
  <2>8. h < 1024
    BY <2>5, <2>6, SMT
  <2>9. c < 65536
    BY <2>7, <2>8, SMT
  <2>10. c >= 2048 /\ c \div 65536 <= 16 /\ c \notin 55296..57343
    BY <2>3, <2>4
  <2>11. c \div 4096 = h \div 64
    BY <2>6, <2>7, TwelveLess
  <2>12. BytesOf(c) = <<224 + (c \div 4096), 128 + ((c \div 64) % 64), 128 + (c % 64)>>
    BY <2>7, <2>9, <2>10, SMT DEF BytesOf, Trail
  <2>13. 224 + (c \div 4096) = a
    BY <2>2, <2>5, <2>6, <2>11, SMT
  <2>14. 128 + ((c \div 64) % 64) = b
    BY <2>6, <2>7, Zenon
  <2>15. c \in Scalar
    BY <2>7, <2>10, ScalarIs
  <2> QED
    BY <2>1, <2>3, <2>7, <2>12, <2>13, <2>14, <2>15
<1>8. CASE n = 4
  <2> DEFINE a == x[1]  b == x[2]  d == x[3]  e == x[4]
             g == Join(a % 8, b)  h == Join(g, d)  c == Join(h, e)
  <2>1. x = <<a, b, d, e>>
    BY <1>1, <1>8
  <2>2. a \in 240..247 /\ b \in 128..191 /\ d \in 128..191 /\ e \in 128..191
    <3>1. x[1] \in 240..247
      BY <1>2, <1>8, <1>9
    <3>2. 2 \in 2 .. n /\ 3 \in 2 .. n /\ 4 \in 2 .. n
      BY <1>8
    <3> QED
      BY <1>2, <3>1, <3>2
  <2>3. CodePoint(x) = c
    BY <1>8 DEF CodePoint, Join, n
  <2>4. CodePoint(x) >= 65536 /\ CodePoint(x) \div 65536 <= 16 /\ CodePoint(x) \notin 55296..57343
    <3>1. <<0, 128, 2048, 65536>>[n] = 65536
      BY <1>8
    <3>2. CodePoint(x) >= 65536
      BY <1>3, <3>1
    <3> QED
      BY <1>10, <3>2
  <2> HIDE DEF a, b, d, e
  <2>5. a % 8 = a - 240 /\ a % 8 \in 0..7
    BY <2>2, SMT
  <2>6. g \in Nat /\ g \div 64 = a % 8 /\ 128 + (g % 64) = b
    <3>1. a % 8 \in Nat /\ b \in 128..191
      BY <2>2, <2>5
    <3> QED
      BY <3>1, JoinIs, Zenon
  <2> HIDE DEF g
  <2>7. h \in Nat /\ h \div 64 = g /\ 128 + (h % 64) = d
    <3>1. g \in Nat /\ d \in 128..191
      BY <2>2, <2>6
    <3> QED
      BY <3>1, JoinIs, Zenon
  <2> HIDE DEF h
  <2>8. c \in Nat /\ c \div 64 = h /\ 128 + (c % 64) = e
    <3>1. h \in Nat /\ e \in 128..191
      BY <2>2, <2>7
    <3> QED
      BY <3>1, JoinIs, Zenon
  <2> HIDE DEF c
  <2>9. c >= 65536 /\ c \div 65536 <= 16 /\ c \notin 55296..57343
    BY <2>3, <2>4
  <2>10. c \div 4096 = g
    <3>1. c \div 4096 = h \div 64
      BY <2>7, <2>8, TwelveLess
    <3>2. h \div 64 = g
      BY <2>7, Zenon
    <3> QED
      BY <3>1, <3>2
  <2>11. BytesOf(c) = <<240 + ((c \div 4096) \div 64), 128 + ((c \div 4096) % 64), 128 + ((c \div 64) % 64), 128 + (c % 64)>>
    BY <2>8, <2>9, SMT DEF BytesOf, Trail
  <2>12. 240 + ((c \div 4096) \div 64) = a
    <3>1. 240 + (a % 8) = a
      BY <2>2, <2>5, SMT
    <3>2. (c \div 4096) \div 64 = a % 8
      BY <2>6, <2>10
    <3> QED
      BY <3>1, <3>2
  <2>13. 128 + ((c \div 4096) % 64) = b /\ 128 + ((c \div 64) % 64) = d
    BY <2>6, <2>7, <2>8, <2>10
  <2>14. c \in Scalar
    BY <2>8, <2>9, ScalarIs
  <2> QED
    BY <2>1, <2>3, <2>8, <2>11, <2>12, <2>13, <2>14
<1> QED
  BY <1>4, <1>5, <1>6, <1>7, <1>8

\* A character is cut off whatever comes after it.
LEMMA CharacterFirst ==
    ASSUME NEW x \in Seq(Byte), x # <<>>, IsCharacter(x), NEW t \in Seq(Byte)
    PROVE  CharLength[x \o t] = Len(x)
<1> DEFINE s == x \o t
<1>1. s[1] = x[1] /\ SubSeq(s, 1, Len(x)) = x /\ Len(x) \in 1 .. Len(s) /\ s \in Seq(Byte)
  OBVIOUS
<1>4. s \in Seq(Int)
  <2>1. Byte \subseteq Int
    BY DEF Byte
  <2> HIDE DEF s
  <2> QED
    BY <1>1, <2>1, SeqMonotonic
<1>2. Len(x) = Announced(x[1])
  BY SMT DEF IsCharacter
<1> HIDE DEF s
<1>3. CharLength[s] = IF Announced(s[1]) \in 1 .. Len(s) /\ IsCharacter(SubSeq(s, 1, Announced(s[1])))
                      THEN Announced(s[1]) ELSE 1
  BY <1>4 DEF CharLength
<1> QED
  BY <1>1, <1>2, <1>3 DEF s

CharactersOf(cps) == [i \in DOMAIN cps |-> BytesOf(cps[i])]

\* A text is encoded character by character.
LEMMA EncodedIs ==
    ASSUME NEW cps \in Seq(Scalar)
    PROVE  /\ CharactersOf(cps) \in Seq(Seq(Byte)) /\ Len(CharactersOf(cps)) = Len(cps)
           /\ EncodeUtf8(cps) = FlattenSeq(CharactersOf(cps)) /\ EncodeUtf8(cps) \in Seq(Byte)
<1>1. \A i \in 1 .. Len(cps) : BytesOf(cps[i]) \in Seq(Byte)
  BY BytesIs
<1>2. CharactersOf(cps) \in Seq(Seq(Byte)) /\ Len(CharactersOf(cps)) = Len(cps)
  BY <1>1 DEF CharactersOf
<1>3. EncodeUtf8(cps) = FlattenSeq(CharactersOf(cps))
  BY DEF EncodeUtf8, CharactersOf
<1> QED
  BY <1>2, <1>3, FlattenConcat

\* The encoded characters are found again.
LEMMA CharactersAreFound ==
    ASSUME NEW cps \in Seq(Scalar)
    PROVE  Characters(EncodeUtf8(cps)) = CharactersOf(cps)
<1> DEFINE p == CharactersOf(cps)
<1>1. p \in Seq(Seq(Byte)) /\ Len(p) = Len(cps) /\ EncodeUtf8(cps) = FlattenSeq(p)
  BY EncodedIs
<1>2. \A k \in 1 .. Len(p) : p[k] \in Seq(Byte) /\ p[k] # <<>> /\ IsCharacter(p[k])
  <2> SUFFICES ASSUME NEW k \in 1 .. Len(p)
               PROVE  p[k] \in Seq(Byte) /\ p[k] # <<>> /\ IsCharacter(p[k])
    OBVIOUS
  <2>1. cps[k] \in Scalar /\ p[k] = BytesOf(cps[k])
    BY <1>1 DEF CharactersOf
  <2> QED
    BY <2>1, BytesIs
<1> HIDE DEF p
<1>3. ASSUME NEW k \in 1 .. Len(p), NEW t \in Seq(Byte)
      PROVE  CharLength[p[k] \o t] = Len(p[k])
  BY <1>2, CharacterFirst
<1>4. Byte \subseteq Int
  BY DEF Byte
<1>5. Pieces(FlattenSeq(p), CharLength) = p
  <2>1. \A k \in 1 .. Len(p) :
           p[k] # <<>> /\ \A t \in Seq(Byte) :
               (IF k = Len(p) THEN t = <<>> ELSE \E r \in Seq(Byte) : t = p[k + 1] \o r)
                  => CharLength[p[k] \o t] = Len(p[k])
    BY <1>2, <1>3
  <2> QED
    BY <1>1, <1>4, <2>1, CharacterCuts, PiecesUnique, Zenon
<1> QED
  BY <1>1, <1>5 DEF Characters, p

\* The decoder undoes the encoder, which writes only valid UTF-8.
LEMMA Utf8Decodes ==
    ASSUME NEW cps \in Seq(Scalar)
    PROVE  DecodeUtf8(EncodeUtf8(cps)) = cps /\ IsValidUtf8(EncodeUtf8(cps))
<1> DEFINE p == CharactersOf(cps)  s == EncodeUtf8(cps)
<1>1. Characters(s) = p
  BY CharactersAreFound
<1>2. DOMAIN p = 1 .. Len(cps)
  BY DEF CharactersOf
<1>3. ASSUME NEW k \in 1 .. Len(cps)
      PROVE  IsCharacter(p[k]) /\ CodePoint(p[k]) = cps[k]
  <2>1. cps[k] \in Scalar /\ p[k] = BytesOf(cps[k])
    BY DEF CharactersOf
  <2> QED
    BY <2>1, BytesIs
<1> HIDE DEF p, s
<1>4. IsValidUtf8(s)
  BY <1>1, <1>2, <1>3 DEF IsValidUtf8
<1>5. DecodeUtf8(s) = [k \in 1 .. Len(cps) |-> cps[k]]
  BY <1>1, <1>2, <1>3 DEF DecodeUtf8
<1>6. cps = [k \in 1 .. Len(cps) |-> cps[k]]
  OBVIOUS
<1> QED
  BY <1>4, <1>5, <1>6 DEF s

\* The encoder undoes the decoder on valid UTF-8.
LEMMA Utf8Encodes ==
    ASSUME NEW s \in Seq(Byte), IsValidUtf8(s)
    PROVE  DecodeUtf8(s) \in Seq(Scalar) /\ EncodeUtf8(DecodeUtf8(s)) = s
<1> DEFINE p == Characters(s)  cps == DecodeUtf8(s)
<1>1. p \in Seq(Seq(Byte)) /\ FlattenSeq(p) = s /\ \A k \in DOMAIN p : p[k] # <<>>
  <2>1. Byte \subseteq Int
    BY DEF Byte
  <2>2. /\ p \in Seq(Seq(Byte)) /\ FlattenSeq(p) = s
        /\ \A k \in DOMAIN p : IsCut(p[k], Byte, CharLength)
    BY <2>1, CharacterCuts, PiecesSound, Zenon DEF Characters
  <2> HIDE DEF p
  <2>3. ASSUME NEW k \in DOMAIN p PROVE p[k] # <<>>
    BY <2>2, Zenon DEF IsCut
  <2> QED
    BY <2>2, <2>3
<1>2. ASSUME NEW k \in DOMAIN p
      PROVE  /\ cps[k] = CodePoint(p[k]) /\ cps[k] \in Scalar /\ BytesOf(cps[k]) = p[k]
  <2>1. IsCharacter(p[k])
    BY DEF IsValidUtf8
  <2>2. cps[k] = CodePoint(p[k])
    BY <2>1 DEF DecodeUtf8
  <2>3. p[k] \in Seq(Byte) /\ p[k] # <<>>
    BY <1>1
  <2> HIDE DEF cps, p
  <2> QED
    BY <2>1, <2>2, <2>3, CharacterIs
<1>3. DOMAIN cps = DOMAIN p
  BY DEF DecodeUtf8
<1> HIDE DEF p
<1>4. cps \in Seq(Scalar)
  <2>1. Len(p) \in Nat /\ DOMAIN p = 1 .. Len(p)
    BY <1>1
  <2>2. cps = [k \in 1 .. Len(p) |-> cps[k]]
    BY <2>1 DEF DecodeUtf8, p
  <2>3. \A k \in 1 .. Len(p) : cps[k] \in Scalar
    BY <1>2, <2>1
  <2> HIDE DEF cps
  <2> QED
    BY <2>1, <2>2, <2>3
<1>5. CharactersOf(cps) = p
  <2>1. p = [k \in DOMAIN p |-> p[k]]
    BY <1>1
  <2> HIDE DEF cps
  <2> QED
    BY <1>2, <1>3, <2>1 DEF CharactersOf
<1> HIDE DEF cps
<1>6. EncodeUtf8(cps) = s
  BY <1>1, <1>4, <1>5, EncodedIs
<1> QED
  BY <1>4, <1>6 DEF cps

-----------------------------------------------------------------------------
(* UTF-16. *)

Unit == {u \in Nat : u < 65536}

\* Units and pairs of surrogates are pieces.
LEMMA PairCuts == Cuts(PairLength)
<1>1. ASSUME NEW t \in Seq(Int)
      PROVE  PairLength[t] \in Nat /\ (t # <<>> => PairLength[t] \in 1 .. Len(t))
  <2>1. PairLength[t] \in 1..2 /\ (PairLength[t] = 2 => Len(t) > 1)
    BY DEF PairLength
  <2>2. Len(t) \in Nat /\ (t # <<>> => Len(t) >= 1)
    OBVIOUS
  <2> HIDE DEF PairLength
  <2> QED
    BY <2>1, <2>2
<1>2. PairLength = [t \in Seq(Int) |-> PairLength[t]]
  BY DEF PairLength
<1> QED
  BY <1>1, <1>2 DEF Cuts

\* What the first one and the first two of a sequence are.
LEMMA FirstOnes ==
    ASSUME NEW S, NEW t \in Seq(S), Len(t) >= 1
    PROVE  /\ t[1] \in S /\ SubSeq(t, 1, 1) = <<t[1]>>
           /\ Len(t) > 1 => t[2] \in S /\ SubSeq(t, 1, 2) = <<t[1], t[2]>>
<1>1. t[1] \in S /\ SubSeq(t, 1, 1) = <<t[1]>>
  <2>1. t[1] \in S /\ SubSeq(t, 1, 1) \in Seq(S) /\ Len(SubSeq(t, 1, 1)) = 1 /\ SubSeq(t, 1, 1)[1] = t[1]
    BY SubSeqProperties
  <2> DEFINE x == SubSeq(t, 1, 1)
  <2>2. x = [i \in 1 .. 1 |-> x[i]] /\ x[1] = t[1]
    BY <2>1
  <2> HIDE DEF x
  <2>3. x = <<t[1]>>
    BY <2>2
  <2> QED
    BY <2>1, <2>3 DEF x
<1>2. ASSUME Len(t) > 1
      PROVE  t[2] \in S /\ SubSeq(t, 1, 2) = <<t[1], t[2]>>
  <2> DEFINE x == SubSeq(t, 1, 2)
  <2>1. t[2] \in S /\ x \in Seq(S) /\ Len(x) = 2 /\ x[1] = t[1] /\ x[2] = t[2]
    BY <1>2, SubSeqProperties
  <2> HIDE DEF x
  <2>2. x = [i \in 1 .. 2 |-> x[i]]
    BY <2>1
  <2>3. x = <<t[1], t[2]>>
    BY <2>1, <2>2
  <2> QED
    BY <2>1, <2>3 DEF x
<1> QED
  BY <1>1, <1>2

\* A unit that is not a surrogate, or a pair of them.
IsProper(x) == \/ \E a \in Unit : x = <<a>> /\ ~High(a) /\ ~Low(a)
               \/ \E a, b \in Unit : x = <<a, b>> /\ High(a) /\ Low(b)

\* What a proper unit or pair starts with.
LEMMA ProperIs ==
    ASSUME NEW x, IsProper(x)
    PROVE  /\ x \in Seq(Unit) /\ x # <<>> /\ Len(x) \in 1..2 /\ ~Low(x[1]) /\ (Len(x) = 1 => ~High(x[1]))
           /\ (Len(x) = 2 => High(x[1]) /\ Low(x[2]))
<1>1. CASE \E a \in Unit : x = <<a>> /\ ~High(a) /\ ~Low(a)
  <2>1. PICK a \in Unit : x = <<a>> /\ ~High(a) /\ ~Low(a)
    BY <1>1
  <2>2. <<a>> \in Seq(Unit) /\ <<a>> # <<>> /\ Len(<<a>>) = 1 /\ <<a>>[1] = a
    BY <2>1
  <2> QED
    BY <2>1, <2>2
<1>2. CASE \E a, b \in Unit : x = <<a, b>> /\ High(a) /\ Low(b)
  <2>1. PICK a, b \in Unit : x = <<a, b>> /\ High(a) /\ Low(b)
    BY <1>2
  <2>2. <<a, b>> \in Seq(Unit) /\ <<a, b>> # <<>> /\ Len(<<a, b>>) = 2 /\ <<a, b>>[1] = a /\ <<a, b>>[2] = b
    BY <2>1
  <2>3. ~Low(a)
    BY <2>1, SMT DEF High, Low, Unit
  <2> QED
    BY <2>1, <2>2, <2>3
<1> QED
  BY <1>1, <1>2 DEF IsProper

\* The units of every code point are a proper unit or pair, with that code point.
LEMMA UnitsAre ==
    ASSUME NEW c \in Scalar
    PROVE  IsProper(UnitsOf(c)) /\ CodePoint16(UnitsOf(c)) = c
<1>1. c \in Nat /\ c \div 65536 <= 16 /\ c \notin 55296..57343
  BY SMT DEF Scalar
<1>2. CASE c < 65536
  <2>1. UnitsOf(c) = <<c>> /\ c \in Unit /\ ~High(c) /\ ~Low(c)
    BY <1>1, <1>2, SMT DEF UnitsOf, Unit, High, Low
  <2>2. CodePoint16(<<c>>) = c
    BY <1>1, <2>1, SMT DEF CodePoint16, IsWhole
  <2> QED
    BY <2>1, <2>2 DEF IsProper
<1>3. CASE c >= 65536
  <2> DEFINE h == (c - 65536) \div 1024  l == (c - 65536) % 1024  a == 55296 + h  b == 56320 + l
  <2>1. UnitsOf(c) = <<a, b>>
    BY <1>1, <1>3, SMT DEF UnitsOf
  <2>2. h \in 0..1023 /\ l \in 0..1023 /\ 65536 + 1024 * h + l = c
    BY <1>1, <1>3, SMT
  <2> HIDE DEF h, l
  <2>3. a \in Unit /\ High(a) /\ a - 55296 = h
    BY <2>2, SMT DEF Unit, High
  <2>5. b \in Unit /\ Low(b) /\ b - 56320 = l
    BY <2>2, SMT DEF Unit, Low
  <2> HIDE DEF a, b
  <2>4. CodePoint16(<<a, b>>) = c
    BY <2>2, <2>3, <2>5, SMT DEF CodePoint16
  <2> QED
    BY <2>1, <2>3, <2>4, <2>5 DEF IsProper
<1> QED
  BY <1>1, <1>2, <1>3

\* What is cut off UTF-16: a whole character is a proper one, and has the units of its code point.
LEMMA PairIs ==
    ASSUME NEW x, IsCut(x, Unit, PairLength)
    PROVE  /\ x \in Seq(Unit) /\ CodePoint16(x) \in Scalar
           /\ IsWhole(x) => UnitsOf(CodePoint16(x)) = x
<1>1. PICK t \in Seq(Unit) : t # <<>> /\ x = SubSeq(t, 1, PairLength[t])
  BY DEF IsCut
<1>2. t \in Seq(Int)
  <2>1. Unit \subseteq Int
    BY SMT DEF Unit
  <2> QED
    BY <2>1, <1>1, SeqMonotonic
<1>3. PairLength[t] = IF Len(t) > 1 /\ High(t[1]) /\ Low(t[2]) THEN 2 ELSE 1
  BY <1>2 DEF PairLength
<1>4. Len(t) \in Nat /\ Len(t) >= 1 /\ t[1] \in Unit
  BY <1>1
<1>5. CASE Len(t) > 1 /\ High(t[1]) /\ Low(t[2])
  <2> DEFINE a == t[1]  b == t[2]  h == a - 55296  l == b - 56320  c == 65536 + 1024 * h + l
  <2>1. x = <<a, b>> /\ a \in Unit /\ b \in Unit
    <3>1. Len(t) > 1 /\ x = SubSeq(t, 1, 2)
      BY <1>1, <1>3, <1>5
    <3>2. t[1] \in Unit /\ t[2] \in Unit /\ SubSeq(t, 1, 2) = <<t[1], t[2]>>
      BY <1>1, <1>4, <3>1, FirstOnes
    <3> QED
      BY <3>1, <3>2
  <2>2. High(a) /\ Low(b)
    BY <1>5
  <2> HIDE DEF a, b
  <2>3. h \in 0..1023 /\ 55296 + h = a
    BY <2>2, SMT DEF High
  <2>9. l \in 0..1023 /\ 56320 + l = b
    BY <2>2, SMT DEF Low
  <2>4. CodePoint16(<<a, b>>) = c
    BY SMT DEF CodePoint16
  <2> HIDE DEF h, l
  <2>5. c \in Nat /\ c >= 65536 /\ c \div 65536 <= 16 /\ (c - 65536) \div 1024 = h /\ (c - 65536) % 1024 = l
    BY <2>3, <2>9, SMT
  <2> HIDE DEF c
  <2>6. UnitsOf(c) = <<a, b>>
    BY <2>3, <2>5, <2>9, SMT DEF UnitsOf
  <2>7. c \in Scalar
    BY <2>5, SMTT(30) DEF Scalar
  <2>8. <<a, b>> \in Seq(Unit)
    BY <2>1
  <2> QED
    BY <2>1, <2>4, <2>6, <2>7, <2>8
<1>6. CASE ~(Len(t) > 1 /\ High(t[1]) /\ Low(t[2]))
  <2> DEFINE a == t[1]
  <2>1. x = <<a>> /\ a \in Unit
    <3>1. x = SubSeq(t, 1, 1)
      BY <1>1, <1>3, <1>6
    <3> QED
      BY <1>1, <1>4, <3>1, FirstOnes
  <2> HIDE DEF a
  <2>6. a \in Nat /\ a < 65536
    BY <2>1, SMT DEF Unit
  <2>2. CodePoint16(<<a>>) = IF ~(High(a) \/ Low(a)) THEN a ELSE Replacement
    BY SMT DEF CodePoint16, IsWhole
  <2>3. IsWhole(<<a>>) => ~(High(a) \/ Low(a))
    BY SMT DEF IsWhole
  <2>7. UnitsOf(a) = <<a>>
    BY <2>6, SMT DEF UnitsOf
  <2>4. ~(High(a) \/ Low(a)) => a \in Scalar
    BY <2>6, SMT DEF High, Low, Scalar
  <2>8. Replacement \in Scalar
    BY SMT DEF Scalar, Replacement
  <2>5. <<a>> \in Seq(Unit)
    BY <2>1
  <2> QED
    BY <2>1, <2>2, <2>3, <2>4, <2>5, <2>7, <2>8
<1> QED
  BY <1>5, <1>6

\* The units of the code points of whole characters are the ones they were read from.
LEMMA Utf16Encodes ==
    ASSUME NEW u \in Seq(Unit)
    PROVE  /\ DecodeUtf16(u) \in Seq(Scalar)
           /\ (\A k \in DOMAIN Pairs(u) : IsWhole(Pairs(u)[k])) => EncodeUtf16(DecodeUtf16(u)) = u
<1> DEFINE p == Pairs(u)  cps == DecodeUtf16(u)
<1>1. p \in Seq(Seq(Unit)) /\ FlattenSeq(p) = u /\ \A k \in DOMAIN p : IsCut(p[k], Unit, PairLength)
  <2>1. Unit \subseteq Int
    BY SMT DEF Unit
  <2> QED
    BY <2>1, PairCuts, PiecesSound DEF Pairs
<1>2. cps = [k \in DOMAIN p |-> CodePoint16(p[k])]
  BY DEF DecodeUtf16
<1> HIDE DEF p, cps
<1>3. Len(p) \in Nat /\ DOMAIN p = 1 .. Len(p)
  BY <1>1
<1>4. \A k \in DOMAIN p : cps[k] \in Scalar /\ (IsWhole(p[k]) => UnitsOf(cps[k]) = p[k])
  BY <1>1, <1>2, PairIs
<1>5. DOMAIN cps = DOMAIN p /\ cps = [k \in 1 .. Len(p) |-> cps[k]]
  BY <1>2, <1>3
<1>6. cps \in Seq(Scalar)
  BY <1>3, <1>4, <1>5
<1>7. ASSUME \A k \in DOMAIN p : IsWhole(p[k])
      PROVE  EncodeUtf16(cps) = u
  <2>1. [k \in DOMAIN cps |-> UnitsOf(cps[k])] = p
    <3>1. p = [k \in DOMAIN p |-> p[k]]
      BY <1>1
    <3>2. \A k \in DOMAIN p : UnitsOf(cps[k]) = p[k]
      BY <1>4, <1>7
    <3> QED
      BY <1>5, <3>1, <3>2
  <2> QED
    BY <1>1, <2>1 DEF EncodeUtf16
<1> QED
  BY <1>6, <1>7 DEF cps, p

\* A proper character is cut off whatever comes after it.
LEMMA ProperFirst ==
    ASSUME NEW x, IsProper(x), NEW t \in Seq(Unit)
    PROVE  PairLength[x \o t] = Len(x)
<1> DEFINE s == x \o t
<1>1. /\ x \in Seq(Unit) /\ x # <<>> /\ Len(x) \in 1..2 /\ (Len(x) = 1 => ~High(x[1]))
      /\ (Len(x) = 2 => High(x[1]) /\ Low(x[2]))
  BY ProperIs
<1>2. s \in Seq(Unit) /\ s[1] = x[1] /\ (Len(x) = 2 => s[2] = x[2] /\ Len(s) > 1)
  BY <1>1
<1>3. s \in Seq(Int)
  <2>1. Unit \subseteq Int
    BY SMT DEF Unit
  <2> HIDE DEF s
  <2> QED
    BY <1>2, <2>1, SeqMonotonic
<1> HIDE DEF s
<1>4. PairLength[s] = IF Len(s) > 1 /\ High(s[1]) /\ Low(s[2]) THEN 2 ELSE 1
  BY <1>3 DEF PairLength
<1>5. PairLength[s] = Len(x)
  <2>1. CASE Len(x) = 1
    BY <1>1, <1>2, <1>4, <2>1
  <2>2. CASE Len(x) = 2
    BY <1>1, <1>2, <1>4, <2>2
  <2>3. Len(x) = 1 \/ Len(x) = 2
    BY <1>1
  <2> QED
    BY <2>1, <2>2, <2>3
<1> QED
  BY <1>5 DEF s

\* The decoder undoes the encoder.
LEMMA Utf16Decodes ==
    ASSUME NEW cps \in Seq(Scalar)
    PROVE  EncodeUtf16(cps) \in Seq(Unit) /\ DecodeUtf16(EncodeUtf16(cps)) = cps
<1> DEFINE p == [i \in DOMAIN cps |-> UnitsOf(cps[i])]
<1>1. Len(cps) \in Nat /\ DOMAIN cps = 1 .. Len(cps) /\ DOMAIN p = 1 .. Len(cps)
  OBVIOUS
<1>2. \A k \in 1 .. Len(cps) : IsProper(p[k]) /\ CodePoint16(p[k]) = cps[k]
  BY UnitsAre
<1>3. EncodeUtf16(cps) = FlattenSeq(p)
  BY DEF EncodeUtf16
<1>4. p = [i \in 1 .. Len(cps) |-> p[i]]
  OBVIOUS
<1> HIDE DEF p
<1>5. \A k \in 1 .. Len(cps) : p[k] \in Seq(Unit) /\ p[k] # <<>>
  BY <1>2, ProperIs
<1>6. p \in Seq(Seq(Unit)) /\ Len(p) = Len(cps)
  BY <1>1, <1>4, <1>5
<1>7. Unit \subseteq Int
  BY SMT DEF Unit
<1>8. Pieces(FlattenSeq(p), PairLength) = p
  <2>1. \A k \in 1 .. Len(p) :
           p[k] # <<>> /\ \A t \in Seq(Unit) :
               (IF k = Len(p) THEN t = <<>> ELSE \E r \in Seq(Unit) : t = p[k + 1] \o r)
                  => PairLength[p[k] \o t] = Len(p[k])
    BY <1>2, <1>5, <1>6, ProperFirst
  <2> QED
    BY <1>6, <1>7, <2>1, PairCuts, PiecesUnique, Zenon
<1>9. DecodeUtf16(FlattenSeq(p)) = [k \in 1 .. Len(cps) |-> CodePoint16(p[k])]
  BY <1>1, <1>8 DEF DecodeUtf16, Pairs
<1>10. [k \in 1 .. Len(cps) |-> CodePoint16(p[k])] = [k \in 1 .. Len(cps) |-> cps[k]]
  BY <1>2
<1>11. cps = [k \in 1 .. Len(cps) |-> cps[k]]
  OBVIOUS
<1>12. FlattenSeq(p) \in Seq(Unit)
  BY <1>6, FlattenConcat
<1> QED
  BY <1>3, <1>9, <1>10, <1>11, <1>12

\* What two more members at the end change.
LEMMA TwoMore ==
    ASSUME NEW S, NEW f \in Seq(S), NEW x \in Seq(S), Len(x) = 2, NEW m \in Nat, Len(f) = m
    PROVE  /\ f \o x \in Seq(S) /\ Len(f \o x) = m + 2
           /\ \A i \in 1 .. m : (f \o x)[i] = f[i]
           /\ (f \o x)[m + 1] = x[1] /\ (f \o x)[m + 2] = x[2]
<1> DEFINE g == f \o x
<1>1. /\ g \in Seq(S) /\ Len(g) = Len(f) + Len(x)
      /\ \A i \in 1 .. Len(f) + Len(x) : g[i] = IF i <= Len(f) THEN f[i] ELSE x[i - Len(f)]
  BY ConcatProperties
<1> HIDE DEF g
<1>2. /\ Len(g) = m + 2
      /\ \A i \in 1 .. m + 2 : g[i] = IF i <= m THEN f[i] ELSE x[i - m]
  BY <1>1
<1>3. (m + 1) - m = 1 /\ (m + 2) - m = 2 /\ m + 1 \in 1 .. m + 2 /\ m + 2 \in 1 .. m + 2
  OBVIOUS
<1>4. g[m + 1] = x[1] /\ g[m + 2] = x[2]
  BY <1>2, <1>3
<1>5. \A i \in 1 .. m : g[i] = f[i]
  BY <1>2
<1> QED
  BY <1>1, <1>2, <1>4, <1>5 DEF g

\* Pieces of two, one after the other.
LEMMA FlattenPairs ==
    ASSUME NEW S, NEW p \in Seq(Seq(S)), \A k \in 1 .. Len(p) : Len(p[k]) = 2
    PROVE  /\ FlattenSeq(p) \in Seq(S) /\ Len(FlattenSeq(p)) = 2 * Len(p)
           /\ \A k \in 1 .. Len(p) : FlattenSeq(p)[2 * k - 1] = p[k][1] /\ FlattenSeq(p)[2 * k] = p[k][2]
<1> DEFINE Twos(q) == \A k \in 1 .. Len(q) : Len(q[k]) = 2
           Fine(q) == /\ FlattenSeq(q) \in Seq(S) /\ Len(FlattenSeq(q)) = 2 * Len(q)
                      /\ \A k \in 1 .. Len(q) : FlattenSeq(q)[2 * k - 1] = q[k][1] /\ FlattenSeq(q)[2 * k] = q[k][2]
           Good == {n \in Nat : \A q \in Seq(Seq(S)) : Len(q) = n /\ Twos(q) => Fine(q)}
<1>1. 0 \in Good
  <2> SUFFICES ASSUME NEW q \in Seq(Seq(S)), Len(q) = 0
               PROVE  Fine(q)
    OBVIOUS
  <2>1. q = <<>>
    OBVIOUS
  <2>2. FlattenSeq(q) = <<>> /\ <<>> \in Seq(S) /\ Len(<<>>) = 0
    BY <2>1, FlattenEmpty
  <2>3. FlattenSeq(q) \in Seq(S)
    BY <2>2
  <2>4. Len(FlattenSeq(q)) = 2 * Len(q)
    BY <2>2
  <2>5. 1 .. Len(q) = {}
    OBVIOUS
  <2> QED
    BY <2>3, <2>4, <2>5
<1>2. ASSUME NEW n \in Good
      PROVE  n + 1 \in Good
  <2> SUFFICES ASSUME NEW q \in Seq(Seq(S)), Len(q) = n + 1, Twos(q)
               PROVE  Fine(q)
    OBVIOUS
  <2>0. Len(q) # 0 /\ (n + 1) - 1 = n /\ n \in Nat
    OBVIOUS
  <2>1. PICK front \in Seq(Seq(S)), x \in Seq(S) : q = Append(front, x) /\ Len(front) = Len(q) - 1
    BY <2>0, FrontAndLast, Zenon
  <2>2. Len(front) = n /\ (\A k \in 1 .. n : q[k] = front[k]) /\ q[n + 1] = x
    BY <2>0, <2>1
  <2>3. Twos(front) /\ Len(x) = 2
    BY <2>0, <2>2
  <2>4. Fine(front)
    <3> HIDE DEF Fine, Twos
    <3> QED
      BY <2>2, <2>3
  <2> DEFINE f == FlattenSeq(front)  g == FlattenSeq(q)
  <2>5. g = f \o x /\ f \in Seq(S)
    <3>1. g = IF front = <<>> THEN x ELSE f \o x
      BY <2>1, FlattenAppend
    <3>2. <<>> \o x = x
      BY ConcatEmptySeq
    <3> QED
      BY <2>4, <3>1, <3>2, FlattenEmpty
  <2>6. /\ Len(f) = 2 * n
        /\ \A k \in 1 .. n : f[2 * k - 1] = front[k][1] /\ f[2 * k] = front[k][2]
    BY <2>2, <2>4
  <2> HIDE DEF f, g, Fine, Twos, Good
  <2>7. g \in Seq(S) /\ Len(g) = 2 * n + 2 /\ (\A i \in 1 .. 2 * n : g[i] = f[i]) /\ g[2 * n + 1] = x[1] /\ g[2 * n + 2] = x[2]
    <3> DEFINE m == 2 * n
    <3>1. m \in Nat /\ Len(f) = m
      BY <2>0, <2>6
    <3> HIDE DEF m
    <3>2. g \in Seq(S) /\ Len(g) = m + 2 /\ (\A i \in 1 .. m : g[i] = f[i]) /\ g[m + 1] = x[1] /\ g[m + 2] = x[2]
      <4>1. x \in Seq(S) /\ Len(x) = 2
        BY <2>1, <2>3
      <4>2. f \in Seq(S) /\ m \in Nat /\ Len(f) = m
        BY <2>5, <3>1
      <4>3. /\ f \o x \in Seq(S) /\ Len(f \o x) = m + 2
            /\ \A i \in 1 .. m : (f \o x)[i] = f[i]
            /\ (f \o x)[m + 1] = x[1] /\ (f \o x)[m + 2] = x[2]
        BY <4>1, <4>2, TwoMore, SMTT(30)
      <4>4. g = f \o x
        BY <2>5
      <4> QED
        BY <4>3, <4>4
    <3> QED
      BY <3>2 DEF m
  <2>8. ASSUME NEW k \in 1 .. n + 1
        PROVE  g[2 * k - 1] = q[k][1] /\ g[2 * k] = q[k][2]
    <3>1. CASE k \in 1 .. n
      <4>1. 2 * k - 1 \in 1 .. 2 * n /\ 2 * k \in 1 .. 2 * n
        BY <2>0, <3>1
      <4> QED
        BY <2>2, <2>6, <2>7, <3>1, <4>1
    <3>2. CASE k = n + 1
      <4>1. 2 * k - 1 = 2 * n + 1 /\ 2 * k = 2 * n + 2
        BY <2>0, <3>2
      <4> QED
        BY <2>2, <2>7, <3>2, <4>1
    <3> QED
      BY <2>0, <3>1, <3>2
  <2>9. Len(g) = 2 * Len(q)
    BY <2>0, <2>7
  <2> QED
    BY <2>0, <2>7, <2>8, <2>9 DEF g, Fine
<1>3. Good = Nat
  <2> HIDE DEF Good
  <2>1. Good \in SUBSET Nat
    BY DEF Good
  <2> QED
    BY <1>1, <1>2, <2>1, AllNaturals
<1>4. Fine(p)
  <2>1. Len(p) \in Good /\ Twos(p)
    BY <1>3, LenProperties
  <2> HIDE DEF Fine, Twos
  <2> QED
    BY <2>1
<1> QED
  BY <1>4

UnitOf(a, b, encoding) == IF encoding = "Utf16LE" THEN a + 256 * b ELSE 256 * a + b

\* Two bytes make a unit that has those bytes, in both orders.
LEMMA UnitIs ==
    ASSUME NEW a \in Byte, NEW b \in Byte, NEW encoding
    PROVE  UnitOf(a, b, encoding) \in Unit /\ UnitBytes(UnitOf(a, b, encoding), encoding) = <<a, b>>
<1> DEFINE u == UnitOf(a, b, encoding)
<1>0. u = IF encoding = "Utf16LE" THEN a + 256 * b ELSE 256 * a + b
  BY DEF UnitOf
<1> HIDE DEF u
<1>1. a \in 0..255 /\ b \in 0..255
  BY DEF Byte
<1>2. ASSUME encoding = "Utf16LE"
      PROVE  u \in Unit /\ UnitBytes(u, encoding) = <<a, b>>
  <2>1. u = a + 256 * b
    BY <1>0, <1>2
  <2>2. u \in Nat /\ u < 65536 /\ u % 256 = a /\ u \div 256 = b
    BY <1>1, <2>1, SMT
  <2> QED
    BY <1>2, <2>2, SMT DEF Unit, UnitBytes
<1>3. ASSUME encoding # "Utf16LE"
      PROVE  u \in Unit /\ UnitBytes(u, encoding) = <<a, b>>
  <2>1. u = 256 * a + b
    BY <1>0, <1>3
  <2>2. u \in Nat /\ u < 65536 /\ u % 256 = b /\ u \div 256 = a
    BY <1>1, <2>1, SMT
  <2> QED
    BY <1>3, <2>2, SMT DEF Unit, UnitBytes
<1> QED
  BY <1>2, <1>3 DEF u

\* A unit has two bytes that make it, in both orders.
LEMMA BytesAreUnit ==
    ASSUME NEW u \in Unit, NEW encoding
    PROVE  \E a, b \in Byte : UnitBytes(u, encoding) = <<a, b>> /\ u = UnitOf(a, b, encoding)
<1> DEFINE h == u \div 256  l == u % 256
<1>1. u \in Nat /\ u < 65536
  BY SMT DEF Unit
<1>2. h \in 0..255 /\ l \in 0..255 /\ u = l + 256 * h /\ u = 256 * h + l
  BY <1>1, SMT
<1>3. h \in Byte /\ l \in Byte
  BY <1>2 DEF Byte
<1>4. UnitBytes(u, encoding) = IF encoding = "Utf16LE" THEN <<l, h>> ELSE <<h, l>>
  BY DEF UnitBytes
<1> HIDE DEF h, l
<1> QED
  BY <1>2, <1>3, <1>4 DEF UnitOf

BytesOfUnits(u, encoding) == FlattenSeq([k \in DOMAIN u |-> UnitBytes(u[k], encoding)])

\* The bytes of the units of an even number of bytes are those bytes.
LEMMA UnitsBack ==
    ASSUME NEW b \in Seq(Byte), NEW encoding
    PROVE  /\ Units(b, encoding) \in Seq(Unit)
           /\ Len(b) % 2 = 0 => BytesOfUnits(Units(b, encoding), encoding) = b
<1> DEFINE u == Units(b, encoding)  n == Len(b) \div 2
           p == [k \in DOMAIN u |-> UnitBytes(u[k], encoding)]
<1>1. n \in Nat /\ Len(b) \in Nat /\ (Len(b) % 2 = 0 => Len(b) = 2 * n) /\ 2 * n <= Len(b)
  OBVIOUS
<1>2. u = [k \in 1 .. n |-> UnitOf(b[2 * k - 1], b[2 * k], encoding)]
  BY DEF Units, UnitOf
<1> HIDE DEF n, u
<1>3. ASSUME NEW k \in 1 .. n
      PROVE  /\ b[2 * k - 1] \in Byte /\ b[2 * k] \in Byte
             /\ u[k] \in Unit /\ UnitBytes(u[k], encoding) = <<b[2 * k - 1], b[2 * k]>>
  <2>1. 2 * k - 1 \in 1 .. Len(b) /\ 2 * k \in 1 .. Len(b)
    BY <1>1
  <2>2. b[2 * k - 1] \in Byte /\ b[2 * k] \in Byte
    BY <2>1
  <2>3. u[k] = UnitOf(b[2 * k - 1], b[2 * k], encoding)
    BY <1>2
  <2> QED
    BY <2>2, <2>3, UnitIs
<1>4. u \in Seq(Unit) /\ Len(u) = n /\ DOMAIN u = 1 .. n
  <2>1. DOMAIN u = 1 .. n /\ u = [k \in 1 .. n |-> u[k]]
    BY <1>2
  <2>2. \A k \in 1 .. n : u[k] \in Unit
    BY <1>3
  <2> QED
    BY <1>1, <2>1, <2>2
<1>5. p \in Seq(Seq(Byte)) /\ Len(p) = n /\ \A k \in 1 .. n : Len(p[k]) = 2 /\ p[k][1] = b[2 * k - 1] /\ p[k][2] = b[2 * k]
  <2>1. DOMAIN p = 1 .. n /\ p = [k \in 1 .. n |-> p[k]] /\ \A k \in 1 .. n : p[k] = UnitBytes(u[k], encoding)
    BY <1>4
  <2> HIDE DEF p
  <2>2. ASSUME NEW k \in 1 .. n
        PROVE  p[k] \in Seq(Byte) /\ Len(p[k]) = 2 /\ p[k][1] = b[2 * k - 1] /\ p[k][2] = b[2 * k]
    <3> DEFINE x == b[2 * k - 1]  y == b[2 * k]
    <3>1. p[k] = <<x, y>> /\ x \in Byte /\ y \in Byte
      BY <1>3, <2>1
    <3> HIDE DEF x, y
    <3>2. <<x, y>> \in Seq(Byte) /\ Len(<<x, y>>) = 2 /\ <<x, y>>[1] = x /\ <<x, y>>[2] = y
      BY <3>1
    <3> QED
      BY <3>1, <3>2 DEF x, y
  <2>3. p \in Seq(Seq(Byte)) /\ Len(p) = n
    <3>1. DOMAIN p = 1 .. n /\ p = [k \in 1 .. n |-> p[k]]
      BY <2>1
    <3>2. \A k \in 1 .. n : p[k] \in Seq(Byte)
      BY <2>2
    <3>3. n \in Nat
      BY <1>1
    <3> QED
      BY <3>1, <3>2, <3>3
  <2> QED
    BY <2>2, <2>3
<1> HIDE DEF p
<1>6. ASSUME Len(b) % 2 = 0
      PROVE  FlattenSeq(p) = b
  <2> DEFINE f == FlattenSeq(p)
  <2>1. /\ f \in Seq(Byte) /\ Len(f) = 2 * n
        /\ \A k \in 1 .. n : f[2 * k - 1] = b[2 * k - 1] /\ f[2 * k] = b[2 * k]
    BY <1>5, FlattenPairs
  <2> HIDE DEF f
  <2>2. ASSUME NEW i \in 1 .. 2 * n
        PROVE  f[i] = b[i]
    <3>1. \E k \in 1 .. n : i = 2 * k - 1 \/ i = 2 * k
      <4>1. CASE i % 2 = 0
        <5>1. i \div 2 \in 1 .. n /\ i = 2 * (i \div 2)
          BY <1>1, <4>1
        <5> QED
          BY <5>1
      <4>2. CASE i % 2 = 1
        <5>1. (i + 1) \div 2 \in 1 .. n /\ i = 2 * ((i + 1) \div 2) - 1
          BY <1>1, <4>2
        <5> QED
          BY <5>1
      <4>3. i % 2 = 0 \/ i % 2 = 1
        BY <1>1
      <4> QED
        BY <4>1, <4>2, <4>3
    <3> QED
      BY <2>1, <3>1
  <2>3. Len(b) = Len(f)
    BY <1>1, <1>6, <2>1
  <2>4. f = b
    BY <1>1, <2>1, <2>2, <2>3, SeqEqual
  <2> QED
    BY <2>4 DEF f
<1> QED
  BY <1>4, <1>6 DEF BytesOfUnits, p, u

\* The units of the bytes of units are those units.
LEMMA UnitsForth ==
    ASSUME NEW u \in Seq(Unit), NEW encoding
    PROVE  /\ BytesOfUnits(u, encoding) \in Seq(Byte) /\ Len(BytesOfUnits(u, encoding)) = 2 * Len(u)
           /\ Units(BytesOfUnits(u, encoding), encoding) = u
<1> DEFINE n == Len(u)  p == [k \in DOMAIN u |-> UnitBytes(u[k], encoding)]
           Value(a, b) == UnitOf(a, b, encoding)
<1>1. n \in Nat /\ DOMAIN u = 1 .. n /\ u = [k \in 1 .. n |-> u[k]] /\ \A k \in 1 .. n : u[k] \in Unit
  OBVIOUS
<1>2. DOMAIN p = 1 .. n /\ p = [k \in 1 .. n |-> p[k]] /\ \A k \in 1 .. n : p[k] = UnitBytes(u[k], encoding)
  BY <1>1
<1> HIDE DEF p, n
<1>3. ASSUME NEW k \in 1 .. n
      PROVE  p[k] \in Seq(Byte) /\ Len(p[k]) = 2 /\ u[k] = Value(p[k][1], p[k][2])
  <2>1. u[k] \in Unit /\ p[k] = UnitBytes(u[k], encoding)
    BY <1>1, <1>2
  <2>2. PICK a, b \in Byte : UnitBytes(u[k], encoding) = <<a, b>> /\ u[k] = Value(a, b)
    BY <2>1, BytesAreUnit
  <2> HIDE DEF Value
  <2>3. p[k] = <<a, b>> /\ <<a, b>> \in Seq(Byte) /\ Len(<<a, b>>) = 2 /\ <<a, b>>[1] = a /\ <<a, b>>[2] = b
    BY <2>1, <2>2
  <2> QED
    BY <2>2, <2>3
<1>4. p \in Seq(Seq(Byte)) /\ Len(p) = n
  BY <1>1, <1>2, <1>3
<1> DEFINE f == FlattenSeq(p)
<1>5. /\ f \in Seq(Byte) /\ Len(f) = 2 * n
      /\ \A k \in 1 .. n : f[2 * k - 1] = p[k][1] /\ f[2 * k] = p[k][2]
  BY <1>3, <1>4, FlattenPairs
<1> HIDE DEF f
<1>6. Units(f, encoding) = u
  <2>1. Len(f) \div 2 = n
    BY <1>1, <1>5
  <2>2. Units(f, encoding) = [k \in 1 .. n |-> Value(f[2 * k - 1], f[2 * k])]
    BY <2>1 DEF Units, UnitOf
  <2>3. \A k \in 1 .. n : Value(f[2 * k - 1], f[2 * k]) = u[k]
    BY <1>3, <1>5
  <2> HIDE DEF Value
  <2> QED
    BY <1>1, <2>2, <2>3
<1> QED
  BY <1>5, <1>6 DEF BytesOfUnits, f, p, n

-----------------------------------------------------------------------------
(* Windows-1252. *)

\* No two bytes have the same character.
LEMMA AnsiIsInjective ==
    /\ \A b \in Byte : FromAnsi(b) \in Scalar
    /\ \A b, c \in Byte : FromAnsi(b) = FromAnsi(c) => b = c
<1>1. ASSUME NEW k \in 1..32
      PROVE  /\ Windows1252[k] \in Nat /\ Windows1252[k] < 55296
             /\ Windows1252[k] < 256 => Windows1252[k] = k + 127
  <2>1. \A j \in 1..32 : Windows1252[j] \in Nat /\ Windows1252[j] < 55296
    BY SMT DEF Windows1252
  <2>2. \A j \in 1..32 : Windows1252[j] < 256 => Windows1252[j] = j + 127
    BY SMT DEF Windows1252
  <2> QED
    BY <2>1, <2>2
<1>2. \A j, k \in 1..32 : Windows1252[j] = Windows1252[k] => j = k
  BY SMT DEF Windows1252
<1>3. ASSUME NEW b \in Byte
      PROVE  /\ b \in 128..159 => FromAnsi(b) = Windows1252[b - 127] /\ b - 127 \in 1..32
             /\ b \notin 128..159 => FromAnsi(b) = b
  BY SMT DEF FromAnsi, Byte
<1>4. ASSUME NEW b \in Byte
      PROVE  FromAnsi(b) \in Scalar
  <2> DEFINE c == FromAnsi(b)
  <2>1. c \in Nat /\ c < 55296
    <3>1. CASE b \in 128..159
      BY <1>1, <1>3, <3>1
    <3>2. CASE b \notin 128..159
      BY <1>3, <3>2 DEF Byte
    <3> QED
      BY <3>1, <3>2
  <2> HIDE DEF c
  <2>2. c \notin 55296..57343
    BY <2>1, SMTT(30)
  <2>3. c \div 65536 <= 16
    BY <2>1, SMTT(30)
  <2>4. c \in Scalar
    BY <2>1, <2>2, <2>3, ScalarIs
  <2> QED
    BY <2>4 DEF c
<1>5. ASSUME NEW b \in Byte, NEW c \in Byte, FromAnsi(b) = FromAnsi(c)
      PROVE  b = c
  <2>1. CASE b \in 128..159 /\ c \in 128..159
    BY <1>2, <1>3, <1>5, <2>1
  <2>2. CASE b \in 128..159 /\ c \notin 128..159
    <3>1. FromAnsi(b) = Windows1252[b - 127] /\ b - 127 \in 1..32 /\ FromAnsi(c) = c
      BY <1>3, <2>2
    <3>4. c < 256
      BY DEF Byte
    <3>2. c < 256 /\ c = Windows1252[b - 127]
      BY <1>5, <3>1, <3>4
    <3>3. c = (b - 127) + 127
      BY <1>1, <3>1, <3>2
    <3> QED
      BY <1>5, <2>2, <3>1, <3>3
  <2>3. CASE b \notin 128..159 /\ c \in 128..159
    <3>1. FromAnsi(c) = Windows1252[c - 127] /\ c - 127 \in 1..32 /\ FromAnsi(b) = b
      BY <1>3, <2>3
    <3>2. b < 256 /\ b = Windows1252[c - 127]
      BY <1>5, <3>1 DEF Byte
    <3>3. b = (c - 127) + 127
      BY <1>1, <3>1, <3>2
    <3> QED
      BY <1>5, <2>3, <3>1, <3>3
  <2>4. CASE b \notin 128..159 /\ c \notin 128..159
    BY <1>3, <1>5, <2>4
  <2> QED
    BY <2>1, <2>2, <2>3, <2>4
<1> QED
  BY <1>4, <1>5

\* Every byte survives the way to UTF-8 and back.
LEMMA AnsiComesBack ==
    ASSUME NEW s \in Seq(Byte)
    PROVE  /\ AnsiToUtf8(s) \in Seq(Byte) /\ UnicodeToAnsi(DecodeUtf8(AnsiToUtf8(s))) = s
           /\ CanEncodeLosslessly(AnsiToUtf8(s), "Ansi") /\ IsValidUtf8(AnsiToUtf8(s))
<1> DEFINE cps == [i \in DOMAIN s |-> FromAnsi(s[i])]
<1>1. Len(s) \in Nat /\ DOMAIN s = 1 .. Len(s) /\ s = [i \in 1 .. Len(s) |-> s[i]] /\ \A i \in 1 .. Len(s) : s[i] \in Byte
  OBVIOUS
<1>2. cps = [i \in 1 .. Len(s) |-> cps[i]] /\ DOMAIN cps = 1 .. Len(s) /\ \A i \in 1 .. Len(s) : cps[i] = FromAnsi(s[i])
  BY <1>1
<1>3. AnsiToUtf8(s) = EncodeUtf8(cps)
  BY DEF AnsiToUtf8
<1> HIDE DEF cps
<1>4. cps \in Seq(Scalar)
  <2>1. \A i \in 1 .. Len(s) : cps[i] \in Scalar
    BY <1>1, <1>2, AnsiIsInjective
  <2> QED
    BY <1>1, <1>2, <2>1
<1>5. ASSUME NEW b \in Byte
      PROVE  ToAnsi(FromAnsi(b)) = b
  <2>1. Byte = 0..255
    BY DEF Byte
  <2>2. ToAnsi(FromAnsi(b)) = CHOOSE c \in Byte : FromAnsi(c) = FromAnsi(b)
    BY <2>1 DEF ToAnsi, HasAnsi
  <2> QED
    BY <2>2, AnsiIsInjective
<1>6. UnicodeToAnsi(cps) = s
  <2>1. UnicodeToAnsi(cps) = [i \in 1 .. Len(s) |-> ToAnsi(cps[i])]
    BY <1>2 DEF UnicodeToAnsi
  <2>2. \A i \in 1 .. Len(s) : ToAnsi(cps[i]) = s[i]
    BY <1>1, <1>2, <1>5
  <2> QED
    BY <1>1, <2>1, <2>2
<1>7. \A i \in DOMAIN cps : HasAnsi(cps[i])
  <2>1. \A b \in Byte : HasAnsi(FromAnsi(b))
    BY DEF HasAnsi, Byte
  <2> QED
    BY <1>1, <1>2, <2>1
<1>8. AnsiToUtf8(s) \in Seq(Byte) /\ DecodeUtf8(AnsiToUtf8(s)) = cps /\ IsValidUtf8(AnsiToUtf8(s))
  BY <1>3, <1>4, EncodedIs, Utf8Decodes
<1> QED
  BY <1>6, <1>7, <1>8 DEF CanEncodeLosslessly

-----------------------------------------------------------------------------
(* Line endings. *)

\* Line breaks and the bytes between them are pieces.
LEMMA BreakCuts == Cuts(BreakLength)
<1>1. ASSUME NEW t \in Seq(Int)
      PROVE  BreakLength[t] \in Nat /\ (t # <<>> => BreakLength[t] \in 1 .. Len(t))
  <2>1. BreakLength[t] \in 1..2 /\ (BreakLength[t] = 2 => Len(t) > 1)
    BY DEF BreakLength
  <2>2. Len(t) \in Nat /\ (t # <<>> => Len(t) >= 1)
    OBVIOUS
  <2> HIDE DEF BreakLength
  <2> QED
    BY <2>1, <2>2
<1>2. BreakLength = [t \in Seq(Int) |-> BreakLength[t]]
  BY DEF BreakLength
<1> QED
  BY <1>1, <1>2 DEF Cuts

\* What a sign that a text was cut into can be: both characters of a break, or any one byte.
LEMMA SignIs ==
    ASSUME NEW x, IsCut(x, Byte, BreakLength)
    PROVE  x \in Seq(Byte) /\ (x = <<CR, LF>> \/ \E b \in Byte : x = <<b>>)
<1>1. PICK t \in Seq(Byte) : t # <<>> /\ x = SubSeq(t, 1, BreakLength[t])
  BY DEF IsCut
<1>2. t \in Seq(Int)
  <2>1. Byte \subseteq Int
    BY DEF Byte
  <2> QED
    BY <2>1, <1>1, SeqMonotonic
<1>3. BreakLength[t] = IF Len(t) > 1 /\ t[1] = CR /\ t[2] = LF THEN 2 ELSE 1
  BY <1>2 DEF BreakLength
<1>4. Len(t) \in Nat /\ Len(t) >= 1
  BY <1>1
<1>5. CASE Len(t) > 1 /\ t[1] = CR /\ t[2] = LF
  <2>1. x = SubSeq(t, 1, 2)
    BY <1>1, <1>3, <1>5
  <2>2. t[1] \in Byte /\ t[2] \in Byte /\ x = <<t[1], t[2]>>
    BY <1>1, <1>4, <1>5, <2>1, FirstOnes
  <2> QED
    BY <1>5, <2>2
<1>6. CASE ~(Len(t) > 1 /\ t[1] = CR /\ t[2] = LF)
  <2>1. x = SubSeq(t, 1, 1)
    BY <1>1, <1>3, <1>6
  <2>2. t[1] \in Byte /\ x = <<t[1]>>
    BY <1>1, <1>4, <2>1, FirstOnes
  <2> QED
    BY <2>2
<1> QED
  BY <1>5, <1>6

\* The three line endings, each of which is a break.
LEMMA EolIs ==
    /\ DOMAIN Eol = {"CRLF", "LF", "CR"}
    /\ Eol["CRLF"] = <<CR, LF>> /\ Eol["LF"] = <<LF>> /\ Eol["CR"] = <<CR>>
    /\ \A kind \in DOMAIN Eol : Eol[kind] \in Seq(Byte) /\ Eol[kind] # <<>> /\ IsBreak(Eol[kind])
<1>1. /\ DOMAIN Eol = {"CRLF", "LF", "CR"}
      /\ Eol["CRLF"] = <<CR, LF>> /\ Eol["LF"] = <<LF>> /\ Eol["CR"] = <<CR>>
  BY DEF Eol
<1>2. CR \in Byte /\ LF \in Byte
  BY DEF CR, LF, Byte
<1>3. /\ <<CR, LF>> \in Seq(Byte) /\ <<CR, LF>> # <<>> /\ IsBreak(<<CR, LF>>)
      /\ <<LF>> \in Seq(Byte) /\ <<LF>> # <<>> /\ IsBreak(<<LF>>)
      /\ <<CR>> \in Seq(Byte) /\ <<CR>> # <<>> /\ IsBreak(<<CR>>)
  BY <1>2 DEF IsBreak
<1> QED
  BY <1>1, <1>3

\* A sign of a normalised text: the one kind of break, or a byte that is no part of a break.
IsNormal(x, kind) == x = Eol[kind] \/ \E b \in Byte : x = <<b>> /\ b \notin {CR, LF}

\* What a sign of a normalised text starts with.
LEMMA NormalIs ==
    ASSUME NEW kind \in DOMAIN Eol, NEW x, IsNormal(x, kind)
    PROVE  x \in Seq(Byte) /\ x # <<>> /\ (Eol[kind] = <<CR>> => x[1] # LF)
<1>1. CASE x = Eol[kind]
  <2>1. x \in Seq(Byte) /\ x # <<>>
    BY <1>1, EolIs
  <2>2. CR # LF /\ <<CR>>[1] = CR
    BY DEF CR, LF
  <2> QED
    BY <1>1, <2>1, <2>2
<1>2. CASE \E b \in Byte : x = <<b>> /\ b \notin {CR, LF}
  <2>1. PICK b \in Byte : x = <<b>> /\ b \notin {CR, LF}
    BY <1>2
  <2>2. <<b>> \in Seq(Byte) /\ <<b>> # <<>> /\ <<b>>[1] = b
    BY <2>1
  <2> QED
    BY <2>1, <2>2
<1> QED
  BY <1>1, <1>2 DEF IsNormal

\* It is cut off before another one.
LEMMA NormalFirst ==
    ASSUME NEW kind \in DOMAIN Eol, NEW x, IsNormal(x, kind), NEW t \in Seq(Byte),
           t = <<>> \/ \E y, r \in Seq(Byte) : IsNormal(y, kind) /\ t = y \o r
    PROVE  /\ x \in Seq(Byte) /\ x # <<>> /\ BreakLength[x \o t] = Len(x)
<1>1. x \in Seq(Byte) /\ x # <<>>
  BY NormalIs
<1> DEFINE s == x \o t
<1>2. /\ s \in Seq(Byte) /\ s[1] = x[1] /\ Len(x) \in Nat /\ Len(x) >= 1
      /\ (Len(x) > 1 => s[2] = x[2] /\ Len(s) > 1) /\ (Len(x) = 1 /\ Len(s) > 1 => s[2] = t[1] /\ t # <<>>)
  BY <1>1
<1>3. s \in Seq(Int)
  <2>1. Byte \subseteq Int
    BY DEF Byte
  <2> HIDE DEF s
  <2> QED
    BY <1>2, <2>1, SeqMonotonic
<1> HIDE DEF s
<1>4. BreakLength[s] = IF Len(s) > 1 /\ s[1] = CR /\ s[2] = LF THEN 2 ELSE 1
  BY <1>3 DEF BreakLength
<1>5. CR # LF
  BY DEF CR, LF
<1>6. CASE x = <<CR, LF>>
  <2>1. Len(x) = 2 /\ x[1] = CR /\ x[2] = LF
    BY <1>6
  <2> QED
    BY <1>1, <1>2, <1>4, <2>1 DEF s
<1>7. CASE \E b \in Byte : x = <<b>> /\ b # CR
  <2>1. Len(x) = 1 /\ x[1] # CR
    BY <1>7
  <2> QED
    BY <1>1, <1>2, <1>4, <2>1 DEF s
<1>8. CASE x = <<CR>>
  <2>1. Len(x) = 1 /\ x[1] = CR
    BY <1>8
  <2>2. Eol[kind] = <<CR>>
    <3>1. \A b \in Byte : x = <<b>> => b = CR
      BY <2>1
    <3>2. x = Eol[kind]
      BY <3>1 DEF IsNormal
    <3> QED
      BY <3>2, <1>8
  <2>3. t # <<>> => t[1] # LF
    <3> SUFFICES ASSUME t # <<>>
                 PROVE  t[1] # LF
      OBVIOUS
    <3>1. PICK y, r \in Seq(Byte) : IsNormal(y, kind) /\ t = y \o r
      OBVIOUS
    <3>2. y # <<>> /\ y[1] # LF
      BY <2>2, <3>1, NormalIs
    <3>3. t[1] = y[1]
      BY <3>1, <3>2
    <3> QED
      BY <3>2, <3>3
  <2> QED
    BY <1>1, <1>2, <1>4, <2>1, <2>3 DEF s
<1>9. x = <<CR, LF>> \/ (\E b \in Byte : x = <<b>> /\ b # CR) \/ x = <<CR>>
  <2>1. CASE x = Eol[kind]
    <3>1. LF \in Byte
      BY DEF LF, Byte
    <3> QED
      BY <1>5, <2>1, <3>1, EolIs
  <2>2. CASE \E b \in Byte : x = <<b>> /\ b \notin {CR, LF}
    BY <2>2
  <2> QED
    BY <2>1, <2>2 DEF IsNormal
<1> QED
  BY <1>6, <1>7, <1>8, <1>9

\* Normalising replaces signs, and the next reader cuts the text into the signs it wrote.
LEMMA NormalizedIs ==
    ASSUME NEW s \in Seq(Byte), NEW kind \in DOMAIN Eol
    PROVE  /\ Signs(s) \in Seq(Seq(Byte)) /\ FlattenSeq(Signs(s)) = s
           /\ NormalizeLineEndings(s, kind) \in Seq(Byte)
           /\ Signs(NormalizeLineEndings(s, kind)) = Normalized(Signs(s), kind)
<1> DEFINE p == Signs(s)  q == Normalized(p, kind)
<1>0. Byte \subseteq Int
  BY DEF Byte
<1>1. p \in Seq(Seq(Byte)) /\ FlattenSeq(p) = s /\ \A k \in DOMAIN p : IsCut(p[k], Byte, BreakLength)
  BY <1>0, BreakCuts, PiecesSound DEF Signs
<1> HIDE DEF p
<1>2. Len(p) \in Nat /\ DOMAIN p = 1 .. Len(p)
  BY <1>1
<1>3. DOMAIN q = 1 .. Len(p) /\ q = [k \in 1 .. Len(p) |-> q[k]]
  BY <1>2 DEF Normalized
<1>4. ASSUME NEW k \in 1 .. Len(p)
      PROVE  IsNormal(q[k], kind)
  <2>1. q[k] = IF IsBreak(p[k]) THEN Eol[kind] ELSE p[k]
    BY <1>2 DEF Normalized
  <2>2. p[k] = <<CR, LF>> \/ \E b \in Byte : p[k] = <<b>>
    BY <1>1, <1>2, SignIs
  <2>3. ASSUME ~IsBreak(p[k])
        PROVE  \E b \in Byte : p[k] = <<b>> /\ b \notin {CR, LF}
    BY <2>2, <2>3 DEF IsBreak
  <2> QED
    BY <2>1, <2>3 DEF IsNormal
<1> HIDE DEF q
<1>5. \A k \in 1 .. Len(p) : q[k] \in Seq(Byte) /\ q[k] # <<>>
  BY <1>4, NormalIs
<1>6. q \in Seq(Seq(Byte)) /\ Len(q) = Len(p)
  BY <1>2, <1>3, <1>5
<1>7. FlattenSeq(q) \in Seq(Byte)
  BY <1>6, FlattenConcat
<1>8. ASSUME NEW k \in 1 .. Len(q), NEW t \in Seq(Byte),
             IF k = Len(q) THEN t = <<>> ELSE \E r \in Seq(Byte) : t = q[k + 1] \o r
      PROVE  BreakLength[q[k] \o t] = Len(q[k])
  <2>1. ASSUME k # Len(q)
        PROVE  \E y, r \in Seq(Byte) : IsNormal(y, kind) /\ t = y \o r
    <3>1. k + 1 \in 1 .. Len(p)
      <4>1. Len(q) = Len(p) /\ Len(p) \in Nat
        BY <1>2, <1>6
      <4> QED
        BY <2>1, <4>1
    <3> QED
      BY <1>4, <1>5, <1>8, <2>1, <3>1
  <2>2. t = <<>> \/ \E y, r \in Seq(Byte) : IsNormal(y, kind) /\ t = y \o r
    BY <1>8, <2>1
  <2>3. IsNormal(q[k], kind)
    BY <1>4, <1>6
  <2> QED
    BY <2>2, <2>3, NormalFirst
<1>9. Pieces(FlattenSeq(q), BreakLength) = q
  <2>1. \A k \in 1 .. Len(q) :
           q[k] # <<>> /\ \A t \in Seq(Byte) :
               (IF k = Len(q) THEN t = <<>> ELSE \E r \in Seq(Byte) : t = q[k + 1] \o r)
                  => BreakLength[q[k] \o t] = Len(q[k])
    BY <1>5, <1>6, <1>8
  <2> QED
    BY <1>0, <1>6, <2>1, BreakCuts, PiecesUnique, Zenon
<1>10. NormalizeLineEndings(s, kind) = FlattenSeq(q)
  BY DEF NormalizeLineEndings, p, q
<1> QED
  BY <1>1, <1>7, <1>9, <1>10 DEF Signs, p, q

\* A text whose breaks are of one kind has the kind that is detected.
LEMMA UniformIsKept ==
    ASSUME NEW s \in Seq(Byte), Uniform(s)
    PROVE  NormalizeLineEndings(s, DetectLineEnding(s)) = s
<1> DEFINE p == Signs(s)  breaks == {k \in DOMAIN p : IsBreak(p[k])}
<1>1. PICK kind \in DOMAIN Eol : NormalizeLineEndings(s, kind) = s
  BY DEF Uniform
<1>2. p \in Seq(Seq(Byte)) /\ FlattenSeq(p) = s
  BY <1>1, NormalizedIs
<1>3. p = Normalized(p, kind)
  BY <1>1, NormalizedIs
<1> HIDE DEF p
<1>4. DOMAIN p \subseteq Nat /\ p = [k \in DOMAIN p |-> p[k]]
  BY <1>2
<1>5. \A k \in DOMAIN p : p[k] = IF IsBreak(p[k]) THEN Eol[kind] ELSE p[k]
  BY <1>3 DEF Normalized
<1> DEFINE found == CHOOSE k \in DOMAIN Eol : Eol[k] = p[Min(breaks)]
<1>6. DetectLineEnding(s) = IF breaks = {} THEN "CRLF" ELSE found
  BY DEF DetectLineEnding, p
<1>7. ASSUME NEW target, breaks = {} \/ Eol[target] = Eol[kind]
      PROVE  NormalizeLineEndings(s, target) = s
  <2>1. Normalized(p, target) = [k \in DOMAIN p |-> IF IsBreak(p[k]) THEN Eol[target] ELSE p[k]]
    BY DEF Normalized
  <2>2. \A k \in DOMAIN p : (IF IsBreak(p[k]) THEN Eol[target] ELSE p[k]) = p[k]
    BY <1>5, <1>7
  <2>3. Normalized(p, target) = p
    BY <1>4, <2>1, <2>2
  <2> QED
    BY <1>2, <2>3 DEF NormalizeLineEndings, p
<1>8. CASE breaks = {}
  BY <1>6, <1>7, <1>8
<1>9. CASE breaks # {}
  <2>1. breaks \in SUBSET Nat
    BY <1>4
  <2> DEFINE m == Min(breaks)
  <2>2. m \in breaks
    <3> HIDE DEF breaks
    <3>1. \E x \in breaks : \A y \in breaks : x <= y
      BY <1>9, <2>1, LeastNatural
    <3> QED
      BY <3>1 DEF Min
  <2> HIDE DEF m
  <2>3. p[m] = Eol[kind]
    BY <1>5, <2>2
  <2>4. found = CHOOSE k \in DOMAIN Eol : Eol[k] = p[m]
    BY DEF m
  <2>5. Eol[found] = Eol[kind]
    <3> HIDE DEF found
    <3> QED
      BY <1>1, <2>3, <2>4
  <2> HIDE DEF found
  <2> QED
    BY <1>6, <1>7, <1>9, <2>5
<1> QED
  BY <1>8, <1>9

-----------------------------------------------------------------------------
(* The document. *)

\* The three marks.
LEMMA BomIs ==
    /\ DOMAIN Bom = {"Utf8Bom", "Utf16LE", "Utf16BE"}
    /\ Bom["Utf8Bom"] = <<239, 187, 191>> /\ Bom["Utf16LE"] = <<255, 254>> /\ Bom["Utf16BE"] = <<254, 255>>
    /\ \A e \in DOMAIN Bom : Bom[e] \in Seq(Byte)
<1>1. /\ DOMAIN Bom = {"Utf8Bom", "Utf16LE", "Utf16BE"}
      /\ Bom["Utf8Bom"] = <<239, 187, 191>> /\ Bom["Utf16LE"] = <<255, 254>> /\ Bom["Utf16BE"] = <<254, 255>>
  BY DEF Bom
<1>2. <<239, 187, 191>> \in Seq(Byte) /\ <<255, 254>> \in Seq(Byte) /\ <<254, 255>> \in Seq(Byte)
  <2>1. 239 \in Byte /\ 187 \in Byte /\ 191 \in Byte /\ 255 \in Byte /\ 254 \in Byte
    BY DEF Byte
  <2> QED
    BY <2>1
<1>3. Bom["Utf8Bom"] \in Seq(Byte)
  BY <1>1, <1>2
<1>4. Bom["Utf16LE"] \in Seq(Byte) /\ Bom["Utf16BE"] \in Seq(Byte)
  BY <1>1, <1>2
<1>5. DOMAIN Bom = {"Utf8Bom", "Utf16LE", "Utf16BE"}
  BY <1>1
<1>6. \A e \in DOMAIN Bom : Bom[e] \in Seq(Byte)
  BY <1>3, <1>4, <1>5
<1> QED
  BY <1>1, <1>6

PayloadOf(bytes) == SubSeq(bytes, Len(BomOf(Announces(bytes))) + 1, Len(bytes))

\* The mark and the payload are the whole file.
LEMMA MarkAndPayload ==
    ASSUME NEW bytes \in Seq(Byte)
    PROVE  /\ Announces(bytes) \in {"Utf8", "Utf8Bom", "Utf16LE", "Utf16BE"}
           /\ BomOf(Announces(bytes)) \in Seq(Byte) /\ PayloadOf(bytes) \in Seq(Byte)
           /\ bytes = BomOf(Announces(bytes)) \o PayloadOf(bytes)
<1> DEFINE e == Announces(bytes)  m == BomOf(e)
<1>1. e \in {"Utf8", "Utf8Bom", "Utf16LE", "Utf16BE"} /\ m \in Seq(Byte) /\ IsPrefix(m, bytes)
  <2>1. CASE \E f \in DOMAIN Bom : IsPrefix(Bom[f], bytes)
    <3>1. e \in DOMAIN Bom /\ IsPrefix(Bom[e], bytes)
      BY <2>1 DEF Announces
    <3> HIDE DEF e
    <3>2. m = Bom[e]
      BY <3>1 DEF BomOf
    <3> QED
      BY <3>1, <3>2, BomIs
  <2>2. CASE ~\E f \in DOMAIN Bom : IsPrefix(Bom[f], bytes)
    <3>1. e = "Utf8"
      BY <2>2 DEF Announces
    <3> HIDE DEF e
    <3>2. m = <<>>
      BY <3>1, BomIs DEF BomOf
    <3>3. <<>> \in Seq(Byte) /\ IsPrefix(<<>>, bytes)
      BY DEF IsPrefix
    <3> QED
      BY <3>1, <3>2, <3>3
  <2> QED
    BY <2>1, <2>2
<1> HIDE DEF e, m
<1>2. Len(m) \in Nat /\ Len(m) <= Len(bytes) /\ SubSeq(m, 1, Len(m)) = SubSeq(bytes, 1, Len(m))
  BY <1>1 DEF IsPrefix
<1>3. SubSeq(m, 1, Len(m)) = m
  BY <1>1
<1> DEFINE n == Len(m)  p == SubSeq(bytes, n + 1, Len(bytes))
<1>4. n \in Nat /\ n <= Len(bytes) /\ SubSeq(bytes, 1, n) = m
  BY <1>2, <1>3
<1> HIDE DEF n
<1>5. p \in Seq(Byte) /\ Len(p) = Len(bytes) - n /\ \A i \in 1 .. Len(p) : p[i] = bytes[n + i]
  BY <1>4
<1> HIDE DEF p
<1>6. bytes = m \o p
  <2>1. Len(m) = n /\ \A i \in 1 .. n : m[i] = bytes[i]
    BY <1>4
  <2> DEFINE w == m \o p
  <2>2. /\ w \in Seq(Byte) /\ Len(w) = Len(m) + Len(p)
        /\ \A i \in 1 .. Len(m) + Len(p) : w[i] = IF i <= Len(m) THEN m[i] ELSE p[i - Len(m)]
    BY <1>1, <1>5, ConcatProperties
  <2> HIDE DEF w
  <2>3. Len(w) = Len(bytes) /\ Len(bytes) \in Nat
    BY <1>4, <1>5, <2>1, <2>2
  <2>4. ASSUME NEW i \in 1 .. Len(bytes)
        PROVE  w[i] = bytes[i]
    <3>1. w[i] = IF i <= n THEN m[i] ELSE p[i - n]
      BY <2>1, <2>2, <2>3
    <3>2. CASE i <= n
      BY <2>1, <3>1, <3>2
    <3>3. CASE ~(i <= n)
      <4>1. i - n \in 1 .. Len(p) /\ n + (i - n) = i
        BY <1>4, <1>5, <2>3, <3>3
      <4> QED
        BY <1>5, <3>1, <3>3, <4>1
    <3> QED
      BY <3>2, <3>3
  <2>5. bytes = w
    BY <2>2, <2>3, <2>4, SeqEqual
  <2> QED
    BY <2>5 DEF w
<1> QED
  BY <1>1, <1>5, <1>6 DEF PayloadOf, e, m, n, p

\* The mark is a unit of its own, so what holds of the pairs of the file holds of the payload's.
LEMMA MarkIsWhole ==
    ASSUME NEW b \in Seq(Byte), NEW e \in {"Utf16LE", "Utf16BE"}, WellFormed16(Bom[e] \o b, e)
    PROVE  Len(b) % 2 = 0 /\ \A k \in DOMAIN Pairs(Units(b, e)) : IsWhole(Pairs(Units(b, e))[k])
<1> DEFINE m == Bom[e]  s == m \o b  u == Units(b, e)  n == Len(b) \div 2  first == UnitOf(m[1], m[2], e)
<1>1. m \in Seq(Byte) /\ Len(m) = 2 /\ first = 65279
  <2>1. CASE e = "Utf16LE"
    <3>1. m = <<255, 254>>
      BY <2>1, BomIs
    <3>2. m[1] = 255 /\ m[2] = 254 /\ Len(m) = 2
      BY <3>1
    <3> HIDE DEF m
    <3>3. first = 255 + 256 * 254
      BY <2>1, <3>2 DEF UnitOf
    <3> QED
      BY <2>1, <3>2, <3>3, BomIs, SMTT(30) DEF m
  <2>2. CASE e = "Utf16BE"
    <3>1. m = <<254, 255>>
      BY <2>2, BomIs
    <3>2. m[1] = 254 /\ m[2] = 255 /\ Len(m) = 2
      BY <3>1
    <3> HIDE DEF m
    <3>3. first = 256 * 254 + 255
      BY <2>2, <3>2 DEF UnitOf
    <3> QED
      BY <2>2, <3>2, <3>3, BomIs, SMTT(30) DEF m
  <2> QED
    BY <2>1, <2>2
<1>2. first \in Unit /\ IsProper(<<first>>)
  <2> HIDE DEF first
  <2>1. first \in Unit
    BY <1>1, SMT DEF Unit
  <2>2. ~High(first) /\ ~Low(first)
    BY <1>1, SMT DEF High, Low
  <2> QED
    BY <2>1, <2>2 DEF IsProper
<1>3. Len(s) % 2 = 0 /\ \A k \in DOMAIN Pairs(Units(s, e)) : IsWhole(Pairs(Units(s, e))[k])
  BY DEF WellFormed16
<1> HIDE DEF m
<1>4. /\ s \in Seq(Byte) /\ Len(s) = Len(b) + 2 /\ Len(b) \in Nat /\ s[1] = m[1] /\ s[2] = m[2]
      /\ \A i \in 1 .. Len(b) : s[i + 2] = b[i]
  <2>1. /\ s \in Seq(Byte) /\ Len(s) = Len(m) + Len(b)
        /\ \A i \in 1 .. Len(m) + Len(b) : s[i] = IF i <= Len(m) THEN m[i] ELSE b[i - Len(m)]
    <3>1. m \in Seq(Byte)
      BY <1>1
    <3> QED
      BY <3>1, ConcatProperties, Zenon
  <2>2. Len(m) = 2 /\ Len(b) \in Nat
    BY <1>1
  <2> HIDE DEF s
  <2>3. s[1] = m[1] /\ s[2] = m[2]
    BY <2>1, <2>2
  <2>4. ASSUME NEW i \in 1 .. Len(b)
        PROVE  s[i + 2] = b[i]
    <3>1. i + 2 \in 1 .. Len(m) + Len(b) /\ ~(i + 2 <= Len(m)) /\ (i + 2) - Len(m) = i
      BY <2>2
    <3> QED
      BY <2>1, <3>1
  <2> QED
    BY <2>1, <2>2, <2>3, <2>4
<1> HIDE DEF s
<1>5. n \in Nat /\ Len(s) \div 2 = n + 1 /\ 2 * n <= Len(b) /\ Len(b) % 2 = 0
  BY <1>3, <1>4
<1>6. u \in Seq(Unit) /\ u = [k \in 1 .. n |-> UnitOf(b[2 * k - 1], b[2 * k], e)]
  BY UnitsBack DEF Units, UnitOf
<1>7. Units(s, e) = [k \in 1 .. n + 1 |-> UnitOf(s[2 * k - 1], s[2 * k], e)]
  BY <1>5 DEF Units, UnitOf
<1> HIDE DEF u, n
<1>8. Units(s, e) = <<first>> \o u
  <2> DEFINE v == Units(s, e)  w == <<first>> \o u
  <2>1. v \in Seq(Unit) /\ Len(v) = n + 1
    <3>1. v \in Seq(Unit)
      BY <1>4, UnitsBack
    <3>2. DOMAIN v = 1 .. n + 1
      BY <1>7
    <3> HIDE DEF v
    <3> QED
      BY <1>5, <3>1, <3>2
  <2>2. Len(u) = n
    BY <1>5, <1>6
  <2>3. w \in Seq(Unit) /\ Len(w) = n + 1 /\ w[1] = first /\ \A k \in 1 .. n : w[k + 1] = u[k]
    <3> HIDE DEF first
    <3> QED
      BY <1>2, <1>5, <1>6, <2>2
  <2>4. \A k \in 1 .. n + 1 : v[k] = UnitOf(s[2 * k - 1], s[2 * k], e)
    BY <1>7
  <2> HIDE DEF v, w
  <2>5. v[1] = first
    <3>1. 1 \in 1 .. n + 1 /\ 2 * 1 - 1 = 1 /\ 2 * 1 = 2
      BY <1>5
    <3>2. v[1] = UnitOf(s[2 * 1 - 1], s[2 * 1], e)
      BY <2>4, <3>1
    <3> QED
      BY <1>4, <3>1, <3>2
  <2>6. ASSUME NEW k \in 1 .. n
        PROVE  v[k + 1] = u[k]
    <3>1. k + 1 \in 1 .. n + 1 /\ 2 * (k + 1) - 1 = (2 * k - 1) + 2 /\ 2 * (k + 1) = 2 * k + 2
      BY <1>5
    <3>2. v[k + 1] = UnitOf(s[2 * (k + 1) - 1], s[2 * (k + 1)], e)
      BY <2>4, <3>1
    <3>3. 2 * k - 1 \in 1 .. Len(b) /\ 2 * k \in 1 .. Len(b)
      BY <1>4, <1>5
    <3>4. s[2 * (k + 1) - 1] = b[2 * k - 1] /\ s[2 * (k + 1)] = b[2 * k]
      BY <1>4, <3>1, <3>3
    <3>5. u[k] = UnitOf(b[2 * k - 1], b[2 * k], e)
      BY <1>6
    <3> QED
      BY <3>2, <3>4, <3>5
  <2>7. ASSUME NEW i \in 1 .. n + 1
        PROVE  v[i] = w[i]
    <3>1. CASE i = 1
      BY <2>3, <2>5, <3>1
    <3>2. CASE i # 1
      <4>1. i - 1 \in 1 .. n /\ (i - 1) + 1 = i
        BY <1>5, <3>2
      <4>2. v[(i - 1) + 1] = u[i - 1] /\ w[(i - 1) + 1] = u[i - 1]
        BY <2>3, <2>6, <4>1
      <4> QED
        BY <4>1, <4>2
    <3> QED
      BY <3>1, <3>2
  <2>8. v = w
    BY <2>1, <2>3, <2>7, SeqEqual
  <2> QED
    BY <2>8 DEF v, w
<1> HIDE DEF first
<1>9. Pairs(<<first>> \o u) = <<<<first>>>> \o Pairs(u)
  <2>1. Unit \subseteq Int
    BY SMT DEF Unit
  <2>2. <<first>> \in Seq(Unit) /\ <<first>> # <<>>
    BY <1>2
  <2>3. <<first>> \in Seq(Int) /\ u \in Seq(Int)
    BY <1>6, <2>1, <2>2, SeqMonotonic
  <2>4. PairLength[<<first>> \o u] = Len(<<first>>)
    BY <1>2, <1>6, ProperFirst
  <2> QED
    BY <2>2, <2>3, <2>4, PairCuts, PiecesOf DEF Pairs
<1>10. ASSUME NEW k \in DOMAIN Pairs(u)
       PROVE  IsWhole(Pairs(u)[k])
  <2> DEFINE p == Pairs(u)  x == <<first>>
  <2>1. p \in Seq(Seq(Unit))
    <3>1. Unit \subseteq Int
      BY SMT DEF Unit
    <3> QED
      BY <1>6, <3>1, PairCuts, PiecesSound DEF Pairs
  <2>2. Pairs(Units(s, e)) = <<x>> \o p
    BY <1>8, <1>9
  <2>3. k \in DOMAIN p
    OBVIOUS
  <2>4. x \in Seq(Unit)
    BY <1>2
  <2> HIDE DEF p, x
  <2>5. k + 1 \in DOMAIN (<<x>> \o p) /\ (<<x>> \o p)[k + 1] = p[k]
    BY <2>1, <2>3, <2>4
  <2> QED
    BY <1>3, <2>2, <2>5 DEF p
<1> QED
  BY <1>5, <1>10 DEF u

Encodings == {"Utf8", "Utf8Bom", "Utf16LE", "Utf16BE", "Ansi"}

\* Writing what was read gives the bytes back, without asking.
LEMMA WritingUndoesReading ==
    ASSUME NEW bytes \in Seq(Byte), NEW d, d = ReadDocument(bytes)
    PROVE  /\ d.text \in Seq(Byte) /\ d.encoding \in Encodings
           /\ CanEncodeLosslessly(d.text, d.encoding)
           /\ Uniform(d.text) /\ WellFormed16(bytes, d.encoding) => Encode(d.text, d.encoding, d.eol) = bytes
           /\ [d EXCEPT !.encoding = d.encoding] = d
<1> DEFINE e == Announces(bytes)  p == PayloadOf(bytes)
           encoding == IF e = "Utf8" /\ ~IsValidUtf8(p) THEN "Ansi" ELSE e
           text == IF encoding = "Ansi" THEN AnsiToUtf8(p)
                   ELSE IF encoding \in {"Utf8", "Utf8Bom"} THEN p
                   ELSE EncodeUtf8(DecodeUtf16(Units(p, encoding)))
<1>1. e \in {"Utf8", "Utf8Bom", "Utf16LE", "Utf16BE"} /\ p \in Seq(Byte) /\ bytes = BomOf(e) \o p
  BY MarkAndPayload
<1>2. d = [text |-> text, encoding |-> encoding, eol |-> DetectLineEnding(text)]
  BY DEF ReadDocument, PayloadOf
<1> HIDE DEF e, p
<1>3. d.text = text /\ d.encoding = encoding /\ d.eol = DetectLineEnding(text) /\ encoding \in Encodings
  <2>1. encoding \in Encodings
    BY <1>1 DEF Encodings
  <2> HIDE DEF text, encoding
  <2> QED
    BY <1>2, <2>1
<1>4. [d EXCEPT !.encoding = d.encoding] = d
  <2> HIDE DEF text, encoding
  <2> QED
    BY <1>2
<1>5. ASSUME text \in Seq(Byte), Uniform(text)
      PROVE  NormalizeLineEndings(text, DetectLineEnding(text)) = text
  <2> HIDE DEF text
  <2> QED
    BY <1>5, UniformIsKept
<1> DEFINE Back(payload) == text \in Seq(Byte) /\ CanEncodeLosslessly(text, encoding)
                            /\ (Uniform(text) /\ WellFormed16(bytes, encoding)
                                   => BomOf(encoding) \o payload = bytes
                                      /\ Encode(text, encoding, DetectLineEnding(text)) = BomOf(encoding) \o payload)
<1>6. ASSUME encoding = "Ansi"
      PROVE  Back(p)
  <2>1. e = "Utf8" /\ BomOf(encoding) = BomOf(e)
    <3>1. e = "Utf8"
      BY <1>1, <1>6
    <3>2. BomOf("Ansi") = <<>> /\ BomOf("Utf8") = <<>>
      BY BomIs DEF BomOf
    <3> QED
      BY <1>6, <3>1, <3>2
  <2>2. text = AnsiToUtf8(p)
    BY <1>6
  <2> HIDE DEF text, encoding
  <2>3. text \in Seq(Byte) /\ UnicodeToAnsi(DecodeUtf8(text)) = p /\ CanEncodeLosslessly(text, encoding)
    BY <1>1, <1>6, <2>2, AnsiComesBack
  <2>4. ASSUME Uniform(text)
        PROVE  Encode(text, encoding, DetectLineEnding(text)) = BomOf(encoding) \o p
    BY <1>5, <1>6, <2>3, <2>4 DEF Encode
  <2> QED
    BY <1>1, <1>3, <2>1, <2>3, <2>4
<1>7. ASSUME encoding \in {"Utf8", "Utf8Bom"}
      PROVE  Back(p)
  <2>1. e = encoding
    BY <1>7
  <2>2. text = p
    BY <1>7
  <2> HIDE DEF text, encoding
  <2>3. CanEncodeLosslessly(text, encoding)
    BY <1>7 DEF CanEncodeLosslessly
  <2>4. ASSUME Uniform(text)
        PROVE  Encode(text, encoding, DetectLineEnding(text)) = BomOf(encoding) \o p
    BY <1>1, <1>5, <1>7, <2>2, <2>4 DEF Encode
  <2> QED
    BY <1>1, <1>3, <2>1, <2>2, <2>3, <2>4
<1>8. ASSUME encoding \in {"Utf16LE", "Utf16BE"}
      PROVE  Back(p)
  <2>1. e = encoding
    BY <1>8
  <2> DEFINE u == Units(p, encoding)  cps == DecodeUtf16(u)
  <2>2. text = EncodeUtf8(cps)
    BY <1>8
  <2> HIDE DEF text, encoding
  <2>3. u \in Seq(Unit)
    BY <1>1, UnitsBack
  <2>4. cps \in Seq(Scalar)
    <3> HIDE DEF u
    <3> QED
      BY <2>3, Utf16Encodes
  <2>5. text \in Seq(Byte) /\ DecodeUtf8(text) = cps
    <3> HIDE DEF cps
    <3> QED
      BY <2>2, <2>4, EncodedIs, Utf8Decodes
  <2>6. CanEncodeLosslessly(text, encoding)
    BY <1>8 DEF CanEncodeLosslessly
  <2>7. ASSUME Uniform(text), WellFormed16(bytes, encoding)
        PROVE  Encode(text, encoding, DetectLineEnding(text)) = BomOf(encoding) \o p
    <3>1. BomOf(encoding) = Bom[encoding]
      BY <1>8, BomIs DEF BomOf
    <3>2. WellFormed16(Bom[encoding] \o p, encoding)
      BY <1>1, <2>1, <2>7, <3>1
    <3>3. Len(p) % 2 = 0 /\ \A k \in DOMAIN Pairs(u) : IsWhole(Pairs(u)[k])
      BY <1>1, <1>8, <3>2, MarkIsWhole
    <3>4. EncodeUtf16(cps) = u
      <4> HIDE DEF u
      <4> QED
        BY <2>3, <3>3, Utf16Encodes
    <3>5. BytesOfUnits(u, encoding) = p
      BY <1>1, <3>3, UnitsBack
    <3> HIDE DEF u, cps
    <3>6. Encode(text, encoding, DetectLineEnding(text)) = BomOf(encoding) \o BytesOfUnits(u, encoding)
      BY <1>5, <1>8, <2>5, <2>7, <3>4 DEF Encode, BytesOfUnits
    <3> QED
      BY <3>5, <3>6
  <2> HIDE DEF u, cps
  <2> QED
    BY <1>1, <1>3, <2>1, <2>5, <2>6, <2>7
<1> HIDE DEF text, encoding
<1>9. Back(p)
  BY <1>3, <1>6, <1>7, <1>8 DEF Encodings
<1> QED
  BY <1>3, <1>4, <1>9

\* What a document nobody edited and the file have to do with the bytes that were read.
Unedited ==
    /\ phase = "unread" => file \in Files /\ original = NoDocument /\ answer = "none"
    /\ original # NoDocument =>
          /\ original \in Files /\ phase = "open" /\ doc = ReadDocument(original)
          /\ answer = "saved" => file = Encode(doc.text, doc.encoding, doc.eol)

\* Unedited always holds: opening establishes it, a save writes what the document says.
LEMMA UneditedInvariant == Spec => []Unedited
<1>1. Init => Unedited
  BY DEF Init, Unedited
<1>2. Unedited /\ [Next]_vars => Unedited'
  <2> SUFFICES ASSUME Unedited, [Next]_vars
               PROVE  Unedited'
    OBVIOUS
  <2>1. CASE Open
    BY <2>1 DEF Open, Unedited
  <2>2. CASE Edit
    BY <2>2 DEF Edit, Unedited
  <2>3. CASE Save
    <3>1. phase' # "unread" /\ original' = original /\ phase # "unread"
      BY <2>3 DEF Save, WriteAs
    <3>2. ASSUME original # NoDocument
          PROVE  /\ phase' = "open" /\ doc' = doc
                 /\ file' = Encode(doc.text, doc.encoding, doc.eol)
      <4>1. original \in Seq(Byte) /\ doc = ReadDocument(original)
        BY <3>2, FormatAssumption DEF Unedited, Byte
      <4>2. CanEncodeLosslessly(doc.text, doc.encoding) /\ [doc EXCEPT !.encoding = doc.encoding] = doc
        BY <4>1, WritingUndoesReading, Zenon
      <4>3. WriteAs(doc.encoding, "saved")
        BY <2>3, <4>2 DEF Save
      <4> QED
        BY <4>2, <4>3 DEF WriteAs
    <3> QED
      BY <3>1, <3>2 DEF Unedited
  <2>4. CASE UNCHANGED vars
    BY <2>4 DEF vars, Unedited
  <2> QED
    BY <2>1, <2>2, <2>3, <2>4 DEF Next
<1> QED
  BY <1>1, <1>2, PTL DEF Spec

\* A document that was opened and saved without an edit has the bytes it had, whatever its
\* length, its encoding and its characters: ReadDocument and WriteDocumentAtomic undo each other
\* when the breaks are of one kind and the UTF-16 is well formed.
THEOREM BytesComeBack == Spec => []RoundTrip
<1>1. Unedited => RoundTrip
  <2> SUFFICES ASSUME Unedited, Saved, original # NoDocument, Uniform(doc.text), WellFormed16(original, doc.encoding)
               PROVE  file = original
    BY DEF RoundTrip
  <2>1. original \in Seq(Byte) /\ doc = ReadDocument(original)
    BY FormatAssumption DEF Unedited, Byte
  <2>2. file = Encode(doc.text, doc.encoding, doc.eol)
    BY DEF Unedited, Saved
  <2>3. Encode(doc.text, doc.encoding, doc.eol) = original
    BY <2>1, WritingUndoesReading
  <2> QED
    BY <2>2, <2>3
<1> QED
  BY <1>1, UneditedInvariant, PTL

-----------------------------------------------------------------------------
(* What was saved is what the next reader finds. *)

\* Concatenation is associative.
LEMMA Assoc ==
    ASSUME NEW S, NEW a \in Seq(S), NEW b \in Seq(S), NEW c \in Seq(S)
    PROVE  (a \o b) \o c = a \o (b \o c)
  OBVIOUS

\* Normalising goes sign by sign.
LEMMA NormalizedHead ==
    ASSUME NEW kind \in DOMAIN Eol, NEW x \in Seq(Byte), x # <<>>, NEW t \in Seq(Byte), BreakLength[x \o t] = Len(x)
    PROVE  NormalizeLineEndings(x \o t, kind) = (IF IsBreak(x) THEN Eol[kind] ELSE x) \o NormalizeLineEndings(t, kind)
<1> DEFINE p == Signs(t)  y == IF IsBreak(x) THEN Eol[kind] ELSE x  q == Normalized(p, kind)
<1>1. Signs(x \o t) = <<x>> \o p
  <2>1. x \in Seq(Int) /\ t \in Seq(Int)
    <3>1. Byte \subseteq Int
      BY DEF Byte
    <3> QED
      BY <3>1, SeqMonotonic
  <2> QED
    BY <2>1, BreakCuts, PiecesOf DEF Signs
<1>2. p \in Seq(Seq(Byte))
  BY NormalizedIs
<1>3. y \in Seq(Byte)
  BY EolIs
<1>4. ASSUME NEW k \in DOMAIN p
      PROVE  (IF IsBreak(p[k]) THEN Eol[kind] ELSE p[k]) \in Seq(Byte)
  BY <1>2, EolIs
<1>5. q \in Seq(Seq(Byte)) /\ Len(q) = Len(p) /\ \A k \in 1 .. Len(p) : q[k] = IF IsBreak(p[k]) THEN Eol[kind] ELSE p[k]
  BY <1>2, <1>4 DEF Normalized
<1> HIDE DEF p, q
<1>6. Normalized(<<x>> \o p, kind) = <<y>> \o q
  <2> DEFINE z == <<x>> \o p  v == Normalized(z, kind)  w == <<y>> \o q
  <2>1. Len(p) \in Nat /\ DOMAIN z = 1 .. Len(p) + 1 /\ z[1] = x /\ \A k \in 1 .. Len(p) : z[k + 1] = p[k]
    BY <1>2
  <2>2. w \in Seq(Seq(Byte)) /\ DOMAIN w = 1 .. Len(p) + 1 /\ w[1] = y /\ \A k \in 1 .. Len(p) : w[k + 1] = q[k]
    <3> HIDE DEF y
    <3> QED
      BY <1>3, <1>5
  <2> HIDE DEF z
  <2>3. v = [k \in 1 .. Len(p) + 1 |-> IF IsBreak(z[k]) THEN Eol[kind] ELSE z[k]]
    BY <2>1 DEF Normalized
  <2> HIDE DEF v, w
  <2>4. ASSUME NEW k \in 1 .. Len(p) + 1
        PROVE  v[k] = w[k]
    <3>1. v[k] = IF IsBreak(z[k]) THEN Eol[kind] ELSE z[k]
      BY <2>3
    <3>2. CASE k = 1
      BY <2>1, <2>2, <3>1, <3>2
    <3>3. CASE k # 1
      <4>1. k - 1 \in 1 .. Len(p) /\ (k - 1) + 1 = k
        BY <2>1, <3>3
      <4>2. z[(k - 1) + 1] = p[k - 1] /\ w[(k - 1) + 1] = q[k - 1]
        BY <2>1, <2>2, <4>1
      <4> QED
        BY <1>5, <3>1, <4>1, <4>2
    <3> QED
      BY <3>2, <3>3
  <2>5. w = [k \in 1 .. Len(p) + 1 |-> w[k]] /\ v = [k \in 1 .. Len(p) + 1 |-> v[k]]
    BY <2>2, <2>3
  <2>6. v = w
    BY <2>4, <2>5
  <2> QED
    BY <2>6 DEF v, w, z
<1>7. FlattenSeq(<<y>> \o q) = y \o FlattenSeq(q)
  <2> HIDE DEF y
  <2> QED
    BY <1>3, <1>5, FlattenConcat
<1> QED
  BY <1>1, <1>6, <1>7 DEF NormalizeLineEndings, p, q

\* No text has no line break to normalise.
LEMMA NormalizedEmpty ==
    ASSUME NEW kind \in DOMAIN Eol
    PROVE  NormalizeLineEndings(<<>>, kind) = <<>>
<1>1. Signs(<<>>) = <<>>
  BY BreakCuts, PiecesEmpty DEF Signs
<1>2. Normalized(<<>>, kind) = <<>>
  BY DEF Normalized
<1> QED
  BY <1>1, <1>2, FlattenEmpty DEF NormalizeLineEndings

Plain == {b \in Byte : b \notin {CR, LF}}

\* When a byte is a break of two bytes with what follows.
LEMMA LongBreak ==
    ASSUME NEW t \in Seq(Byte)
    PROVE  /\ \A b \in Byte : BreakLength[<<b>> \o t] = IF b = CR /\ t # <<>> /\ t[1] = LF THEN 2 ELSE 1
           /\ BreakLength[<<CR, LF>> \o t] = 2
<1>0. CR \in Byte /\ LF \in Byte /\ Byte \subseteq Int
  BY DEF CR, LF, Byte
<1>1. \A s \in Seq(Byte) : BreakLength[s] = IF Len(s) > 1 /\ s[1] = CR /\ s[2] = LF THEN 2 ELSE 1
  BY <1>0, SeqMonotonic DEF BreakLength
<1>2. ASSUME NEW b \in Byte
      PROVE  BreakLength[<<b>> \o t] = IF b = CR /\ t # <<>> /\ t[1] = LF THEN 2 ELSE 1
  <2> DEFINE s == <<b>> \o t
  <2>1. s \in Seq(Byte) /\ s[1] = b /\ (Len(s) > 1 <=> t # <<>>) /\ (t # <<>> => s[2] = t[1])
    OBVIOUS
  <2> HIDE DEF s
  <2>2. BreakLength[s] = IF b = CR /\ t # <<>> /\ t[1] = LF THEN 2 ELSE 1
    BY <1>1, <2>1
  <2> QED
    BY <2>2 DEF s
<1>3. BreakLength[<<CR, LF>> \o t] = 2
  <2> DEFINE s == <<CR, LF>> \o t
  <2>1. s \in Seq(Byte) /\ s[1] = CR /\ s[2] = LF /\ Len(s) > 1
    BY <1>0
  <2> HIDE DEF s
  <2>2. BreakLength[s] = 2
    BY <1>1, <2>1
  <2> QED
    BY <2>2 DEF s
<1> QED
  BY <1>2, <1>3

\* Bytes that are no part of a break stay.
LEMMA PlainStays ==
    ASSUME NEW kind \in DOMAIN Eol, NEW x \in Seq(Plain), NEW t \in Seq(Byte)
    PROVE  NormalizeLineEndings(x \o t, kind) = x \o NormalizeLineEndings(t, kind)
<1> DEFINE N(s) == NormalizeLineEndings(s, kind)
           Stays == {n \in Nat : \A y \in Seq(Plain) : Len(y) = n => N(y \o t) = y \o N(t)}
<1>1. N(t) \in Seq(Byte) /\ <<>> \o t = t /\ <<>> \o N(t) = N(t)
  <2>1. N(t) \in Seq(Byte)
    BY NormalizedIs
  <2> HIDE DEF N
  <2> QED
    BY <2>1, ConcatEmptySeq
<1> HIDE DEF N
<1>2. 0 \in Stays
  <2>1. \A y \in Seq(Plain) : Len(y) = 0 => y = <<>>
    OBVIOUS
  <2> QED
    BY <1>1, <2>1
<1>3. ASSUME NEW n \in Stays
      PROVE  n + 1 \in Stays
  <2>0. n \in Nat /\ \A y \in Seq(Plain) : Len(y) = n => N(y \o t) = y \o N(t)
    OBVIOUS
  <2> SUFFICES ASSUME NEW y \in Seq(Plain), Len(y) = n + 1
               PROVE  N(y \o t) = y \o N(t)
    OBVIOUS
  <2> HIDE DEF Stays
  <2>1. Len(y) # 0 /\ (n + 1) - 1 = n
    BY <2>0
  <2>2. PICK b \in Plain, rest \in Seq(Plain) : y = <<b>> \o rest /\ Len(rest) = Len(y) - 1
    BY <2>1, HeadAndRest
  <2>3. /\ b \in Byte /\ rest \in Seq(Byte) /\ <<b>> \in Seq(Byte) /\ <<b>> # <<>> /\ Len(<<b>>) = 1
        /\ ~IsBreak(<<b>>) /\ b # CR
    <3>1. Plain \subseteq Byte /\ b \in Plain
      BY <2>2 DEF Plain
    <3>2. b \in Byte /\ rest \in Seq(Byte)
      BY <2>2, <3>1, SeqMonotonic
    <3>3. <<b>>[1] = b /\ b \notin {CR, LF}
      BY <3>1 DEF Plain
    <3> QED
      BY <3>2, <3>3 DEF IsBreak
  <2>4. N(rest \o t) = rest \o N(t)
    BY <2>0, <2>1, <2>2
  <2>5. rest \o t \in Seq(Byte)
    BY <2>3
  <2>6. BreakLength[<<b>> \o (rest \o t)] = 1
    BY <2>3, <2>5, LongBreak
  <2>7. N(<<b>> \o (rest \o t)) = <<b>> \o N(rest \o t)
    BY <2>3, <2>5, <2>6, NormalizedHead DEF N
  <2>8. y \o t = <<b>> \o (rest \o t) /\ y \o N(t) = <<b>> \o (rest \o N(t))
    BY <1>1, <2>2, <2>3, Assoc
  <2> QED
    BY <2>4, <2>7, <2>8
<1>4. Stays = Nat
  <2> HIDE DEF Stays
  <2>1. Stays \in SUBSET Nat
    BY DEF Stays
  <2> QED
    BY <1>2, <1>3, <2>1, AllNaturals
<1>5. N(x \o t) = x \o N(t)
  <2>1. Len(x) \in Stays
    BY <1>4, LenProperties
  <2> QED
    BY <2>1
<1> QED
  BY <1>5 DEF N

\* Two texts are encoded one after the other.
LEMMA EncodedConcat ==
    ASSUME NEW a \in Seq(Scalar), NEW b \in Seq(Scalar)
    PROVE  EncodeUtf8(a \o b) = EncodeUtf8(a) \o EncodeUtf8(b)
<1> DEFINE p == CharactersOf(a)  q == CharactersOf(b)
<1>1. /\ p \in Seq(Seq(Byte)) /\ Len(p) = Len(a) /\ EncodeUtf8(a) = FlattenSeq(p)
      /\ q \in Seq(Seq(Byte)) /\ Len(q) = Len(b) /\ EncodeUtf8(b) = FlattenSeq(q)
  BY EncodedIs
<1>2. a \o b \in Seq(Scalar) /\ EncodeUtf8(a \o b) = FlattenSeq(CharactersOf(a \o b))
  <2>1. a \o b \in Seq(Scalar)
    BY ConcatProperties
  <2> QED
    BY <2>1, EncodedIs
<1>3. CharactersOf(a \o b) = p \o q
  <2> DEFINE c == a \o b  v == CharactersOf(c)  w == p \o q
  <2>1. /\ Len(a) \in Nat /\ Len(b) \in Nat /\ c \in Seq(Scalar) /\ Len(c) = Len(a) + Len(b)
        /\ \A i \in 1 .. Len(a) + Len(b) : c[i] = IF i <= Len(a) THEN a[i] ELSE b[i - Len(a)]
    BY ConcatProperties
  <2> HIDE DEF c
  <2>2. DOMAIN c = 1 .. Len(a) + Len(b)
    BY <2>1
  <2>3. /\ DOMAIN v = 1 .. Len(a) + Len(b) /\ v = [i \in 1 .. Len(a) + Len(b) |-> v[i]]
        /\ \A i \in 1 .. Len(a) + Len(b) : v[i] = BytesOf(c[i])
    BY <2>2 DEF CharactersOf
  <2>4. (\A i \in 1 .. Len(a) : p[i] = BytesOf(a[i])) /\ (\A i \in 1 .. Len(b) : q[i] = BytesOf(b[i]))
    BY DEF CharactersOf
  <2> HIDE DEF v, p, q
  <2>5. /\ w \in Seq(Seq(Byte)) /\ Len(w) = Len(a) + Len(b)
        /\ \A i \in 1 .. Len(a) + Len(b) : w[i] = IF i <= Len(a) THEN p[i] ELSE q[i - Len(a)]
    <3>1. /\ w \in Seq(Seq(Byte)) /\ Len(w) = Len(p) + Len(q)
          /\ \A i \in 1 .. Len(p) + Len(q) : w[i] = IF i <= Len(p) THEN p[i] ELSE q[i - Len(p)]
      <4>1. p \in Seq(Seq(Byte)) /\ q \in Seq(Seq(Byte))
        BY <1>1
      <4> QED
        BY <4>1, ConcatProperties
    <3>2. Len(p) = Len(a) /\ Len(q) = Len(b)
      BY <1>1
    <3> HIDE DEF w
    <3> QED
      BY <3>1, <3>2
  <2> HIDE DEF w
  <2>6. w = [i \in 1 .. Len(a) + Len(b) |-> w[i]]
    BY <2>5
  <2>7. ASSUME NEW i \in 1 .. Len(a) + Len(b)
        PROVE  v[i] = w[i]
    <3>1. CASE i <= Len(a)
      BY <2>1, <2>3, <2>4, <2>5, <3>1, SMTT(30)
    <3>2. CASE ~(i <= Len(a))
      <4>1. i - Len(a) \in 1 .. Len(b)
        BY <2>1, <3>2
      <4> QED
        BY <2>1, <2>3, <2>4, <2>5, <3>2, <4>1
    <3> QED
      BY <3>1, <3>2
  <2>8. v = w
    BY <2>3, <2>6, <2>7
  <2> QED
    BY <2>8 DEF v, w, c
<1>4. FlattenSeq(p \o q) = FlattenSeq(p) \o FlattenSeq(q)
  <2> HIDE DEF p, q
  <2> QED
    BY <1>1, FlattenConcat
<1> QED
  BY <1>1, <1>2, <1>3, <1>4

\* A character is a break or has no byte of one.
LEMMA BytesArePlain ==
    ASSUME NEW c \in Scalar
    PROVE  IF c \in {CR, LF} THEN BytesOf(c) = <<c>> ELSE BytesOf(c) \in Seq(Plain)
<1>1. CASE c \in {CR, LF}
  <2>1. c < 128
    BY <1>1 DEF CR, LF
  <2> QED
    BY <1>1, <2>1, OneByte
<1>2. CASE c \notin {CR, LF}
  <2> DEFINE x == BytesOf(c)
  <2>1. x \in Seq(Byte) /\ x # <<>> /\ IsCharacter(x) /\ CodePoint(x) = c
    BY BytesIs
  <2> HIDE DEF x
  <2>2. Len(x) = Announced(x[1]) /\ \A k \in 2 .. Len(x) : x[k] \in 128..191
    BY <2>1, SMT DEF IsCharacter
  <2>3. x[1] \in Byte /\ Len(x) \in Nat /\ Len(x) >= 1
    BY <2>1
  <2>4. x[1] \notin {CR, LF}
    <3>1. CASE x[1] < 128
      <4>1. Len(x) = 1
        BY <2>2, <2>3, <3>1 DEF Announced
      <4>2. x[1] = c
        BY <2>1, <4>1 DEF CodePoint
      <4> QED
        BY <1>2, <4>2
    <3>2. CASE ~(x[1] < 128)
      BY <3>2 DEF CR, LF
    <3> QED
      BY <3>1, <3>2
  <2>5. ASSUME NEW k \in 1 .. Len(x)
        PROVE  x[k] \in Plain
    <3>1. CASE k = 1
      BY <2>3, <2>4, <3>1 DEF Plain
    <3>2. CASE k # 1
      <4>1. x[k] \in 128..191
        BY <2>2, <3>2
      <4>2. x[k] \in Byte
        BY <4>1 DEF Byte
      <4>3. \A b \in 128..191 : b # CR /\ b # LF
        BY DEF CR, LF
      <4> QED
        BY <4>1, <4>2, <4>3 DEF Plain
    <3> QED
      BY <3>1, <3>2
  <2>6. x \in Seq(Plain)
    <3>1. x = [k \in 1 .. Len(x) |-> x[k]]
      BY <2>1
    <3> QED
      BY <2>3, <2>5, <3>1
  <2> QED
    BY <1>2, <2>6 DEF x
<1> QED
  BY <1>1, <1>2

\* Line endings are code points too.
LEMMA EolEncodes ==
    ASSUME NEW T, T \subseteq Scalar, CR \in T, LF \in T, NEW kind \in DOMAIN Eol
    PROVE  Eol[kind] \in Seq(T) /\ EncodeUtf8(Eol[kind]) = Eol[kind]
<1>1. BytesOf(CR) = <<CR>> /\ BytesOf(LF) = <<LF>>
  BY BytesArePlain
<1>2. <<CR>> \in Seq(Scalar) /\ <<LF>> \in Seq(Scalar) /\ CR \in Byte /\ LF \in Byte
  BY DEF CR, LF, Byte
<1>3. ASSUME NEW c \in {CR, LF}
      PROVE  EncodeUtf8(<<c>>) = <<c>>
  <2>1. CharactersOf(<<c>>) = <<<<c>>>>
    BY <1>1 DEF CharactersOf
  <2>2. FlattenSeq(<<<<c>>>>) = <<c>>
    <3>1. <<<<c>>>> = Append(<<>>, <<c>>) /\ <<>> \in Seq(Seq({c})) /\ <<c>> \in Seq({c})
      OBVIOUS
    <3> QED
      BY <3>1, FlattenAppend
  <2>3. EncodeUtf8(<<c>>) = FlattenSeq(CharactersOf(<<c>>))
    BY DEF EncodeUtf8, CharactersOf
  <2> QED
    BY <2>1, <2>2, <2>3
<1>4. EncodeUtf8(<<CR, LF>>) = <<CR, LF>>
  <2>1. <<CR, LF>> = <<CR>> \o <<LF>>
    OBVIOUS
  <2> QED
    BY <1>2, <1>3, <2>1, EncodedConcat
<1>5. <<CR>> \in Seq(T) /\ <<LF>> \in Seq(T) /\ <<CR, LF>> \in Seq(T)
  OBVIOUS
<1> QED
  BY <1>3, <1>4, <1>5, EolIs

\* So a text is encoded from its first character on.
LEMMA EncodedOne ==
    ASSUME NEW c \in Scalar, NEW rest \in Seq(Scalar)
    PROVE  /\ <<c>> \in Seq(Scalar) /\ EncodeUtf8(<<c>>) = BytesOf(c)
           /\ EncodeUtf8(<<c>> \o rest) = BytesOf(c) \o EncodeUtf8(rest)
<1>1. CharactersOf(<<c>>) = <<BytesOf(c)>>
  BY DEF CharactersOf
<1>2. FlattenSeq(<<BytesOf(c)>>) = BytesOf(c)
  <2> DEFINE x == BytesOf(c)
  <2>1. x \in Seq(Byte)
    BY BytesIs
  <2> HIDE DEF x
  <2>2. <<x>> = Append(<<>>, x) /\ <<>> \in Seq(Seq(Byte))
    OBVIOUS
  <2>3. FlattenSeq(<<x>>) = x
    BY <2>1, <2>2, FlattenAppend
  <2> QED
    BY <2>3 DEF x
<1>3. EncodeUtf8(<<c>>) = FlattenSeq(CharactersOf(<<c>>))
  BY DEF EncodeUtf8, CharactersOf
<1>4. <<c>> \in Seq(Scalar)
  OBVIOUS
<1> QED
  BY <1>1, <1>2, <1>3, <1>4, EncodedConcat

\* Normalising the breaks of a text gives a text of the same characters.
LEMMA NormalizedEncodes ==
    ASSUME NEW T, T \subseteq Scalar, CR \in T, LF \in T, NEW kind \in DOMAIN Eol, NEW cps \in Seq(T)
    PROVE  \E new \in Seq(T) : NormalizeLineEndings(EncodeUtf8(cps), kind) = EncodeUtf8(new)
<1> DEFINE N(s) == NormalizeLineEndings(s, kind)
           Good(c) == \E new \in Seq(T) : N(EncodeUtf8(c)) = EncodeUtf8(new)
           Fine == {n \in Nat : \A c \in Seq(T) : Len(c) <= n => Good(c)}
<1>0. ASSUME NEW c \in Seq(T)
      PROVE  c \in Seq(Scalar) /\ EncodeUtf8(c) \in Seq(Byte)
  <2>1. c \in Seq(Scalar)
    BY SeqMonotonic
  <2> QED
    BY <2>1, EncodedIs
<1>1. EncodeUtf8(<<>>) = <<>> /\ N(<<>>) = <<>> /\ Good(<<>>)
  <2>1. <<>> \in Seq(T) /\ CharactersOf(<<>>) = <<>>
    BY DEF CharactersOf
  <2>2. EncodeUtf8(<<>>) = <<>>
    BY <2>1, FlattenEmpty DEF EncodeUtf8, CharactersOf
  <2>3. N(<<>>) = <<>>
    BY NormalizedEmpty
  <2> HIDE DEF N
  <2> QED
    BY <2>1, <2>2, <2>3
<1>2. ASSUME NEW x \in Seq(T), NEW c \in Seq(T), Good(c), NEW d, N(EncodeUtf8(d)) = EncodeUtf8(x) \o N(EncodeUtf8(c))
      PROVE  Good(d)
  <2> HIDE DEF N
  <2>1. PICK new \in Seq(T) : N(EncodeUtf8(c)) = EncodeUtf8(new)
    BY <1>2
  <2>2. x \o new \in Seq(T)
    BY <2>1, ConcatProperties
  <2>3. EncodeUtf8(x \o new) = EncodeUtf8(x) \o EncodeUtf8(new)
    BY <1>0, <2>1, EncodedConcat
  <2> QED
    BY <1>2, <2>1, <2>2, <2>3
<1> HIDE DEF N
<1>3. Eol[kind] \in Seq(T) /\ EncodeUtf8(Eol[kind]) = Eol[kind]
  BY EolEncodes
<1>4. 0 \in Fine
  <2>1. \A c \in Seq(T) : Len(c) <= 0 => c = <<>>
    OBVIOUS
  <2> HIDE DEF Good
  <2> QED
    BY <1>1, <2>1
<1>5. ASSUME NEW n \in Fine
      PROVE  n + 1 \in Fine
  <2>0. n \in Nat /\ \A c \in Seq(T) : Len(c) <= n => Good(c)
    OBVIOUS
  <2> SUFFICES ASSUME NEW c \in Seq(T), Len(c) <= n + 1, c # <<>>
               PROVE  Good(c)
    <3> HIDE DEF Good
    <3> QED
      BY <1>1
  <2> HIDE DEF Fine, Good
  <2>1. PICK a \in T, r \in Seq(T) : c = <<a>> \o r /\ Len(r) = Len(c) - 1
    <3>1. Len(c) # 0
      OBVIOUS
    <3> QED
      BY <3>1, HeadAndRest
  <2>2. /\ a \in Scalar /\ r \in Seq(Scalar) /\ EncodeUtf8(r) \in Seq(Byte) /\ <<a>> \in Seq(T)
        /\ EncodeUtf8(<<a>>) = BytesOf(a) /\ EncodeUtf8(c) = BytesOf(a) \o EncodeUtf8(r)
    <3>1. a \in Scalar /\ r \in Seq(Scalar) /\ EncodeUtf8(r) \in Seq(Byte)
      BY <1>0, <2>1
    <3>2. <<a>> \in Seq(T)
      BY <2>1
    <3>3. EncodeUtf8(<<a>>) = BytesOf(a) /\ EncodeUtf8(<<a>> \o r) = BytesOf(a) \o EncodeUtf8(r)
      BY <3>1, EncodedOne, Zenon
    <3> QED
      BY <2>1, <3>1, <3>2, <3>3
  <2>3. Good(r)
    <3>1. Len(r) <= n
      BY <2>0, <2>1
    <3> QED
      BY <2>0, <2>1, <3>1
  <2>4. CASE a \notin {CR, LF}
    <3>1. BytesOf(a) \in Seq(Plain)
      BY <2>2, <2>4, BytesArePlain
    <3>2. N(EncodeUtf8(c)) = BytesOf(a) \o N(EncodeUtf8(r))
      BY <2>2, <3>1, PlainStays DEF N
    <3> QED
      BY <1>2, <2>1, <2>2, <2>3, <3>2
  <2>5. CASE a = CR /\ r # <<>> /\ r[1] = LF
    <3>1. PICK b \in T, q \in Seq(T) : r = <<b>> \o q /\ Len(q) = Len(r) - 1
      <4>1. Len(r) # 0
        BY <2>1, <2>5
      <4> QED
        BY <2>1, <4>1, HeadAndRest
    <3>2. b = LF
      BY <2>5, <3>1
    <3>3. q \in Seq(Scalar) /\ EncodeUtf8(q) \in Seq(Byte) /\ CR \in Scalar /\ LF \in Scalar
      BY <1>0, <3>1
    <3>4. BytesOf(CR) = <<CR>> /\ BytesOf(LF) = <<LF>>
      BY <3>3, BytesArePlain
    <3>5. EncodeUtf8(r) = <<LF>> \o EncodeUtf8(q)
      BY <3>1, <3>2, <3>3, <3>4, EncodedOne
    <3>6. CR \in Byte /\ LF \in Byte
      BY DEF CR, LF, Byte
    <3>7. EncodeUtf8(c) = <<CR, LF>> \o EncodeUtf8(q)
      <4> DEFINE t == EncodeUtf8(q)
      <4>1. t \in Seq(Byte)
        BY <3>3
      <4> HIDE DEF t
      <4>2. <<CR>> \o (<<LF>> \o t) = (<<CR>> \o <<LF>>) \o t
        BY <3>6, <4>1, Assoc
      <4>3. <<CR, LF>> = <<CR>> \o <<LF>>
        OBVIOUS
      <4> QED
        BY <2>2, <2>5, <3>4, <3>5, <4>2, <4>3 DEF t
    <3>8. N(EncodeUtf8(c)) = Eol[kind] \o N(EncodeUtf8(q))
      <4>1. BreakLength[<<CR, LF>> \o EncodeUtf8(q)] = 2
        BY <3>3, LongBreak
      <4>2. <<CR, LF>> \in Seq(Byte) /\ <<CR, LF>> # <<>> /\ Len(<<CR, LF>>) = 2 /\ IsBreak(<<CR, LF>>)
        BY <3>6 DEF IsBreak
      <4> QED
        BY <3>3, <3>7, <4>1, <4>2, NormalizedHead DEF N
    <3>9. Good(q)
      <4>1. Len(q) <= n
        BY <2>0, <2>1, <3>1
      <4> QED
        BY <2>0, <3>1, <4>1
    <3> QED
      BY <1>2, <1>3, <3>1, <3>8, <3>9
  <2>6. CASE a \in {CR, LF} /\ ~(a = CR /\ r # <<>> /\ r[1] = LF)
    <3> DEFINE t == EncodeUtf8(r)
    <3>1. BytesOf(a) = <<a>> /\ a \in Byte /\ IsBreak(<<a>>)
      <4>1. a \in Byte
        BY <2>6 DEF CR, LF, Byte
      <4> QED
        BY <2>2, <2>6, <4>1, BytesArePlain DEF IsBreak
    <3>2. a = CR => t = <<>> \/ t[1] # LF
      <4> SUFFICES ASSUME a = CR, r # <<>>
                   PROVE  t[1] # LF
        BY <1>1
      <4>1. PICK b \in T, q \in Seq(T) : r = <<b>> \o q /\ Len(q) = Len(r) - 1
        <5>1. Len(r) # 0
          BY <2>1
        <5> QED
          BY <2>1, <5>1, HeadAndRest
      <4>2. b # LF /\ b \in Scalar
        BY <2>6, <4>1
      <4>3. BytesOf(b) \in Seq(Byte) /\ BytesOf(b) # <<>> /\ BytesOf(b)[1] # LF
        <5>1. BytesOf(b) \in Seq(Byte) /\ BytesOf(b) # <<>>
          BY <4>2, BytesIs
        <5>2. CASE b = CR
          <6>1. BytesOf(b) = <<CR>> /\ CR # LF
            BY <4>2, <5>2, BytesArePlain DEF CR, LF
          <6> QED
            BY <5>1, <6>1
        <5>3. CASE b # CR
          <6>1. BytesOf(b) \in Seq(Plain)
            BY <4>2, <5>3, BytesArePlain
          <6>2. BytesOf(b)[1] \in Plain
            BY <5>1, <6>1
          <6> QED
            BY <5>1, <6>2 DEF Plain
        <5> QED
          BY <5>2, <5>3
      <4>4. t = BytesOf(b) \o EncodeUtf8(q) /\ EncodeUtf8(q) \in Seq(Byte)
        BY <1>0, <4>1, <4>2, EncodedOne
      <4> DEFINE x == BytesOf(b)  y == EncodeUtf8(q)
      <4> HIDE DEF x, y
      <4>5. x \in Seq(Byte) /\ x # <<>> /\ y \in Seq(Byte)
        BY <4>3, <4>4 DEF x, y
      <4>6. (x \o y)[1] = x[1]
        BY <4>5
      <4> QED
        BY <4>3, <4>4, <4>6 DEF x, y
    <3>3. t \in Seq(Byte)
      BY <2>2
    <3>4. EncodeUtf8(c) = <<a>> \o t
      BY <2>2, <3>1
    <3> HIDE DEF t
    <3>5. BreakLength[<<a>> \o t] = 1
      BY <3>1, <3>2, <3>3, LongBreak
    <3>6. <<a>> \in Seq(Byte) /\ <<a>> # <<>> /\ Len(<<a>>) = 1
      BY <3>1
    <3>7. N(EncodeUtf8(c)) = Eol[kind] \o N(t)
      BY <3>1, <3>3, <3>4, <3>5, <3>6, NormalizedHead DEF N
    <3> QED
      BY <1>2, <1>3, <2>1, <2>3, <3>7 DEF t
  <2> QED
    BY <2>4, <2>5, <2>6
<1>6. Fine = Nat
  <2> HIDE DEF Fine
  <2>1. Fine \in SUBSET Nat
    BY DEF Fine
  <2> QED
    BY <1>4, <1>5, <2>1, AllNaturals
<1>7. Good(cps)
  <2>1. Len(cps) \in Fine /\ Len(cps) \in Nat
    BY <1>6, LenProperties
  <2> HIDE DEF Good
  <2> QED
    BY <2>1
<1> QED
  BY <1>7 DEF N

\* So valid UTF-8 stays valid, and what Windows-1252 can hold it can hold afterwards.
LEMMA NormalizedKeeps ==
    ASSUME NEW s \in Seq(Byte), NEW kind \in DOMAIN Eol, IsValidUtf8(s)
    PROVE  /\ IsValidUtf8(NormalizeLineEndings(s, kind))
           /\ CanEncodeLosslessly(s, "Ansi") => CanEncodeLosslessly(NormalizeLineEndings(s, kind), "Ansi")
<1> DEFINE cps == DecodeUtf8(s)  n == NormalizeLineEndings(s, kind)
<1>1. cps \in Seq(Scalar) /\ EncodeUtf8(cps) = s
  BY Utf8Encodes
<1> HIDE DEF cps
<1>2. CR \in Scalar /\ LF \in Scalar
  BY SMT DEF CR, LF, Scalar
<1>3. IsValidUtf8(n)
  <2>1. PICK new \in Seq(Scalar) : n = EncodeUtf8(new)
    BY <1>1, <1>2, NormalizedEncodes
  <2> HIDE DEF n
  <2> QED
    BY <2>1, Utf8Decodes
<1>4. ASSUME CanEncodeLosslessly(s, "Ansi")
      PROVE  CanEncodeLosslessly(n, "Ansi")
  <2> DEFINE T == {c \in Scalar : HasAnsi(c)}
  <2>1. \A i \in DOMAIN cps : HasAnsi(cps[i])
    BY <1>4 DEF CanEncodeLosslessly, cps
  <2>2. cps \in Seq(T)
    <3>1. Len(cps) \in Nat /\ DOMAIN cps = 1 .. Len(cps) /\ cps = [i \in 1 .. Len(cps) |-> cps[i]]
      BY <1>1
    <3>2. \A i \in 1 .. Len(cps) : cps[i] \in T
      BY <1>1, <2>1, <3>1
    <3> HIDE DEF T
    <3> QED
      BY <3>1, <3>2
  <2>3. CR \in T /\ LF \in T /\ T \subseteq Scalar
    <3>1. FromAnsi(13) = 13 /\ FromAnsi(10) = 10
      BY DEF FromAnsi
    <3>2. HasAnsi(CR) /\ HasAnsi(LF)
      BY <3>1 DEF HasAnsi, CR, LF
    <3> QED
      BY <1>2, <3>2
  <2>4. ASSUME NEW new \in Seq(T)
        PROVE  new \in Seq(Scalar) /\ \A i \in DOMAIN new : HasAnsi(new[i])
    <3>1. \A i \in DOMAIN new : new[i] \in T
      <4> HIDE DEF T
      <4> QED
        OBVIOUS
    <3>2. new \in Seq(Scalar)
      <4> HIDE DEF T
      <4> QED
        BY <2>3, SeqMonotonic
    <3> QED
      BY <3>1, <3>2
  <2> HIDE DEF T
  <2>5. PICK new \in Seq(T) : n = EncodeUtf8(new)
    BY <1>1, <2>2, <2>3, NormalizedEncodes
  <2> HIDE DEF n
  <2>6. DecodeUtf8(n) = new
    BY <2>4, <2>5, Utf8Decodes
  <2> QED
    BY <2>4, <2>5, <2>6 DEF CanEncodeLosslessly
<1> QED
  BY <1>3, <1>4

\* Every break is found: a text cut into signs none of which is a break has no byte of one.
LEMMA BreakIsFound ==
    ASSUME NEW s \in Seq(Byte), NEW i \in DOMAIN s, s[i] \in {CR, LF}
    PROVE  \E k \in DOMAIN Signs(s) : IsBreak(Signs(s)[k])
<1> SUFFICES ASSUME \A k \in DOMAIN Signs(s) : ~IsBreak(Signs(s)[k])
             PROVE  FALSE
  OBVIOUS
<1> DEFINE p == Signs(s)
<1>1. p \in Seq(Seq(Byte)) /\ FlattenSeq(p) = s /\ \A k \in DOMAIN p : IsCut(p[k], Byte, BreakLength)
  <2>1. Byte \subseteq Int
    BY DEF Byte
  <2> QED
    BY <2>1, BreakCuts, PiecesSound DEF Signs
<1>2. ASSUME NEW k \in DOMAIN p
      PROVE  p[k] \in Seq(Plain)
  <2>1. p[k] = <<CR, LF>> \/ \E b \in Byte : p[k] = <<b>>
    BY <1>1, SignIs
  <2>2. ~IsBreak(p[k])
    OBVIOUS
  <2> HIDE DEF p
  <2>3. PICK b \in Byte : p[k] = <<b>>
    BY <2>1, <2>2 DEF IsBreak
  <2>4. b \in Plain
    BY <2>2, <2>3 DEF IsBreak, Plain
  <2> QED
    BY <2>3, <2>4
<1> HIDE DEF p
<1>3. p \in Seq(Seq(Plain))
  <2>1. Len(p) \in Nat /\ DOMAIN p = 1 .. Len(p) /\ p = [k \in 1 .. Len(p) |-> p[k]]
    BY <1>1
  <2> QED
    BY <1>2, <2>1
<1>4. s \in Seq(Plain)
  BY <1>1, <1>3, FlattenConcat
<1>5. s[i] \in Plain
  BY <1>4
<1> QED
  BY <1>5 DEF Plain

\* The least member of a set is one of it.
LEMMA SmallestIn ==
    ASSUME NEW S \in SUBSET Nat, S # {}
    PROVE  Min(S) \in S
<1>1. \E x \in S : \A y \in S : x <= y
  BY LeastNatural
<1> QED
  BY <1>1 DEF Min

\* The first break's kind is one of the three; in a normalised text it is the target.
LEMMA DetectedIs ==
    ASSUME NEW s \in Seq(Byte)
    PROVE  /\ DetectLineEnding(s) \in DOMAIN Eol
           /\ \A kind \in DOMAIN Eol : (\E i \in DOMAIN s : s[i] \in {CR, LF})
                => DetectLineEnding(NormalizeLineEndings(s, kind)) = kind
<1> DEFINE Breaks(p) == {k \in DOMAIN p : IsBreak(p[k])}
           Found(p) == CHOOSE kind \in DOMAIN Eol : Eol[kind] = p[Min(Breaks(p))]
<1>1. ASSUME NEW t \in Seq(Byte)
      PROVE  /\ Signs(t) \in Seq(Seq(Byte))
             /\ DetectLineEnding(t) = IF Breaks(Signs(t)) = {} THEN "CRLF" ELSE Found(Signs(t))
             /\ Breaks(Signs(t)) # {} => Min(Breaks(Signs(t))) \in Breaks(Signs(t))
  <2>1. Signs(t) \in Seq(Seq(Byte))
    BY NormalizedIs, EolIs
  <2>2. Breaks(Signs(t)) \in SUBSET Nat
    BY <2>1
  <2>3. Breaks(Signs(t)) # {} => Min(Breaks(Signs(t))) \in Breaks(Signs(t))
    <3> HIDE DEF Breaks
    <3> QED
      BY <2>2, SmallestIn
  <2>4. DetectLineEnding(t) = IF Breaks(Signs(t)) = {} THEN "CRLF" ELSE Found(Signs(t))
    BY DEF DetectLineEnding
  <2> QED
    BY <2>1, <2>3, <2>4
<1>2. ASSUME NEW k \in DOMAIN Signs(s), IsBreak(Signs(s)[k])
      PROVE  \E kind \in DOMAIN Eol : Eol[kind] = Signs(s)[k]
  <2> DEFINE x == Signs(s)[k]
  <2>1. x = <<CR, LF>> \/ \E b \in Byte : x = <<b>>
    <3>1. Byte \subseteq Int
      BY DEF Byte
    <3>2. IsCut(x, Byte, BreakLength)
      BY <3>1, BreakCuts, PiecesSound DEF Signs
    <3> QED
      BY <3>2, SignIs
  <2>2. IsBreak(x)
    BY <1>2
  <2> HIDE DEF x
  <2>3. x = <<CR, LF>> \/ x = <<LF>> \/ x = <<CR>>
    BY <2>1, <2>2 DEF IsBreak
  <2>4. \E kind \in DOMAIN Eol : Eol[kind] = x
    BY <2>3, EolIs
  <2> QED
    BY <2>4 DEF x
<1>3. DetectLineEnding(s) \in DOMAIN Eol
  <2>1. CASE Breaks(Signs(s)) = {}
    BY <1>1, <2>1, EolIs
  <2>2. CASE Breaks(Signs(s)) # {}
    <3> DEFINE m == Min(Breaks(Signs(s)))
    <3>1. m \in DOMAIN Signs(s) /\ IsBreak(Signs(s)[m])
      BY <1>1, <2>2
    <3>2. DetectLineEnding(s) = CHOOSE kind \in DOMAIN Eol : Eol[kind] = Signs(s)[m]
      BY <1>1, <2>2
    <3> HIDE DEF m
    <3> QED
      BY <1>2, <3>1, <3>2
  <2> QED
    BY <2>1, <2>2
<1>4. ASSUME NEW kind \in DOMAIN Eol, NEW i \in DOMAIN s, s[i] \in {CR, LF}
      PROVE  DetectLineEnding(NormalizeLineEndings(s, kind)) = kind
  <2> DEFINE n == NormalizeLineEndings(s, kind)  q == Normalized(Signs(s), kind)
  <2>1. n \in Seq(Byte) /\ Signs(n) = q
    BY NormalizedIs
  <2>2. PICK k \in DOMAIN Signs(s) : IsBreak(Signs(s)[k])
    BY <1>4, BreakIsFound
  <2>3. /\ DOMAIN q = DOMAIN Signs(s)
        /\ \A j \in DOMAIN Signs(s) : q[j] = IF IsBreak(Signs(s)[j]) THEN Eol[kind] ELSE Signs(s)[j]
    BY DEF Normalized
  <2> HIDE DEF q, n
  <2>4. \A j \in DOMAIN q : IsBreak(q[j]) => q[j] = Eol[kind]
    BY <2>3
  <2>5. k \in Breaks(q)
    BY <2>2, <2>3, EolIs
  <2> DEFINE m == Min(Breaks(q))
  <2>6. m \in Breaks(q) /\ DetectLineEnding(n) = CHOOSE j \in DOMAIN Eol : Eol[j] = q[m]
    BY <1>1, <2>1, <2>5
  <2> HIDE DEF m
  <2>7. q[m] = Eol[kind]
    BY <2>4, <2>6
  <2>8. \A j \in DOMAIN Eol : Eol[j] = Eol[kind] => j = kind
    <3>1. <<CR, LF>> # <<LF>> /\ <<CR, LF>> # <<CR>> /\ <<LF>> # <<CR>>
      BY DEF CR, LF
    <3>2. Eol["CRLF"] # Eol["LF"] /\ Eol["CRLF"] # Eol["CR"] /\ Eol["LF"] # Eol["CR"]
      BY <3>1, EolIs
    <3>3. DOMAIN Eol = {"CRLF", "LF", "CR"}
      BY EolIs
    <3> QED
      BY <3>2, <3>3
  <2>9. DetectLineEnding(n) = kind
    BY <2>6, <2>7, <2>8
  <2> QED
    BY <2>9 DEF n
<1> QED
  BY <1>3, <1>4

\* A mark that was written is recognised.
LEMMA MarkIsRecognised ==
    ASSUME NEW e \in DOMAIN Bom, NEW p \in Seq(Byte)
    PROVE  Announces(Bom[e] \o p) = e /\ PayloadOf(Bom[e] \o p) = p
<1> DEFINE m == Bom[e]  s == m \o p
<1>1. m \in Seq(Byte) /\ Len(m) >= 1 /\ Len(m) \in Nat
  <2>1. m \in Seq(Byte)
    BY BomIs
  <2>2. m # <<>>
    BY BomIs
  <2> HIDE DEF m
  <2> QED
    BY <2>1, <2>2
<1>2. s \in Seq(Byte) /\ Len(s) = Len(m) + Len(p) /\ SubSeq(s, 1, Len(m)) = m /\ SubSeq(s, Len(m) + 1, Len(s)) = p /\ s[1] = m[1]
  <2> HIDE DEF m
  <2> QED
    BY <1>1
<1>3. IsPrefix(m, s)
  <2> HIDE DEF m, s
  <2>1. SubSeq(m, 1, Len(m)) = m /\ Len(m) <= Len(s)
    BY <1>1, <1>2
  <2> QED
    BY <1>2, <2>1 DEF IsPrefix
<1> HIDE DEF s
<1>4. ASSUME NEW f \in DOMAIN Bom, IsPrefix(Bom[f], s)
      PROVE  f = e
  <2> DEFINE b == Bom[f]
  <2>1. b \in Seq(Byte) /\ Len(b) >= 1
    <3>1. b \in Seq(Byte)
      BY BomIs
    <3>2. b # <<>>
      BY BomIs
    <3> HIDE DEF b
    <3> QED
      BY <3>1, <3>2
  <2>2. SubSeq(b, 1, Len(b)) = SubSeq(s, 1, Len(b)) /\ Len(b) <= Len(s)
    BY <1>4 DEF IsPrefix
  <2> HIDE DEF b
  <2>3. b[1] = s[1]
    <3>1. SubSeq(b, 1, Len(b))[1] = b[1] /\ SubSeq(s, 1, Len(b))[1] = s[1]
      BY <1>2, <2>1, <2>2
    <3> QED
      BY <2>2, <3>1
  <2>4. Bom[f][1] = Bom[e][1]
    BY <1>2, <2>3 DEF b
  <2>5. Bom["Utf8Bom"][1] = 239 /\ Bom["Utf16LE"][1] = 255 /\ Bom["Utf16BE"][1] = 254
    BY DEF Bom
  <2> QED
    BY <2>4, <2>5, BomIs
<1>5. Announces(s) = e
  BY <1>3, <1>4 DEF Announces
<1>6. PayloadOf(s) = p
  BY <1>2, <1>5 DEF PayloadOf, BomOf
<1> QED
  BY <1>5, <1>6 DEF s

\* Without a mark the payload is the whole file.
LEMMA NoMark ==
    ASSUME NEW bytes \in Seq(Byte), Announces(bytes) = "Utf8"
    PROVE  PayloadOf(bytes) = bytes /\ BomOf("Utf8") = <<>> /\ BomOf("Ansi") = <<>>
<1>1. BomOf("Ansi") = <<>> /\ BomOf("Utf8") = <<>>
  BY BomIs DEF BomOf
<1>2. PayloadOf(bytes) \in Seq(Byte) /\ bytes = BomOf(Announces(bytes)) \o PayloadOf(bytes)
  BY MarkAndPayload
<1>3. <<>> \o PayloadOf(bytes) = PayloadOf(bytes)
  BY <1>2, ConcatEmptySeq
<1> QED
  BY <1>1, <1>2, <1>3

\* The three ways to read a payload.
LEMMA ReadIs ==
    ASSUME NEW bytes \in Seq(Byte), NEW e, e = Announces(bytes), NEW p, p = PayloadOf(bytes)
    PROVE  /\ p \in Seq(Byte) /\ e \in {"Utf8", "Utf8Bom", "Utf16LE", "Utf16BE"}
           /\ ReadDocument(bytes).eol = DetectLineEnding(ReadDocument(bytes).text)
           /\ e = "Utf8" /\ ~IsValidUtf8(p)
                => ReadDocument(bytes).encoding = "Ansi" /\ ReadDocument(bytes).text = AnsiToUtf8(p)
           /\ (e = "Utf8" /\ IsValidUtf8(p)) \/ e = "Utf8Bom"
                => ReadDocument(bytes).encoding = e /\ ReadDocument(bytes).text = p
           /\ e \in {"Utf16LE", "Utf16BE"}
                => /\ ReadDocument(bytes).encoding = e
                   /\ ReadDocument(bytes).text = EncodeUtf8(DecodeUtf16(Units(p, e)))
<1>1. p \in Seq(Byte) /\ e \in {"Utf8", "Utf8Bom", "Utf16LE", "Utf16BE"}
  BY MarkAndPayload
<1> DEFINE encoding == IF e = "Utf8" /\ ~IsValidUtf8(p) THEN "Ansi" ELSE e
           text == IF encoding = "Ansi" THEN AnsiToUtf8(p)
                   ELSE IF encoding \in {"Utf8", "Utf8Bom"} THEN p
                   ELSE EncodeUtf8(DecodeUtf16(Units(p, encoding)))
<1>2. ReadDocument(bytes) = [text |-> text, encoding |-> encoding, eol |-> DetectLineEnding(text)]
  BY DEF ReadDocument, PayloadOf
<1>3. /\ ReadDocument(bytes).text = text /\ ReadDocument(bytes).encoding = encoding
      /\ ReadDocument(bytes).eol = DetectLineEnding(text)
  <2> HIDE DEF text, encoding
  <2> QED
    BY <1>2
<1>4. ReadDocument(bytes).eol = DetectLineEnding(ReadDocument(bytes).text)
  <2> HIDE DEF text, encoding
  <2> QED
    BY <1>3
<1>5. ASSUME e = "Utf8", ~IsValidUtf8(p)
      PROVE  encoding = "Ansi" /\ text = AnsiToUtf8(p)
  BY <1>5
<1>6. ASSUME (e = "Utf8" /\ IsValidUtf8(p)) \/ e = "Utf8Bom"
      PROVE  encoding = e /\ text = p
  BY <1>6
<1>7. ASSUME e \in {"Utf16LE", "Utf16BE"}
      PROVE  encoding = e /\ text = EncodeUtf8(DecodeUtf16(Units(p, e)))
  BY <1>7
<1> HIDE DEF text, encoding
<1> QED
  BY <1>1, <1>3, <1>4, <1>5, <1>6, <1>7

\* The editor holds UTF-8, unless a file that begins with the UTF-8 mark had something else.
Documents == [text : Seq(Byte), encoding : Encodings, eol : DOMAIN Eol]
Sound(d) == d \in Documents /\ (d.encoding # "Utf8Bom" => IsValidUtf8(d.text))

\* Whatever the bytes, what is read is a sound document.
LEMMA ReadingIsSound ==
    ASSUME NEW bytes \in Seq(Byte)
    PROVE  Sound(ReadDocument(bytes))
<1> DEFINE d == ReadDocument(bytes)  e == Announces(bytes)  p == PayloadOf(bytes)
<1>1. /\ p \in Seq(Byte) /\ e \in {"Utf8", "Utf8Bom", "Utf16LE", "Utf16BE"}
      /\ d.eol = DetectLineEnding(d.text)
      /\ e = "Utf8" /\ ~IsValidUtf8(p) => d.encoding = "Ansi" /\ d.text = AnsiToUtf8(p)
      /\ (e = "Utf8" /\ IsValidUtf8(p)) \/ e = "Utf8Bom" => d.encoding = e /\ d.text = p
      /\ e \in {"Utf16LE", "Utf16BE"} => d.encoding = e /\ d.text = EncodeUtf8(DecodeUtf16(Units(p, e)))
  BY ReadIs
<1>2. DOMAIN d = {"text", "encoding", "eol"} /\ d = [text |-> d.text, encoding |-> d.encoding, eol |-> d.eol]
  BY DEF ReadDocument
<1> HIDE DEF d, e, p
<1>3. d.text \in Seq(Byte) /\ d.encoding \in Encodings /\ (d.encoding # "Utf8Bom" => IsValidUtf8(d.text))
  <2>1. CASE e = "Utf8" /\ ~IsValidUtf8(p)
    <3>1. d.encoding = "Ansi" /\ d.text = AnsiToUtf8(p)
      BY <1>1, <2>1
    <3>2. AnsiToUtf8(p) \in Seq(Byte) /\ IsValidUtf8(AnsiToUtf8(p))
      BY <1>1, AnsiComesBack
    <3> QED
      BY <3>1, <3>2 DEF Encodings
  <2>2. CASE (e = "Utf8" /\ IsValidUtf8(p)) \/ e = "Utf8Bom"
    BY <1>1, <2>2 DEF Encodings
  <2>3. CASE e \in {"Utf16LE", "Utf16BE"}
    <3> DEFINE cps == DecodeUtf16(Units(p, e))
    <3>1. d.encoding = e /\ d.text = EncodeUtf8(cps)
      BY <1>1, <2>3
    <3>2. cps \in Seq(Scalar)
      BY <1>1, UnitsBack, Utf16Encodes
    <3> HIDE DEF cps
    <3>3. EncodeUtf8(cps) \in Seq(Byte) /\ IsValidUtf8(EncodeUtf8(cps))
      BY <3>2, EncodedIs, Utf8Decodes
    <3> QED
      BY <2>3, <3>1, <3>3 DEF Encodings
  <2> QED
    BY <1>1, <2>1, <2>2, <2>3
<1>4. d.eol \in DOMAIN Eol
  BY <1>1, <1>3, DetectedIs
<1>5. d \in Documents
  BY <1>2, <1>3, <1>4 DEF Documents
<1> QED
  BY <1>3, <1>5 DEF Sound, d

\* What Windows-1252 can hold comes back from it.
LEMMA AnsiHolds ==
    ASSUME NEW cps \in Seq(Scalar), \A i \in DOMAIN cps : HasAnsi(cps[i])
    PROVE  UnicodeToAnsi(cps) \in Seq(Byte) /\ AnsiToUtf8(UnicodeToAnsi(cps)) = EncodeUtf8(cps)
<1> DEFINE s == UnicodeToAnsi(cps)
<1>1. Len(cps) \in Nat /\ DOMAIN cps = 1 .. Len(cps) /\ cps = [i \in 1 .. Len(cps) |-> cps[i]]
  OBVIOUS
<1>2. s = [i \in 1 .. Len(cps) |-> ToAnsi(cps[i])]
  BY <1>1 DEF UnicodeToAnsi
<1>3. ASSUME NEW i \in 1 .. Len(cps)
      PROVE  ToAnsi(cps[i]) \in Byte /\ FromAnsi(ToAnsi(cps[i])) = cps[i]
  <2>1. \E b \in Byte : FromAnsi(b) = cps[i]
    BY <1>1 DEF HasAnsi, Byte
  <2>2. ToAnsi(cps[i]) = CHOOSE b \in Byte : FromAnsi(b) = cps[i]
    BY <2>1 DEF ToAnsi, HasAnsi, Byte
  <2> QED
    BY <2>1, <2>2
<1> HIDE DEF s
<1>4. s \in Seq(Byte) /\ DOMAIN s = 1 .. Len(cps) /\ \A i \in 1 .. Len(cps) : s[i] = ToAnsi(cps[i])
  BY <1>1, <1>2, <1>3
<1>5. [i \in DOMAIN s |-> FromAnsi(s[i])] = cps
  BY <1>1, <1>3, <1>4
<1> QED
  BY <1>4, <1>5 DEF AnsiToUtf8, s

\* Opening what was saved.
LEMMA SavedIsRead ==
    ASSUME NEW d, Sound(d), CanEncodeLosslessly(d.text, d.encoding),
           NEW bytes, bytes = Encode(d.text, d.encoding, d.eol),
           d.encoding = "Ansi" => ReadDocument(bytes).encoding = "Ansi",
           d.encoding = "Utf8" => Announces(bytes) = "Utf8"
    PROVE  /\ ReadDocument(bytes).text = NormalizeLineEndings(d.text, d.eol)
           /\ ReadDocument(bytes).encoding = d.encoding
           /\ (\E i \in DOMAIN d.text : d.text[i] \in {CR, LF}) => ReadDocument(bytes).eol = d.eol
<1> DEFINE n == NormalizeLineEndings(d.text, d.eol)  r == ReadDocument(bytes)  e == d.encoding
<1>1. d.text \in Seq(Byte) /\ e \in Encodings /\ d.eol \in DOMAIN Eol /\ (e # "Utf8Bom" => IsValidUtf8(d.text))
  BY DEF Sound, Documents
<1>2. n \in Seq(Byte)
  BY <1>1, NormalizedIs
<1>3. /\ e # "Utf8Bom" => IsValidUtf8(n)
      /\ e = "Ansi" => CanEncodeLosslessly(n, "Ansi")
  BY <1>1, NormalizedKeeps
<1>4. (\E i \in DOMAIN d.text : d.text[i] \in {CR, LF}) => DetectLineEnding(n) = d.eol
  BY <1>1, DetectedIs
<1> DEFINE units == EncodeUtf16(DecodeUtf8(n))
           payload == IF e \in {"Utf8", "Utf8Bom"} THEN n
                      ELSE IF e = "Ansi" THEN UnicodeToAnsi(DecodeUtf8(n)) ELSE BytesOfUnits(units, e)
<1>5. bytes = BomOf(e) \o payload
  BY DEF Encode, BytesOfUnits
<1> HIDE DEF n
<1>6. ASSUME NEW p \in Seq(Byte), bytes = BomOf(e) \o p, e \in DOMAIN Bom
      PROVE  bytes \in Seq(Byte) /\ Announces(bytes) = e /\ PayloadOf(bytes) = p
  <2>1. BomOf(e) = Bom[e] /\ Bom[e] \in Seq(Byte)
    BY <1>6, BomIs DEF BomOf
  <2>2. Bom[e] \o p \in Seq(Byte)
    BY <2>1, ConcatProperties
  <2> HIDE DEF e
  <2> QED
    BY <1>6, <2>1, <2>2, MarkIsRecognised
<1>7. ASSUME NEW p \in Seq(Byte), bytes = BomOf(e) \o p, e \in {"Utf8", "Ansi"}
      PROVE  bytes = p
  <2>1. BomOf(e) = <<>>
    BY <1>7, BomIs DEF BomOf
  <2> QED
    BY <1>7, <2>1, ConcatEmptySeq
<1>8. ASSUME e = "Utf8Bom"
      PROVE  r.text = n /\ r.encoding = e
  <2>1. bytes = BomOf(e) \o n /\ e \in DOMAIN Bom
    BY <1>5, <1>8, BomIs
  <2>2. bytes \in Seq(Byte) /\ Announces(bytes) = e /\ PayloadOf(bytes) = n
    BY <1>2, <1>6, <2>1
  <2> QED
    BY <1>8, <2>2, ReadIs
<1>9. ASSUME e = "Utf8"
      PROVE  r.text = n /\ r.encoding = e
  <2>1. bytes = n
    BY <1>2, <1>5, <1>7, <1>9
  <2>2. Announces(bytes) = "Utf8" /\ PayloadOf(bytes) = n
    BY <1>2, <1>9, <2>1, NoMark
  <2> QED
    BY <1>2, <1>3, <1>9, <2>1, <2>2, ReadIs
<1>10. ASSUME e = "Ansi"
       PROVE  r.text = n /\ r.encoding = e
  <2> DEFINE cps == DecodeUtf8(n)
  <2>1. cps \in Seq(Scalar) /\ EncodeUtf8(cps) = n /\ \A i \in DOMAIN cps : HasAnsi(cps[i])
    BY <1>2, <1>3, <1>10, Utf8Encodes DEF CanEncodeLosslessly
  <2> HIDE DEF cps
  <2>2. UnicodeToAnsi(cps) \in Seq(Byte) /\ AnsiToUtf8(UnicodeToAnsi(cps)) = n
    BY <2>1, AnsiHolds
  <2>3. bytes = BomOf(e) \o UnicodeToAnsi(cps)
    BY <1>5, <1>10 DEF cps
  <2>4. bytes = UnicodeToAnsi(cps)
    BY <1>7, <1>10, <2>2, <2>3
  <2>5. r.encoding = "Ansi"
    BY <1>10
  <2>6. Announces(bytes) = "Utf8" /\ ~IsValidUtf8(PayloadOf(bytes)) /\ r.text = AnsiToUtf8(PayloadOf(bytes))
    BY <2>2, <2>4, <2>5, ReadIs
  <2>7. PayloadOf(bytes) = bytes
    BY <2>2, <2>4, <2>6, NoMark
  <2> QED
    BY <1>10, <2>2, <2>4, <2>5, <2>6, <2>7
<1>11. ASSUME e \in {"Utf16LE", "Utf16BE"}
       PROVE  r.text = n /\ r.encoding = e
  <2> DEFINE cps == DecodeUtf8(n)
  <2>1. cps \in Seq(Scalar) /\ EncodeUtf8(cps) = n
    BY <1>2, <1>3, <1>11, Utf8Encodes
  <2>2. units = EncodeUtf16(cps)
    OBVIOUS
  <2> HIDE DEF cps, units
  <2>3. units \in Seq(Unit) /\ DecodeUtf16(units) = cps
    BY <2>1, <2>2, Utf16Decodes
  <2>4. BytesOfUnits(units, e) \in Seq(Byte) /\ Units(BytesOfUnits(units, e), e) = units
    BY <2>3, UnitsForth
  <2>5. bytes = BomOf(e) \o BytesOfUnits(units, e) /\ e \in DOMAIN Bom
    BY <1>5, <1>11, BomIs
  <2>6. bytes \in Seq(Byte) /\ Announces(bytes) = e /\ PayloadOf(bytes) = BytesOfUnits(units, e)
    BY <1>6, <2>4, <2>5
  <2>7. r.encoding = e /\ r.text = EncodeUtf8(DecodeUtf16(Units(PayloadOf(bytes), e)))
    BY <1>11, <2>6, ReadIs
  <2> QED
    BY <2>1, <2>3, <2>4, <2>6, <2>7
<1>12. r.text = n /\ r.encoding = e
  BY <1>1, <1>8, <1>9, <1>10, <1>11 DEF Encodings
<1>13. r.eol = DetectLineEnding(r.text)
  BY DEF ReadDocument
<1> HIDE DEF r
<1> QED
  BY <1>4, <1>12, <1>13 DEF n, r

\* Two texts of valid UTF-8 make one, whatever they end and begin with.
LEMMA ValidConcat ==
    ASSUME NEW s \in Seq(Byte), NEW t \in Seq(Byte), IsValidUtf8(s), IsValidUtf8(t)
    PROVE  s \o t \in Seq(Byte) /\ IsValidUtf8(s \o t)
<1> DEFINE a == DecodeUtf8(s)  b == DecodeUtf8(t)
<1>1. a \in Seq(Scalar) /\ EncodeUtf8(a) = s /\ b \in Seq(Scalar) /\ EncodeUtf8(b) = t
  BY Utf8Encodes
<1> HIDE DEF a, b
<1>2. a \o b \in Seq(Scalar) /\ EncodeUtf8(a \o b) = s \o t
  BY <1>1, ConcatProperties, EncodedConcat
<1> QED
  BY <1>2, EncodedIs, Utf8Decodes

\* What a change of one field leaves of a document.
LEMMA ChangedDocument ==
    ASSUME NEW d \in Documents
    PROVE  /\ \A t : LET c == [d EXCEPT !.text = t]
                     IN  (t \in Seq(Byte) => c \in Documents) /\ c.text = t /\ c.encoding = d.encoding
           /\ \A e : LET c == [d EXCEPT !.encoding = e]
                     IN  (e \in Encodings => c \in Documents) /\ c.text = d.text /\ c.encoding = e /\ c.eol = d.eol
  BY Zenon DEF Documents

\* What the open document is, and what the file has when it was saved without a substitution.
Kept ==
    /\ phase \in {"unread", "open", "edited"}
    /\ phase = "unread" => file \in Files /\ answer = "none"
    /\ phase # "unread" => Sound(doc)
    /\ Saved => /\ file = Encode(doc.text, doc.encoding, doc.eol)
                /\ CanEncodeLosslessly(doc.text, doc.encoding)

\* Kept always holds: reading and typing give sound documents, a save writes what they say.
LEMMA KeptInvariant == Spec => []Kept
<1>1. Init => Kept
  BY DEF Init, Kept, Saved
<1>2. Kept /\ [Next]_vars => Kept'
  <2> SUFFICES ASSUME Kept, [Next]_vars
               PROVE  Kept'
    OBVIOUS
  <2>1. CASE Open
    <3>1. file \in Seq(Byte) /\ answer' = "none" /\ phase' = "open" /\ doc' = ReadDocument(file)
      BY <2>1, FormatAssumption DEF Open, Kept, Byte
    <3>2. Sound(doc)'
      BY <3>1, ReadingIsSound DEF Sound
    <3> QED
      BY <3>1, <3>2 DEF Kept, Saved
  <2>2. CASE Edit
    <3>1. Sound(doc) /\ phase' = "edited"
      BY <2>2 DEF Edit, Kept
    <3>2. PICK t \in Typed : \E text \in {t \o doc.text, doc.text \o t, t} : doc' = [doc EXCEPT !.text = text]
      BY <2>2 DEF Edit
    <3>3. PICK text \in {t \o doc.text, doc.text \o t, t} : doc' = [doc EXCEPT !.text = text]
      BY <3>2
    <3>4. t \in Seq(Byte) /\ IsValidUtf8(t) /\ doc \in Documents /\ doc.text \in Seq(Byte)
      BY <3>1, FormatAssumption DEF Sound, Documents, Byte
    <3>5. text \in Seq(Byte) /\ (IsValidUtf8(doc.text) => IsValidUtf8(text))
      BY <3>3, <3>4, ValidConcat, ConcatProperties
    <3>6. doc' \in Documents /\ doc'.text = text /\ doc'.encoding = doc.encoding
      BY <3>3, <3>4, <3>5, ChangedDocument, ZenonT(60)
    <3>7. Sound(doc)'
      BY <3>1, <3>5, <3>6 DEF Sound
    <3> QED
      BY <3>1, <3>7 DEF Kept, Saved
  <2>3. CASE Save
    <3>1. Sound(doc) /\ doc \in Documents
      BY <2>3 DEF Save, Kept, Sound
    <3>2. ASSUME NEW e \in Encodings, NEW outcome, WriteAs(e, outcome), e # doc.encoding => IsValidUtf8(doc.text),
                 outcome = "saved" => CanEncodeLosslessly(doc.text, e)
          PROVE  Kept'
      <4>1. /\ file' = Encode(doc.text, e, doc.eol) /\ phase' = "open" /\ answer' = outcome
            /\ doc' = [doc EXCEPT !.encoding = e]
        BY <3>2 DEF WriteAs
      <4>2. doc' \in Documents /\ doc'.text = doc.text /\ doc'.encoding = e /\ doc'.eol = doc.eol
        BY <3>1, <4>1, ChangedDocument, ZenonT(60)
      <4>3. Sound(doc)'
        BY <3>1, <3>2, <4>2 DEF Sound
      <4>4. Saved' => file' = Encode(doc'.text, doc'.encoding, doc'.eol) /\ CanEncodeLosslessly(doc'.text, doc'.encoding)
        BY <3>2, <4>1, <4>2 DEF Saved
      <4> QED
        BY <4>1, <4>3, <4>4 DEF Kept
    <3>3. CASE CanEncodeLosslessly(doc.text, doc.encoding)
      <4>1. WriteAs(doc.encoding, "saved")
        BY <2>3, <3>3 DEF Save
      <4>2. doc.encoding \in Encodings
        BY <3>1 DEF Documents
      <4> QED
        BY <3>2, <3>3, <4>1, <4>2
    <3>4. CASE ~CanEncodeLosslessly(doc.text, doc.encoding)
      <4>1. doc.encoding = "Ansi" /\ IsValidUtf8(doc.text)
        BY <3>1, <3>4 DEF CanEncodeLosslessly, Sound
      <4>2. CASE WriteAs("Utf8", "saved")
        <5>1. "Utf8" \in Encodings /\ CanEncodeLosslessly(doc.text, "Utf8")
          BY DEF Encodings, CanEncodeLosslessly
        <5> QED
          BY <3>2, <4>1, <4>2, <5>1
      <4>3. CASE WriteAs(doc.encoding, "substituted")
        <5>1. doc.encoding \in Encodings
          BY <3>1 DEF Documents
        <5> QED
          BY <3>2, <4>3, <5>1
      <4>4. CASE answer' = "cancelled" /\ UNCHANGED <<file, doc, phase>>
        BY <4>4, <2>3 DEF Kept, Saved, Sound, Save
      <4> QED
        BY <2>3, <3>4, <4>2, <4>3, <4>4 DEF Save
    <3> QED
      BY <3>3, <3>4
  <2>4. CASE UNCHANGED vars
    BY <2>4 DEF vars, Kept, Saved, Sound
  <2> QED
    BY <2>1, <2>2, <2>3, <2>4 DEF Next
<1> QED
  BY <1>1, <1>2, PTL DEF Spec

\* Opening a file that was saved without a substitution gives the text that was saved, its breaks
\* normalised, with its encoding and its line ending, after any edits; unless the bytes that were
\* written happen to read as another encoding.
THEOREM SavedTextIsFound == Spec => []SavedTextComesBack
<1>1. Kept => SavedTextComesBack
  <2> SUFFICES ASSUME Kept, Saved, ~Ambiguous
               PROVE  /\ Reread.text = NormalizeLineEndings(doc.text, doc.eol)
                      /\ Reread.encoding = doc.encoding
                      /\ (\E i \in DOMAIN doc.text : doc.text[i] \in {CR, LF}) => Reread.eol = doc.eol
    BY DEF SavedTextComesBack
  <2>1. Sound(doc) /\ file = Encode(doc.text, doc.encoding, doc.eol) /\ CanEncodeLosslessly(doc.text, doc.encoding)
    BY DEF Kept, Saved
  <2>2. (doc.encoding = "Ansi" => ReadDocument(file).encoding = "Ansi") /\ (doc.encoding = "Utf8" => Announces(file) = "Utf8")
    BY DEF Ambiguous
  <2> QED
    BY <2>1, <2>2, SavedIsRead DEF Reread
<1> QED
  BY <1>1, KeptInvariant, PTL
=============================================================================
