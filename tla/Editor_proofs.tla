--------------------------- MODULE Editor_proofs ---------------------------
(***************************************************************************)
(* Proofs about the editor: what its commands do to a text, of any length  *)
(* and whatever is searched for (Editor), and, at the end, how it and the  *)
(* preview scroll together (SyncScroll).                                   *)
(***************************************************************************)
EXTENDS Editor, SyncScroll, SequenceTheorems, FiniteSetTheorems, WellFoundedInduction, TLAPS

\* A set of numbers that is not empty has a least member.
LEMMA LeastNatural ==
    ASSUME NEW S \in SUBSET Nat, S # {}
    PROVE  \E x \in S : \A y \in S : x <= y
<1>1. PICK x \in S : \A y \in S : ~(<<y, x>> \in OpToRel(<, Nat))
  BY NatLessThanWellFounded, WFMin
<1>2. \A y \in S : ~(y < x)
  BY <1>1 DEF OpToRel
<1> QED
  BY <1>2

\* Induction, for a set of numbers.
LEMMA AllNaturals ==
    ASSUME NEW N \in SUBSET Nat, 0 \in N, \A n \in N : n + 1 \in N
    PROVE  N = Nat
<1> SUFFICES ASSUME Nat \ N # {}
             PROVE  FALSE
  OBVIOUS
<1>1. PICK x \in Nat \ N : \A y \in Nat \ N : x <= y
  BY LeastNatural, Nat \ N \in SUBSET Nat
<1>2. x # 0 /\ x - 1 \in N
  BY <1>1
<1> QED
  BY <1>2

\* The least and the greatest of some numbers with a bound.
LEMMA EndsAre ==
    ASSUME NEW n \in Nat, NEW S \in SUBSET (0..n), S # {}
    PROVE  /\ Max(S) \in S /\ \A x \in S : Max(S) >= x
           /\ Min(S) \in S /\ \A x \in S : Min(S) <= x
<1> DEFINE T == {n - x : x \in S}
<1>1. T \in SUBSET Nat /\ T # {}
  <2>1. \A x \in S : n - x \in Nat
    OBVIOUS
  <2> QED
    BY <2>1
<1>2. PICK y \in T : \A x \in T : y <= x
  <2> HIDE DEF T
  <2> QED
    BY <1>1, LeastNatural
<1>3. PICK m \in S : y = n - m
  BY <1>2
<1>4. \A x \in S : m >= x
  BY <1>2, <1>3
<1>5. \E x \in S : \A k \in S : x <= k
  BY LeastNatural
<1> QED
  BY <1>3, <1>4, <1>5 DEF Max, Min

-----------------------------------------------------------------------------
(* Sequences of anything. *)

IsSeq(s) == s \in Seq(Range(s))

\* What a sequence is.
LEMMA SeqIs ==
    ASSUME NEW s, IsSeq(s)
    PROVE  Len(s) \in Nat /\ DOMAIN s = 1..Len(s) /\ s = [i \in 1..Len(s) |-> s[i]]
  BY DEF IsSeq

\* What is counted up is a sequence.
LEMMA CountedIsSeq ==
    ASSUME NEW n \in Nat, NEW f, f = [k \in 1..n |-> f[k]]
    PROVE  IsSeq(f) /\ Len(f) = n
<1>1. f \in Seq({f[k] : k \in 1..n}) /\ Range(f) = {f[k] : k \in 1..n}
  BY DEF Range
<1> QED
  BY <1>1 DEF IsSeq

\* Sequences one after the other.
Cat(s, t) == s \o t
Cat3(s, t, u) == s \o t \o u

\* Two of them.
LEMMA CatIs ==
    ASSUME NEW s, NEW t, IsSeq(s), IsSeq(t)
    PROVE  /\ IsSeq(Cat(s, t)) /\ Len(Cat(s, t)) = Len(s) + Len(t)
           /\ \A i \in 1..Len(s) : Cat(s, t)[i] = s[i]
           /\ \A i \in 1..Len(t) : Cat(s, t)[Len(s) + i] = t[i]
<1> DEFINE S == Range(s) \cup Range(t)
<1>1. s \in Seq(S) /\ t \in Seq(S)
  BY DEF IsSeq
<1> HIDE DEF S
<1>2. s \o t \in Seq(S) /\ Len(s \o t) = Len(s) + Len(t)
  BY <1>1
<1>3. IsSeq(s \o t)
  <2>1. ASSUME NEW u \in Seq(S)
        PROVE  IsSeq(u)
    <3>1. u = [k \in 1..Len(u) |-> u[k]] /\ Len(u) \in Nat
      OBVIOUS
    <3> QED
      BY <3>1, CountedIsSeq
  <2> QED
    BY <1>2, <2>1
<1>4. Len(s) \in Nat /\ Len(t) \in Nat
  BY <1>1
<1>5. \A i \in 1..Len(s) : (s \o t)[i] = s[i]
  BY <1>1, <1>4
<1>6. \A i \in 1..Len(t) : (s \o t)[Len(s) + i] = t[i]
  BY <1>1, <1>4
<1> QED
  BY <1>2, <1>3, <1>5, <1>6, Zenon DEF Cat

\* Associativity.
LEMMA CatAssociates ==
    ASSUME NEW s, NEW t, NEW u, IsSeq(s), IsSeq(t), IsSeq(u)
    PROVE  Cat(Cat(s, t), u) = Cat(s, Cat(t, u)) /\ Cat3(s, t, u) = Cat(Cat(s, t), u)
<1> DEFINE S == Range(s) \cup Range(t) \cup Range(u)
<1>1. s \in Seq(S) /\ t \in Seq(S) /\ u \in Seq(S)
  BY DEF IsSeq
<1> HIDE DEF S
<1>2. (s \o t) \o u = s \o (t \o u)
  BY <1>1
<1> QED
  BY <1>2, Zenon DEF Cat, Cat3

\* A range of a text.
LEMMA RangeIs ==
    ASSUME NEW s, NEW p, NEW q, IsSeq(s), p \in 0..Len(s), q \in p..Len(s)
    PROVE  /\ IsSeq(GetRange(s, p, q)) /\ Len(GetRange(s, p, q)) = q - p
           /\ \A i \in 1..q - p : GetRange(s, p, q)[i] = s[p + i]
<1> DEFINE r == GetRange(s, p, q)
<1>1. /\ r \in Seq(Range(s)) /\ Len(r) = q - p
      /\ \A i \in 1..q - p : r[i] = s[p + i]
  BY DEF GetRange, IsSeq
<1> HIDE DEF r
<1>2. r = [k \in 1..Len(r) |-> r[k]] /\ Len(r) \in Nat
  BY <1>1
<1> QED
  BY <1>1, <1>2, CountedIsSeq DEF r

\* A text is what is before, in and after a range of it.
LEMMA TextIsCut ==
    ASSUME NEW s, NEW p, NEW q, IsSeq(s), p \in 0..Len(s), q \in p..Len(s)
    PROVE  s = GetRange(s, 0, p) \o GetRange(s, p, q) \o GetRange(s, q, Len(s))
<1>1. s \in Seq(Range(s)) /\ Len(s) \in Nat
  BY SeqIs DEF IsSeq
<1>2. SubSeq(s, 1, p) \o SubSeq(s, p + 1, q) = SubSeq(s, 1, q)
  BY <1>1, 1 \in 1..Len(s) + 1, p \in 1 - 1..Len(s), q \in p..Len(s), ConcatAdjacentSubSeq
<1>3. SubSeq(s, 1, q) \o SubSeq(s, q + 1, Len(s)) = SubSeq(s, 1, Len(s))
  <2>1. 1 \in 1..Len(s) + 1 /\ q \in 1 - 1..Len(s) /\ Len(s) \in q..Len(s)
    BY <1>1
  <2> QED
    BY <1>1, <2>1, ConcatAdjacentSubSeq
<1>4. SubSeq(s, 1, Len(s)) = s
  BY <1>1, SubSeqFull
<1>5. /\ GetRange(s, 0, p) = SubSeq(s, 1, p) /\ GetRange(s, p, q) = SubSeq(s, p + 1, q)
      /\ GetRange(s, q, Len(s)) = SubSeq(s, q + 1, Len(s))
  BY DEF GetRange
<1> QED
  BY <1>2, <1>3, <1>4, <1>5

\* The three parts of what was put together.
LEMMA PartsAre ==
    ASSUME NEW a, NEW b, NEW c, IsSeq(a), IsSeq(b), IsSeq(c)
    PROVE  /\ IsSeq(Cat3(a, b, c)) /\ Len(Cat3(a, b, c)) = Len(a) + Len(b) + Len(c)
           /\ GetRange(Cat3(a, b, c), 0, Len(a)) = a
           /\ GetRange(Cat3(a, b, c), Len(a), Len(a) + Len(b)) = b
           /\ GetRange(Cat3(a, b, c), Len(a) + Len(b), Len(Cat3(a, b, c))) = c
<1> DEFINE S == Range(a) \cup Range(b) \cup Range(c)
<1>1. a \in Seq(S) /\ b \in Seq(S) /\ c \in Seq(S)
  BY DEF IsSeq
<1>2. IsSeq(Cat3(a, b, c)) /\ Len(Cat3(a, b, c)) = Len(a) + Len(b) + Len(c)
  <2>1. Cat3(a, b, c) = Cat(Cat(a, b), c)
    BY Zenon DEF Cat3, Cat
  <2>2. IsSeq(Cat(a, b)) /\ Len(Cat(a, b)) = Len(a) + Len(b)
    BY CatIs
  <2> QED
    BY <2>1, <2>2, CatIs
<1> HIDE DEF S
<1>3. GetRange(a \o b \o c, 0, Len(a)) = a
  BY <1>1 DEF GetRange
<1>4. GetRange(a \o b \o c, Len(a), Len(a) + Len(b)) = b
  BY <1>1 DEF GetRange
<1>5. GetRange(a \o b \o c, Len(a) + Len(b), Len(a \o b \o c)) = c
  BY <1>1 DEF GetRange
<1>6. /\ GetRange(Cat3(a, b, c), 0, Len(a)) = a
      /\ GetRange(Cat3(a, b, c), Len(a), Len(a) + Len(b)) = b
      /\ GetRange(Cat3(a, b, c), Len(a) + Len(b), Len(Cat3(a, b, c))) = c
  BY <1>3, <1>4, <1>5, Zenon DEF Cat3
<1> QED
  BY <1>2, <1>6

-----------------------------------------------------------------------------
(* Texts with a selection. *)

\* How long a text is when marks are put around a range of it or taken off, and where the range is.
LEMMA LengthsAre ==
    ASSUME NEW n, NEW a, NEW b, NEW p, NEW s, n \in Nat, a \in 0..n, b \in a..n, p \in Nat, s \in Nat
    PROVE  /\ a + (p + (b - a) + s) + (n - b) = n + p + s
           /\ a + p \in 0..n + p + s /\ b + p \in a + p..n + p + s
           /\ a >= p /\ b + s <= n =>
                /\ a - p + (b - a) + (n - (b + s)) = n - p - s
                /\ a - p \in 0..n - p - s /\ b - p \in a - p..n - p - s
  OBVIOUS

\* The selection is in the text.
DocOK(d) ==
    /\ d = Doc(d.text, d.anchor, d.caret)
    /\ IsSeq(d.text) /\ d.anchor \in 0..Len(d.text) /\ d.caret \in 0..Len(d.text)

\* Its parts.
LEMMA DocIs ==
    ASSUME NEW text, NEW a, NEW c
    PROVE  /\ Doc(text, a, c).text = text /\ Doc(text, a, c).anchor = a /\ Doc(text, a, c).caret = c
           /\ IsSeq(text) /\ a \in 0..Len(text) /\ c \in 0..Len(text) => DocOK(Doc(text, a, c))
  BY DEF Doc, DocOK

\* The selection has a beginning and an end.
LEMMA SelectionIs ==
    ASSUME NEW d, DocOK(d)
    PROVE  /\ IsSeq(d.text) /\ Len(d.text) \in Nat
           /\ SelStart(d) \in 0..Len(d.text) /\ SelEnd(d) \in SelStart(d)..Len(d.text)
<1>1. d.anchor \in 0..Len(d.text) /\ d.caret \in 0..Len(d.text) /\ IsSeq(d.text) /\ Len(d.text) \in Nat
  BY SeqIs DEF DocOK
<1> QED
  BY <1>1 DEF SelStart, SelEnd

\* What is put in place of a range.
LEMMA PutIs ==
    ASSUME NEW text, NEW p, NEW q, NEW new, IsSeq(text), p \in 0..Len(text), q \in p..Len(text), IsSeq(new)
    PROVE  IsSeq(Put(text, p, q, new)) /\ Len(Put(text, p, q, new)) = p + Len(new) + (Len(text) - q)
<1>1. Len(text) \in Nat /\ Len(new) \in Nat
  BY SeqIs
<1>2. IsSeq(GetRange(text, 0, p)) /\ Len(GetRange(text, 0, p)) = p
  BY <1>1, RangeIs
<1>3. IsSeq(GetRange(text, q, Len(text))) /\ Len(GetRange(text, q, Len(text))) = Len(text) - q
  <2>1. q \in 0..Len(text) /\ Len(text) \in q..Len(text)
    BY <1>1
  <2> QED
    BY <2>1, RangeIs
<1>4. Put(text, p, q, new) = Cat3(GetRange(text, 0, p), new, GetRange(text, q, Len(text)))
  BY Zenon DEF Put, Cat3
<1> QED
  BY <1>1, <1>2, <1>3, <1>4, PartsAre

\* Marks are put around a selection or taken off: it stays in the text.
LEMMA WrapIsOK ==
    ASSUME NEW d, NEW prefix, NEW suffix, DocOK(d), IsSeq(prefix), IsSeq(suffix)
    PROVE  DocOK(WrapSelection(d, prefix, suffix))
<1> DEFINE old == d.text
           n == Len(old)
           start == SelStart(d)
           end == SelEnd(d)
           selected == GetRange(old, start, end)
           k == Len(prefix)
           l == Len(suffix)
           inner == GetRange(selected, k, Len(selected) - l)
           new == prefix \o selected \o suffix
           around == Around(d, k, l)
<1>1. IsSeq(old) /\ n \in Nat /\ start \in 0..n /\ end \in start..n /\ k \in Nat /\ l \in Nat
  BY SelectionIs, SeqIs
<1>2. IsSeq(selected) /\ Len(selected) = end - start
  BY <1>1, RangeIs
<1>3. new = Cat3(prefix, selected, suffix)
  BY Zenon DEF Cat3
<1>4. WrapSelection(d, prefix, suffix)
        = IF start # end /\ IsWrappedBy(selected, prefix, suffix)
          THEN Doc(Put(old, start, end, inner), start, start + Len(inner))
          ELSE IF around # <<>> /\ IsWrappedBy(around, prefix, suffix)
          THEN Doc(Put(old, start - k, end + l, selected), start - k, end - k)
          ELSE Doc(Put(old, start, end, new), start + k, end + k)
  BY Zenon DEF WrapSelection
<1>5. around # <<>> => start >= k /\ end + l <= n
  BY DEF Around
<1>6. IsWrappedBy(selected, prefix, suffix) => Len(selected) >= k + l
  BY DEF IsWrappedBy
<1> HIDE DEF old, n, start, end, selected, new, k, l, around, inner
<1>7. CASE start # end /\ IsWrappedBy(selected, prefix, suffix)
  <2>1. IsSeq(inner) /\ Len(inner) = Len(selected) - l - k
    <3>1. k \in 0..Len(selected) /\ Len(selected) - l \in k..Len(selected)
      BY <1>1, <1>2, <1>6, <1>7
    <3> QED
      BY <1>2, <3>1, RangeIs DEF inner
  <2> DEFINE text == Put(old, start, end, inner)
  <2>2. IsSeq(text) /\ Len(text) = start + Len(inner) + (n - end)
    BY <1>1, <2>1, PutIs DEF n
  <2> HIDE DEF text
  <2>3. start \in 0..Len(text) /\ start + Len(inner) \in 0..Len(text)
    BY <1>1, <1>2, <1>6, <1>7, <2>1, <2>2
  <2>4. DocOK(Doc(text, start, start + Len(inner)))
    BY <2>2, <2>3, DocIs
  <2> QED
    BY <1>4, <1>7, <2>4 DEF text
<1>8. CASE /\ ~(start # end /\ IsWrappedBy(selected, prefix, suffix))
           /\ around # <<>> /\ IsWrappedBy(around, prefix, suffix)
  <2> DEFINE p == start - k
             q == end + l
             text == Put(old, p, q, selected)
  <2>1. p \in 0..n /\ q \in p..n /\ end - k \in 0..n
    BY <1>1, <1>5, <1>8
  <2> HIDE DEF p, q
  <2>2. IsSeq(text) /\ Len(text) = p + Len(selected) + (n - q)
    BY <1>1, <1>2, <2>1, PutIs DEF n
  <2> HIDE DEF text
  <2>3. p \in 0..Len(text) /\ end - k \in 0..Len(text)
    BY <1>1, <1>2, <2>1, <2>2 DEF p, q
  <2>4. DocOK(Doc(text, p, end - k))
    BY <2>2, <2>3, DocIs
  <2> QED
    BY <1>4, <1>8, <2>4 DEF text, p, q
<1>9. CASE /\ ~(start # end /\ IsWrappedBy(selected, prefix, suffix))
           /\ ~(around # <<>> /\ IsWrappedBy(around, prefix, suffix))
  <2>1. IsSeq(new) /\ Len(new) = k + Len(selected) + l
    BY <1>2, <1>3, PartsAre DEF k, l
  <2> DEFINE text == Put(old, start, end, new)
  <2>2. IsSeq(text) /\ Len(text) = start + Len(new) + (n - end)
    BY <1>1, <2>1, PutIs DEF n
  <2> HIDE DEF text
  <2>3. start + k \in 0..Len(text) /\ end + k \in 0..Len(text)
    BY <1>1, <1>2, <2>1, <2>2
  <2>4. DocOK(Doc(text, start + k, end + k))
    BY <2>2, <2>3, DocIs
  <2> QED
    BY <1>4, <1>9, <2>4 DEF text
<1> QED
  BY <1>7, <1>8, <1>9

-----------------------------------------------------------------------------
(* Marks that are put on come off. *)

\* What stands in three parts put together.
LEMMA PlacesAre ==
    ASSUME NEW a, NEW b, NEW c, IsSeq(a), IsSeq(b), IsSeq(c)
    PROVE  /\ \A i \in 1..Len(a) : Cat3(a, b, c)[i] = a[i]
           /\ \A i \in 1..Len(b) : Cat3(a, b, c)[Len(a) + i] = b[i]
           /\ \A i \in 1..Len(c) : Cat3(a, b, c)[Len(a) + Len(b) + i] = c[i]
<1> DEFINE ab == Cat(a, b)
<1>1. /\ Len(a) \in Nat /\ Len(b) \in Nat /\ Len(c) \in Nat
      /\ IsSeq(ab) /\ Len(ab) = Len(a) + Len(b)
  BY SeqIs, CatIs
<1>2. /\ \A i \in 1..Len(a) : ab[i] = a[i]
      /\ \A i \in 1..Len(b) : ab[Len(a) + i] = b[i]
  BY CatIs
<1>3. Cat3(a, b, c) = Cat(ab, c)
  BY CatAssociates
<1> HIDE DEF ab
<1>4. /\ \A i \in 1..Len(ab) : Cat3(a, b, c)[i] = ab[i]
      /\ \A i \in 1..Len(c) : Cat3(a, b, c)[Len(ab) + i] = c[i]
  BY <1>1, <1>3, CatIs
<1>5. \A i \in 1..Len(a) : i \in 1..Len(ab)
  BY <1>1
<1>6. \A i \in 1..Len(b) : Len(a) + i \in 1..Len(ab)
  BY <1>1
<1> QED
  BY <1>1, <1>2, <1>4, <1>5, <1>6

\* What is put between marks is between marks.
LEMMA MarkedIsWrapped ==
    ASSUME NEW m, IsSeq(m), NEW sel, IsSeq(sel),
           Len(m) = 1 => m[1] # "end" /\ ~LoneMark(sel, m[1])
    PROVE  IsWrappedBy(Cat3(m, sel, m), m, m)
<1> DEFINE x == Cat3(m, sel, m)
           k == Len(m)
           n == Len(sel)
<1>1. k \in Nat /\ n \in Nat /\ IsSeq(x) /\ Len(x) = k + n + k
  BY SeqIs, PartsAre
<1>2. (\A i \in 1..k : x[i] = m[i]) /\ (\A i \in 1..n : x[k + i] = sel[i]) /\ \A i \in 1..k : x[k + n + i] = m[i]
  BY PlacesAre
<1> HIDE DEF x
<1>3. IsPrefix(m, x)
  <2>1. \A i \in 1..k : SubSeq(m, 1, k)[i] = SubSeq(x, 1, k)[i]
    BY <1>1, <1>2
  <2> QED
    BY <1>1, <1>2 DEF IsPrefix
<1>4. IsSuffix(m, x)
  BY <1>1, <1>2 DEF IsSuffix, IsPrefix, Reverse
<1>5. ASSUME k = 1, Len(x) > 2
      PROVE  ~DoubledMark(x)
  <2>1. /\ n >= 1 /\ DOMAIN sel = 1..n /\ sel # <<>> /\ Len(x) = n + 2
        /\ x[1] = m[1] /\ x[2] = sel[1] /\ x[n + 1] = sel[n]
    <3>1. n >= 1 /\ Len(x) = n + 2 /\ 1 \in 1..k /\ 1 \in 1..n /\ n \in 1..n /\ k + 1 = 2 /\ k + n = n + 1
      BY <1>1, <1>5
    <3>2. DOMAIN sel = 1..n /\ sel # <<>>
      BY <3>1, SeqIs
    <3>3. x[1] = m[1] /\ x[k + 1] = sel[1] /\ x[k + n] = sel[n]
      BY <1>2, <3>1
    <3> QED
      BY <3>1, <3>2, <3>3
  <2>2. n >= 2 => x[3] = sel[2] /\ x[n] = sel[n - 1]
    <3>1. n >= 2 => 2 \in 1..n /\ n - 1 \in 1..n /\ k + 2 = 3 /\ k + (n - 1) = n
      BY <1>1, <1>5
    <3> QED
      BY <1>2, <3>1
  <2>3. sel[1] = m[1] => n >= 2 /\ sel[2] = m[1]
    BY <1>1, <1>5, <2>1 DEF LoneMark, TokenAt
  <2>4. sel[n] = m[1] => n >= 2 /\ sel[n - 1] = m[1]
    BY <1>1, <1>5, <2>1 DEF LoneMark, TokenAt, Last
  <2>5. Len(x) - 1 = n + 1 /\ Len(x) - 2 = n /\ (n >= 2 => Len(x) > 3)
    BY <1>1, <2>1
  <2> QED
    BY <2>1, <2>2, <2>3, <2>4, <2>5 DEF DoubledMark
<1> QED
  BY <1>1, <1>3, <1>4, <1>5 DEF IsWrappedBy, x

\* Five parts put together one way and another.
LEMMA FivePartsAre ==
    ASSUME NEW a, NEW m, NEW b, NEW c, IsSeq(a), IsSeq(m), IsSeq(b), IsSeq(c)
    PROVE  Cat3(a, Cat3(m, b, m), c) = Cat3(Cat(a, m), b, Cat(m, c))
<1> DEFINE t == Cat(b, m)
           u == Cat(m, c)
           v == Cat(a, m)
<1>1. IsSeq(t) /\ IsSeq(u) /\ IsSeq(v)
  BY CatIs
<1>2. Cat3(m, b, m) = Cat(m, t) /\ Cat(t, c) = Cat(b, u)
  BY CatAssociates
<1>3. Cat(v, t) = Cat(a, Cat(m, t))
  <2> HIDE DEF t
  <2> QED
    BY <1>1, CatAssociates
<1>4. IsSeq(Cat3(m, b, m))
  BY PartsAre
<1> HIDE DEF t, u, v
<1>5. Cat(Cat(v, t), c) = Cat(v, Cat(t, c))
  BY <1>1, CatAssociates
<1>6. Cat3(v, b, u) = Cat(v, Cat(b, u))
  BY <1>1, CatAssociates
<1>7. Cat3(a, Cat3(m, b, m), c) = Cat(Cat(a, Cat3(m, b, m)), c)
  BY <1>4, CatAssociates
<1>8. Cat3(a, Cat3(m, b, m), c) = Cat3(v, b, u)
  BY <1>2, <1>3, <1>5, <1>6, <1>7
<1> QED
  BY <1>8 DEF u, v

\* Where everything is once marks are put around a range.
MarksOn(old, start, end, m, text) ==
    /\ IsSeq(text) /\ start + Len(m) >= Len(m) /\ end + Len(m) + Len(m) <= Len(text) /\ start + Len(m) - Len(m) = start /\ end + Len(m) - Len(m) = end
    /\ (start + Len(m) # end + Len(m) <=> start # end)
    /\ GetRange(text, start + Len(m), end + Len(m)) = GetRange(old, start, end)
    /\ GetRange(text, start, end + Len(m) + Len(m)) = Cat3(m, GetRange(old, start, end), m)
    /\ Put(text, start, end + Len(m) + Len(m), GetRange(old, start, end)) = old

\* And it is there.
LEMMA MarksAreOn ==
    ASSUME NEW old, NEW start, NEW end, NEW m,
           IsSeq(old), start \in 0..Len(old), end \in start..Len(old), IsSeq(m)
    PROVE  MarksOn(old, start, end, m, Put(old, start, end, Cat3(m, GetRange(old, start, end), m)))
<1> DEFINE selected == GetRange(old, start, end)
           a == GetRange(old, 0, start)
           c == GetRange(old, end, Len(old))
           mid == Cat3(m, selected, m)
           n == Len(old)
           k == Len(m)
           text == Put(old, start, end, mid)
<1>1. k \in Nat /\ n \in Nat /\ start \in 0..n /\ end \in start..n /\ 0 \in 0..n /\ end \in 0..n /\ n \in end..n
  BY SeqIs
<1>2. /\ IsSeq(selected) /\ Len(selected) = end - start
      /\ IsSeq(a) /\ Len(a) = start - 0 /\ IsSeq(c) /\ Len(c) = n - end
  BY <1>1, RangeIs
<1>3. old = Cat3(a, selected, c)
  BY TextIsCut, Zenon DEF Cat3
<1>4. text = Cat3(a, mid, c)
  BY Zenon DEF Put, Cat3
<1> HIDE DEF selected, a, c, n, text
<1>5. /\ IsSeq(mid) /\ Len(mid) = k + Len(selected) + k
      /\ IsSeq(Cat(a, m)) /\ Len(Cat(a, m)) = Len(a) + k /\ IsSeq(Cat(m, c))
  <2>1. IsSeq(mid) /\ Len(mid) = k + Len(selected) + k
    BY <1>2, PartsAre
  <2>2. IsSeq(Cat(a, m)) /\ Len(Cat(a, m)) = Len(a) + k
    BY <1>2, CatIs
  <2>3. IsSeq(Cat(m, c))
    BY <1>2, CatIs
  <2> HIDE DEF mid
  <2> QED
    BY <2>1, <2>2, <2>3
<1>6. text = Cat3(Cat(a, m), selected, Cat(m, c))
  BY <1>2, <1>4, FivePartsAre
<1>7. GetRange(text, Len(Cat(a, m)), Len(Cat(a, m)) + Len(selected)) = selected
  <2> DEFINE x == Cat(a, m)
             y == Cat(m, c)
  <2> HIDE DEF x, y
  <2>1. IsSeq(x) /\ IsSeq(y) /\ text = Cat3(x, selected, y)
    BY <1>5, <1>6 DEF x, y
  <2>2. GetRange(text, Len(x), Len(x) + Len(selected)) = selected
    BY <1>2, <2>1, PartsAre
  <2> QED
    BY <2>2 DEF x
<1> HIDE DEF mid
<1>8. /\ IsSeq(text) /\ Len(text) = Len(a) + Len(mid) + Len(c)
      /\ GetRange(text, 0, Len(a)) = a
      /\ GetRange(text, Len(a), Len(a) + Len(mid)) = mid
      /\ GetRange(text, Len(a) + Len(mid), Len(text)) = c
  <2>1. IsSeq(a) /\ IsSeq(mid) /\ IsSeq(c)
    BY <1>2, <1>5
  <2> QED
    BY <1>4, <2>1, PartsAre
<1>9. /\ Len(a) = start /\ Len(a) + Len(mid) = end + k + k
      /\ Len(Cat(a, m)) = start + k /\ Len(Cat(a, m)) + Len(selected) = end + k
      /\ end + k + k <= Len(text)
  BY <1>1, <1>2, <1>5, <1>8
<1>10. /\ GetRange(text, 0, start) = a /\ GetRange(text, start, end + k + k) = mid
       /\ GetRange(text, end + k + k, Len(text)) = c /\ GetRange(text, start + k, end + k) = selected
  BY <1>7, <1>8, <1>9
<1>11. Put(text, start, end + k + k, selected) = Cat3(a, selected, c)
  BY <1>10, Zenon DEF Put, Cat3
<1>12. start + k >= k /\ start + k - k = start /\ end + k - k = end /\ (start + k # end + k <=> start # end)
  BY <1>1
<1> QED
  BY <1>3, <1>8, <1>9, <1>10, <1>11, <1>12 DEF selected, mid, text, MarksOn

\* A mark that made the text longer was put around the selection.
LEMMA WrapIsOn ==
    ASSUME NEW d, DocOK(d), NEW m, IsSeq(m), Len(WrapSelection(d, m, m).text) > Len(d.text)
    PROVE  /\ ~(SelStart(d) # SelEnd(d) /\ IsWrappedBy(GetRange(d.text, SelStart(d), SelEnd(d)), m, m))
           /\ LET once == WrapSelection(d, m, m) IN
              /\ once.text = Put(d.text, SelStart(d), SelEnd(d), Cat3(m, GetRange(d.text, SelStart(d), SelEnd(d)), m))
              /\ SelStart(once) = SelStart(d) + Len(m) /\ SelEnd(once) = SelEnd(d) + Len(m)
<1> DEFINE old == d.text
           n == Len(old)
           start == SelStart(d)
           end == SelEnd(d)
           selected == GetRange(old, start, end)
           k == Len(m)
           once == WrapSelection(d, m, m)
           text == once.text
<1>1. /\ IsSeq(old) /\ n \in Nat /\ start \in 0..n /\ end \in start..n /\ k \in Nat /\ Len(text) > n
  BY SelectionIs, SeqIs
<1>2. IsSeq(selected) /\ Len(selected) = end - start
  BY <1>1, RangeIs
<1> DEFINE new == m \o selected \o m
<1>3. new = Cat3(m, selected, m)
  BY Zenon DEF Cat3
<1>4. once = IF start # end /\ IsWrappedBy(selected, m, m)
             THEN LET inner == GetRange(selected, k, Len(selected) - k) IN
                  Doc(Put(old, start, end, inner), start, start + Len(inner))
             ELSE IF Around(d, k, k) # <<>> /\ IsWrappedBy(Around(d, k, k), m, m)
             THEN Doc(Put(old, start - k, end + k, selected), start - k, end - k)
             ELSE Doc(Put(old, start, end, new), start + k, end + k)
  BY Zenon DEF WrapSelection
<1>5. Around(d, k, k) # <<>> => start >= k /\ end + k <= n
  BY DEF Around
<1> HIDE DEF once, new, old, n, start, end, selected
<1>6. ~(start # end /\ IsWrappedBy(selected, m, m))
  <2> SUFFICES ASSUME start # end /\ IsWrappedBy(selected, m, m)
               PROVE  FALSE
    OBVIOUS
  <2> DEFINE inner == GetRange(selected, k, Len(selected) - k)
  <2>1. Len(selected) >= k + k
    BY DEF IsWrappedBy
  <2>2. IsSeq(inner) /\ Len(inner) = Len(selected) - k - k
    <3>1. k \in 0..Len(selected) /\ Len(selected) - k \in k..Len(selected)
      BY <1>1, <1>2, <2>1
    <3> QED
      BY <1>2, <3>1, RangeIs
  <2>3. once = Doc(Put(old, start, end, inner), start, start + Len(inner))
    BY <1>4
  <2> HIDE DEF inner, k, text
  <2>4. text = Put(old, start, end, inner)
    BY <2>3, DocIs DEF text
  <2>5. Len(text) = start + Len(inner) + (n - end)
    BY <1>1, <2>2, <2>4, PutIs DEF n
  <2> QED
    BY <1>1, <1>2, <2>1, <2>2, <2>5
<1>7. ~(Around(d, k, k) # <<>> /\ IsWrappedBy(Around(d, k, k), m, m))
  <2> SUFFICES ASSUME Around(d, k, k) # <<>> /\ IsWrappedBy(Around(d, k, k), m, m)
               PROVE  FALSE
    OBVIOUS
  <2>1. start >= k /\ end + k <= n
    BY <1>5
  <2>2. once = Doc(Put(old, start - k, end + k, selected), start - k, end - k)
    BY <1>4, <1>6
  <2> DEFINE p == start - k
             q == end + k
  <2> HIDE DEF k, text
  <2>3. p \in 0..n /\ q \in p..n
    BY <1>1, <2>1
  <2>4. text = Put(old, p, q, selected)
    BY <2>2, DocIs DEF text
  <2> HIDE DEF p, q
  <2>5. Len(text) = p + Len(selected) + (n - q)
    BY <1>1, <1>2, <2>3, <2>4, PutIs DEF n
  <2>6. Len(text) = n - k - k
    BY <1>1, <1>2, <2>1, <2>5 DEF p, q
  <2> QED
    BY <1>1, <2>6
<1>8. once = Doc(Put(old, start, end, new), start + k, end + k)
  BY <1>4, <1>6, <1>7
<1> HIDE DEF k
<1>9. once.text = Put(old, start, end, Cat3(m, selected, m)) /\ once.anchor = start + k /\ once.caret = end + k
  BY <1>3, <1>8, DocIs
<1>10. SelStart(once) = start + k /\ SelEnd(once) = end + k
  <2>1. start + k < end + k \/ start + k = end + k
    BY <1>1
  <2>2. ~(start + k < end + k /\ start + k = end + k)
    BY <1>1
  <2> QED
    BY <1>9, <2>1, <2>2 DEF SelStart, SelEnd
<1> QED
  BY <1>6, <1>9, <1>10 DEF once, old, start, end, selected, k

\* It comes off, and the selection is back.
LEMMA WrapOff ==
    ASSUME NEW d, DocOK(d), NEW m, IsSeq(m), Len(m) >= 1,
           Len(m) >= 2 \/ (m[1] # "end" /\ ~LoneMark(GetRange(d.text, SelStart(d), SelEnd(d)), m[1])),
           Len(WrapSelection(d, m, m).text) > Len(d.text)
    PROVE  Same(WrapSelection(WrapSelection(d, m, m), m, m), d)
<1> DEFINE old == d.text
           start == SelStart(d)
           end == SelEnd(d)
           selected == GetRange(old, start, end)
           k == Len(m)
           once == WrapSelection(d, m, m)
           text == once.text
           mid == Cat3(m, selected, m)
<1>1. /\ IsSeq(old) /\ Len(old) \in Nat /\ start \in 0..Len(old) /\ end \in start..Len(old) /\ k \in Nat
  BY SelectionIs, SeqIs
<1>2. IsSeq(selected)
  BY <1>1, RangeIs
<1>3. /\ ~(start # end /\ IsWrappedBy(selected, m, m))
      /\ text = Put(old, start, end, mid) /\ SelStart(once) = start + k /\ SelEnd(once) = end + k
  BY WrapIsOn
<1>4. IsWrappedBy(mid, m, m)
  <2>1. Len(m) = 1 => m[1] # "end" /\ ~LoneMark(selected, m[1])
    BY <1>1
  <2> QED
    BY <1>2, <2>1, MarkedIsWrapped, Zenon
<1>5. mid # <<>>
  <2>1. Len(mid) = k + Len(selected) + k /\ Len(selected) \in Nat
    BY <1>2, PartsAre, SeqIs
  <2> QED
    BY <1>1, <2>1
<1> HIDE DEF once, old, start, end, text
<1>6. /\ IsSeq(text) /\ start + k >= k /\ end + k + k <= Len(text) /\ start + k - k = start /\ end + k - k = end
      /\ (start + k # end + k <=> start # end)
      /\ GetRange(text, start + k, end + k) = selected /\ GetRange(text, start, end + k + k) = mid
      /\ Put(text, start, end + k + k, selected) = old
  <2>1. IsSeq(old) /\ start \in 0..Len(old) /\ end \in start..Len(old) /\ text = Put(old, start, end, mid)
    BY <1>1, <1>3
  <2> QED
    <3>1. MarksOn(old, start, end, m, Put(old, start, end, mid))
      BY <2>1, MarksAreOn
    <3>2. MarksOn(old, start, end, m, text)
      BY <2>1, <3>1
    <3> QED
      BY <3>2 DEF MarksOn
<1> HIDE DEF selected, mid
<1>7. Around(once, k, k) = mid
  <2>1. Around(once, k, k) = IF SelStart(once) >= k /\ SelEnd(once) + k <= Len(text)
                             THEN GetRange(text, SelStart(once) - k, SelEnd(once) + k) ELSE <<>>
    BY Zenon DEF Around, text
  <2> QED
    BY <1>1, <1>3, <1>6, <2>1
<1>8. WrapSelection(once, m, m) = Doc(Put(text, start + k - k, end + k + k, selected), start + k - k, end + k - k)
  <2> DEFINE inside == GetRange(text, SelStart(once), SelEnd(once))
             inner == GetRange(inside, k, Len(inside) - k)
             off == Doc(Put(text, SelStart(once), SelEnd(once), inner), SelStart(once), SelStart(once) + Len(inner))
             on == Doc(Put(text, SelStart(once), SelEnd(once), m \o inside \o m), SelStart(once) + k, SelEnd(once) + k)
  <2>1. WrapSelection(once, m, m)
          = IF SelStart(once) # SelEnd(once) /\ IsWrappedBy(inside, m, m) THEN off
            ELSE IF Around(once, k, k) # <<>> /\ IsWrappedBy(Around(once, k, k), m, m)
            THEN Doc(Put(text, SelStart(once) - k, SelEnd(once) + k, inside), SelStart(once) - k, SelEnd(once) - k)
            ELSE on
    BY Zenon DEF WrapSelection, text
  <2> HIDE DEF off, on
  <2>2. inside = selected
    BY <1>3, <1>6
  <2> HIDE DEF inside
  <2>3. ~(SelStart(once) # SelEnd(once) /\ IsWrappedBy(inside, m, m))
    BY <1>3, <1>6, <2>2
  <2> QED
    BY <1>1, <1>3, <1>4, <1>5, <1>7, <2>1, <2>2, <2>3
<1>9. WrapSelection(once, m, m) = Doc(old, start, end)
  BY <1>6, <1>8
<1>10. /\ WrapSelection(once, m, m).text = old
       /\ WrapSelection(once, m, m).anchor = start /\ WrapSelection(once, m, m).caret = end
  BY <1>9, DocIs
<1>11. SelStart(WrapSelection(once, m, m)) = start /\ SelEnd(WrapSelection(once, m, m)) = end
  <2>1. start < end \/ start = end
    BY <1>1
  <2> QED
    BY <1>10, <2>1 DEF SelStart, SelEnd
<1> QED
  BY <1>10, <1>11 DEF Same, Selection, once, start, end, old

\* So every pair of marks does.
LEMMA MarksComeOff ==
    ASSUME DocOK(doc)
    PROVE  InlineTogglesOff
<1>1. /\ IsSeq(Bold) /\ Len(Bold) = 2 /\ IsSeq(Strikethrough) /\ Len(Strikethrough) = 2
      /\ IsSeq(Italic) /\ Len(Italic) = 1 /\ Italic[1] = "*" /\ IsSeq(Code) /\ Len(Code) = 1 /\ Code[1] = "tick"
  <2>1. ASSUME NEW x
        PROVE  IsSeq(<<x>>) /\ Len(<<x>>) = 1 /\ <<x>>[1] = x
    <3>1. <<x>> = [i \in 1..1 |-> <<x>>[i]]
      OBVIOUS
    <3> QED
      BY <3>1, CountedIsSeq
  <2>2. ASSUME NEW x
        PROVE  IsSeq(<<x, x>>) /\ Len(<<x, x>>) = 2
    <3>1. <<x, x>> = [i \in 1..2 |-> <<x, x>>[i]]
      OBVIOUS
    <3> QED
      BY <3>1, CountedIsSeq
  <2> QED
    BY <2>1, <2>2 DEF Bold, Italic, Strikethrough, Code
<1>2. ASSUME NEW marks \in {Bold, Strikethrough}
      PROVE  OffAgain(WrapSelection(doc, marks, marks), marks)
  <2>1. IsSeq(marks) /\ Len(marks) = 2
    BY <1>1
  <2>2. Len(marks) >= 1 /\ Len(marks) >= 2
    BY <2>1
  <2> QED
    BY <2>1, <2>2, WrapOff, Zenon DEF OffAgain
<1>3. ASSUME NEW marks \in {Italic, Code},
             ~LoneMark(GetRange(doc.text, SelStart(doc), SelEnd(doc)), marks[1])
      PROVE  OffAgain(WrapSelection(doc, marks, marks), marks)
  <2>1. IsSeq(marks) /\ Len(marks) >= 1 /\ marks[1] # "end"
    BY <1>1
  <2> QED
    BY <1>3, <2>1, WrapOff, Zenon DEF OffAgain
<1> QED
  BY <1>2, <1>3 DEF InlineTogglesOff

\* The search goes round.
LEMMA MatchesAreFound ==
    ASSUME DocOK(doc)
    PROVE  FindsWhatIsThere
<1>1. /\ Len(doc.text) \in Nat /\ SelStart(doc) \in 0..Len(doc.text) /\ SelEnd(doc) \in SelStart(doc)..Len(doc.text)
      /\ Len(Needle) \in Nat
  BY SelectionIs, EditorAssumption
<1> SUFFICES ASSUME NEW wholeWord \in BOOLEAN, NEW pos \in MatchesIn(doc.text, 0, Len(doc.text), wholeWord)
             PROVE  /\ ~Cut(pos) => Found(doc, wholeWord, TRUE) # {}
                    /\ ~CutBackward(pos) => Found(doc, wholeWord, FALSE) # {}
  BY DEF FindsWhatIsThere
<1>2. pos \in 0..Len(doc.text) - Len(Needle) /\ MatchAt(doc.text, pos, wholeWord)
  BY DEF MatchesIn
<1>3. ASSUME ~Cut(pos)
      PROVE  Found(doc, wholeWord, TRUE) # {}
  <2>1. pos \in SelEnd(doc)..Len(doc.text) - Len(Needle) \/ pos \in 0..SelEnd(doc) - Len(Needle)
    BY <1>1, <1>2, <1>3 DEF Cut
  <2>2. pos \in MatchesIn(doc.text, SelEnd(doc), Len(doc.text), wholeWord) \/ pos \in MatchesIn(doc.text, 0, SelEnd(doc), wholeWord)
    BY <1>2, <2>1 DEF MatchesIn
  <2> QED
    BY <2>2 DEF Found
<1>4. ASSUME ~CutBackward(pos)
      PROVE  Found(doc, wholeWord, FALSE) # {}
  <2>1. pos \in SelStart(doc)..Len(doc.text) - Len(Needle) \/ pos \in 0..SelStart(doc) - Len(Needle)
    BY <1>1, <1>2, <1>4 DEF CutBackward
  <2>2. \/ pos \in MatchesIn(doc.text, SelStart(doc), Len(doc.text), wholeWord)
        \/ pos \in MatchesIn(doc.text, 0, SelStart(doc), wholeWord)
    BY <1>2, <2>1 DEF MatchesIn
  <2> QED
    BY <2>2 DEF Found
<1> QED
  BY <1>3, <1>4
-----------------------------------------------------------------------------
(* Lines. *)

\* The line a place is in grows with the place, by one at most.
LEMMA LineGrows ==
    ASSUME NEW text, NEW pos \in Nat
    PROVE  /\ LineFromPosition(text, 0) = 0 /\ LineFromPosition(text, pos) \in Nat
           /\ LineFromPosition(text, pos + 1)
                = LineFromPosition(text, pos) + (IF text[pos + 1] \in Endings THEN 1 ELSE 0)
<1> DEFINE before(p) == {i \in 1..p : text[i] \in Endings}
<1>1. LineFromPosition(text, 0) = 0
  <2>1. before(0) = {}
    OBVIOUS
  <2> QED
    BY <2>1, FS_EmptySet DEF LineFromPosition
<1>2. IsFiniteSet(before(pos)) /\ Cardinality(before(pos)) \in Nat
  <2>1. IsFiniteSet(1..pos)
    BY FS_Interval, 1 \in Int, pos \in Int
  <2> QED
    BY <2>1, FS_Subset, FS_CardinalityType
<1>3. CASE text[pos + 1] \in Endings
  <2>1. before(pos + 1) = before(pos) \cup {pos + 1} /\ pos + 1 \notin before(pos)
    BY <1>3
  <2>2. Cardinality(before(pos) \cup {pos + 1}) = Cardinality(before(pos)) + 1
    <3> HIDE DEF before
    <3> QED
      BY <1>2, <2>1, FS_AddElement
  <2> QED
    BY <1>1, <1>2, <1>3, <2>1, <2>2 DEF LineFromPosition
<1>4. CASE text[pos + 1] \notin Endings
  <2>1. before(pos + 1) = before(pos)
    BY <1>4
  <2> QED
    BY <1>1, <1>2, <1>4, <2>1 DEF LineFromPosition
<1> QED
  BY <1>3, <1>4

\* A later place is in no earlier line.
LEMMA LineOrder ==
    ASSUME NEW text, NEW p \in Nat, NEW q \in Nat, p <= q
    PROVE  LineFromPosition(text, p) <= LineFromPosition(text, q)
<1> DEFINE N == {n \in Nat : LineFromPosition(text, p) <= LineFromPosition(text, p + n)}
<1>1. 0 \in N
  BY LineGrows
<1>2. ASSUME NEW n \in N
      PROVE  n + 1 \in N
  <2>1. /\ LineFromPosition(text, p) \in Nat /\ LineFromPosition(text, p + n) \in Nat
        /\ LineFromPosition(text, (p + n) + 1) >= LineFromPosition(text, p + n)
        /\ LineFromPosition(text, (p + n) + 1) \in Nat
    <3>1. p + n \in Nat
      OBVIOUS
    <3> QED
      BY <3>1, LineGrows
  <2>2. (p + n) + 1 = p + (n + 1)
    OBVIOUS
  <2> QED
    BY <2>1, <2>2
<1>3. N = Nat
  <2>1. N \in SUBSET Nat
    OBVIOUS
  <2> HIDE DEF N
  <2> QED
    BY <1>1, <1>2, <2>1, AllNaturals
<1>4. q - p \in Nat /\ p + (q - p) = q
  OBVIOUS
<1>5. q - p \in N
  <2> HIDE DEF N
  <2> QED
    BY <1>3, <1>4
<1>6. LineFromPosition(text, p) <= LineFromPosition(text, p + (q - p))
  BY <1>5
<1> QED
  BY <1>4, <1>6

\* No line is left out.
LEMMA LineIsThere ==
    ASSUME NEW text, IsSeq(text), NEW line \in 0..LineFromPosition(text, Len(text))
    PROVE  PositionsOfLine(text, line) # {}
<1> DEFINE S == {pos \in 0..Len(text) : LineFromPosition(text, pos) >= line}
<1>1. Len(text) \in Nat /\ line \in Nat
  BY SeqIs, LineGrows
<1>2. S \in SUBSET Nat /\ S # {}
  <2>1. Len(text) \in S
    BY <1>1, LineGrows
  <2> QED
    BY <1>1, <2>1
<1>3. PICK p \in S : \A q \in S : p <= q
  <2> HIDE DEF S
  <2> QED
    BY <1>2, LeastNatural
<1>4. p \in 0..Len(text) /\ LineFromPosition(text, p) >= line /\ LineFromPosition(text, p) \in Nat
  BY <1>1, LineGrows
<1>5. CASE p = 0
  BY <1>1, <1>4, <1>5, LineGrows DEF PositionsOfLine
<1>6. CASE p # 0
  <2>1. p - 1 \in 0..Len(text) /\ p - 1 \in Nat /\ (p - 1) + 1 = p /\ p - 1 \notin S
    BY <1>1, <1>3, <1>4, <1>6
  <2>2. LineFromPosition(text, p - 1) < line /\ LineFromPosition(text, p - 1) \in Nat
    BY <1>1, <2>1, LineGrows
  <2>3. LineFromPosition(text, p) <= LineFromPosition(text, p - 1) + 1
    <3>1. LineFromPosition(text, (p - 1) + 1)
            = LineFromPosition(text, p - 1) + (IF text[(p - 1) + 1] \in Endings THEN 1 ELSE 0)
      BY <2>1, LineGrows
    <3> QED
      BY <2>1, <2>2, <3>1
  <2>4. LineFromPosition(text, p) = line
    BY <1>1, <1>4, <2>2, <2>3
  <2> QED
    BY <1>4, <2>4 DEF PositionsOfLine
<1> QED
  BY <1>5, <1>6

\* A line begins and ends in the text, and before any later line.
LEMMA LineIs ==
    ASSUME NEW text, IsSeq(text), NEW line \in 0..LineFromPosition(text, Len(text))
    PROVE  /\ PositionFromLine(text, line) \in PositionsOfLine(text, line)
           /\ \A pos \in PositionsOfLine(text, line) : PositionFromLine(text, line) <= pos
           /\ LineEndPosition(text, line) \in PositionsOfLine(text, line)
           /\ \A pos \in PositionsOfLine(text, line) : LineEndPosition(text, line) >= pos
           /\ PositionsOfLine(text, line) \in SUBSET (0..Len(text))
           /\ IsSeq(GetLine(text, line))
           /\ Len(GetLine(text, line)) = LineEndPosition(text, line) - PositionFromLine(text, line)
           /\ PositionFromLine(text, line) \in 0..Len(text)
           /\ LineEndPosition(text, line) \in PositionFromLine(text, line)..Len(text)
<1>1. Len(text) \in Nat /\ PositionsOfLine(text, line) \in SUBSET (0..Len(text)) /\ PositionsOfLine(text, line) # {}
  BY SeqIs, LineIsThere DEF PositionsOfLine
<1>2. /\ PositionFromLine(text, line) \in PositionsOfLine(text, line)
      /\ \A pos \in PositionsOfLine(text, line) : PositionFromLine(text, line) <= pos
      /\ LineEndPosition(text, line) \in PositionsOfLine(text, line)
      /\ \A pos \in PositionsOfLine(text, line) : LineEndPosition(text, line) >= pos
  BY <1>1, EndsAre DEF PositionFromLine, LineEndPosition
<1>3. PositionFromLine(text, line) \in 0..Len(text) /\ LineEndPosition(text, line) \in PositionFromLine(text, line)..Len(text)
  BY <1>1, <1>2
<1>4. IsSeq(GetLine(text, line)) /\ Len(GetLine(text, line)) = LineEndPosition(text, line) - PositionFromLine(text, line)
  BY <1>3, RangeIs DEF GetLine
<1> QED
  BY <1>1, <1>2, <1>3, <1>4

\* A line is where its places are, and the lines come one after the other.
LEMMA LinesAreOrdered ==
    ASSUME NEW text, IsSeq(text), NEW k \in 0..LineFromPosition(text, Len(text)), NEW l \in 0..LineFromPosition(text, Len(text)),
           NEW p \in PositionsOfLine(text, k), NEW q \in PositionsOfLine(text, l)
    PROVE  k < l => p < q
<1>1. Len(text) \in Nat /\ p \in 0..Len(text) /\ q \in 0..Len(text) /\ LineFromPosition(text, p) = k /\ LineFromPosition(text, q) = l
  BY SeqIs DEF PositionsOfLine
<1>2. q <= p => l <= k
  BY <1>1, LineOrder
<1>3. k \in Nat /\ l \in Nat
  BY <1>1, LineGrows
<1> QED
  BY <1>1, <1>2, <1>3

\* A place is in a line of the text.
LEMMA PlaceIsInLine ==
    ASSUME NEW text, IsSeq(text), NEW p \in 0..Len(text)
    PROVE  /\ LineFromPosition(text, p) \in 0..LineFromPosition(text, Len(text))
           /\ p \in PositionsOfLine(text, LineFromPosition(text, p))
<1>1. Len(text) \in Nat
  BY SeqIs
<1> QED
  BY <1>1, LineGrows, LineOrder DEF PositionsOfLine

\* The lines that are selected.
LinesOK(text, r) ==
    /\ IsSeq(text) /\ r.firstLine \in 0..LineFromPosition(text, Len(text))
    /\ r.lastLine \in r.firstLine..LineFromPosition(text, Len(text))
    /\ r.start = PositionFromLine(text, r.firstLine) /\ r.end = LineEndPosition(text, r.lastLine)
    /\ r.start \in 0..Len(text) /\ r.end \in r.start..Len(text)

\* They are lines of the text.
LEMMA SelectedLinesAre ==
    ASSUME NEW d, DocOK(d)
    PROVE  LinesOK(d.text, SelectedLines(d))
<1> DEFINE text == d.text
           last == LineFromPosition(text, Len(text))
           first == LineFromPosition(text, SelStart(d))
           touched == LineFromPosition(text, SelEnd(d))
           r == SelectedLines(d)
<1>1. /\ IsSeq(text) /\ Len(text) \in Nat /\ SelStart(d) \in 0..Len(text) /\ SelEnd(d) \in SelStart(d)..Len(text)
      /\ SelEnd(d) \in 0..Len(text)
  <2>1. /\ IsSeq(text) /\ Len(text) \in Nat /\ SelStart(d) \in 0..Len(text) /\ SelEnd(d) \in SelStart(d)..Len(text)
    BY SelectionIs
  <2> QED
    BY <2>1
<1> HIDE DEF text
<1>2. first \in 0..last /\ touched \in 0..last /\ last \in Nat
  BY <1>1, PlaceIsInLine, LineGrows
<1>3. first <= touched
  BY <1>1, LineOrder
<1> HIDE DEF last
<1>4. /\ r.firstLine = first
      /\ r.lastLine = IF touched > first /\ SelEnd(d) = PositionFromLine(text, touched) THEN touched - 1 ELSE touched
      /\ r.start = PositionFromLine(text, r.firstLine) /\ r.end = LineEndPosition(text, r.lastLine)
  BY DEF SelectedLines, text
<1> HIDE DEF r, first, touched
<1>5. r.firstLine \in 0..last /\ r.lastLine \in r.firstLine..last /\ r.lastLine \in 0..last
  BY <1>2, <1>3, <1>4
<1>6. /\ r.start \in PositionsOfLine(text, r.firstLine) /\ r.end \in PositionsOfLine(text, r.lastLine)
      /\ r.start \in 0..Len(text) /\ r.end \in 0..Len(text)
      /\ \A pos \in PositionsOfLine(text, r.lastLine) : r.end >= pos
  BY <1>1, <1>4, <1>5, LineIs DEF last
<1>7. r.start <= r.end
  <2>1. CASE r.firstLine < r.lastLine
    <3>1. r.start < r.end
      BY <1>1, <1>5, <1>6, <2>1, LinesAreOrdered DEF last
    <3> QED
      BY <1>6, <3>1
  <2>2. CASE r.firstLine = r.lastLine
    BY <1>6, <2>2
  <2> QED
    BY <1>2, <1>5, <2>1, <2>2
<1> QED
  BY <1>1, <1>4, <1>5, <1>6, <1>7 DEF LinesOK, last, text, r
-----------------------------------------------------------------------------
(* Every command leaves the selection in the text. *)

\* Short sequences.
LEMMA TuplesAre ==
    ASSUME NEW v, NEW w, NEW x, NEW y
    PROVE  /\ IsSeq(<<>>) /\ Len(<<>>) = 0 /\ IsSeq(<<v>>) /\ Len(<<v>>) = 1 /\ IsSeq(<<v, w>>) /\ Len(<<v, w>>) = 2
           /\ IsSeq(<<v, w, x>>) /\ Len(<<v, w, x>>) = 3 /\ IsSeq(<<v, w, x, y>>) /\ Len(<<v, w, x, y>>) = 4
<1>1. <<>> = [i \in 1..0 |-> <<>>[i]] /\ <<v>> = [i \in 1..1 |-> <<v>>[i]] /\ <<v, w>> = [i \in 1..2 |-> <<v, w>>[i]]
  OBVIOUS
<1>2. <<v, w, x>> = [i \in 1..3 |-> <<v, w, x>>[i]] /\ <<v, w, x, y>> = [i \in 1..4 |-> <<v, w, x, y>>[i]]
  OBVIOUS
<1>3. IsSeq(<<>>) /\ Len(<<>>) = 0
  BY <1>1, CountedIsSeq
<1>4. IsSeq(<<v>>) /\ Len(<<v>>) = 1 /\ IsSeq(<<v, w>>) /\ Len(<<v, w>>) = 2
  BY <1>1, CountedIsSeq
<1>5. IsSeq(<<v, w, x>>) /\ Len(<<v, w, x>>) = 3 /\ IsSeq(<<v, w, x, y>>) /\ Len(<<v, w, x, y>>) = 4
  BY <1>2, CountedIsSeq
<1> QED
  BY <1>3, <1>4, <1>5

\* Something is put in place of a range, and the selection is in or before it.
LEMMA PutDocIs ==
    ASSUME NEW old, NEW p, NEW q, NEW new, NEW x, NEW y,
           IsSeq(old), p \in 0..Len(old), q \in p..Len(old), IsSeq(new),
           x \in 0..p + Len(new), y \in 0..p + Len(new)
    PROVE  DocOK(Doc(Put(old, p, q, new), x, y))
<1> DEFINE text == Put(old, p, q, new)
<1>1. IsSeq(text) /\ Len(text) = p + Len(new) + (Len(old) - q) /\ Len(new) \in Nat /\ Len(old) \in Nat
  BY PutIs, SeqIs
<1> HIDE DEF text
<1>2. x \in 0..Len(text) /\ y \in 0..Len(text)
  BY <1>1
<1> QED
  BY <1>1, <1>2, DocIs DEF text

\* Code marks.
LEMMA CodeIsOK ==
    ASSUME NEW d, DocOK(d)
    PROVE  DocOK(InsertCode(d))
<1> DEFINE selected == GetRange(d.text, SelStart(d), SelEnd(d))
           eol == IF \E i \in DOMAIN selected : selected[i] = "crlf" THEN <<"crlf">> ELSE <<"lf">>
<1>1. IsSeq(eol) /\ IsSeq(Fence) /\ IsSeq(Code)
  BY TuplesAre DEF Fence, Code
<1>2. InsertCode(d) = IF \E i \in DOMAIN selected : selected[i] \in Endings
                      THEN WrapSelection(d, Fence \o eol, eol \o Fence) ELSE WrapSelection(d, Code, Code)
  BY Zenon DEF InsertCode
<1> HIDE DEF eol
<1>3. IsSeq(Fence \o eol) /\ IsSeq(eol \o Fence)
  <2>1. IsSeq(Cat(Fence, eol)) /\ IsSeq(Cat(eol, Fence))
    BY <1>1, CatIs
  <2> QED
    BY <2>1, Zenon DEF Cat
<1> DEFINE before == Fence \o eol
           after == eol \o Fence
<1> HIDE DEF selected, before, after
<1>4. DocOK(WrapSelection(d, before, after)) /\ DocOK(WrapSelection(d, Code, Code))
  BY <1>1, <1>3, WrapIsOK DEF before, after
<1> QED
  BY <1>2, <1>4 DEF before, after

\* Links.
LEMMA LinkIsOK ==
    ASSUME NEW d, DocOK(d), NEW open
    PROVE  DocOK(InsertLinkMarkup(d, open))
<1> DEFINE old == d.text
           n == Len(old)
           start == SelStart(d)
           end == SelEnd(d)
           selected == GetRange(old, start, end)
           link == <<open, "](", "url", ")">>
           target == <<open, "](">> \o selected \o <<")">>
           label == <<open>> \o selected \o <<"](", "url", ")">>
           a == <<open, "](">>
           b == <<")">>
           c == <<open>>
           e == <<"](", "url", ")">>
<1>1. IsSeq(old) /\ n \in Nat /\ start \in 0..n /\ end \in start..n
  BY SelectionIs
<1>2. IsSeq(selected) /\ Len(selected) = end - start
  BY <1>1, RangeIs
<1>3. InsertLinkMarkup(d, open)
        = IF selected = <<>> THEN Doc(Put(old, start, start, link), start + 1, start + 1)
          ELSE IF selected[1] \in Urls THEN Doc(Put(old, start, end, target), start + 1, start + 1)
          ELSE Doc(Put(old, start, end, label), start + Len(selected) + 2, start + Len(selected) + 3)
  BY Zenon DEF InsertLinkMarkup
<1>4. target = Cat3(a, selected, b) /\ label = Cat3(c, selected, e)
  BY Zenon DEF Cat3
<1>5. /\ IsSeq(link) /\ Len(link) = 4 /\ IsSeq(a) /\ Len(a) = 2 /\ IsSeq(b) /\ Len(b) = 1
      /\ IsSeq(c) /\ Len(c) = 1 /\ IsSeq(e) /\ Len(e) = 3
  BY TuplesAre
<1> HIDE DEF old, n, start, end, selected, link, target, label, a, b, c, e
<1>6. IsSeq(target) /\ Len(target) = 2 + Len(selected) + 1
  <2>1. IsSeq(a) /\ IsSeq(b) /\ IsSeq(selected)
    BY <1>2, <1>5
  <2>2. IsSeq(target) /\ Len(target) = Len(a) + Len(selected) + Len(b)
    BY <1>4, <2>1, PartsAre
  <2> QED
    BY <1>5, <2>2
<1>7. IsSeq(label) /\ Len(label) = 1 + Len(selected) + 3
  <2>1. IsSeq(c) /\ IsSeq(e) /\ IsSeq(selected)
    BY <1>2, <1>5
  <2>2. IsSeq(label) /\ Len(label) = Len(c) + Len(selected) + Len(e)
    BY <1>4, <2>1, PartsAre
  <2> QED
    BY <1>5, <2>2
<1>8. DocOK(Doc(Put(old, start, start, link), start + 1, start + 1))
  <2>1. start \in start..n /\ start + 1 \in 0..start + Len(link)
    BY <1>1, <1>5
  <2> QED
    BY <1>1, <1>5, <2>1, PutDocIs DEF n
<1>9. DocOK(Doc(Put(old, start, end, target), start + 1, start + 1))
  <2>1. start + 1 \in 0..start + Len(target)
    BY <1>1, <1>2, <1>6
  <2> QED
    BY <1>1, <1>6, <2>1, PutDocIs DEF n
<1>10. DocOK(Doc(Put(old, start, end, label), start + Len(selected) + 2, start + Len(selected) + 3))
  <2>1. start + Len(selected) + 2 \in 0..start + Len(label) /\ start + Len(selected) + 3 \in 0..start + Len(label)
    BY <1>1, <1>2, <1>7
  <2> QED
    BY <1>1, <1>7, <2>1, PutDocIs DEF n
<1> QED
  BY <1>3, <1>8, <1>9, <1>10

\* What FlattenSeq adds up from the left exists.
LEMMA FlattenIs ==
    ASSUME NEW p, NEW n \in Nat \ {0}, Len(p) = n
    PROVE  \E f : /\ f[1] = p[1]
                  /\ \A i \in 1 .. n - 1 : f[i + 1] = f[i] \o p[i + 1]
                  /\ FlattenSeq(p) = f[n]
<1> DEFINE IsRun(g, k) == g = [i \in 1 .. k |-> IF i = 1 THEN p[i] ELSE g[i - 1] \o p[i]]
           Runs == {k \in Nat : \E g : IsRun(g, k)}
<1>1. 0 \in Runs
  <2>1. IsRun([i \in 1 .. 0 |-> p], 0)
    OBVIOUS
  <2> QED
    BY <2>1
<1>2. ASSUME NEW k \in Runs
      PROVE  k + 1 \in Runs
  <2>1. PICK g : IsRun(g, k)
    OBVIOUS
  <2> DEFINE h == [i \in 1 .. k + 1 |-> IF i <= k THEN g[i] ELSE IF i = 1 THEN p[i] ELSE g[i - 1] \o p[i]]
  <2>2. ASSUME NEW i \in 1 .. k + 1
        PROVE  h[i] = IF i = 1 THEN p[i] ELSE h[i - 1] \o p[i]
    <3>1. CASE i <= k
      <4>1. i \in 1 .. k /\ h[i] = g[i] /\ (i # 1 => h[i - 1] = g[i - 1])
        BY <3>1
      <4>2. g[i] = IF i = 1 THEN p[i] ELSE g[i - 1] \o p[i]
        BY <2>1, <4>1
      <4> QED
        BY <4>1, <4>2
    <3>2. CASE i = k + 1
      <4>1. h[i] = (IF i = 1 THEN p[i] ELSE g[i - 1] \o p[i]) /\ (i # 1 => h[i - 1] = g[i - 1])
        BY <3>2
      <4> QED
        BY <4>1
    <3> QED
      BY <3>1, <3>2
  <2>3. IsRun(h, k + 1)
    BY <2>2
  <2> HIDE DEF h, IsRun
  <2> QED
    BY <2>3
<1>3. Runs = Nat
  <2> HIDE DEF Runs
  <2>1. Runs \in SUBSET Nat
    BY DEF Runs
  <2> QED
    BY <1>1, <1>2, <2>1, AllNaturals
<1>4. FlattenSeq(p) = (CHOOSE g : IsRun(g, n))[n]
  BY DEF FlattenSeq
<1>5. \E g : IsRun(g, n)
  BY <1>3
<1> QED
  <2> DEFINE f == CHOOSE g : IsRun(g, n)
  <2>1. IsRun(f, n)
    <3> HIDE DEF IsRun
    <3> QED
      BY <1>5
  <2>2. FlattenSeq(p) = f[n]
    BY <1>4
  <2> HIDE DEF f
  <2>3. f[1] = p[1]
    BY <2>1
  <2>4. ASSUME NEW i \in 1 .. n - 1
        PROVE  f[i + 1] = f[i] \o p[i + 1]
    <3>1. i + 1 \in 1 .. n /\ i + 1 # 1 /\ (i + 1) - 1 = i
      OBVIOUS
    <3>2. f[i + 1] = IF i + 1 = 1 THEN p[i + 1] ELSE f[(i + 1) - 1] \o p[i + 1]
      BY <2>1, <3>1
    <3> QED
      BY <3>1, <3>2
  <2> QED
    BY <2>2, <2>3, <2>4

\* Sequences flatten to a sequence, and one to itself.
LEMMA FlatIsSeq ==
    ASSUME NEW p, NEW n \in Nat \ {0}, Len(p) = n, \A i \in 1..n : IsSeq(p[i])
    PROVE  IsSeq(FlattenSeq(p)) /\ (n = 1 => FlattenSeq(p) = p[1])
<1>1. PICK f : /\ f[1] = p[1]
               /\ \A i \in 1 .. n - 1 : f[i + 1] = f[i] \o p[i + 1]
               /\ FlattenSeq(p) = f[n]
  BY FlattenIs
<1> DEFINE N == {i \in Nat : i + 1 <= n => IsSeq(f[i + 1])}
<1>2. 0 \in N
  BY <1>1
<1>3. ASSUME NEW i \in N
      PROVE  i + 1 \in N
  <2> SUFFICES ASSUME (i + 1) + 1 <= n
               PROVE  IsSeq(f[(i + 1) + 1])
    OBVIOUS
  <2>1. i + 1 \in 1..n - 1 /\ IsSeq(f[i + 1]) /\ (i + 1) + 1 \in 1..n
    OBVIOUS
  <2>2. f[(i + 1) + 1] = f[i + 1] \o p[(i + 1) + 1]
    BY <1>1, <2>1
  <2>3. f[(i + 1) + 1] = Cat(f[i + 1], p[(i + 1) + 1])
    BY <2>2, Zenon DEF Cat
  <2>4. IsSeq(p[(i + 1) + 1])
    BY <2>1
  <2> QED
    BY <2>1, <2>3, <2>4, CatIs
<1>4. N = Nat
  <2>1. N \in SUBSET Nat
    OBVIOUS
  <2> HIDE DEF N
  <2> QED
    BY <1>2, <1>3, <2>1, AllNaturals
<1>5. n - 1 \in Nat /\ (n - 1) + 1 = n
  OBVIOUS
<1>6. n - 1 \in N
  <2> HIDE DEF N
  <2> QED
    BY <1>4, <1>5
<1>7. IsSeq(f[(n - 1) + 1])
  BY <1>5, <1>6
<1> QED
  BY <1>1, <1>5, <1>7
\* The tokens from one on, or up to one.
LEMMA FromTokenIs ==
    ASSUME NEW line, NEW k, IsSeq(line), k \in 0..Len(line)
    PROVE  /\ IsSeq(FromToken(line, k)) /\ Len(FromToken(line, k)) = Len(line) - k
           /\ \A i \in 1..Len(line) - k : FromToken(line, k)[i] = line[k + i]
           /\ IsSeq(SubSeq(line, 1, k)) /\ Len(SubSeq(line, 1, k)) = k
<1>1. Len(line) \in Nat
  BY SeqIs
<1>2. FromToken(line, k) = GetRange(line, k, Len(line))
  BY Zenon DEF FromToken, GetRange
<1>3. SubSeq(line, 1, k) = GetRange(line, 0, k)
  BY DEF GetRange
<1>4. Len(line) \in k..Len(line) /\ 0 \in 0..Len(line) /\ k \in 0..Len(line) /\ k - 0 = k
  BY <1>1
<1>5. IsSeq(GetRange(line, k, Len(line))) /\ Len(GetRange(line, k, Len(line))) = Len(line) - k
  BY <1>4, RangeIs
<1>6. \A i \in 1..Len(line) - k : GetRange(line, k, Len(line))[i] = line[k + i]
  BY <1>4, RangeIs
<1>7. IsSeq(GetRange(line, 0, k)) /\ Len(GetRange(line, 0, k)) = k - 0
  BY <1>4, RangeIs
<1> QED
  BY <1>2, <1>3, <1>4, <1>5, <1>6, <1>7, Zenon

\* How often a token begins a line.
LEMMA LeadingIs ==
    ASSUME NEW line, NEW token, NEW limit, IsSeq(line), limit \in Nat
    PROVE  LET n == Leading(line, token, limit) IN
           /\ n \in 0..Len(line) /\ n <= limit /\ \A i \in 1..n : line[i] = token
           /\ \A k \in 0..Len(line) : k <= limit /\ (\A i \in 1..k : line[i] = token) => k <= n
<1> DEFINE S == {n \in 0..Len(line) : n <= limit /\ \A i \in 1..n : line[i] = token}
<1>1. Len(line) \in Nat
  BY SeqIs
<1>2. S \in SUBSET (0..Len(line)) /\ 0 \in S
  BY <1>1
<1>3. Leading(line, token, limit) = Max(S)
  BY DEF Leading
<1>4. Max(S) \in S /\ \A x \in S : Max(S) >= x
  <2> HIDE DEF S
  <2> QED
    BY <1>1, <1>2, EndsAre
<1>5. \A x \in S : x <= Max(S)
  <2> SUFFICES ASSUME NEW x \in S PROVE x <= Max(S)
    OBVIOUS
  <2>1. Max(S) >= x /\ x \in Nat /\ Max(S) \in Nat
    BY <1>1, <1>2, <1>4
  <2> QED
    BY <2>1
<1> DEFINE n == Max(S)
<1>6. n \in S /\ \A x \in S : x <= n
  BY <1>4, <1>5
<1> HIDE DEF n
<1> QED
  BY <1>3, <1>6 DEF n

\* What is not "end" is in the line.
LEMMA TokenIs ==
    ASSUME NEW line, NEW i, IsSeq(line), TokenAt(line, i) # "end"
    PROVE  i \in 1..Len(line) /\ TokenAt(line, i) = line[i]
  BY SeqIs DEF TokenAt

\* The mark of a quote is in the line.
LEMMA QuoteMarkerIs ==
    ASSUME NEW line, IsSeq(line)
    PROVE  QuoteMarkerLength(line) \in 0..Len(line)
<1> DEFINE i == Leading(line, Space, 3)
<1>1. Len(line) \in Nat /\ i \in 0..Len(line)
  BY SeqIs, LeadingIs
<1>2. QuoteMarkerLength(line)
        = IF TokenAt(line, i + 1) # ">" THEN 0 ELSE IF TokenAt(line, i + 2) = Space THEN i + 2 ELSE i + 1
  BY Zenon DEF QuoteMarkerLength
<1> HIDE DEF i
<1>3. ASSUME TokenAt(line, i + 1) = ">"
      PROVE  i + 1 \in 1..Len(line)
  BY <1>3, TokenIs
<1>4. ASSUME TokenAt(line, i + 2) = Space
      PROVE  i + 2 \in 1..Len(line)
  BY <1>4, TokenIs DEF Space
<1> QED
  BY <1>1, <1>2, <1>3, <1>4

\* So are the marks of the quotes it is in.
LEMMA QuotePrefixIs ==
    ASSUME NEW line, IsSeq(line)
    PROVE  QuotePrefixLength(line) \in 0..Len(line) /\ IsSeq(Body(line))
           /\ Len(Body(line)) = Len(line) - QuotePrefixLength(line)
<1> DEFINE N == Len(line)
           past(from) == from + QuoteMarkerLength(FromToken(line, from))
           IsRun(g, k) == g = [n \in 0..k |-> IF n = 0 THEN 0 ELSE past(g[n - 1])]
           Runs == {k \in Nat : \E g : IsRun(g, k)}
<1>1. N \in Nat
  BY SeqIs
<1>2. QuotePrefixLength(line) = (CHOOSE g : IsRun(g, N))[N]
  BY DEF QuotePrefixLength
<1>3. ASSUME NEW from \in 0..N
      PROVE  past(from) \in 0..N
  <2>1. IsSeq(FromToken(line, from)) /\ Len(FromToken(line, from)) = N - from
    BY <1>3, FromTokenIs
  <2>2. QuoteMarkerLength(FromToken(line, from)) \in 0..Len(FromToken(line, from))
    BY <2>1, QuoteMarkerIs
  <2>3. QuoteMarkerLength(FromToken(line, from)) \in 0..N - from
    BY <2>1, <2>2
  <2> QED
    BY <1>1, <2>3
<1> HIDE DEF N, past
<1>4. 0 \in Runs
  <2>1. IsRun([n \in 0..0 |-> 0], 0)
    OBVIOUS
  <2> QED
    BY <2>1
<1>5. ASSUME NEW k \in Runs
      PROVE  k + 1 \in Runs
  <2>1. PICK g : IsRun(g, k)
    OBVIOUS
  <2> DEFINE h == [n \in 0..k + 1 |-> IF n <= k THEN g[n] ELSE past(g[k])]
  <2>2. ASSUME NEW n \in 0..k + 1
        PROVE  h[n] = IF n = 0 THEN 0 ELSE past(h[n - 1])
    BY <2>1
  <2>3. IsRun(h, k + 1)
    BY <2>2
  <2> HIDE DEF h, IsRun
  <2> QED
    BY <2>3
<1>6. Runs = Nat
  <2> HIDE DEF Runs
  <2>1. Runs \in SUBSET Nat
    BY DEF Runs
  <2> QED
    BY <1>4, <1>5, <2>1, AllNaturals
<1>7. PICK g : IsRun(g, N) /\ QuotePrefixLength(line) = g[N]
  <2>1. \E g : IsRun(g, N)
    BY <1>1, <1>6
  <2> HIDE DEF IsRun
  <2> QED
    BY <1>2, <2>1
<1> DEFINE M == {n \in Nat : n <= N => g[n] \in 0..N}
<1>8. 0 \in M
  BY <1>1, <1>7
<1>9. ASSUME NEW n \in M
      PROVE  n + 1 \in M
  <2> SUFFICES ASSUME n + 1 <= N
               PROVE  g[n + 1] \in 0..N
    OBVIOUS
  <2>1. n \in 0..N /\ n + 1 \in 0..N /\ n + 1 # 0 /\ (n + 1) - 1 = n /\ g[n] \in 0..N
    BY <1>1
  <2>2. g[n + 1] = past(g[n])
    BY <1>7, <2>1
  <2> QED
    BY <1>3, <2>1, <2>2
<1>10. M = Nat
  <2>1. M \in SUBSET Nat
    OBVIOUS
  <2> HIDE DEF M
  <2> QED
    BY <1>8, <1>9, <2>1, AllNaturals
<1>11. N \in M
  <2> HIDE DEF M
  <2> QED
    BY <1>1, <1>10
<1>12. QuotePrefixLength(line) \in 0..Len(line)
  BY <1>1, <1>7, <1>11 DEF N
<1> QED
  BY <1>12, FromTokenIs DEF Body

\* The mark of a list item, and what it marks, are in the line.
LEMMA MarkerIs ==
    ASSUME NEW body, IsSeq(body)
    PROVE  IsSeq(Content(body, ParseListMarker(body)))
<1> DEFINE indent == LeadingWhitespace(body)
           at == indent + 1
           j == MarkerEnd(body, at)
           marks == Bullets \cup {Numbers[k] : k \in DOMAIN Numbers}
           start == IF j = 0 THEN 0
                    ELSE IF ~HasBox(body, j) THEN j
                    ELSE IF j + 2 \in DOMAIN body THEN j + 2 ELSE j + 1
           from == IF j # 0 THEN start ELSE indent
<1>1. Len(body) \in Nat /\ DOMAIN body = 1..Len(body)
  BY SeqIs
<1>2. indent \in 0..Len(body)
  BY <1>1, LeadingIs DEF LeadingWhitespace
<1>3. "end" \notin marks /\ "end" \notin Boxes
  BY DEF Bullets, Numbers, Boxes
<1>4. Content(body, ParseListMarker(body)) = FromToken(body, from)
  <2>1. ParseListMarker(body) = Marker(body, indent, j)
    BY Zenon DEF ParseListMarker
  <2> HIDE DEF indent, j
  <2>2. Marker(body, indent, j).found = (j # 0) /\ Marker(body, indent, j).indent = indent
        /\ Marker(body, indent, j).contentStart = start
    BY DEF Marker
  <2> HIDE DEF start
  <2>3. Content(body, ParseListMarker(body)) = FromToken(body, IF j # 0 THEN start ELSE indent)
    BY <2>1, <2>2 DEF Content
  <2> QED
    BY <2>3
<1>5. j = IF TokenAt(body, at) \in marks /\ TokenAt(body, at + 1) \in {Space, "end"}
          THEN IF at + 1 \in DOMAIN body THEN at + 1 ELSE at ELSE 0
  BY Zenon DEF MarkerEnd
<1> HIDE DEF indent, marks, j
<1>6. j \in 0..Len(body)
  <2>1. CASE TokenAt(body, at) \in marks
    <3>1. at \in 1..Len(body)
      BY <1>3, <2>1, TokenIs
    <3> QED
      BY <1>1, <1>2, <1>5, <3>1
  <2>2. CASE TokenAt(body, at) \notin marks
    BY <1>1, <1>5, <2>2
  <2> QED
    BY <2>1, <2>2
<1>7. HasBox(body, j) => j + 1 \in 1..Len(body)
  BY <1>3, TokenIs DEF HasBox
<1>8. from \in 0..Len(body)
  BY <1>1, <1>2, <1>6, <1>7
<1> HIDE DEF from
<1> QED
  BY <1>4, <1>8, FromTokenIs

\* What is before the mark of a list item.
LEMMA LeadIs ==
    ASSUME NEW line, IsSeq(line)
    PROVE  IsSeq(Lead(line))
<1> DEFINE q == QuotePrefixLength(line)
           w == LeadingWhitespace(Body(line))
<1>1. Len(line) \in Nat /\ q \in 0..Len(line) /\ IsSeq(Body(line)) /\ Len(Body(line)) = Len(line) - q
  BY SeqIs, QuotePrefixIs
<1>2. Len(Body(line)) \in Nat
  BY <1>1, SeqIs
<1>3. w \in 0..Len(Body(line))
  BY <1>1, <1>2, LeadingIs DEF LeadingWhitespace
<1>4. Lead(line) = SubSeq(line, 1, q + w)
  BY Zenon DEF Lead
<1> HIDE DEF q, w
<1>5. q + w \in 0..Len(line)
  BY <1>1, <1>3
<1> QED
  BY <1>4, <1>5, FromTokenIs

\* A line with its mark taken off or another put there.
LEMMA MarkedIs ==
    ASSUME NEW line, NEW marker, IsSeq(line), IsSeq(marker)
    PROVE  IsSeq(Unmarked(line)) /\ IsSeq(Marked(line, marker))
<1> DEFINE content == Content(Body(line), ParseListMarker(Body(line)))
<1>1. IsSeq(Lead(line)) /\ IsSeq(content)
  BY LeadIs, MarkerIs, QuotePrefixIs
<1>2. IsSeq(Cat(Lead(line), content)) /\ IsSeq(Cat3(Lead(line), marker, content))
  <2> HIDE DEF content
  <2> QED
    BY <1>1, CatIs, PartsAre
<1> QED
  BY <1>2, Zenon DEF Unmarked, Marked, Cat, Cat3

\* A line that is made a heading, of any level or none.
LEMMA HeadingIs ==
    ASSUME NEW line, NEW level \in Nat, IsSeq(line)
    PROVE  IsSeq(SetHeadingLevel(line, level))
<1> DEFINE body == Body(line)
           i == Leading(body, Space, 3)
           rest == FromToken(body, i)
           marks == Leading(rest, "#", Len(body))
           white == LeadingWhitespace(body)
<1>1. /\ Len(line) \in Nat /\ QuotePrefixLength(line) \in 0..Len(line) /\ IsSeq(body)
      /\ IsSeq(SubSeq(line, 1, QuotePrefixLength(line)))
  BY SeqIs, QuotePrefixIs, FromTokenIs
<1> HIDE DEF body
<1>2. Len(body) \in Nat /\ i \in 0..Len(body) /\ white \in 0..Len(body) /\ \A k \in 1..white : body[k] = Space
  <2>1. Len(body) \in Nat
    BY <1>1, SeqIs
  <2>2. i \in 0..Len(body)
    BY <1>1, LeadingIs
  <2>3. white \in 0..Len(body) /\ \A k \in 1..white : body[k] = Space
    BY <1>1, <2>1, LeadingIs DEF LeadingWhitespace
  <2> QED
    BY <2>1, <2>2, <2>3
<1> HIDE DEF white
<1>3. IsSeq(rest) /\ Len(rest) = Len(body) - i /\ \A k \in 1..Len(body) - i : rest[k] = body[i + k]
  <2> HIDE DEF i
  <2> QED
    BY <1>1, <1>2, FromTokenIs
<1>4. marks \in 0..Len(rest) /\ \A k \in 1..marks : rest[k] = "#"
  <2> HIDE DEF rest
  <2> QED
    BY <1>2, <1>3, LeadingIs
<1>5. HeadingLevel(body) = IF marks \in 1..6 /\ TokenAt(body, i + marks + 1) \in {Space, "end"} THEN marks ELSE 0
  BY Zenon DEF HeadingLevel
<1> HIDE DEF i, rest, marks
<1>6. IsSeq(WithoutHeading(body))
  <2>1. CASE HeadingLevel(body) > 0
    <3>1. HeadingLevel(body) = marks /\ marks >= 1
      BY <1>5, <2>1
    <3>2. 1 \in 1..marks /\ 1 \in 1..Len(body) - i /\ i + 1 \in 1..Len(body)
      BY <1>2, <1>3, <1>4, <3>1
    <3>3. body[i + 1] = "#"
      BY <1>3, <1>4, <3>2
    <3>4. ~(i + 1 <= white)
      <4> SUFFICES ASSUME i + 1 <= white
                   PROVE  FALSE
        OBVIOUS
      <4>1. i + 1 \in 1..white
        BY <1>2
      <4>2. body[i + 1] = Space
        BY <1>2, <4>1
      <4> QED
        BY <3>3, <4>2 DEF Space
    <3>5. white + HeadingLevel(body) \in 0..Len(body)
      BY <1>2, <1>3, <1>4, <3>1, <3>4
    <3>6. WithoutHeading(body) = FromToken(body, white + HeadingLevel(body))
      BY <2>1, Zenon DEF WithoutHeading, white
    <3> QED
      BY <1>1, <3>5, <3>6, FromTokenIs
  <2>2. CASE ~(HeadingLevel(body) > 0)
    BY <1>1, <2>2 DEF WithoutHeading
  <2> QED
    BY <2>1, <2>2
<1> DEFINE text == WithoutHeading(body)
           hashes == [k \in 1..level |-> "#"]
           marker == IF level > 0 THEN hashes \o <<Space>> ELSE <<>>
<1>7. IsSeq(Trimmed(text))
  <2> HIDE DEF text
  <2>1. IsSeq(text) /\ Len(text) \in Nat
    BY <1>6, SeqIs DEF text
  <2>2. LeadingWhitespace(text) \in 0..Len(text)
    BY <2>1, LeadingIs DEF LeadingWhitespace
  <2> QED
    BY <2>1, <2>2, FromTokenIs DEF Trimmed
<1>8. IsSeq(marker)
  <2>1. IsSeq(hashes)
    <3>1. hashes = [k \in 1..level |-> hashes[k]]
      OBVIOUS
    <3> HIDE DEF hashes
    <3> QED
      BY <3>1, CountedIsSeq
  <2> HIDE DEF hashes
  <2>2. IsSeq(<<Space>>) /\ IsSeq(<<>>)
    BY TuplesAre
  <2>3. IsSeq(Cat(hashes, <<Space>>))
    BY <2>1, <2>2, CatIs
  <2>4. IsSeq(hashes \o <<Space>>)
    BY <2>3, Zenon DEF Cat
  <2> QED
    BY <2>2, <2>4
<1>9. SetHeadingLevel(line, level) = Cat3(SubSeq(line, 1, QuotePrefixLength(line)), marker, Trimmed(text))
  BY Zenon DEF SetHeadingLevel, Cat3, body
<1> HIDE DEF marker, text
<1> QED
  BY <1>1, <1>7, <1>8, <1>9, PartsAre

\* Some lines.
AreLines(lines, n) == lines = [i \in 1..n |-> lines[i]] /\ \A i \in 1..n : IsSeq(lines[i])

\* The lines that are selected.
LEMMA LinesAre ==
    ASSUME NEW text, NEW r, LinesOK(text, r)
    PROVE  /\ r.lastLine - r.firstLine + 1 \in Nat \ {0} /\ AreLines(LinesOf(text, r), r.lastLine - r.firstLine + 1)
           /\ \A i \in 1..r.lastLine - r.firstLine + 1 : LinesOf(text, r)[i] = GetLine(text, r.firstLine + i - 1)
<1> DEFINE last == LineFromPosition(text, Len(text))
           f == r.firstLine
           l == r.lastLine
           n == l - f + 1
           lines == LinesOf(text, r)
<1>1. IsSeq(text) /\ f \in 0..last /\ l \in f..last /\ last \in Nat
  BY SeqIs, LineGrows DEF LinesOK
<1>2. lines = [i \in 1..n |-> GetLine(text, f + i - 1)]
  BY Zenon DEF LinesOf
<1> HIDE DEF f, l, lines, last
<1>3. n \in Nat \ {0}
  BY <1>1
<1>4. ASSUME NEW i \in 1..n
      PROVE  lines[i] = GetLine(text, f + i - 1) /\ IsSeq(lines[i])
  <2> DEFINE k == f + i - 1
  <2>1. k \in 0..last
    BY <1>1
  <2>2. lines[i] = GetLine(text, k)
    BY <1>2
  <2> HIDE DEF k
  <2>3. IsSeq(GetLine(text, k))
    BY <1>1, <2>1, LineIs DEF last
  <2> QED
    BY <2>2, <2>3 DEF k
<1>5. AreLines(lines, n)
  BY <1>2, <1>4 DEF AreLines
<1> QED
  BY <1>3, <1>4, <1>5 DEF f, l, lines

\* Toggling a kind of line leaves as many lines.
LEMMA ToggledAre ==
    ASSUME NEW lines, NEW n \in Nat \ {0}, NEW kind, AreLines(lines, n)
    PROVE  AreLines(ToggleLineKind(lines, kind), n)
<1> DEFINE target == Targets(lines)
           remove == AllHave(lines, kind)
<1>1. lines = [i \in 1..n |-> lines[i]] /\ DOMAIN lines = 1..n /\ \A i \in 1..n : IsSeq(lines[i])
  BY DEF AreLines
<1>2. remove \in BOOLEAN
  BY DEF AllHave
<1> HIDE DEF target, remove
<1>3. AreLines(ToggleQuote(lines, target, remove), n)
  <2> DEFINE out == ToggleQuote(lines, target, remove)
  <2>1. ASSUME NEW i \in 1..n
        PROVE  /\ IsSeq(FromToken(lines[i], QuoteMarkerLength(lines[i])))
               /\ IsSeq(<<">", Space>> \o lines[i]) /\ IsSeq(<<">">>)
    <3>1. IsSeq(FromToken(lines[i], QuoteMarkerLength(lines[i])))
      BY <1>1, QuoteMarkerIs, FromTokenIs
    <3>2. IsSeq(<<">", Space>>) /\ IsSeq(<<">">>)
      BY TuplesAre
    <3>3. IsSeq(Cat(<<">", Space>>, lines[i]))
      BY <1>1, <3>2, CatIs
    <3>4. IsSeq(<<">", Space>> \o lines[i])
      BY <3>3, Zenon DEF Cat
    <3> QED
      BY <3>1, <3>2, <3>4
  <2>2. out = [i \in DOMAIN lines |->
                 IF i \in target
                 THEN IF remove THEN FromToken(lines[i], QuoteMarkerLength(lines[i])) ELSE <<">", Space>> \o lines[i]
                 ELSE IF ~remove /\ Min(target) < i /\ i < Max(target) THEN <<">">> ELSE lines[i]]
    BY Zenon DEF ToggleQuote
  <2>3. ASSUME NEW i \in 1..n
        PROVE  IsSeq(out[i])
    <3> DEFINE quoted == <<">", Space>> \o lines[i]
               bar == <<">">>
               within == Min(target) < i /\ i < Max(target)
               bare == FromToken(lines[i], QuoteMarkerLength(lines[i]))
    <3>1. IsSeq(bare) /\ IsSeq(quoted) /\ IsSeq(bar) /\ IsSeq(lines[i])
      BY <1>1, <2>1
    <3>2. out[i] = IF i \in target THEN IF remove THEN bare ELSE quoted ELSE IF ~remove /\ within THEN bar ELSE lines[i]
      BY <1>1, <2>2
    <3> HIDE DEF out, bare, quoted, bar, within
    <3> QED
      BY <3>1, <3>2
  <2>4. out = [i \in 1..n |-> out[i]]
    BY <1>1, <2>2
  <2> HIDE DEF out
  <2> QED
    BY <2>3, <2>4 DEF AreLines, out
<1>4. AreLines(ToggleList(lines, target, remove, kind), n)
  <2> DEFINE out == ToggleList(lines, target, remove, kind)
             marker(i) == NewMarker(lines, target, i, kind)
  <2>1. out = [i \in DOMAIN lines |->
                 IF i \notin target THEN lines[i]
                 ELSE IF remove THEN Unmarked(lines[i])
                 ELSE IF kind # "Numbered" /\ HasLineKind(lines[i], kind) THEN lines[i]
                 ELSE Marked(lines[i], marker(i))]
    BY Zenon DEF ToggleList
  <2>2. ASSUME NEW i \in 1..n
        PROVE  IsSeq(Unmarked(lines[i])) /\ IsSeq(Marked(lines[i], marker(i)))
    <3>1. IsSeq(marker(i))
      BY TuplesAre DEF NewMarker
    <3> HIDE DEF marker
    <3> QED
      BY <1>1, <3>1, MarkedIs
  <2>3. ASSUME NEW i \in 1..n
        PROVE  IsSeq(out[i])
    <3>1. out[i] = IF i \notin target THEN lines[i]
                   ELSE IF remove THEN Unmarked(lines[i])
                   ELSE IF kind # "Numbered" /\ HasLineKind(lines[i], kind) THEN lines[i]
                   ELSE Marked(lines[i], marker(i))
      BY <1>1, <2>1
    <3> HIDE DEF out, marker
    <3>2. IsSeq(lines[i]) /\ IsSeq(Unmarked(lines[i])) /\ IsSeq(Marked(lines[i], marker(i)))
      BY <1>1, <2>2
    <3> QED
      BY <3>1, <3>2
  <2>4. out = [i \in 1..n |-> out[i]]
    BY <1>1, <2>1
  <2> HIDE DEF out
  <2> QED
    BY <2>3, <2>4 DEF AreLines, out
<1> DEFINE quote == ToggleQuote(lines, target, remove)
           list == ToggleList(lines, target, remove, kind)
<1>5. ToggleLineKind(lines, kind) = IF target = {} THEN lines ELSE IF kind = "Quote" THEN quote ELSE list
  BY Zenon DEF ToggleLineKind, target, remove
<1> HIDE DEF quote, list
<1> QED
  BY <1>3, <1>4, <1>5 DEF quote, list

\* And so do headings.
LEMMA HeadingsAre ==
    ASSUME NEW lines, NEW n \in Nat \ {0}, NEW level \in Nat, AreLines(lines, n)
    PROVE  AreLines(SetHeadings(lines, level), n)
<1> DEFINE out == SetHeadings(lines, level)
<1>1. DOMAIN lines = 1..n /\ \A i \in 1..n : IsSeq(lines[i])
  BY DEF AreLines
<1>2. out = [i \in DOMAIN lines |->
               IF IsBlank(lines[i]) /\ Len(lines) > 1 THEN lines[i] ELSE SetHeadingLevel(lines[i], level)]
  BY Zenon DEF SetHeadings
<1>3. ASSUME NEW i \in 1..n
      PROVE  IsSeq(out[i])
  <2>1. out[i] = lines[i] \/ out[i] = SetHeadingLevel(lines[i], level)
    BY <1>1, <1>2
  <2>2. IsSeq(SetHeadingLevel(lines[i], level))
    BY <1>1, HeadingIs
  <2> QED
    BY <1>1, <2>1, <2>2
<1>4. out = [i \in 1..n |-> out[i]]
  BY <1>1, <1>2
<1> HIDE DEF out
<1> QED
  BY <1>3, <1>4 DEF AreLines, out

\* The text of the lines.
LEMMA JoinedIs ==
    ASSUME NEW text, NEW r, NEW out, NEW n \in Nat \ {0}, AreLines(out, n)
    PROVE  IsSeq(Joined(text, r, out)) /\ (n = 1 => Len(Joined(text, r, out)) = Len(out[1]))
<1> DEFINE ending(i) == IF i = Len(out) THEN <<>> ELSE <<text[LineEndPosition(text, r.firstLine + i - 1) + 1]>>
           p == [i \in DOMAIN out |-> out[i] \o ending(i)]
<1>1. out = [i \in 1..n |-> out[i]] /\ DOMAIN out = 1..n /\ Len(out) = n /\ \A i \in 1..n : IsSeq(out[i])
  BY CountedIsSeq DEF AreLines
<1>2. Joined(text, r, out) = FlattenSeq(p)
  BY Zenon DEF Joined
<1>3. ASSUME NEW i
      PROVE  IsSeq(ending(i)) /\ (i = n => Len(ending(i)) = 0)
  BY <1>1, TuplesAre
<1> HIDE DEF ending
<1>4. ASSUME NEW i \in 1..n
      PROVE  p[i] = Cat(out[i], ending(i)) /\ IsSeq(p[i]) /\ Len(p[i]) = Len(out[i]) + Len(ending(i))
  <2>1. p[i] = out[i] \o ending(i)
    BY <1>1
  <2> HIDE DEF p
  <2>2. p[i] = Cat(out[i], ending(i))
    BY <2>1, Zenon DEF Cat
  <2> QED
    BY <1>1, <1>3, <2>2, CatIs
<1>5. p = [i \in 1..n |-> p[i]]
  BY <1>1
<1> HIDE DEF p
<1>6. Len(p) = n
  BY <1>5, CountedIsSeq
<1>7. IsSeq(FlattenSeq(p)) /\ (n = 1 => FlattenSeq(p) = p[1])
  BY <1>4, <1>6, FlatIsSeq
<1>8. n = 1 => Len(p[1]) = Len(out[1])
  <2> SUFFICES ASSUME n = 1
               PROVE  Len(p[1]) = Len(out[1])
    OBVIOUS
  <2>1. Len(p[1]) = Len(out[1]) + Len(ending(1)) /\ Len(ending(1)) = 0 /\ Len(out[1]) \in Nat
    BY <1>1, <1>3, <1>4, SeqIs
  <2> QED
    BY <2>1
<1> QED
  BY <1>2, <1>7, <1>8

\* Lines are put in place of those that are selected.
LEMMA TransformedIsOK ==
    ASSUME NEW d, DocOK(d), NEW r, NEW lines, NEW out, NEW n \in Nat \ {0},
           LinesOK(d.text, r), n = r.lastLine - r.firstLine + 1, AreLines(lines, n), AreLines(out, n)
    PROVE  DocOK(Transformed(d, r, lines, out))
<1> DEFINE old == d.text
           joined == Joined(old, r, out)
           a == Shift(d.anchor, r, lines[1], out[1])
           c == Shift(d.caret, r, lines[1], out[1])
           start == r.start
           end == r.end
           single == Doc(Put(old, start, end, joined), a, c)
           many == Doc(Put(old, start, end, joined), start, start + Len(joined))
<1>1. /\ IsSeq(old) /\ Len(old) \in Nat /\ start \in 0..Len(old) /\ end \in start..Len(old)
      /\ d.anchor \in Nat /\ d.caret \in Nat
  <2>1. IsSeq(old) /\ start \in 0..Len(old) /\ end \in start..Len(old)
    BY DEF LinesOK
  <2>2. d.anchor \in 0..Len(old) /\ d.caret \in 0..Len(old)
    BY DEF DocOK
  <2> HIDE DEF old
  <2>3. Len(old) \in Nat
    BY <2>1, SeqIs
  <2> QED
    BY <2>1, <2>2, <2>3
<1>2. Transformed(d, r, lines, out) = IF out = lines THEN d ELSE IF r.firstLine = r.lastLine THEN single ELSE many
  BY Zenon DEF Transformed
<1>3. IsSeq(joined) /\ (n = 1 => Len(joined) = Len(out[1])) /\ Len(joined) \in Nat
  BY JoinedIs, SeqIs
<1>4. r.firstLine = r.lastLine => n = 1
  <2>1. r.firstLine \in Int /\ r.lastLine \in Int
    BY <1>1, SeqIs, LineGrows DEF LinesOK
  <2> QED
    BY <2>1
<1>5. ASSUME n = 1, NEW pos \in Nat
      PROVE  Shift(pos, r, lines[1], out[1]) \in start..start + Len(joined)
  <2>1. IsSeq(lines[1]) /\ IsSeq(out[1])
    BY <1>5 DEF AreLines
  <2> DEFINE k == Len(lines[1])
             l == Len(out[1])
             x == pos + l - k
             hi == start + l
  <2>2. k \in Nat /\ l \in Nat
    BY <2>1, SeqIs
  <2>3. Shift(pos, r, lines[1], out[1]) = IF x < start THEN start ELSE IF x > hi THEN hi ELSE x
    BY Zenon DEF Shift, ClampTo
  <2>4. Len(joined) = l
    BY <1>3, <1>5
  <2> HIDE DEF joined, k, l, start
  <2> QED
    BY <1>1, <1>5, <2>2, <2>3, <2>4
<1> HIDE DEF old, joined, start, end, a, c
<1>6. ASSUME n = 1
      PROVE  DocOK(single)
  <2>1. a \in start..start + Len(joined) /\ c \in start..start + Len(joined)
    BY <1>1, <1>5, <1>6 DEF a, c
  <2>2. a \in 0..start + Len(joined) /\ c \in 0..start + Len(joined)
    BY <1>1, <1>3, <2>1
  <2> QED
    BY <1>1, <1>3, <2>2, PutDocIs
<1>7. DocOK(many)
  <2>1. start \in 0..start + Len(joined) /\ start + Len(joined) \in 0..start + Len(joined)
    BY <1>1, <1>3
  <2> QED
    BY <1>1, <1>3, <2>1, PutDocIs
<1> HIDE DEF single, many
<1> QED
  BY <1>2, <1>4, <1>6, <1>7

\* The formats of lines.
LEMMA LineFormatsAreOK ==
    ASSUME NEW d, DocOK(d), NEW level \in Nat, NEW kind
    PROVE  DocOK(SetHeading(d, level)) /\ DocOK(ToggleLines(d, kind))
<1> DEFINE r == SelectedLines(d)
           lines == LinesOf(d.text, r)
           n == r.lastLine - r.firstLine + 1
<1>1. LinesOK(d.text, r)
  BY SelectedLinesAre
<1>2. n \in Nat \ {0} /\ AreLines(lines, n)
  BY <1>1, LinesAre
<1>3. AreLines(SetHeadings(lines, level), n) /\ AreLines(ToggleLineKind(lines, kind), n)
  <2> HIDE DEF lines, n
  <2> QED
    BY <1>2, HeadingsAre, ToggledAre
<1>4. /\ SetHeading(d, level) = Transformed(d, r, lines, SetHeadings(lines, level))
      /\ ToggleLines(d, kind) = Transformed(d, r, lines, ToggleLineKind(lines, kind))
  BY Zenon DEF SetHeading, ToggleLines, Selected
<1> HIDE DEF r, lines
<1>5. DocOK(Transformed(d, r, lines, SetHeadings(lines, level)))
  BY <1>1, <1>2, <1>3, TransformedIsOK
<1>6. DocOK(Transformed(d, r, lines, ToggleLineKind(lines, kind)))
  BY <1>1, <1>2, <1>3, TransformedIsOK
<1> QED
  BY <1>4, <1>5, <1>6

\* A block whose selection is in its text.
IsBlock(block) ==
    IsSeq(block.text) /\ block.selectStart \in 0..Len(block.text) /\ block.selectEnd \in 0..Len(block.text)

\* The blocks are such.
LEMMA BlocksAre ==
    \A block \in {HorizontalRule, Table, Diagram, EmptyFence} : IsBlock(block)
<1> DEFINE rule == <<"-", "-", "-">>
           table == <<"|a|", "lf", "|-|", "lf", "| |">>
           graph == <<"mermaid", "lf", "graph", "lf">>
           empty == <<"lf", "lf">>
           diagram == Fence \o graph \o Fence
           fence == Fence \o empty \o Fence
<1>1. IsSeq(rule) /\ Len(rule) = 3 /\ IsSeq(graph) /\ Len(graph) = 4 /\ IsSeq(empty) /\ Len(empty) = 2
      /\ IsSeq(Fence) /\ Len(Fence) = 3
  BY TuplesAre DEF Fence
<1>2. IsSeq(table) /\ Len(table) = 5
  <2>1. table = [i \in 1..5 |-> table[i]]
    OBVIOUS
  <2> HIDE DEF table
  <2> QED
    BY <2>1, CountedIsSeq
<1>3. diagram = Cat3(Fence, graph, Fence) /\ fence = Cat3(Fence, empty, Fence)
  BY Zenon DEF Cat3
<1>4. /\ HorizontalRule = Block(rule, 3, 3) /\ Table = Block(table, 0, 1)
      /\ Diagram = Block(diagram, 6, 6) /\ EmptyFence = Block(fence, 4, 4)
  BY Zenon DEF HorizontalRule, Table, Diagram, EmptyFence
<1> HIDE DEF rule, table, graph, empty, diagram, fence
<1>5. IsSeq(diagram) /\ Len(diagram) = 10
  <2>1. IsSeq(graph) /\ IsSeq(Fence)
    BY <1>1
  <2>2. IsSeq(diagram) /\ Len(diagram) = Len(Fence) + Len(graph) + Len(Fence)
    BY <1>3, <2>1, PartsAre
  <2> QED
    BY <1>1, <2>2
<1>6. IsSeq(fence) /\ Len(fence) = 8
  <2>1. IsSeq(empty) /\ IsSeq(Fence)
    BY <1>1
  <2>2. IsSeq(fence) /\ Len(fence) = Len(Fence) + Len(empty) + Len(Fence)
    BY <1>3, <2>1, PartsAre
  <2> QED
    BY <1>1, <2>2
<1>7. ASSUME NEW text, NEW a, NEW b, NEW n \in Nat, IsSeq(text), Len(text) = n, a \in 0..n, b \in 0..n
      PROVE  IsBlock(Block(text, a, b))
  BY <1>7 DEF IsBlock, Block
<1>8. IsBlock(HorizontalRule)
  BY <1>1, <1>4, <1>7, 3 \in Nat, 3 \in 0..3
<1>9. IsBlock(Table)
  BY <1>2, <1>4, <1>7, 5 \in Nat, 0 \in 0..5, 1 \in 0..5
<1>10. IsBlock(Diagram)
  BY <1>4, <1>5, <1>7, 10 \in Nat, 6 \in 0..10
<1>11. IsBlock(EmptyFence)
  BY <1>4, <1>6, <1>7, 8 \in Nat, 4 \in 0..8
<1> QED
  BY <1>8, <1>9, <1>10, <1>11

\* A block is put at the caret's line.
LEMMA InsertBlockIsOK ==
    ASSUME NEW d, DocOK(d), NEW block, IsBlock(block), NEW eol, IsSeq(eol)
    PROVE  DocOK(InsertBlock(d, block, eol))
<1> DEFINE old == d.text
           n == Len(old)
           line == LineFromPosition(old, d.caret)
           lineEnd == LineEndPosition(old, line)
           from == IF BlankLine(old, line) THEN PositionFromLine(old, line) ELSE lineEnd
           before == IF ~BlankLine(old, line) THEN eol \o eol
                     ELSE IF BlankLine(old, line - 1) THEN <<>> ELSE eol
           mid == ConvertEol(block.text, eol)
           gap == GapAfter(old, line, eol)
           new == before \o mid \o gap
           a == block.selectStart
           b == block.selectEnd
<1>1. IsSeq(old) /\ d.caret \in 0..n /\ n \in Nat
  BY SeqIs DEF DocOK
<1> HIDE DEF old
<1>2. line \in 0..LineFromPosition(old, n)
  BY <1>1, PlaceIsInLine
<1>3. from \in 0..n /\ lineEnd \in from..n
  <2> HIDE DEF line
  <2>1. PositionFromLine(old, line) \in 0..n /\ lineEnd \in PositionFromLine(old, line)..n
    BY <1>1, <1>2, LineIs
  <2> HIDE DEF n, lineEnd
  <2> QED
    BY <1>1, <2>1
<1>4. IsSeq(before)
  <2>1. IsSeq(<<>>)
    BY TuplesAre
  <2>2. IsSeq(Cat(eol, eol))
    BY CatIs
  <2>3. IsSeq(eol \o eol)
    BY <2>2, Zenon DEF Cat
  <2> QED
    BY <2>1, <2>3
<1>5. IsSeq(gap)
  BY TuplesAre DEF GapAfter
<1>6. IsSeq(mid) /\ Len(mid) = Len(block.text) /\ Len(mid) \in Nat
  <2> DEFINE text == block.text
  <2>1. IsSeq(text)
    BY DEF IsBlock
  <2>2. mid = [i \in DOMAIN text |-> IF text[i] \in Endings THEN eol[1] ELSE text[i]]
    BY Zenon DEF ConvertEol
  <2> HIDE DEF text, mid
  <2>3. Len(text) \in Nat /\ DOMAIN text = 1..Len(text)
    BY <2>1, SeqIs
  <2>4. mid = [i \in 1..Len(text) |-> mid[i]]
    BY <2>2, <2>3
  <2>5. IsSeq(mid) /\ Len(mid) = Len(text)
    BY <2>3, <2>4, CountedIsSeq
  <2> QED
    BY <2>3, <2>5 DEF text
<1>7. a \in 0..Len(mid) /\ b \in 0..Len(mid)
  BY <1>6 DEF IsBlock
<1>8. InsertBlock(d, block, eol) = Doc(Put(old, from, lineEnd, new), from + Len(before) + a, from + Len(before) + b)
  BY Zenon DEF InsertBlock, old
<1>9. new = Cat3(before, mid, gap)
  BY Zenon DEF Cat3
<1> HIDE DEF n, from, lineEnd, before, mid, gap, new, a, b
<1>10. IsSeq(new) /\ Len(new) = Len(before) + Len(mid) + Len(gap) /\ Len(before) \in Nat /\ Len(gap) \in Nat
  BY <1>4, <1>5, <1>6, <1>9, PartsAre, SeqIs
<1>11. from + Len(before) + a \in 0..from + Len(new) /\ from + Len(before) + b \in 0..from + Len(new)
  BY <1>1, <1>3, <1>6, <1>7, <1>10
<1>12. DocOK(Doc(Put(old, from, lineEnd, new), from + Len(before) + a, from + Len(before) + b))
  BY <1>1, <1>3, <1>10, <1>11, PutDocIs DEF n
<1> QED
  BY <1>8, <1>12

\* Fences are put around lines, or taken off.
LEMMA FencesAreOK ==
    ASSUME NEW text, NEW r, NEW eol, LinesOK(text, r), IsSeq(eol), Len(eol) = 1, NEW d, d.text = text
    PROVE  DocOK(FenceLines(d, r, eol))
<1> DEFINE n == Len(text)
           last == LineFromPosition(text, n)
           start == r.start
           end == r.end
           open == PositionFromLine(text, r.firstLine - 1)
           close == LineEndPosition(text, r.lastLine + 1)
           inner == Put(text, end, close, <<>>)
           off == Doc(Put(inner, open, start, <<>>), open, end - (start - open))
           after == eol \o Fence
           before == Fence \o eol
           closed == Put(text, end, end, after)
           on == Doc(Put(closed, start, start, before), start + 3, start + 3)
<1>1. /\ IsSeq(text) /\ n \in Nat /\ start \in 0..n /\ end \in start..n
      /\ r.firstLine \in 0..last /\ r.lastLine \in r.firstLine..last /\ last \in Nat
      /\ start = PositionFromLine(text, r.firstLine) /\ end = LineEndPosition(text, r.lastLine)
  BY SeqIs, LineGrows DEF LinesOK
<1>2. FenceLines(d, r, eol) = IF Fenced(text, r) THEN off ELSE on
  BY Zenon DEF FenceLines
<1>3. Fenced(text, r) => r.firstLine > 0 /\ r.lastLine + 1 < last + 1
  BY DEF Fenced, LineCount
<1> DEFINE f == r.firstLine
           l == r.lastLine
<1>4. /\ f \in 0..last /\ l \in f..last
      /\ Fenced(text, r) => f > 0 /\ l + 1 < last + 1
  BY <1>1, <1>3
<1>5. IsSeq(<<>>) /\ Len(<<>>) = 0 /\ IsSeq(Fence) /\ Len(Fence) = 3
  BY TuplesAre DEF Fence
<1>6. ASSUME Fenced(text, r)
      PROVE  DocOK(off)
  <2>1. f - 1 \in 0..last /\ l + 1 \in 0..last /\ f \in 0..last /\ l \in 0..last /\ f - 1 < f /\ l < l + 1
    BY <1>1, <1>4, <1>6
  <2>2. open \in PositionsOfLine(text, f - 1) /\ close \in PositionsOfLine(text, l + 1) /\ open \in 0..n /\ close \in 0..n
    <3> HIDE DEF f, l
    <3>1. open = PositionFromLine(text, f - 1) /\ close = LineEndPosition(text, l + 1)
      BY DEF f, l
    <3> HIDE DEF open, close
    <3>2. open \in PositionsOfLine(text, f - 1) /\ PositionsOfLine(text, f - 1) \in SUBSET (0..n)
      BY <1>1, <2>1, <3>1, LineIs
    <3>3. close \in PositionsOfLine(text, l + 1) /\ PositionsOfLine(text, l + 1) \in SUBSET (0..n)
      BY <1>1, <2>1, <3>1, LineIs
    <3> QED
      BY <3>2, <3>3
  <2>3. start \in PositionsOfLine(text, f) /\ end \in PositionsOfLine(text, l)
    <3>1. start = PositionFromLine(text, f) /\ end = LineEndPosition(text, l)
      BY <1>1
    <3> HIDE DEF f, l, start, end
    <3> QED
      BY <1>1, <2>1, <3>1, LineIs
  <2> HIDE DEF open, close, start, end, f, l
  <2>4. open < start /\ end < close
    BY <1>1, <2>1, <2>2, <2>3, LinesAreOrdered
  <2>5. close \in end..n /\ end \in 0..n /\ open \in 0..n
    BY <1>1, <2>2, <2>4
  <2> DEFINE text2 == Put(inner, open, start, <<>>)
  <2>6. IsSeq(inner) /\ Len(inner) = end + Len(<<>>) + (n - close)
    <3> DEFINE none == <<>>
    <3>1. IsSeq(none)
      BY <1>5
    <3> HIDE DEF none, n
    <3>2. IsSeq(Put(text, end, close, none)) /\ Len(Put(text, end, close, none)) = end + Len(none) + (n - close)
      BY <1>1, <2>5, <3>1, PutIs DEF n
    <3> QED
      BY <3>2 DEF none
  <2>7. Len(inner) = end + (n - close)
    BY <1>1, <1>5, <2>5, <2>6
  <2> HIDE DEF inner, n
  <2>8. open \in 0..Len(inner) /\ start \in open..Len(inner)
    BY <1>1, <2>2, <2>4, <2>5, <2>7
  <2>9. IsSeq(text2) /\ Len(text2) = open + (Len(inner) - start)
    <3> DEFINE none == <<>>
    <3>1. IsSeq(none) /\ Len(none) = 0
      BY <1>5
    <3> HIDE DEF none
    <3>2. IsSeq(Put(inner, open, start, none)) /\ Len(Put(inner, open, start, none)) = open + Len(none) + (Len(inner) - start)
      BY <2>6, <2>8, <3>1, PutIs
    <3>3. open \in Int
      BY <2>5
    <3> QED
      BY <3>1, <3>2, <3>3 DEF none
  <2> HIDE DEF text2
  <2>10. open \in 0..Len(text2) /\ end - (start - open) \in 0..Len(text2)
    <3> DEFINE k == Len(inner)
               k2 == Len(text2)
    <3>1. k = end + (n - close) /\ k2 = open + (k - start)
      BY <2>7, <2>9
    <3> HIDE DEF k, k2
    <3>2. n \in Nat /\ start \in 0..n /\ end \in start..n /\ close \in end..n /\ open \in 0..n /\ open < start
      BY <1>1, <2>4, <2>5
    <3>3. open \in 0..k2 /\ end - (start - open) \in 0..k2
      BY <3>1, <3>2
    <3> QED
      BY <3>3 DEF k2
  <2> QED
    BY <2>9, <2>10, DocIs DEF text2
<1>7. DocOK(on)
  <2>1. after = Cat(eol, Fence) /\ before = Cat(Fence, eol)
    BY Zenon DEF Cat
  <2> HIDE DEF after, before, start, end, n
  <2>2. IsSeq(after) /\ IsSeq(before) /\ Len(after) \in Nat /\ Len(before) = Len(Fence) + Len(eol)
    <3>1. IsSeq(Fence)
      BY <1>5
    <3> QED
      BY <2>1, <3>1, CatIs, SeqIs
  <2>3. Len(before) = 4
    BY <1>5, <2>2
  <2>4. IsSeq(closed) /\ Len(closed) = end + Len(after) + (n - end)
    <3>1. end \in 0..n /\ end \in end..n
      BY <1>1
    <3> QED
      BY <1>1, <2>2, <3>1, PutIs DEF n
  <2> HIDE DEF closed
  <2>5. start \in 0..Len(closed) /\ start \in start..Len(closed) /\ start + 3 \in 0..start + Len(before)
    <3> DEFINE k == Len(closed)
               b == Len(before)
               a == Len(after)
    <3>1. k = end + a + (n - end) /\ b = 4 /\ a \in Nat
      BY <2>2, <2>3, <2>4
    <3> HIDE DEF k, b, a
    <3>2. n \in Nat /\ start \in 0..n /\ end \in start..n
      BY <1>1
    <3>3. start \in 0..k /\ start \in start..k /\ start + 3 \in 0..start + b
      BY <3>1, <3>2
    <3> QED
      BY <3>3 DEF k, b
  <2> QED
    BY <2>2, <2>4, <2>5, PutDocIs
<1> HIDE DEF off, on
<1> QED
  BY <1>2, <1>6, <1>7

\* So the code block is.
LEMMA CodeBlockIsOK ==
    ASSUME NEW d, DocOK(d)
    PROVE  DocOK(InsertCodeBlock(d, <<"lf">>))
<1> DEFINE r == SelectedLines(d)
           eol == <<"lf">>
<1>1. InsertCodeBlock(d, eol)
        = IF r.firstLine = r.lastLine /\ IsBlank(GetLine(d.text, r.firstLine)) THEN InsertBlock(d, EmptyFence, eol)
          ELSE FenceLines(d, r, eol)
  BY Zenon DEF InsertCodeBlock
<1>2. IsSeq(eol) /\ Len(eol) = 1
  BY TuplesAre
<1>3. LinesOK(d.text, r)
  BY SelectedLinesAre
<1> HIDE DEF r, eol
<1>4. DocOK(FenceLines(d, r, eol))
  BY <1>2, <1>3, FencesAreOK
<1>5. DocOK(InsertBlock(d, EmptyFence, eol))
  BY <1>2, BlocksAre, InsertBlockIsOK
<1> QED
  BY <1>1, <1>4, <1>5 DEF eol

-----------------------------------------------------------------------------
(* A block stands apart from the text around it. *)

\* A place that begins a line, and one that ends it.
BeginsLine(text, p) == p = 0 \/ text[p] \in Endings
EndsLine(text, q) == q = Len(text) \/ text[q + 1] \in Endings

\* The first and the last place of a line are such.
LEMMA LineBounds ==
    ASSUME NEW text, IsSeq(text), NEW line \in 0..LineFromPosition(text, Len(text))
    PROVE  /\ BeginsLine(text, PositionFromLine(text, line)) /\ EndsLine(text, LineEndPosition(text, line))
           /\ LineFromPosition(text, PositionFromLine(text, line)) = line
           /\ LineFromPosition(text, LineEndPosition(text, line)) = line
<1> DEFINE n == Len(text)
           p == PositionFromLine(text, line)
           q == LineEndPosition(text, line)
           S == PositionsOfLine(text, line)
<1>1. n \in Nat /\ p \in S /\ q \in S /\ p \in 0..n /\ q \in 0..n
      /\ (\A x \in S : p <= x) /\ (\A x \in S : q >= x)
  BY SeqIs, LineIs
<1> HIDE DEF p, q, n
<1>2. \A x \in 0..n : x \in S <=> LineFromPosition(text, x) = line
  BY DEF PositionsOfLine, n
<1> HIDE DEF S
<1>3. LineFromPosition(text, p) = line /\ LineFromPosition(text, q) = line
  BY <1>1, <1>2
<1>4. BeginsLine(text, p)
  <2> SUFFICES ASSUME p # 0, text[p] \notin Endings
               PROVE  FALSE
    BY DEF BeginsLine
  <2> DEFINE k == p - 1
  <2>1. k \in Nat /\ k \in 0..n /\ k + 1 = p /\ k < p
    BY <1>1
  <2> HIDE DEF k
  <2>2. LineFromPosition(text, k) \in Nat /\ LineFromPosition(text, k + 1) = LineFromPosition(text, k) + 0
    BY <2>1, LineGrows
  <2>3. k \in S
    BY <1>2, <1>3, <2>1, <2>2
  <2> QED
    BY <1>1, <2>1, <2>3
<1>5. EndsLine(text, q)
  <2> SUFFICES ASSUME q # n, text[q + 1] \notin Endings
               PROVE  FALSE
    BY DEF EndsLine, n
  <2>1. q \in Nat /\ q + 1 \in 0..n /\ q + 1 > q
    BY <1>1
  <2>2. LineFromPosition(text, q) \in Nat /\ LineFromPosition(text, q + 1) = LineFromPosition(text, q) + 0
    BY <2>1, LineGrows
  <2>3. q + 1 \in S
    BY <1>2, <1>3, <2>1, <2>2
  <2> QED
    BY <1>1, <2>1, <2>3
<1> QED
  BY <1>3, <1>4, <1>5 DEF p, q

\* They are the only ones: a line is what is between two such places in it.
LEMMA BoundsAreLine ==
    ASSUME NEW text, NEW p, NEW q, IsSeq(text), p \in 0..Len(text), q \in p..Len(text),
           BeginsLine(text, p), EndsLine(text, q), LineFromPosition(text, p) = LineFromPosition(text, q)
    PROVE  /\ PositionFromLine(text, LineFromPosition(text, p)) = p
           /\ LineEndPosition(text, LineFromPosition(text, p)) = q
<1> DEFINE n == Len(text)
           line == LineFromPosition(text, p)
           S == PositionsOfLine(text, line)
           first == PositionFromLine(text, line)
           last == LineEndPosition(text, line)
<1>1. n \in Nat /\ p \in 0..n /\ q \in p..n /\ q \in 0..n
  <2>1. n \in Nat
    BY SeqIs
  <2> HIDE DEF n
  <2>2. p \in 0..n /\ q \in p..n
    BY DEF n
  <2> QED
    BY <2>1, <2>2
<1>2. line \in 0..LineFromPosition(text, n) /\ p \in S
  BY <1>1, PlaceIsInLine
<1>3. \A x \in 0..n : x \in S <=> LineFromPosition(text, x) = line
  BY DEF PositionsOfLine
<1> HIDE DEF line
<1>4. first \in S /\ last \in S /\ first \in 0..n /\ last \in 0..n /\ first <= p /\ last >= q
  <2>1. q \in S
    BY <1>1, <1>3 DEF line
  <2>2. /\ first \in S /\ last \in S /\ S \in SUBSET (0..n)
        /\ (\A x \in S : first <= x) /\ (\A x \in S : last >= x)
    BY <1>2, LineIs
  <2> HIDE DEF S, first, last, n
  <2> QED
    BY <1>2, <2>1, <2>2
<1> HIDE DEF S, first, last, n
<1>5. LineFromPosition(text, first) = line /\ LineFromPosition(text, last) = line
      /\ LineFromPosition(text, p) = line /\ LineFromPosition(text, q) = line /\ line \in Nat
  BY <1>1, <1>3, <1>4, LineGrows DEF line
<1>6. first = p
  <2> SUFFICES ASSUME first < p
               PROVE  FALSE
    BY <1>1, <1>4
  <2> DEFINE k == p - 1
  <2>1. k \in Nat /\ first \in Nat /\ first <= k /\ k + 1 = p /\ p # 0
    BY <1>1, <1>4
  <2> HIDE DEF k
  <2>2. text[k + 1] \in Endings
    BY <2>1 DEF BeginsLine
  <2>3. LineFromPosition(text, k) \in Nat /\ LineFromPosition(text, k + 1) = LineFromPosition(text, k) + 1
    BY <2>1, <2>2, LineGrows
  <2>4. LineFromPosition(text, first) <= LineFromPosition(text, k)
    BY <2>1, LineOrder
  <2> QED
    BY <1>5, <2>1, <2>3, <2>4
<1>7. last = q
  <2> SUFFICES ASSUME last > q
               PROVE  FALSE
    BY <1>1, <1>4
  <2>1. q \in Nat /\ last \in Nat /\ q + 1 \in Nat /\ q + 1 <= last /\ q # n
    BY <1>1, <1>4
  <2>2. text[q + 1] \in Endings
    BY <2>1 DEF EndsLine, n
  <2>3. LineFromPosition(text, q + 1) = LineFromPosition(text, q) + 1
    BY <2>1, <2>2, LineGrows
  <2>4. LineFromPosition(text, q + 1) <= LineFromPosition(text, last)
    BY <2>1, LineOrder
  <2> QED
    BY <1>5, <2>3, <2>4
<1> QED
  BY <1>6, <1>7 DEF line, first, last

\* Two texts that begin alike have the same lines there.
LEMMA LinesAlike ==
    ASSUME NEW t, NEW u, NEW p, \A i \in 1..p : t[i] = u[i]
    PROVE  LineFromPosition(t, p) = LineFromPosition(u, p)
<1>1. {i \in 1..p : t[i] \in Endings} = {i \in 1..p : u[i] \in Endings}
  OBVIOUS
<1> QED
  BY <1>1 DEF LineFromPosition

\* Without an ending the line goes on.
LEMMA LineGoesOn ==
    ASSUME NEW t, NEW p \in Nat, NEW q \in Nat, p <= q, \A i \in p + 1 .. q : t[i] \notin Endings
    PROVE  LineFromPosition(t, q) = LineFromPosition(t, p)
<1>1. {i \in 1..q : t[i] \in Endings} = {i \in 1..p : t[i] \in Endings}
  OBVIOUS
<1> QED
  BY <1>1 DEF LineFromPosition

\* A line of spaces is blank.
LEMMA BlankIs ==
    ASSUME NEW text, NEW p, NEW q, IsSeq(text), p \in 0..Len(text), q \in p..Len(text),
           BeginsLine(text, p), EndsLine(text, q), \A i \in p + 1 .. q : text[i] = Space
    PROVE  BlankLine(text, LineFromPosition(text, p))
<1> DEFINE n == Len(text)
           line == LineFromPosition(text, p)
           r == GetRange(text, p, q)
<1>1. n \in Nat /\ p \in 0..n /\ q \in p..n /\ p \in Nat /\ q \in Nat
  <2>1. n \in Nat
    BY SeqIs
  <2> HIDE DEF n
  <2>2. p \in 0..n /\ q \in p..n
    BY DEF n
  <2> QED
    BY <2>1, <2>2
<1> HIDE DEF n
<1>2. LineFromPosition(text, p) = LineFromPosition(text, q)
  <2>1. \A i \in p + 1 .. q : text[i] \notin Endings
    BY DEF Space, Endings
  <2>2. p <= q
    BY <1>1
  <2> QED
    BY <1>1, <2>1, <2>2, LineGoesOn
<1>3. PositionFromLine(text, line) = p /\ LineEndPosition(text, line) = q
  BY <1>2, BoundsAreLine
<1> HIDE DEF line
<1>4. GetLine(text, line) = r
  BY <1>3, Zenon DEF GetLine
<1>5. IsSeq(r) /\ Len(r) = q - p /\ \A i \in 1 .. q - p : r[i] = text[p + i]
  BY RangeIs
<1> HIDE DEF r
<1>6. DOMAIN r = 1 .. q - p
  BY <1>5, SeqIs
<1>7. ASSUME NEW i \in DOMAIN r
      PROVE  r[i] = Space
  <2>1. p + i \in p + 1 .. q
    BY <1>1, <1>6, <1>7
  <2> QED
    BY <1>5, <1>6, <2>1
<1> QED
  BY <1>4, <1>7 DEF BlankLine, IsBlank, line

\* And a blank line of a text has only spaces.
LEMMA BlankHas ==
    ASSUME NEW text, IsSeq(text), NEW line \in 0..LineFromPosition(text, Len(text)), BlankLine(text, line)
    PROVE  \A i \in PositionFromLine(text, line) + 1 .. LineEndPosition(text, line) : text[i] = Space
<1> DEFINE n == Len(text)
           p == PositionFromLine(text, line)
           q == LineEndPosition(text, line)
           r == GetRange(text, p, q)
<1>1. n \in Nat /\ p \in 0..n /\ q \in p..n /\ LineFromPosition(text, n) \in Nat
  BY SeqIs, LineIs, LineGrows
<1>2. ~(line < 0 \/ line >= LineCount(text))
  BY <1>1 DEF LineCount
<1>3. IsBlank(r)
  BY <1>2, Zenon DEF BlankLine, GetLine
<1>4. IsSeq(r) /\ Len(r) = q - p /\ \A i \in 1 .. q - p : r[i] = text[p + i]
  BY <1>1, RangeIs
<1> HIDE DEF r, p, q, n
<1>5. DOMAIN r = 1 .. q - p
  BY <1>4, SeqIs
<1>6. ASSUME NEW i \in p + 1 .. q
      PROVE  text[i] = Space
  <2>1. i - p \in 1 .. q - p /\ p + (i - p) = i
    BY <1>1, <1>6
  <2> QED
    BY <1>3, <1>4, <1>5, <2>1 DEF IsBlank
<1> QED
  BY <1>6 DEF p, q

\* A text with something laid into it, between the parts of another.
Laid(t, old, from, to, before, mid, gap) ==
    /\ IsSeq(t) /\ Len(t) = from + Len(before) + Len(mid) + Len(gap) + (Len(old) - to)
    /\ \A i \in 1..from : t[i] = old[i]
    /\ \A i \in 1..Len(before) : t[from + i] = before[i]
    /\ \A i \in 1..Len(mid) : t[from + Len(before) + i] = mid[i]
    /\ \A i \in 1..Len(gap) : t[from + Len(before) + Len(mid) + i] = gap[i]
    /\ \A i \in 1 .. Len(old) - to : t[from + Len(before) + Len(mid) + Len(gap) + i] = old[to + i]

\* A range holds the tokens between two places.
Fits(r, s, p, q) == IsSeq(r) /\ Len(r) = q - p /\ \A i \in 1 .. q - p : r[i] = s[p + i]

\* So does GetRange.
LEMMA RangeFits ==
    ASSUME NEW s, NEW p, NEW q, IsSeq(s), p \in 0..Len(s), q \in p..Len(s)
    PROVE  Fits(GetRange(s, p, q), s, p, q)
<1> DEFINE r == GetRange(s, p, q)
<1>1. IsSeq(r) /\ Len(r) = q - p
  BY RangeIs
<1>2. ASSUME NEW i \in 1 .. q - p
      PROVE  r[i] = s[p + i]
  BY DEF GetRange, IsSeq
<1> QED
  BY <1>1, <1>2 DEF Fits

\* Also up to the end of the text.
LEMMA EndFits ==
    ASSUME NEW s, NEW p, IsSeq(s), p \in 0..Len(s)
    PROVE  Fits(GetRange(s, p, Len(s)), s, p, Len(s))
<1> DEFINE n == Len(s)
<1>1. n \in Nat
  BY SeqIs
<1> HIDE DEF n
<1>2. p \in 0..n /\ n \in p..n
  BY <1>1 DEF n
<1> QED
  BY <1>2, RangeFits DEF n

\* What is put into a text.
LEMMA LaidIs ==
    ASSUME NEW old, NEW from, NEW to, NEW before, NEW mid, NEW gap, IsSeq(old), from \in 0..Len(old), to \in from..Len(old),
           IsSeq(before), IsSeq(mid), IsSeq(gap)
    PROVE  Laid(Put(old, from, to, before \o mid \o gap), old, from, to, before, mid, gap)
<1> DEFINE n == Len(old)
           a == GetRange(old, 0, from)
           c == GetRange(old, to, n)
           new == Cat3(before, mid, gap)
           t == Cat3(a, new, c)
           x == Len(before)
           y == Len(mid)
           z == Len(gap)
<1>1. Put(old, from, to, before \o mid \o gap) = t
  BY Zenon DEF Put, Cat3
<1>2. n \in Nat /\ from \in 0..n /\ to \in from..n /\ x \in Nat /\ y \in Nat /\ z \in Nat
  <2>1. n \in Nat /\ x \in Nat /\ y \in Nat /\ z \in Nat
    BY SeqIs
  <2> HIDE DEF n, x, y, z
  <2>2. from \in 0..n /\ to \in from..n
    BY DEF n
  <2> QED
    BY <2>1, <2>2
<1>3. IsSeq(a) /\ Len(a) = from /\ \A i \in 1..from : a[i] = old[i]
  <2> HIDE DEF a, n
  <2>1. 0 \in 0..n /\ from \in 0..n
    BY <1>2
  <2>2. IsSeq(GetRange(old, 0, from)) /\ Len(GetRange(old, 0, from)) = from - 0
        /\ \A i \in 1 .. from - 0 : GetRange(old, 0, from)[i] = old[0 + i]
    BY <2>1, RangeIs DEF n
  <2>3. from - 0 = from /\ \A i \in 1..from : 0 + i = i
    BY <1>2
  <2> QED
    BY <2>2, <2>3 DEF a
<1>4. IsSeq(c) /\ Len(c) = n - to /\ \A i \in 1 .. n - to : c[i] = old[to + i]
  <2>1. to \in 0..n
    BY <1>2
  <2>2. Fits(c, old, to, n)
    BY <2>1, EndFits
  <2> QED
    BY <2>2, Zenon DEF Fits
<1> HIDE DEF n, a, c
<1>5. IsSeq(new) /\ Len(new) = x + y + z
  BY PartsAre
<1>6. /\ \A i \in 1..x : new[i] = before[i]
      /\ \A i \in 1..y : new[x + i] = mid[i]
      /\ \A i \in 1..z : new[x + y + i] = gap[i]
  BY PlacesAre
<1> HIDE DEF new
<1> SUFFICES Laid(t, old, from, to, before, mid, gap)
  BY <1>1
<1>16. IsSeq(a) /\ IsSeq(new) /\ IsSeq(c)
  BY <1>3, <1>4, <1>5
<1>7. IsSeq(t) /\ Len(t) = Len(a) + Len(new) + Len(c)
  BY <1>3, <1>4, <1>5, PartsAre
<1>8. /\ \A i \in 1..Len(a) : t[i] = a[i]
      /\ \A i \in 1..Len(new) : t[Len(a) + i] = new[i]
      /\ \A i \in 1..Len(c) : t[Len(a) + Len(new) + i] = c[i]
  BY <1>16, PlacesAre
<1> HIDE DEF t, x, y, z
<1>9. Len(t) = from + x + y + z + (n - to)
  <2> DEFINE la == Len(a)
             ln == Len(new)
             lc == Len(c)
             k == Len(t)
  <2>1. la = from /\ ln = x + y + z /\ lc = n - to /\ k = la + ln + lc
    BY <1>3, <1>4, <1>5, <1>7
  <2> HIDE DEF la, ln, lc, k
  <2>2. k = from + x + y + z + (n - to)
    BY <1>2, <2>1
  <2> QED
    BY <2>2 DEF k
<1>10. /\ \A i \in 1..from : t[i] = old[i]
       /\ \A i \in 1..x + y + z : t[from + i] = new[i]
       /\ \A i \in 1..n - to : t[from + (x + y + z) + i] = old[to + i]
  <2> DEFINE la == Len(a)
             ln == Len(new)
             lc == Len(c)
  <2>1. la = from /\ ln = x + y + z /\ lc = n - to
    BY <1>3, <1>4, <1>5
  <2>2. /\ \A i \in 1..la : t[i] = a[i]
        /\ \A i \in 1..ln : t[la + i] = new[i]
        /\ \A i \in 1..lc : t[la + ln + i] = c[i]
    BY <1>8
  <2> HIDE DEF la, ln, lc
  <2> QED
    BY <1>3, <1>4, <2>1, <2>2
<1>11. \A i \in 1..x : t[from + i] = before[i]
  BY <1>2, <1>6, <1>10
<1>12. ASSUME NEW i \in 1..y
       PROVE  t[from + x + i] = mid[i]
  <2>1. x + i \in 1..x + y + z /\ from + (x + i) = from + x + i
    BY <1>2
  <2> QED
    BY <1>6, <1>10, <2>1
<1>13. ASSUME NEW i \in 1..z
       PROVE  t[from + x + y + i] = gap[i]
  <2>1. x + y + i \in 1..x + y + z /\ from + (x + y + i) = from + x + y + i
    BY <1>2
  <2> QED
    BY <1>6, <1>10, <2>1
<1>14. ASSUME NEW i \in 1 .. n - to
       PROVE  t[from + x + y + z + i] = old[to + i]
  <2>1. from + (x + y + z) + i = from + x + y + z + i
    BY <1>2
  <2> QED
    BY <1>10, <2>1
<1> QED
  BY <1>7, <1>9, <1>10, <1>11, <1>12, <1>13, <1>14, Zenon DEF Laid, x, y, z, n

\* Where a block is put, and what is put before it.
Top(text, line) == IF BlankLine(text, line) THEN PositionFromLine(text, line) ELSE LineEndPosition(text, line)
GapBefore(text, line, eol) ==
    IF ~BlankLine(text, line) THEN eol \o eol ELSE IF BlankLine(text, line - 1) THEN <<>> ELSE eol

\* A blank line is above it.
LEMMA BlankAbove ==
    ASSUME NEW old, NEW t, NEW line, NEW mid, NEW gap,
           IsSeq(old), line \in 0..LineFromPosition(old, Len(old)), IsSeq(mid), IsSeq(gap),
           Laid(t, old, Top(old, line), LineEndPosition(old, line), GapBefore(old, line, <<"lf">>), mid, gap)
    PROVE  BlankLine(t, LineFromPosition(t, Top(old, line) + Len(GapBefore(old, line, <<"lf">>))) - 1)
<1> DEFINE n == Len(old)
           last == LineFromPosition(old, n)
           from == Top(old, line)
           to == LineEndPosition(old, line)
           eol == <<"lf">>
           two == eol \o eol
           before == GapBefore(old, line, eol)
           x == Len(before)
           k == Len(t)
<1>1. n \in Nat /\ last \in Nat /\ line \in 0..last
  BY SeqIs, LineGrows
<1>2. PositionFromLine(old, line) \in 0..n /\ to \in PositionFromLine(old, line)..n
  BY LineIs
<1>3. from \in 0..n /\ to \in from..n
  <2> HIDE DEF n, to
  <2> QED
    BY <1>1, <1>2 DEF Top, to
<1>4. IsSeq(two) /\ Len(two) = 2 /\ two[1] = "lf" /\ two[2] = "lf"
  <2>1. IsSeq(eol) /\ Len(eol) = 1 /\ eol[1] = "lf"
    BY TuplesAre
  <2>2. two = Cat(eol, eol)
    BY Zenon DEF Cat
  <2> HIDE DEF eol, two
  <2>3. IsSeq(eol)
    BY <2>1
  <2>4. IsSeq(two) /\ Len(two) = Len(eol) + Len(eol)
    BY <2>2, <2>3, CatIs
  <2>5. \A i \in 1..Len(eol) : two[i] = eol[i] /\ two[Len(eol) + i] = eol[i]
    BY <2>2, <2>3, CatIs
  <2> QED
    BY <2>1, <2>4, <2>5
<1>5. before = IF ~BlankLine(old, line) THEN two ELSE IF BlankLine(old, line - 1) THEN <<>> ELSE <<"lf">>
  BY Zenon DEF GapBefore
<1> HIDE DEF two
<1>6. IsSeq(before) /\ x \in Nat
  <2> HIDE DEF before
  <2>1. IsSeq(before)
    BY <1>4, <1>5, TuplesAre
  <2> QED
    BY <2>1, SeqIs
<1> HIDE DEF eol, before, from, to
<1>7. IsSeq(t) /\ k = from + x + Len(mid) + Len(gap) + (n - to)
      /\ (\A i \in 1..from : t[i] = old[i]) /\ (\A i \in 1..x : t[from + i] = before[i])
  BY DEF Laid, before, from, to, eol
<1>8. from + x <= k /\ from + x \in Nat
  <2> DEFINE y == Len(mid)
             z == Len(gap)
  <2>1. y \in Nat /\ z \in Nat /\ k = from + x + y + z + (n - to)
    BY <1>7, SeqIs
  <2> HIDE DEF y, z, k, x, n
  <2> QED
    BY <1>1, <1>3, <1>6, <2>1
<1>9. k \in Nat
  BY <1>7, SeqIs
<1> HIDE DEF k, x, n, last
<1>10. "lf" \in Endings
  BY DEF Endings
<1>11. CASE ~BlankLine(old, line)
  <2>1. before = two
    BY <1>5, <1>11
  <2>2. x = 2 /\ before[1] = "lf" /\ before[2] = "lf"
    BY <1>4, <2>1 DEF x
  <2>3. 1 \in 1..x /\ 2 \in 1..x /\ (from + 1) + 1 = from + 2 /\ from + 1 \in 0..k /\ from + 1 \in from + 1..k /\ from + 1 \in Nat
    BY <1>3, <1>8, <1>9, <2>2
  <2>4. t[from + 1] \in Endings /\ t[(from + 1) + 1] \in Endings
    BY <1>7, <1>10, <2>2, <2>3
  <2>5. BlankLine(t, LineFromPosition(t, from + 1))
    <3> DEFINE p == from + 1
    <3>1. BeginsLine(t, p) /\ EndsLine(t, p) /\ p \in 0..k /\ p \in p..k
      BY <2>3, <2>4 DEF BeginsLine, EndsLine
    <3>2. \A i \in p + 1 .. p : t[i] = Space
      BY <2>3
    <3> HIDE DEF p
    <3>3. BlankLine(t, LineFromPosition(t, p))
      BY <1>7, <3>1, <3>2, BlankIs DEF k
    <3> QED
      BY <3>3 DEF p
  <2>6. LineFromPosition(t, from + 1) \in Nat /\ LineFromPosition(t, from + 2) = LineFromPosition(t, from + 1) + 1
    BY <2>3, <2>4, LineGrows
  <2>7. LineFromPosition(t, from + x) - 1 = LineFromPosition(t, from + 1)
    BY <2>2, <2>6
  <2> QED
    BY <2>5, <2>7 DEF from, x, before, eol
<1>12. CASE BlankLine(old, line) /\ ~BlankLine(old, line - 1)
  <2>1. before = <<"lf">>
    BY <1>5, <1>12
  <2>2. x = 1 /\ before[1] = "lf"
    BY <2>1 DEF x
  <2>3. 1 \in 1..x /\ from \in 0..k /\ from \in from..k /\ from \in Nat
    BY <1>3, <1>8, <1>9, <2>2
  <2>4. t[from + 1] \in Endings
    BY <1>7, <1>10, <2>2, <2>3
  <2>5. BeginsLine(old, from)
    BY <1>12, LineBounds DEF from, Top
  <2>6. BeginsLine(t, from)
    <3>1. from = 0 \/ t[from] = old[from]
      BY <1>7, <2>3
    <3> QED
      BY <2>5, <3>1 DEF BeginsLine
  <2>7. EndsLine(t, from)
    BY <2>4 DEF EndsLine
  <2>8. \A i \in from + 1 .. from : t[i] = Space
    BY <2>3
  <2>9. BlankLine(t, LineFromPosition(t, from))
    BY <1>7, <2>3, <2>6, <2>7, <2>8, BlankIs DEF k
  <2>10. LineFromPosition(t, from) \in Nat /\ LineFromPosition(t, from + 1) = LineFromPosition(t, from) + 1
    BY <2>3, <2>4, LineGrows
  <2>11. LineFromPosition(t, from + x) - 1 = LineFromPosition(t, from)
    BY <2>2, <2>10
  <2> QED
    BY <2>9, <2>11 DEF from, x, before, eol
<1>13. CASE BlankLine(old, line) /\ BlankLine(old, line - 1)
  <2>1. before = <<>>
    BY <1>5, <1>13
  <2>2. x = 0 /\ from + x = from
    BY <1>3, <2>1 DEF x
  <2>3. LineFromPosition(old, from) = line
    BY <1>13, LineBounds DEF from, Top
  <2>4. LineFromPosition(t, from) = line
    BY <1>7, <2>3, LinesAlike
  <2> SUFFICES BlankLine(t, line - 1)
    BY <2>2, <2>4 DEF from, x, before, eol
  <2>5. CASE line = 0
    BY <2>5 DEF BlankLine
  <2>6. CASE line # 0
    <3> DEFINE up == line - 1
               p == PositionFromLine(old, up)
               q == LineEndPosition(old, up)
    <3>1. up \in 0..last /\ up < line
      BY <1>1, <2>6
    <3> HIDE DEF up
    <3>2. p \in 0..n /\ q \in p..n /\ q \in PositionsOfLine(old, up)
      BY <3>1, LineIs DEF n, last
    <3>3. from \in PositionsOfLine(old, line)
      BY <1>3, <2>3 DEF PositionsOfLine, n
    <3>4. q < from
      BY <1>1, <3>1, <3>2, <3>3, LinesAreOrdered DEF n, last
    <3>5. BeginsLine(old, p) /\ EndsLine(old, q) /\ LineFromPosition(old, p) = up
      BY <3>1, LineBounds DEF n, last
    <3>6. \A i \in p + 1 .. q : old[i] = Space
      BY <1>13, <3>1, BlankHas DEF n, last, up
    <3> HIDE DEF p, q
    <3>7. p \in 0..k /\ q \in p..k /\ q # n /\ p \in Nat /\ q + 1 \in 1..from
      BY <1>1, <1>3, <1>6, <1>8, <1>9, <3>2, <3>4
    <3>8. BeginsLine(t, p)
      <4>1. p = 0 \/ p \in 1..from
        BY <1>3, <3>2, <3>7
      <4>2. p = 0 \/ t[p] = old[p]
        BY <1>7, <4>1
      <4> QED
        BY <3>5, <4>2 DEF BeginsLine
    <3>9. EndsLine(t, q)
      BY <1>7, <3>5, <3>7 DEF EndsLine, n
    <3>10. ASSUME NEW i \in p + 1 .. q
           PROVE  t[i] = Space
      <4>1. i \in 1..from
        BY <1>3, <3>2, <3>4, <3>7
      <4> QED
        BY <1>7, <3>6, <4>1
    <3>11. BlankLine(t, LineFromPosition(t, p))
      BY <1>7, <3>7, <3>8, <3>9, <3>10, BlankIs DEF k
    <3>12. LineFromPosition(t, p) = LineFromPosition(old, p)
      <4>1. \A i \in 1..p : t[i] = old[i]
        BY <1>3, <1>7, <3>2, <3>4
      <4> QED
        BY <4>1, LinesAlike
    <3> QED
      BY <3>5, <3>11, <3>12 DEF up
  <2> QED
    BY <2>5, <2>6
<1> QED
  BY <1>11, <1>12, <1>13

\* And one below it, or the end of the text.
LEMMA BlankBelow ==
    ASSUME NEW old, NEW t, NEW line, NEW from, NEW before, NEW mid, NEW b,
           IsSeq(old), line \in 0..LineFromPosition(old, Len(old)), from \in Nat, IsSeq(before), IsSeq(mid),
           Laid(t, old, from, LineEndPosition(old, line), before, mid, GapAfter(old, line, <<"lf">>)),
           b = from + Len(before) + Len(mid)
    PROVE  BlankLine(t, LineFromPosition(t, b) + 1)
<1> DEFINE n == Len(old)
           last == LineFromPosition(old, n)
           to == LineEndPosition(old, line)
           gap == GapAfter(old, line, <<"lf">>)
           z == Len(gap)
           k == Len(t)
           down == line + 1
           x == Len(before)
           y == Len(mid)
<1>1. n \in Nat /\ last \in Nat /\ line \in 0..last /\ x \in Nat /\ y \in Nat
  BY SeqIs, LineGrows
<1>2. to \in 0..n /\ EndsLine(old, to) /\ LineFromPosition(old, to) = line /\ to \in PositionsOfLine(old, line)
  <2>1. PositionFromLine(old, line) \in 0..n /\ to \in PositionFromLine(old, line)..n
    BY LineIs
  <2>2. to \in 0..n
    <3> HIDE DEF n, to
    <3> QED
      BY <1>1, <2>1
  <2> QED
    BY <2>2, LineBounds, LineIs
<1>3. gap = IF BlankLine(old, down) THEN <<>> ELSE <<"lf">>
  BY Zenon DEF GapAfter
<1>4. b = from + x + y
  BY Zenon
<1>5. IsSeq(t) /\ k = from + x + y + z + (n - to)
      /\ (\A i \in 1..z : t[from + x + y + i] = gap[i])
      /\ (\A i \in 1 .. n - to : t[from + x + y + z + i] = old[to + i])
  BY Zenon DEF Laid
<1>6. k = b + z + (n - to) /\ b \in Nat
      /\ (\A i \in 1..z : t[b + i] = gap[i])
      /\ (\A i \in 1 .. n - to : t[b + z + i] = old[to + i])
  <2> HIDE DEF k, x, y, z, n, to, gap
  <2>1. b \in Nat
    BY <1>1, <1>4
  <2> QED
    BY <1>4, <1>5, <2>1
<1>7. z \in Nat /\ k \in Nat
  <2> HIDE DEF gap
  <2>1. IsSeq(gap)
    BY <1>3, TuplesAre
  <2> QED
    BY <1>5, <2>1, SeqIs
<1> HIDE DEF gap, k, to, last, x, y
<1>8. line < last => to < n /\ old[to + 1] \in Endings
  <2> SUFFICES ASSUME line < last
               PROVE  to < n /\ old[to + 1] \in Endings
    OBVIOUS
  <2>1. to # n
    BY <1>1, <1>2 DEF last
  <2> HIDE DEF n
  <2> QED
    BY <1>1, <1>2, <2>1 DEF EndsLine, n
<1>9. line = last => to = n
  <2> SUFFICES ASSUME line = last, to # n
               PROVE  FALSE
    OBVIOUS
  <2>1. old[to + 1] \in Endings
    BY <1>2 DEF EndsLine
  <2> HIDE DEF n
  <2>2. to \in Nat /\ to + 1 \in Nat /\ n \in Nat /\ to + 1 <= n
    BY <1>1, <1>2
  <2>3. LineFromPosition(old, to + 1) = LineFromPosition(old, to) + 1
    BY <2>1, <2>2, LineGrows
  <2>4. LineFromPosition(old, to + 1) <= LineFromPosition(old, n)
    BY <2>2, LineOrder
  <2> QED
    BY <1>1, <1>2, <2>3, <2>4 DEF last, n
<1>10. "lf" \in Endings
  BY DEF Endings
<1>11. CASE ~BlankLine(old, down)
  <2>1. gap = <<"lf">>
    BY <1>3, <1>11
  <2>2. z = 1 /\ gap[1] = "lf"
    BY <2>1
  <2>3. line < last
    <3>1. ~(down >= LineCount(old))
      BY <1>11 DEF BlankLine
    <3>2. LineCount(old) = last + 1
      BY DEF LineCount, last
    <3> HIDE DEF down
    <3>3. down = line + 1
      BY DEF down
    <3> QED
      BY <1>1, <3>1, <3>2, <3>3
  <2> HIDE DEF z, n
  <2>4. 1 \in 1..z /\ 1 \in 1 .. n - to /\ b + 1 \in Nat /\ b + 1 \in 0..k /\ b + 1 \in b + 1 .. k /\ (b + 1) + 1 = b + z + 1
    BY <1>1, <1>2, <1>6, <1>7, <1>8, <2>2, <2>3
  <2>5. t[b + 1] \in Endings /\ t[(b + 1) + 1] \in Endings
    BY <1>6, <1>8, <1>10, <2>2, <2>3, <2>4
  <2>6. BlankLine(t, LineFromPosition(t, b + 1))
    <3> DEFINE p == b + 1
    <3>1. BeginsLine(t, p) /\ EndsLine(t, p) /\ p \in 0..k /\ p \in p..k
      BY <2>4, <2>5 DEF BeginsLine, EndsLine
    <3>2. \A i \in p + 1 .. p : t[i] = Space
      BY <2>4
    <3> HIDE DEF p
    <3>3. BlankLine(t, LineFromPosition(t, p))
      BY <1>5, <3>1, <3>2, BlankIs DEF k
    <3> QED
      BY <3>3 DEF p
  <2>7. LineFromPosition(t, b + 1) = LineFromPosition(t, b) + 1
    BY <1>6, <2>5, LineGrows
  <2> QED
    BY <2>6, <2>7
<1>12. CASE BlankLine(old, down) /\ line = last
  <2>1. gap = <<>>
    BY <1>3, <1>12
  <2>2. z = 0
    BY <2>1
  <2> HIDE DEF z, n
  <2>3. k = b
    BY <1>1, <1>2, <1>6, <1>9, <1>12, <2>2
  <2>4. LineCount(t) = LineFromPosition(t, b) + 1 /\ LineFromPosition(t, b) \in Nat
    BY <1>6, <2>3, LineGrows DEF LineCount, k
  <2> QED
    BY <2>4 DEF BlankLine
<1>13. CASE BlankLine(old, down) /\ line # last
  <2>1. gap = <<>>
    BY <1>3, <1>13
  <2>2. z = 0
    BY <2>1
  <2>3. down \in 0..last /\ line < down /\ line < last
    BY <1>1, <1>13
  <2> DEFINE p == PositionFromLine(old, down)
             q == LineEndPosition(old, down)
  <2>4. p \in 0..n /\ q \in p..n /\ p \in PositionsOfLine(old, down) /\ EndsLine(old, q)
        /\ \A i \in PositionsOfLine(old, down) : p <= i
    BY <2>3, LineIs, LineBounds DEF last
  <2>5. \A i \in p + 1 .. q : old[i] = Space
    BY <1>13, <2>3, BlankHas DEF last
  <2>6. to < p
    <3> HIDE DEF n, p, q, down
    <3> QED
      BY <1>1, <1>2, <2>3, <2>4, LinesAreOrdered DEF last, n
  <2>7. to + 1 \in PositionsOfLine(old, down)
    <3> HIDE DEF p, q
    <3>1. to \in Nat /\ to + 1 \in 0..n
      <4> HIDE DEF n
      <4> QED
        BY <1>1, <1>2, <1>8, <2>3
    <3>2. LineFromPosition(old, to + 1) = LineFromPosition(old, to) + 1
      BY <1>8, <2>3, <3>1, LineGrows
    <3> QED
      BY <1>2, <3>1, <3>2 DEF PositionsOfLine
  <2> HIDE DEF p, q, n, z, down
  <2>8. p = to + 1
    BY <1>1, <1>2, <2>4, <2>6, <2>7
  <2> DEFINE r == b + (q - to)
  <2>9. b + 1 \in 0..k /\ r \in b + 1 .. k /\ 1 \in 1 .. n - to /\ b + z + 1 = b + 1 /\ to \in Nat /\ q \in Nat
        /\ r \in Nat /\ b + 1 \in Nat
    BY <1>1, <1>2, <1>6, <1>7, <2>2, <2>4, <2>8
  <2>10. BeginsLine(t, b + 1)
    <3>1. t[b + 1] = old[to + 1]
      BY <1>6, <2>9
    <3> QED
      BY <1>8, <2>3, <3>1 DEF BeginsLine
  <2>11. EndsLine(t, r)
    <3>1. CASE q = n
      <4>1. r = k
        BY <1>1, <1>2, <1>6, <1>7, <2>2, <3>1
      <4> QED
        BY <4>1 DEF EndsLine, k
    <3>2. CASE q # n
      <4>1. old[q + 1] \in Endings
        BY <2>4, <3>2 DEF EndsLine, n
      <4>2. q + 1 - to \in 1 .. n - to /\ to + (q + 1 - to) = q + 1 /\ b + z + (q + 1 - to) = r + 1
        BY <1>1, <1>2, <1>6, <2>2, <2>4, <2>8, <2>9, <3>2
      <4>3. t[r + 1] = old[q + 1]
        BY <1>6, <4>2
      <4> QED
        BY <4>1, <4>3 DEF EndsLine
    <3> QED
      BY <3>1, <3>2
  <2>12. ASSUME NEW i \in (b + 1) + 1 .. r
         PROVE  t[i] = Space
    <3>1. i - b \in 1 .. n - to /\ b + z + (i - b) = i /\ to + (i - b) \in p + 1 .. q
      BY <1>1, <1>2, <1>6, <2>2, <2>4, <2>8, <2>9
    <3> QED
      BY <1>6, <2>5, <3>1
  <2>13. BlankLine(t, LineFromPosition(t, b + 1))
    <3> DEFINE m == b + 1
    <3>1. m \in 0..k /\ r \in m..k /\ BeginsLine(t, m)
      BY <2>9, <2>10
    <3>2. \A i \in m + 1 .. r : t[i] = Space
      BY <2>12
    <3> HIDE DEF m, r
    <3>3. BlankLine(t, LineFromPosition(t, m))
      BY <1>5, <2>11, <3>1, <3>2, BlankIs DEF k
    <3> QED
      BY <3>3 DEF m
  <2>14. LineFromPosition(t, b + 1) = LineFromPosition(t, b) + 1
    <3>1. t[b + 1] \in Endings
      BY <1>6, <1>8, <2>3, <2>9
    <3> QED
      BY <1>6, <3>1, LineGrows
  <2> QED
    BY <2>13, <2>14
<1> QED
  BY <1>11, <1>12, <1>13

\* A block that is in a text, with a blank line above and below it.
Inserted(e, block, s) ==
    /\ e = Doc(e.text, s + block.selectStart, s + block.selectEnd)
    /\ \A i \in 1..Len(block.text) : e.text[s + i] = (IF block.text[i] \in Endings THEN "lf" ELSE block.text[i])
    /\ BlankLine(e.text, LineFromPosition(e.text, s) - 1)
    /\ BlankLine(e.text, LineFromPosition(e.text, s + Len(block.text)) + 1)

\* The block that InsertBlock puts there is.
LEMMA InsertedIs ==
    ASSUME NEW d, DocOK(d), NEW block, IsBlock(block)
    PROVE  \E s \in Nat : Inserted(InsertBlock(d, block, <<"lf">>), block, s)
<1> DEFINE old == d.text
           n == Len(old)
           line == LineFromPosition(old, d.caret)
           to == LineEndPosition(old, line)
           from == Top(old, line)
           eol == <<"lf">>
           before == GapBefore(old, line, eol)
           text == block.text
           mid == ConvertEol(text, eol)
           gap == GapAfter(old, line, eol)
           t == Put(old, from, to, before \o mid \o gap)
           s == from + Len(before)
           e == InsertBlock(d, block, eol)
<1>1. IsSeq(old) /\ d.caret \in 0..n /\ n \in Nat /\ IsSeq(text) /\ Len(text) \in Nat /\ DOMAIN text = 1..Len(text)
  BY SeqIs DEF DocOK, IsBlock
<1>2. e = Doc(t, s + block.selectStart, s + block.selectEnd)
  BY Zenon DEF InsertBlock, Top, GapBefore
<1> HIDE DEF old, text, e
<1>3. line \in 0..LineFromPosition(old, n)
  BY <1>1, PlaceIsInLine
<1>4. from \in 0..n /\ to \in from..n
  <2> HIDE DEF line
  <2>1. PositionFromLine(old, line) \in 0..n /\ to \in PositionFromLine(old, line)..n
    BY <1>1, <1>3, LineIs
  <2> HIDE DEF n, to
  <2> QED
    BY <1>1, <2>1 DEF Top, to
<1>5. IsSeq(eol) /\ eol[1] = "lf" /\ IsSeq(<<>>)
  BY TuplesAre
<1> HIDE DEF line, n, to, from, eol
<1>6. IsSeq(before) /\ IsSeq(gap)
  <2>1. IsSeq(Cat(eol, eol))
    BY <1>5, CatIs
  <2>2. IsSeq(eol \o eol)
    BY <2>1, Zenon DEF Cat
  <2> QED
    BY <1>5, <2>2 DEF GapBefore, GapAfter
<1>7. IsSeq(mid) /\ Len(mid) = Len(text)
      /\ \A i \in 1..Len(text) : mid[i] = (IF text[i] \in Endings THEN "lf" ELSE text[i])
  <2>1. mid = [i \in DOMAIN text |-> IF text[i] \in Endings THEN eol[1] ELSE text[i]]
    BY Zenon DEF ConvertEol
  <2> HIDE DEF mid
  <2>2. mid = [i \in 1..Len(text) |-> mid[i]]
    BY <1>1, <2>1
  <2>3. IsSeq(mid) /\ Len(mid) = Len(text)
    BY <1>1, <2>2, CountedIsSeq
  <2> QED
    BY <1>1, <1>5, <2>1, <2>3
<1> HIDE DEF before, mid, gap
<1>8. Laid(t, old, from, to, before, mid, gap)
  BY <1>1, <1>4, <1>6, <1>7, LaidIs DEF n
<1> HIDE DEF t
<1>9. BlankLine(t, LineFromPosition(t, s) - 1)
  <2>1. Laid(t, old, Top(old, line), LineEndPosition(old, line), GapBefore(old, line, <<"lf">>), mid, gap)
    BY <1>8 DEF from, to, before, eol
  <2>2. BlankLine(t, LineFromPosition(t, Top(old, line) + Len(GapBefore(old, line, <<"lf">>))) - 1)
    BY <1>1, <1>3, <1>6, <1>7, <2>1, BlankAbove DEF n
  <2> QED
    BY <2>2 DEF from, before, eol
<1>10. from \in Nat /\ Len(before) \in Nat
  BY <1>1, <1>4, <1>6, SeqIs
<1>11. BlankLine(t, LineFromPosition(t, s + Len(text)) + 1)
  <2>1. Laid(t, old, from, LineEndPosition(old, line), before, mid, GapAfter(old, line, <<"lf">>))
    BY <1>8 DEF to, gap, eol
  <2> DEFINE b == from + Len(before) + Len(mid)
  <2>2. b = from + Len(before) + Len(mid)
    OBVIOUS
  <2> HIDE DEF b
  <2>3. BlankLine(t, LineFromPosition(t, b) + 1)
    BY <1>1, <1>3, <1>6, <1>7, <1>10, <2>1, <2>2, BlankBelow DEF n
  <2> QED
    BY <1>7, <2>3, Zenon DEF b
<1>12. \A i \in 1..Len(text) : t[s + i] = (IF text[i] \in Endings THEN "lf" ELSE text[i])
  <2>1. \A i \in 1..Len(mid) : t[s + i] = mid[i]
    BY <1>8, Zenon DEF Laid
  <2> QED
    BY <1>7, <2>1
<1>13. s \in Nat
  <2> DEFINE x == Len(before)
  <2>1. x \in Nat
    BY <1>10
  <2> HIDE DEF x
  <2>2. from + x \in Nat
    BY <1>10, <2>1
  <2> QED
    BY <2>2 DEF x
<1> HIDE DEF s
<1>14. e = Doc(t, s + block.selectStart, s + block.selectEnd) /\ e.text = t
  BY <1>2, DocIs
<1>15. Inserted(e, block, s)
  BY <1>9, <1>11, <1>12, <1>14, Zenon DEF Inserted, text
<1> QED
  BY <1>13, <1>15 DEF e, eol

\* A horizontal rule and a table stand apart from the text around them.
LEMMA BlocksStandApart ==
    ASSUME DocOK(doc)
    PROVE  BlockStandsApart
<1>1. StandsApart(InsertBlock(doc, HorizontalRule, <<"lf">>), 1)
  <2> DEFINE e == InsertBlock(doc, HorizontalRule, <<"lf">>)
             t == e.text
             rule == <<"-", "-", "-">>
  <2>1. PICK s \in Nat : Inserted(e, HorizontalRule, s)
    BY BlocksAre, InsertedIs
  <2> HIDE DEF e
  <2>2. HorizontalRule.text = rule /\ HorizontalRule.selectStart = 3 /\ HorizontalRule.selectEnd = 3
    BY DEF HorizontalRule, Block
  <2>3. Len(rule) = 3 /\ \A i \in 1..3 : rule[i] = "-"
    OBVIOUS
  <2> HIDE DEF rule
  <2>4. /\ e = Doc(t, s + 3, s + 3) /\ \A i \in 1..3 : t[s + i] = (IF rule[i] \in Endings THEN "lf" ELSE rule[i])
        /\ BlankLine(t, LineFromPosition(t, s) - 1) /\ BlankLine(t, LineFromPosition(t, s + 3) + 1)
    BY <2>1, <2>2, <2>3 DEF Inserted
  <2>5. SelStart(e) = s + 3
    <3>1. e.anchor = s + 3 /\ e.caret = s + 3
      BY <2>4, DocIs
    <3> HIDE DEF t
    <3> QED
      BY <3>1 DEF SelStart
  <2>6. LineFromPosition(t, s + 3) = LineFromPosition(t, s)
    <3>1. ASSUME NEW i \in s + 1 .. s + 3
          PROVE  t[i] \notin Endings
      <4>1. i - s \in 1..3 /\ s + (i - s) = i
        BY <3>1
      <4> QED
        BY <2>3, <2>4, <4>1 DEF Endings
    <3> HIDE DEF t
    <3>2. s + 3 \in Nat /\ s <= s + 3
      OBVIOUS
    <3> QED
      BY <3>1, <3>2, LineGoesOn
  <2>7. StandsApart(e, 1)
    BY <2>4, <2>5, <2>6, Zenon DEF StandsApart
  <2> QED
    BY <2>7 DEF e
<1>2. StandsApart(InsertBlock(doc, Table, <<"lf">>), 3)
  <2> DEFINE e == InsertBlock(doc, Table, <<"lf">>)
             t == e.text
             table == <<"|a|", "lf", "|-|", "lf", "| |">>
             at(i) == LineFromPosition(t, i)
  <2>1. PICK s \in Nat : Inserted(e, Table, s)
    BY BlocksAre, InsertedIs
  <2> HIDE DEF e
  <2>2. Table.text = table /\ Table.selectStart = 0 /\ Table.selectEnd = 1
    BY DEF Table, Block
  <2>3. Len(table) = 5 /\ table[1] = "|a|" /\ table[2] = "lf" /\ table[3] = "|-|" /\ table[4] = "lf" /\ table[5] = "| |"
    OBVIOUS
  <2> HIDE DEF table
  <2>4. /\ e = Doc(t, s + 0, s + 1) /\ \A i \in 1..5 : t[s + i] = (IF table[i] \in Endings THEN "lf" ELSE table[i])
        /\ BlankLine(t, LineFromPosition(t, s) - 1) /\ BlankLine(t, LineFromPosition(t, s + 5) + 1)
    BY <2>1, <2>2, <2>3 DEF Inserted
  <2>5. SelStart(e) = s
    <3>1. e.anchor = s + 0 /\ e.caret = s + 1
      BY <2>4, DocIs
    <3> HIDE DEF t
    <3> QED
      BY <3>1 DEF SelStart
  <2>6. /\ t[s + 1] \notin Endings /\ t[s + 2] \in Endings /\ t[s + 3] \notin Endings /\ t[s + 4] \in Endings
        /\ t[s + 5] \notin Endings
    <3> HIDE DEF t
    <3>1. 1 \in 1..5 /\ 2 \in 1..5 /\ 3 \in 1..5 /\ 4 \in 1..5 /\ 5 \in 1..5
      OBVIOUS
    <3> QED
      BY <2>3, <2>4, <3>1 DEF Endings
  <2> HIDE DEF t
  <2>7. /\ s + 1 \in Nat /\ s + 2 \in Nat /\ s + 3 \in Nat /\ s + 4 \in Nat
        /\ (s + 1) + 1 = s + 2 /\ (s + 2) + 1 = s + 3 /\ (s + 3) + 1 = s + 4 /\ (s + 4) + 1 = s + 5
    OBVIOUS
  <2>8. at(s) \in Nat /\ at(s + 1) = at(s) + 0 /\ at(s + 2) = at(s + 1) + 1 /\ at(s + 3) = at(s + 2) + 0
        /\ at(s + 4) = at(s + 3) + 1 /\ at(s + 5) = at(s + 4) + 0
    BY <2>6, <2>7, LineGrows
  <2>9. at(s + 5) + 1 = at(s) + 3
    <3> HIDE DEF at
    <3> QED
      BY <2>8
  <2>10. StandsApart(e, 3)
    BY <2>4, <2>5, <2>9, Zenon DEF StandsApart, t
  <2> QED
    BY <2>10 DEF e
<1> QED
  BY <1>1, <1>2 DEF BlockStandsApart

-----------------------------------------------------------------------------
(* Finding and replacing. *)

\* What is searched for and what is put in its place.
LEMMA NeedleIs ==
    /\ IsSeq(Needle) /\ Len(Needle) \in Nat /\ IsSeq(Replacement) /\ Len(Replacement) \in Nat
<1>1. IsSeq(Needle) /\ IsSeq(Replacement)
  BY EditorAssumption DEF IsSeq
<1> QED
  BY <1>1, SeqIs

\* The matches lie in the part that is searched, and so do the first and the last of them.
LEMMA MatchesAre ==
    ASSUME NEW text, NEW from, NEW to, NEW wholeWord, IsSeq(text), from \in 0..Len(text), to \in 0..Len(text)
    PROVE  LET found == MatchesIn(text, from, to, wholeWord) IN
           /\ \A pos \in found : pos \in from..Len(text) /\ pos + Len(Needle) \in pos..Len(text)
           /\ found # {} => Min(found) \in found /\ Max(found) \in found
<1> DEFINE found == MatchesIn(text, from, to, wholeWord)
           n == Len(text)
           k == Len(Needle)
<1>1. n \in Nat /\ k \in Nat /\ from \in 0..n /\ to \in 0..n
  BY SeqIs, NeedleIs
<1>2. found \in SUBSET (from..to - k)
  BY DEF MatchesIn
<1> HIDE DEF found, n, k
<1>3. \A pos \in found : pos \in from..n /\ pos + k \in pos..n
  BY <1>1, <1>2
<1>4. found \in SUBSET (0..n)
  BY <1>1, <1>3
<1>5. found # {} => Min(found) \in found /\ Max(found) \in found
  BY <1>1, <1>4, EndsAre
<1> QED
  BY <1>3, <1>5 DEF found, n, k

\* What is found is selected.
LEMMA FindIsOK ==
    ASSUME NEW d, DocOK(d), NEW wholeWord, NEW forward
    PROVE  DocOK(Find(d, wholeWord, forward))
<1> DEFINE text == d.text
           n == Len(text)
           start == SelStart(d)
           end == SelEnd(d)
           later == MatchesIn(text, end, n, wholeWord)
           untilEnd == MatchesIn(text, 0, end, wholeWord)
           earlier == MatchesIn(text, 0, start, wholeWord)
           fromStart == MatchesIn(text, start, n, wholeWord)
           found == Found(d, wholeWord, forward)
           In(pos) == pos \in 0..n /\ pos + Len(Needle) \in 0..n
<1>1. IsSeq(text) /\ n \in Nat /\ start \in 0..n /\ end \in 0..n /\ 0 \in 0..n /\ n \in 0..n
  <2>1. IsSeq(text) /\ n \in Nat /\ start \in 0..n /\ end \in start..n
    BY SelectionIs
  <2> HIDE DEF text, n, start, end
  <2> QED
    BY <2>1
<1>2. found = IF forward
              THEN IF later # {} THEN {Min(later)} ELSE IF untilEnd # {} THEN {Min(untilEnd)} ELSE {}
              ELSE IF earlier # {} THEN {Max(earlier)} ELSE IF fromStart # {} THEN {Max(fromStart)} ELSE {}
  BY Zenon DEF Found
<1>3. Find(d, wholeWord, forward) = IF found = {} THEN d ELSE Doc(text, Min(found), Min(found) + Len(Needle))
  BY Zenon DEF Find
<1>4. ASSUME NEW S, NEW from \in 0..n, NEW to \in 0..n, S = MatchesIn(text, from, to, wholeWord), S # {}
      PROVE  In(Min(S)) /\ In(Max(S))
  <2>1. /\ \A pos \in S : pos \in from..n /\ pos + Len(Needle) \in pos..n
        /\ Min(S) \in S /\ Max(S) \in S
    <3> HIDE DEF text
    <3> QED
      BY <1>1, <1>4, MatchesAre DEF n
  <2>2. Len(Needle) \in Nat
    BY NeedleIs
  <2> HIDE DEF text, n
  <2> QED
    BY <1>1, <2>1, <2>2
<1> HIDE DEF text, n, start, end, In
<1>5. /\ later # {} => In(Min(later))
      /\ untilEnd # {} => In(Min(untilEnd))
      /\ earlier # {} => In(Max(earlier))
      /\ fromStart # {} => In(Max(fromStart))
  BY <1>1, <1>4
<1> HIDE DEF later, untilEnd, earlier, fromStart, found
<1>6. CASE found = {}
  BY <1>3, <1>6
<1>7. CASE found # {}
  <2>1. PICK x : found = {x} /\ In(x)
    BY <1>2, <1>5, <1>7
  <2>2. x \in 0..n
    BY <2>1 DEF In
  <2>3. Min(found) = x
    BY <1>1, <1>7, <2>1, <2>2, EndsAre
  <2>4. DocOK(Doc(text, x, x + Len(Needle)))
    BY <1>1, <2>1, DocIs DEF In, n
  <2> QED
    BY <1>3, <1>7, <2>3, <2>4
<1> QED
  BY <1>6, <1>7

\* One replacement, and what is found after it.
LEMMA ReplaceOneIsOK ==
    ASSUME NEW d, DocOK(d), NEW wholeWord, NEW forward
    PROVE  DocOK(ReplaceOne(d, wholeWord, forward))
<1> DEFINE text == d.text
           n == Len(text)
           start == SelStart(d)
           end == SelEnd(d)
           after == start + Len(Replacement)
           replaced == Doc(Put(text, start, end, Replacement), after, after)
<1>1. ReplaceOne(d, wholeWord, forward)
        = IF GetRange(text, start, end) = Needle THEN Find(replaced, wholeWord, forward) ELSE Find(d, wholeWord, forward)
  BY Zenon DEF ReplaceOne
<1>2. IsSeq(text) /\ n \in Nat /\ start \in 0..n /\ end \in start..n
  BY SelectionIs
<1> HIDE DEF text, start, end
<1>3. start + Len(Replacement) \in 0..start + Len(Replacement)
  <2> DEFINE k == Len(Replacement)
  <2>1. k \in Nat
    BY NeedleIs
  <2> HIDE DEF k, n
  <2>2. start + k \in 0..start + k
    BY <1>2, <2>1
  <2> QED
    BY <2>2 DEF k
<1>4. DocOK(replaced)
  BY <1>2, <1>3, NeedleIs, PutDocIs
<1> HIDE DEF replaced
<1> QED
  BY <1>1, <1>4, FindIsOK

\* A text whose every match has been replaced is a text.
Halves(s) == IsSeq(s.done) /\ IsSeq(s.rest)

\* So are its two halves after each replacement.
LEMMA ReplaceNextIs ==
    ASSUME NEW s, Halves(s), NEW wholeWord
    PROVE  Halves(ReplaceNext(s, wholeWord))
<1> DEFINE text == Cat(s.done, s.rest)
           n == Len(text)
           from == Len(s.done)
           later == MatchesIn(text, from, n, wholeWord)
           pos == Min(later)
           next == [done |-> GetRange(text, 0, pos) \o Replacement, rest |-> GetRange(text, pos + Len(Needle), n)]
<1>1. ReplaceNext(s, wholeWord) = IF later = {} THEN s ELSE next
  BY Zenon DEF ReplaceNext, Cat
<1>2. IsSeq(text) /\ n = Len(s.done) + Len(s.rest) /\ Len(s.done) \in Nat /\ Len(s.rest) \in Nat
  BY CatIs, SeqIs DEF Halves
<1>3. from \in 0..n /\ n \in 0..n /\ n \in Nat
  <2> DEFINE a == Len(s.done)
             b == Len(s.rest)
  <2>1. n = a + b /\ a \in Nat /\ b \in Nat
    BY <1>2
  <2> HIDE DEF a, b, n, text
  <2>2. a \in 0..n /\ n \in 0..n /\ n \in Nat
    BY <2>1
  <2> QED
    BY <2>2 DEF a
<1> HIDE DEF text
<1>4. ASSUME later # {}
      PROVE  Halves(next)
  <2>1. pos \in from..n /\ pos + Len(Needle) \in pos..n
    <3>1. (\A p \in later : p \in from..n /\ p + Len(Needle) \in p..n) /\ Min(later) \in later
      BY <1>2, <1>3, <1>4, MatchesAre
    <3> QED
      BY <3>1
  <2> HIDE DEF later, from, n
  <2>2. Len(Needle) \in Nat
    BY NeedleIs
  <2> DEFINE k == pos + Len(Needle)
  <2>3. pos \in 0..n /\ 0 \in 0..n /\ k \in 0..n /\ n \in k..n
    <3> HIDE DEF pos
    <3> QED
      BY <1>3, <2>1, <2>2
  <2> HIDE DEF pos, k
  <2>4. pos \in 0..Len(text) /\ 0 \in 0..Len(text) /\ k \in 0..Len(text) /\ Len(text) \in k..Len(text)
    BY <2>3 DEF n
  <2>5. IsSeq(GetRange(text, 0, pos)) /\ IsSeq(GetRange(text, k, Len(text)))
    BY <1>2, <2>4, RangeIs
  <2>6. GetRange(text, 0, pos) \o Replacement = Cat(GetRange(text, 0, pos), Replacement)
    BY Zenon DEF Cat
  <2>7. IsSeq(GetRange(text, 0, pos) \o Replacement)
    BY <2>5, <2>6, NeedleIs, CatIs
  <2> QED
    BY <2>5, <2>7 DEF Halves, n, k
<1> HIDE DEF later, next
<1> QED
  BY <1>1, <1>4

\* Every turn of the loop leaves two halves, and in the end they are put together.
LEMMA ReplacedIs ==
    ASSUME NEW text, NEW wholeWord, IsSeq(text)
    PROVE  IsSeq(ReplaceAllIn(text, wholeWord))
<1> DEFINE N == Len(text)
           whole == [done |-> <<>>, rest |-> text]
           past(s) == ReplaceNext(s, wholeWord)
           IsRun(g, k) == g = [n \in 0..k |-> IF n = 0 THEN whole ELSE past(g[n - 1])]
           Runs == {k \in Nat : \E g : IsRun(g, k)}
           turns == CHOOSE g : IsRun(g, N)
<1>1. N \in Nat /\ Halves(whole)
  BY SeqIs, TuplesAre DEF Halves
<1>2. ReplaceAllIn(text, wholeWord) = Cat(turns[N].done, turns[N].rest)
  BY DEF ReplaceAllIn, Cat
<1>3. \A s : Halves(s) => Halves(past(s))
  BY ReplaceNextIs
<1> HIDE DEF N, past, whole
<1>4. 0 \in Runs
  <2>1. IsRun([n \in 0..0 |-> whole], 0)
    OBVIOUS
  <2> QED
    BY <2>1
<1>5. ASSUME NEW k \in Runs
      PROVE  k + 1 \in Runs
  <2>1. PICK g : IsRun(g, k)
    OBVIOUS
  <2> DEFINE h == [n \in 0..k + 1 |-> IF n <= k THEN g[n] ELSE past(g[k])]
  <2>2. ASSUME NEW n \in 0..k + 1
        PROVE  h[n] = IF n = 0 THEN whole ELSE past(h[n - 1])
    BY <2>1
  <2>3. IsRun(h, k + 1)
    BY <2>2
  <2> HIDE DEF h, IsRun
  <2> QED
    BY <2>3
<1>6. Runs = Nat
  <2> HIDE DEF Runs
  <2>1. Runs \in SUBSET Nat
    BY DEF Runs
  <2> QED
    BY <1>4, <1>5, <2>1, AllNaturals
<1>7. IsRun(turns, N)
  <2>1. \E g : IsRun(g, N)
    BY <1>1, <1>6
  <2> HIDE DEF IsRun
  <2> QED
    BY <2>1
<1> HIDE DEF turns
<1> DEFINE M == {n \in Nat : n <= N => Halves(turns[n])}
<1>8. 0 \in M
  BY <1>1, <1>7
<1>9. ASSUME NEW n \in M
      PROVE  n + 1 \in M
  <2> SUFFICES ASSUME n + 1 <= N
               PROVE  Halves(turns[n + 1])
    OBVIOUS
  <2>1. n \in 0..N /\ n + 1 \in 0..N /\ n + 1 # 0 /\ (n + 1) - 1 = n /\ Halves(turns[n])
    BY <1>1
  <2>2. turns[n + 1] = past(turns[n])
    BY <1>7, <2>1
  <2> QED
    BY <1>3, <2>1, <2>2
<1>10. M = Nat
  <2>1. M \in SUBSET Nat
    OBVIOUS
  <2> HIDE DEF M
  <2> QED
    BY <1>8, <1>9, <2>1, AllNaturals
<1>11. Halves(turns[N])
  <2>1. N \in M
    <3> HIDE DEF M
    <3> QED
      BY <1>1, <1>10
  <2> QED
    BY <1>1, <2>1
<1> QED
  BY <1>2, <1>11, CatIs DEF Halves

\* A task that is ticked keeps the length of the text.
LEMMA TaskIsOK ==
    ASSUME NEW d, DocOK(d), NEW i, NEW checked
    PROVE  DocOK([d EXCEPT !.text = SetTaskMark(d.text, i, checked)])
<1> DEFINE text == d.text
           n == Len(text)
           mark == IF checked THEN "[x]" ELSE "[ ]"
           new == SetTaskMark(text, i, checked)
<1>1. IsSeq(text) /\ n \in Nat /\ DOMAIN text = 1..n
  BY SeqIs DEF DocOK
<1>2. new = IF i \in DOMAIN text /\ text[i] \in Boxes THEN [text EXCEPT ![i] = mark] ELSE text
  BY Zenon DEF SetTaskMark
<1>3. IsSeq(new) /\ Len(new) = n
  <2> HIDE DEF mark, new
  <2> DEFINE set == [text EXCEPT ![i] = mark]
  <2>1. set = [k \in 1..n |-> set[k]]
    BY <1>1
  <2> HIDE DEF set
  <2>2. IsSeq(set) /\ Len(set) = n
    BY <1>1, <2>1, CountedIsSeq
  <2> QED
    BY <1>1, <1>2, <2>2 DEF set
<1>4. [d EXCEPT !.text = new] = Doc(new, d.anchor, d.caret)
  <2> HIDE DEF new
  <2> QED
    BY DEF DocOK, Doc
<1> HIDE DEF new
<1>5. DocOK(Doc(new, d.anchor, d.caret))
  BY <1>3, DocIs DEF DocOK
<1> QED
  BY <1>4, <1>5 DEF new

-----------------------------------------------------------------------------
(* The editor. *)

\* The document is a text, and the anchor and the caret are in it: no operation computes a place
\* that the text it leaves behind does not have.
EditorInv == DocOK(doc)

\* It holds when the document is opened.
LEMMA InitIsOK == Init => EditorInv
<1> SUFFICES ASSUME Init
             PROVE  DocOK(doc)
  BY DEF EditorInv
<1>1. PICK text \in Texts : \E anchor, caret \in 0..Len(text) : doc = Doc(text, anchor, caret)
  BY DEF Init
<1>2. PICK anchor \in 0..Len(text), caret \in 0..Len(text) : doc = Doc(text, anchor, caret)
  BY <1>1
<1>3. IsSeq(text)
  BY EditorAssumption DEF IsSeq
<1> QED
  BY <1>2, <1>3, DocIs

\* Every operation keeps it.
LEMMA NextIsOK == EditorInv /\ [Next]_vars => EditorInv'
<1> SUFFICES ASSUME DocOK(doc), [Next]_vars
             PROVE  DocOK(doc')
  BY DEF EditorInv, DocOK, Doc
<1>1. ASSUME NEW d, Step(d)
      PROVE  doc' = d
  BY <1>1 DEF Step
<1>2. ASSUME NEW marks, marks \in {Bold, Italic, Strikethrough}
      PROVE  DocOK(WrapSelection(doc, marks, marks))
  <2>1. IsSeq(marks)
    BY <1>2, TuplesAre DEF Bold, Italic, Strikethrough
  <2> QED
    BY <2>1, WrapIsOK
<1>3. CASE InsertBold \/ InsertItalic \/ InsertStrikethrough
  <2>1. \E marks \in {Bold, Italic, Strikethrough} : doc' = WrapSelection(doc, marks, marks)
    BY <1>1, <1>3 DEF InsertBold, InsertItalic, InsertStrikethrough, WrapIn
  <2> QED
    BY <1>2, <2>1
<1>4. CASE InsertCodeMark
  BY <1>1, <1>4, CodeIsOK DEF InsertCodeMark
<1>5. CASE InsertLink
  BY <1>1, <1>5, LinkIsOK DEF InsertLink
<1>6. CASE FormatHeading
  <2>1. PICK level \in 0..2 : doc' = SetHeading(doc, level)
    BY <1>1, <1>6 DEF FormatHeading
  <2>2. level \in Nat
    OBVIOUS
  <2> QED
    BY <2>1, <2>2, LineFormatsAreOK
<1>7. CASE FormatLines
  <2>1. PICK kind : doc' = ToggleLines(doc, kind)
    BY <1>1, <1>7 DEF FormatLines
  <2> QED
    BY <2>1, LineFormatsAreOK
<1>8. CASE PutBlock
  <2>1. PICK block \in {HorizontalRule, Table, Diagram} : doc' = InsertBlock(doc, block, <<"lf">>)
    BY <1>1, <1>8 DEF PutBlock
  <2>2. IsBlock(block) /\ IsSeq(<<"lf">>)
    BY BlocksAre, TuplesAre
  <2> QED
    BY <2>1, <2>2, InsertBlockIsOK
<1>9. CASE PutCodeBlock
  BY <1>1, <1>9, CodeBlockIsOK DEF PutCodeBlock
<1>10. CASE FindNext
  BY <1>1, <1>10, FindIsOK DEF FindNext
<1>11. CASE Replace
  BY <1>1, <1>11, ReplaceOneIsOK DEF Replace
<1>12. CASE ReplaceEverywhere
  <2>1. PICK wholeWord \in BOOLEAN : \E pos \in 0..Len(ReplaceAllIn(doc.text, wholeWord)) :
            Step(Doc(ReplaceAllIn(doc.text, wholeWord), pos, pos))
    BY <1>12 DEF ReplaceEverywhere
  <2> DEFINE text == ReplaceAllIn(doc.text, wholeWord)
  <2>2. IsSeq(text)
    BY ReplacedIs DEF DocOK
  <2> HIDE DEF text
  <2>3. PICK pos \in 0..Len(text) : doc' = Doc(text, pos, pos)
    BY <1>1, <2>1 DEF text
  <2> QED
    BY <2>2, <2>3, DocIs
<1>13. CASE ToggleTask
  BY <1>1, <1>13, TaskIsOK DEF ToggleTask
<1>14. CASE UNCHANGED vars
  BY <1>14 DEF vars
<1> QED
  BY <1>3, <1>4, <1>5, <1>6, <1>7, <1>8, <1>9, <1>10, <1>11, <1>12, <1>13, <1>14 DEF Next

\* Whatever is done to a document, in any order, the selection stays within its text.
THEOREM EditorInvariant == Spec => []EditorInv
<1> QED
  BY InitIsOK, NextIsOK, PTL DEF Spec

\* WrapSelection (editor_view.cpp) undoes itself: in every state a session can reach, a format that
\* put marks around the selection takes exactly those off when it is used again.
THEOREM MarksToggle == Spec => []InlineTogglesOff
<1>1. EditorInv => InlineTogglesOff
  BY MarksComeOff DEF EditorInv
<1> QED
  BY <1>1, EditorInvariant, PTL

\* The find dialog comes round the text: in every state, a match is found if there is one that the
\* place the search begins at does not cut.
THEOREM SearchComesRound == Spec => []FindsWhatIsThere
<1>1. EditorInv => FindsWhatIsThere
  BY MatchesAreFound DEF EditorInv
<1> QED
  BY <1>1, EditorInvariant, PTL

\* InsertBlock (editor_view.cpp) keeps a block apart: wherever the caret is, in every state a session
\* can reach, a blank line or the end of the text is above and below what it puts there.
THEOREM BlocksKeepApart == Spec => []BlockStandsApart
<1>1. EditorInv => BlockStandsApart
  BY BlocksStandApart DEF EditorInv
<1> QED
  BY <1>1, EditorInvariant, PTL

-----------------------------------------------------------------------------
(* How the editor and the preview scroll together (SyncScroll), for every  *)
(* set of layouts.  Nothing about the geometry is used: the two functions  *)
(* between lines and heights stay opaque, so the results do not depend on  *)
(* how they interpolate or round.                                          *)

\* A report still to come is an echo of the controller unless the editor moved on its own.
EchoInv == pending /\ ~ownMove => editor = lastEditorLine

LEMMA InitEcho == SyncInit => EchoInv
  BY DEF SyncInit, EchoInv

LEMMA NextEcho == EchoInv /\ [SyncNext]_syncVars => EchoInv'
<1> SUFFICES ASSUME EchoInv, [SyncNext]_syncVars
             PROVE  EchoInv'
  OBVIOUS
<1> USE DEF EchoInv
<1>1. ASSUME NEW line \in 1 .. LastTop, ScrollEditor(line)
      PROVE  EchoInv'
  BY <1>1 DEF ScrollEditor
<1>2. CASE OnEditorScrolled
  BY <1>2 DEF OnEditorScrolled
<1>3. ASSUME NEW y \in 0 .. MaxScroll(blocks), ScrollPreview(y)
      PROVE  EchoInv'
  BY <1>3 DEF ScrollPreview, FollowPreview
<1>4. CASE Relayout
  BY <1>4 DEF Relayout
<1>5. CASE SetEnabled \/ ShowDocument
  BY <1>5 DEF SetEnabled, ShowDocument
<1>6. CASE UNCHANGED syncVars
  BY <1>6 DEF syncVars
<1> QED
  BY <1>1, <1>2, <1>3, <1>4, <1>5, <1>6 DEF SyncNext

\* The echo of a scroll the controller made never moves the preview.
THEOREM NoBounce == SyncSpec => EchoMovesNothing
<1>1. EchoInv /\ [SyncNext]_syncVars => [OnEditorScrolled /\ preview' # preview => ownMove]_syncVars
  BY DEF EchoInv, OnEditorScrolled, syncVars
<1> QED
  BY <1>1, InitEcho, NextEcho, PTL DEF SyncSpec, EchoMovesNothing

-----------------------------------------------------------------------------
\* Since the panes last followed one another: the controller remembers the line the preview
\* shows and the line it left the editor at, and these two belong together.
SyncedInv ==
    synced =>
        /\ enabled
        /\ lastPreviewLine = GetLineForScrollY(blocks, preview)
        /\ \/ lastPreviewLine = GetLineForScrollY(blocks, ScrollToLine(lastEditorLine))
           \/ lastEditorLine = ScrollToDocLine(lastPreviewLine)
        /\ ~ownMove => editor = lastEditorLine

LEMMA InitSynced == SyncInit => SyncedInv
  BY DEF SyncInit, SyncedInv

LEMMA NextSynced == SyncedInv /\ [SyncNext]_syncVars => SyncedInv'
<1> SUFFICES ASSUME SyncedInv, [SyncNext]_syncVars
             PROVE  SyncedInv'
  OBVIOUS
<1> USE DEF SyncedInv
<1>1. ASSUME NEW line \in 1 .. LastTop, ScrollEditor(line)
      PROVE  SyncedInv'
  BY <1>1 DEF ScrollEditor, ScrollToLine
<1>2. CASE OnEditorScrolled
  <2>1. CASE enabled /\ editor # lastEditorLine
    <3>1. /\ lastEditorLine' = editor /\ editor' = editor /\ enabled' = enabled
          /\ blocks' = blocks
          /\ preview' = ScrollToLine(editor)
          /\ lastPreviewLine' = GetLineForScrollY(blocks, preview')
      BY <1>2, <2>1 DEF OnEditorScrolled, FollowEditor
    <3>2. ScrollToLine(lastEditorLine)' = ScrollToLine(editor)
      BY <3>1 DEF ScrollToLine
    <3> QED
      BY <2>1, <3>1, <3>2
  <2>2. CASE ~(enabled /\ editor # lastEditorLine)
    BY <1>2, <2>2 DEF OnEditorScrolled, ScrollToLine
  <2> QED
    BY <2>1, <2>2
<1>3. ASSUME NEW y \in 0 .. MaxScroll(blocks), ScrollPreview(y)
      PROVE  SyncedInv'
  <2> DEFINE line == GetLineForScrollY(blocks, y)
  <2>1. CASE enabled /\ line # lastPreviewLine
    <3>1. /\ lastPreviewLine' = line /\ preview' = y /\ enabled' = enabled /\ blocks' = blocks
          /\ editor' = ScrollToDocLine(line) /\ lastEditorLine' = editor'
      BY <1>3, <2>1 DEF ScrollPreview, FollowPreview
    <3> QED
      BY <2>1, <3>1 DEF ScrollToDocLine
  <2>2. CASE ~(enabled /\ line # lastPreviewLine)
    BY <1>3, <2>2 DEF ScrollPreview, ScrollToLine, ScrollToDocLine
  <2> QED
    BY <2>1, <2>2
<1>4. CASE Relayout \/ SetEnabled \/ ShowDocument
  BY <1>4 DEF Relayout, SetEnabled, ShowDocument, Reset
<1>5. CASE UNCHANGED syncVars
  BY <1>5 DEF syncVars, ScrollToLine
<1> QED
  BY <1>1, <1>2, <1>3, <1>4, <1>5 DEF SyncNext

\* Once one pane followed the other and the editor's scrolls are reported, they show the
\* same place.
THEOREM PanesInStep == SyncSpec => []InStep
<1>1. SyncedInv => InStep
  BY DEF SyncedInv, InStep
<1> QED
  BY <1>1, InitSynced, NextSynced, PTL DEF SyncSpec
=============================================================================
