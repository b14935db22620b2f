------------------------- MODULE CounterRenderProofs -------------------------
(***************************************************************************)
(* Proofs about CounterRender for every set of numbers and reserved        *)
(* widths.  Layout says where every glyph is; the other properties are     *)
(* arithmetic about that place.                                            *)
(***************************************************************************)
EXTENDS CounterRender, SequenceTheorems, WellFoundedInduction, TLAPS

-----------------------------------------------------------------------------
(* The digits of a number *)

\* The recursion of ToString: the digits of n, given those of smaller numbers.
DigitsFrom(s, n) == IF n < 10 THEN <<n>> ELSE Append(s[n \div 10], n % 10)

\* A function that follows the recursion up to n.
Follows(s, n) == s = [k \in 0..n |-> DigitsFrom(s, k)]

\* Every set of numbers has a least one.
LEMMA LeastNumber ==
    ASSUME NEW T \in SUBSET Nat, T # {}
    PROVE  \E n \in T : \A m \in T : n <= m
<1>1. \E n \in T : \A m \in T : ~(<<m, n>> \in OpToRel(<, Nat))
  BY NatLessThanWellFounded, WFMin
<1>2. \E n \in T : \A m \in T : ~(m < n)
  BY <1>1 DEF OpToRel
<1> QED
  BY <1>2

LEMMA DigitSplit ==
    ASSUME NEW n \in Nat, n >= 10
    PROVE  n \div 10 \in Nat /\ n \div 10 < n /\ n \div 10 >= 1
           /\ n % 10 \in 0..9 /\ n = 10 * (n \div 10) + (n % 10)
OBVIOUS

LEMMA FollowsStep ==
    ASSUME NEW s, NEW n \in Nat, Follows(s, n), NEW k \in 0..n
    PROVE  s[k] = DigitsFrom(s, k)
<1>1. s = [j \in 0..n |-> DigitsFrom(s, j)]
  BY DEF Follows
<1> QED
  BY <1>1, Zenon

\* The recursion can be followed up to any number.
LEMMA FollowsExists ==
    ASSUME NEW n \in Nat
    PROVE  \E s : Follows(s, n)
<1> DEFINE T == {k \in Nat : ~ \E s : Follows(s, k)}
<1> SUFFICES ASSUME T # {} PROVE FALSE
  OBVIOUS
<1>1. PICK m \in T : \A k \in T : m <= k
  BY LeastNumber
<1>2. CASE m = 0
  <2> DEFINE s == [k \in 0..0 |-> <<k>>]
  <2>1. \A k \in 0..0 : DigitsFrom(s, k) = <<k>>
    BY DEF DigitsFrom
  <2>2. s = [k \in 0..0 |-> DigitsFrom(s, k)]
    <3> HIDE DEF s
    <3>1. s = [k \in 0..0 |-> <<k>>]
      BY DEF s
    <3> QED
      BY <2>1, <3>1
  <2> QED
    BY <1>1, <1>2, <2>2 DEF Follows
<1>3. CASE m # 0
  <2>1. m - 1 \in Nat /\ m - 1 \notin T
    BY <1>1, <1>3
  <2>2. PICK r : Follows(r, m - 1)
    BY <2>1
  <2> DEFINE s == [k \in 0..m |-> DigitsFrom(r, k)]
  <2>3. \A k \in 0..m - 1 : s[k] = r[k]
    BY <2>1, <2>2, FollowsStep
  <2>4. ASSUME NEW k \in 0..m PROVE DigitsFrom(s, k) = DigitsFrom(r, k)
    <3>1. CASE k < 10
      BY <3>1 DEF DigitsFrom
    <3>2. CASE ~(k < 10)
      <4>1. k \div 10 \in 0..m - 1
        BY <1>1, <3>2, DigitSplit
      <4> HIDE DEF s
      <4> QED
        BY <2>3, <3>2, <4>1 DEF DigitsFrom
    <3> QED
      BY <3>1, <3>2
  <2>5. Follows(s, m)
    <3>1. s = [k \in 0..m |-> DigitsFrom(r, k)]
      OBVIOUS
    <3> HIDE DEF s
    <3> QED
      BY <2>4, <3>1 DEF Follows
  <2> QED
    BY <1>1, <2>5
<1> QED
  BY <1>2, <1>3

\* In one way only.
LEMMA FollowsUnique ==
    ASSUME NEW m \in Nat, NEW n \in Nat, NEW r, NEW s, Follows(r, m), Follows(s, n),
           NEW k \in (0..m) \cap (0..n)
    PROVE  r[k] = s[k]
<1> DEFINE T == {j \in (0..m) \cap (0..n) : r[j] # s[j]}
<1> SUFFICES ASSUME T # {} PROVE FALSE
  OBVIOUS
<1>1. PICK j \in T : \A i \in T : j <= i
  <2>1. T \in SUBSET Nat
    OBVIOUS
  <2> HIDE DEF T
  <2> QED
    BY <2>1, LeastNumber
<1>2. r[j] = DigitsFrom(r, j) /\ s[j] = DigitsFrom(s, j)
  BY FollowsStep
<1>3. CASE j < 10
  BY <1>2, <1>3 DEF DigitsFrom
<1>4. CASE ~(j < 10)
  <2>1. j \in Nat /\ j \div 10 \in (0..m) \cap (0..n) /\ j \div 10 < j
    BY <1>4, DigitSplit
  <2>2. r[j \div 10] = s[j \div 10]
    BY <1>1, <2>1
  <2> QED
    BY <1>2, <1>4, <2>2 DEF DigitsFrom
<1> QED
  BY <1>3, <1>4

\* So the recursion defines a function on all numbers.
LEMMA ToStringStep ==
    ASSUME NEW n \in Nat
    PROVE  ToString[n] = DigitsFrom(ToString, n)
<1> DEFINE upTo(k) == CHOOSE s : Follows(s, k)
           all == [k \in Nat |-> upTo(k)[k]]
<1>1. \A k \in Nat : Follows(upTo(k), k)
  BY FollowsExists
<1>2. ASSUME NEW k \in Nat PROVE upTo(k)[k] = DigitsFrom(all, k)
  <2>1. upTo(k)[k] = DigitsFrom(upTo(k), k)
    <3> HIDE DEF upTo
    <3> QED
      BY <1>1, FollowsStep
  <2>2. CASE k < 10
    BY <2>1, <2>2 DEF DigitsFrom
  <2>3. CASE ~(k < 10)
    <3>1. k \div 10 \in Nat /\ k \div 10 \in (0..k) \cap (0..k \div 10)
      BY <2>3, DigitSplit
    <3> HIDE DEF upTo
    <3>2. upTo(k)[k \div 10] = upTo(k \div 10)[k \div 10]
      BY <1>1, <3>1, FollowsUnique
    <3>3. all[k \div 10] = upTo(k \div 10)[k \div 10]
      BY <3>1
    <3> QED
      BY <2>1, <2>3, <3>2, <3>3 DEF DigitsFrom
  <2> QED
    BY <2>2, <2>3
<1>3. all = [k \in Nat |-> DigitsFrom(all, k)]
  <2>1. all = [k \in Nat |-> upTo(k)[k]]
    OBVIOUS
  <2> HIDE DEF upTo, all
  <2> QED
    BY <1>2, <2>1
<1>4. ToString = [k \in Nat |-> DigitsFrom(ToString, k)]
  <2> HIDE DEF all
  <2> QED
    BY <1>3 DEF ToString, DigitsFrom
<1> QED
  BY <1>4, Zenon

\* They are digits, and at least one.
LEMMA ToStringType ==
    ASSUME NEW n \in Nat
    PROVE  ToString[n] \in Seq(0..9) \ {<<>>}
<1> DEFINE T == {k \in Nat : ToString[k] \notin Seq(0..9) \ {<<>>}}
<1> SUFFICES ASSUME T # {} PROVE FALSE
  OBVIOUS
<1>1. PICK m \in T : \A k \in T : m <= k
  BY LeastNumber
<1>2. ToString[m] = DigitsFrom(ToString, m)
  BY ToStringStep
<1>3. m \in Nat /\ ToString[m] \notin Seq(0..9) \ {<<>>}
  OBVIOUS
<1>4. CASE m < 10
  <2>1. ToString[m] = <<m>> /\ m \in 0..9
    BY <1>2, <1>3, <1>4 DEF DigitsFrom
  <2> QED
    BY <1>3, <2>1
<1>5. CASE ~(m < 10)
  <2>1. m \div 10 \in Nat /\ m \div 10 < m /\ m % 10 \in 0..9
    BY <1>3, <1>5, DigitSplit
  <2>2. ToString[m \div 10] \in Seq(0..9)
    BY <1>1, <1>3, <2>1
  <2>3. ToString[m] = Append(ToString[m \div 10], m % 10)
    BY <1>2, <1>5 DEF DigitsFrom
  <2> DEFINE s == ToString[m \div 10]
             d == m % 10
  <2>4. s \in Seq(0..9) /\ d \in 0..9 /\ ToString[m] = Append(s, d)
    BY <2>1, <2>2, <2>3
  <2> HIDE DEF s, d
  <2>5. Append(s, d) \in Seq(0..9) /\ Append(s, d) # <<>>
    BY <2>4, AppendProperties
  <2> QED
    BY <1>3, <2>4, <2>5
<1> QED
  BY <1>4, <1>5

\* Different lengths tell numbers with one digit from those with more.
LEMMA ToStringLength ==
    ASSUME NEW n \in Nat
    PROVE  /\ n < 10 => ToString[n] = <<n>> /\ Len(ToString[n]) = 1
           /\ n >= 10 => /\ ToString[n] = Append(ToString[n \div 10], n % 10)
                        /\ Len(ToString[n]) > 1
<1>1. ToString[n] = DigitsFrom(ToString, n)
  BY ToStringStep
<1>2. n < 10 => ToString[n] = <<n>> /\ Len(ToString[n]) = 1
  BY <1>1 DEF DigitsFrom
<1>3. ASSUME n >= 10
      PROVE  /\ ToString[n] = Append(ToString[n \div 10], n % 10)
             /\ Len(ToString[n]) > 1
  <2>1. n \div 10 \in Nat /\ n % 10 \in 0..9
    BY <1>3, DigitSplit
  <2>2. ToString[n] = Append(ToString[n \div 10], n % 10)
    BY <1>1, <1>3 DEF DigitsFrom
  <2>3. ToString[n \div 10] \in Seq(0..9) /\ ToString[n \div 10] # <<>>
    BY <2>1, ToStringType
  <2>4. Len(ToString[n]) = Len(ToString[n \div 10]) + 1 /\ Len(ToString[n \div 10]) \in Nat
    BY <2>1, <2>2, <2>3, AppendProperties
  <2>5. Len(ToString[n \div 10]) # 0
    BY <2>3, EmptySeq
  <2> QED
    BY <2>2, <2>4, <2>5
<1> QED
  BY <1>2, <1>3

\* Two numbers never have the same digits: the text that render draws tells the
\* count it was given, however many digits that takes.
THEOREM ToStringTells ==
    ASSUME NEW m \in Nat, NEW n \in Nat, ToString[m] = ToString[n]
    PROVE  m = n
<1> DEFINE T == {k \in Nat : \E j \in Nat : j # k /\ ToString[j] = ToString[k]}
<1> SUFFICES ASSUME T # {} PROVE FALSE
  OBVIOUS
<1>1. PICK k \in T : \A i \in T : k <= i
  BY LeastNumber
<1>2. PICK j \in Nat : j # k /\ ToString[j] = ToString[k]
  OBVIOUS
<1>3. k \in Nat /\ k < j
  <2>1. j \in T
    BY <1>2
  <2> QED
    BY <1>1, <1>2, <2>1
<1>4. Len(ToString[j]) = Len(ToString[k]) /\ ToString[j] = ToString[k]
  BY <1>2
<1>5. j >= 10 /\ k >= 10
  <2>1. /\ j < 10 => ToString[j] = <<j>> /\ Len(ToString[j]) = 1
        /\ j >= 10 => Len(ToString[j]) > 1
    BY ToStringLength
  <2>2. /\ k < 10 => ToString[k] = <<k>> /\ Len(ToString[k]) = 1
        /\ k >= 10 => Len(ToString[k]) > 1
    BY <1>3, ToStringLength
  <2>3. ~(j < 10 /\ k < 10)
    BY <1>2, <1>4, <2>1, <2>2
  <2> HIDE DEF T
  <2>4. j \in Nat /\ k \in Nat /\ k < j
    BY <1>3
  <2>5. ~(j >= 10 /\ k < 10)
    <3> DEFINE l == Len(ToString[k])
    <3>1. (j >= 10 => l > 1) /\ (k < 10 => l = 1)
      BY <1>4, <2>1, <2>2
    <3> HIDE DEF l
    <3> QED
      BY <2>4, <3>1
  <2> QED
    BY <2>3, <2>4, <2>5
<1>6. /\ ToString[j \div 10] \in Seq(0..9) /\ j % 10 \in 0..9
      /\ ToString[j] = Append(ToString[j \div 10], j % 10)
  BY <1>5, DigitSplit, ToStringType, ToStringLength
<1>7. /\ ToString[k \div 10] \in Seq(0..9) /\ k % 10 \in 0..9
      /\ ToString[k] = Append(ToString[k \div 10], k % 10)
  BY <1>3, <1>5, DigitSplit, ToStringType, ToStringLength
<1>8. ToString[j \div 10] = ToString[k \div 10] /\ j % 10 = k % 10
  <2> DEFINE js == ToString[j \div 10]
             ks == ToString[k \div 10]
             je == j % 10
             ke == k % 10
  <2>1. js \in Seq(0..9) /\ ks \in Seq(0..9) /\ je \in 0..9 /\ ke \in 0..9
        /\ Append(js, je) = Append(ks, ke)
    BY <1>4, <1>6, <1>7
  <2> HIDE DEF js, ks, je, ke
  <2>2. js = ks /\ je = ke
    BY <2>1, AppendInjective
  <2> QED
    BY <2>2 DEF js, ks, je, ke
<1>9. j \div 10 # k \div 10
  <2>1. j = 10 * (j \div 10) + (j % 10) /\ k = 10 * (k \div 10) + (k % 10)
    BY <1>3, <1>5, DigitSplit
  <2> QED
    BY <1>2, <1>8, <2>1
<1>10. k \div 10 \in Nat /\ j \div 10 \in Nat /\ k \div 10 < k
  BY <1>3, <1>5, DigitSplit
<1>11. k \div 10 \in T
  BY <1>8, <1>9, <1>10
<1> QED
  BY <1>1, <1>3, <1>10, <1>11

-----------------------------------------------------------------------------
(* Groups *)

\* The lengths of the groups: an iteration of the loop takes the digits that the
\* rounding up of the number of groups leaves to it, from one to three of them.
LEMMA GroupBounds ==
    ASSUME NEW len \in Nat \ {0}, NEW k \in Nat, k < GroupCount(len)
    PROVE  /\ DigitsIn(k, len) \in 0..len
           /\ DigitsIn(k + 1, len) \in 1..len
           /\ DigitsIn(k + 1, len) - DigitsIn(k, len) \in 1..3
           /\ GroupCount(len) \in Nat
BY DEF GroupCount, DigitsIn

\* The digits of one group share their number of spaces before them.
LEMMA SpacesBefore ==
    ASSUME NEW len \in Nat \ {0}, NEW k \in Nat, k < GroupCount(len),
           NEW d \in DigitsIn(k, len) + 1 .. DigitsIn(k + 1, len)
    PROVE  GroupCount(len) - GroupCount(len - d + 1) = k
BY DEF GroupCount, DigitsIn

\* The first column is within the image.
LEMMA FirstXType ==
    ASSUME NEW len \in Nat \ {0}, NEW reserve \in Nat
    PROVE  FirstX(len, reserve) \in Nat \ {0}
BY DEF FirstX, AtLeast, TextWidth, GLYPH_WIDTH, GLYPH_KERN, GROUP_SPACING

\* A part of the digits.
LEMMA GroupDigits ==
    ASSUME NEW s \in Seq(0..9), NEW m \in Nat, NEW n \in Nat, m < n, n <= Len(s)
    PROVE  /\ SubSeq(s, m + 1, n) \in Seq(0..9)
           /\ Len(SubSeq(s, m + 1, n)) = n - m
           /\ \A j \in 1..(n - m) : /\ SubSeq(s, m + 1, n)[j] = s[m + j]
                                   /\ SubSeq(s, m + 1, n)[j] \in 0..9
<1>1. \A i \in m + 1 .. n : s[i] \in 0..9
  BY ElementOfSeq
<1>2. /\ SubSeq(s, m + 1, n) \in Seq(0..9)
      /\ Len(SubSeq(s, m + 1, n)) = IF m + 1 <= n THEN n - (m + 1) + 1 ELSE 0
      /\ \A i \in 1 .. n - (m + 1) + 1 : SubSeq(s, m + 1, n)[i] = s[m + 1 + i - 1]
  BY <1>1, SubSeqProperties
<1>3. Len(SubSeq(s, m + 1, n)) = n - m
  BY <1>2
<1>4. ASSUME NEW j \in 1..(n - m)
      PROVE  /\ SubSeq(s, m + 1, n)[j] = s[m + j]
             /\ SubSeq(s, m + 1, n)[j] \in 0..9
  <2>1. j \in 1 .. n - (m + 1) + 1 /\ m + 1 + j - 1 = m + j /\ m + j \in m + 1 .. n
    OBVIOUS
  <2> QED BY <1>1, <1>2, <2>1
<1> QED BY <1>2, <1>3, <1>4

-----------------------------------------------------------------------------

IInv == TypeOK /\ Layout

LEMMA InitInv == Init => IInv
<1> SUFFICES ASSUME Init PROVE IInv
  OBVIOUS
<1>1. PICK n \in Numbers, r \in Reserves :
        /\ text = ToString[n]
        /\ reserve_width = r
        /\ drawn = 0
        /\ x = FirstX(Len(text), r)
        /\ glyphs = <<>>
  BY DEF Init
<1>2. text \in Seq(0..9) \ {<<>>} /\ Len(text) \in Nat \ {0}
  BY <1>1, NumbersAssumption, ToStringType
<1>3. reserve_width \in Nat
  BY <1>1, ReservesAssumption
<1>4. x \in Nat
  BY <1>1, <1>2, <1>3, FirstXType
<1>5. TypeOK
  BY <1>1, <1>2, <1>3, <1>4 DEF TypeOK
<1>6. FirstX(Len(text), reserve_width) \in Nat
  BY <1>2, <1>3, FirstXType
<1>7. Layout
  <2>1. 0 <= GroupCount(Len(text)) /\ DigitsIn(0, Len(text)) = 0
    BY <1>2 DEF GroupCount, DigitsIn
  <2>2. Len(glyphs) = 0 /\ DOMAIN glyphs = {}
    BY <1>1
  <2>3. x = FirstX(Len(text), reserve_width) + TextWidth(0) + GROUP_SPACING * 0
    BY <1>1, <1>6 DEF TextWidth, GLYPH_WIDTH, GLYPH_KERN, GROUP_SPACING
  <2> QED BY <1>1, <2>1, <2>2, <2>3 DEF Layout
<1> QED BY <1>5, <1>7 DEF IInv

LEMMA NextInv == IInv /\ [DrawGroup]_vars => IInv'
<1> SUFFICES ASSUME IInv, [DrawGroup]_vars PROVE IInv'
  OBVIOUS
<1>1. CASE UNCHANGED vars
  BY <1>1 DEF vars, IInv, TypeOK, Layout, XOf
<1>2. CASE DrawGroup
  <2> DEFINE len == Len(text)
             first == DigitsIn(drawn, len)
             last == DigitsIn(drawn + 1, len)
             group == SubSeq(text, first + 1, last)
             start == FirstX(len, reserve_width)
             new == [j \in DOMAIN group |->
                       [digit |-> group[j], x |-> x + TextWidth(j - 1)]]
  <2>1. /\ drawn < GroupCount(len)
        /\ glyphs' = glyphs \o new
        /\ x' = x + TextWidth(last - first) + GROUP_SPACING
        /\ drawn' = drawn + 1
        /\ text' = text
        /\ reserve_width' = reserve_width
    BY <1>2 DEF DrawGroup, BlitInto
  <2>2. /\ text \in Seq(0..9) \ {<<>>}
        /\ reserve_width \in Nat
        /\ drawn \in Nat
        /\ x \in Nat
        /\ glyphs \in Seq([digit: 0..9, x: Nat])
    BY DEF IInv, TypeOK
  <2>3. /\ Len(glyphs) = first
        /\ x = start + TextWidth(first) + GROUP_SPACING * drawn
        /\ \A k \in 1..first : glyphs[k] = [digit |-> text[k], x |-> XOf(k)]
    BY <2>2 DEF IInv, Layout
  <2>4. len \in Nat \ {0} /\ start \in Nat
    <3>1. len \in Nat \ {0}
      BY <2>2
    <3> HIDE DEF len
    <3> QED BY <2>2, <3>1, FirstXType
  <2>5. /\ first \in 0..len
        /\ last \in 1..len
        /\ last - first \in 1..3
        /\ GroupCount(len) \in Nat
    BY <2>1, <2>2, <2>4, GroupBounds
  <2>6. /\ group \in Seq(0..9)
        /\ Len(group) = last - first
        /\ \A j \in 1..(last - first) : group[j] = text[first + j] /\ group[j] \in 0..9
    <3> HIDE DEF len, first, last
    <3>1. text \in Seq(0..9) /\ len = Len(text)
      BY <2>2 DEF len
    <3>2. last \in Nat /\ first \in Nat /\ first < last /\ last <= len
      BY <2>4, <2>5
    <3> QED BY <3>1, <3>2, GroupDigits
  <2>7. \A j \in 1..(last - first) :
           x + TextWidth(j - 1) \in Nat /\ x + TextWidth(j - 1) = XOf(first + j)
    <3> SUFFICES ASSUME NEW j \in 1..(last - first)
                 PROVE  x + TextWidth(j - 1) \in Nat /\ x + TextWidth(j - 1) = XOf(first + j)
      OBVIOUS
    <3>1. first + j \in first + 1 .. last
      BY <2>5
    <3>2. GroupCount(len) - GroupCount(len - (first + j) + 1) = drawn
      BY <2>1, <2>2, <2>4, <3>1, SpacesBefore
    <3> HIDE DEF first, last
    <3>3. XOf(first + j)
             = start + TextWidth(first + j - 1)
                 + GROUP_SPACING * (GroupCount(len) - GroupCount(len - (first + j) + 1))
      BY <2>4, <2>5 DEF XOf
    <3> HIDE DEF start, len
    <3>4. XOf(first + j)
             = start + TextWidth(first + j - 1) + GROUP_SPACING * drawn
      BY <3>2, <3>3
    <3>5. x = start + TextWidth(first) + GROUP_SPACING * drawn
      BY <2>3
    <3>6. start \in Nat /\ first \in Nat /\ j \in Nat \ {0} /\ drawn \in Nat
      BY <2>2, <2>4, <2>5
    <3> QED BY <3>4, <3>5, <3>6
            DEF TextWidth, GLYPH_WIDTH, GLYPH_KERN, GROUP_SPACING
  <2> DEFINE Glyph == [digit: 0..9, x: Nat]
  <2> HIDE DEF first, last, group, start
  <2>8. /\ new \in Seq(Glyph)
        /\ Len(new) = last - first
        /\ \A j \in 1..(last - first) :
              new[j] = [digit |-> text[first + j], x |-> XOf(first + j)]
    <3>1. last - first \in Nat
      BY <2>5
    <3>2. DOMAIN group = 1..(last - first)
      BY <2>6, <3>1
    <3>3. \A j \in 1..(last - first) :
             [digit |-> group[j], x |-> x + TextWidth(j - 1)] \in Glyph
      BY <2>6, <2>7
    <3> HIDE DEF Glyph
    <3>4. new \in [1..(last - first) -> Glyph]
      BY <3>2, <3>3
    <3>5. new \in Seq(Glyph) /\ Len(new) = last - first
      BY <3>1, <3>4
    <3> QED BY <2>6, <2>7, <3>2, <3>5
  <2>9. glyphs' \in Seq(Glyph) /\ Len(glyphs') = last
    <3>1. glyphs \in Seq(Glyph)
      BY <2>2
    <3> HIDE DEF Glyph, new
    <3> QED BY <2>1, <2>3, <2>5, <2>8, <3>1
  <2> HIDE DEF new
  <2>10. \A k \in 1..last : glyphs'[k] = [digit |-> text[k], x |-> XOf(k)]
    <3> SUFFICES ASSUME NEW k \in 1..last
                 PROVE  glyphs'[k] = [digit |-> text[k], x |-> XOf(k)]
      OBVIOUS
    <3>1. CASE k <= first
      BY <2>1, <2>2, <2>3, <2>5, <2>8, <3>1
    <3>2. CASE k > first
      <4>1. k - first \in 1..(last - first) /\ first + (k - first) = k
        BY <2>5, <3>2
      <4>2. glyphs \in Seq(Glyph) /\ k \in Len(glyphs) + 1 .. Len(glyphs) + Len(new)
        BY <2>2, <2>3, <2>5, <2>8, <3>2
      <4>3. glyphs'[k] = new[k - first]
        <5> HIDE DEF Glyph
        <5> QED BY <2>1, <2>3, <2>8, <4>2
      <4> QED BY <2>8, <4>1, <4>3
    <3> QED BY <3>1, <3>2, <2>5
  <2>11. x' \in Nat /\ x' = start + TextWidth(last) + GROUP_SPACING * (drawn + 1)
    BY <2>1, <2>2, <2>3, <2>4, <2>5 DEF TextWidth, GLYPH_WIDTH, GLYPH_KERN, GROUP_SPACING
  <2>12. TypeOK'
    BY <2>1, <2>2, <2>9, <2>11 DEF TypeOK
  <2>13. Layout'
    <3>1. \A k : XOf(k)' = XOf(k)
      BY <2>1 DEF XOf
    <3>2. drawn' <= GroupCount(len)
      BY <2>1, <2>2, <2>5
    <3> QED BY <2>1, <2>9, <2>10, <2>11, <3>1, <3>2 DEF Layout, last, start
  <2> QED BY <2>12, <2>13 DEF IInv
<1> QED BY <1>1, <1>2

LEMMA RenderInvariant == Spec => []IInv
BY InitInv, NextInv, PTL DEF Spec

\* For all numbers and reserved widths no column and no digit leaves its type: the
\* first column is never negative, whatever the difference of the two lengths.
THEOREM RenderTypeCorrect == Spec => []TypeOK
<1>1. IInv => TypeOK
  BY DEF IInv
<1> QED BY <1>1, RenderInvariant, PTL

\* For all numbers and reserved widths the two loops of the drawing put every glyph
\* where the layout of the whole number has it.
THEOREM LayoutCorrect == Spec => []Layout
<1>1. IInv => Layout
  BY DEF IInv
<1> QED BY <1>1, RenderInvariant, PTL

-----------------------------------------------------------------------------

\* Where the glyphs are, in numbers: between the padding on both sides, since the
\* spaces that precede a glyph are no more than the width accounts for.
LEMMA GlyphWithinPadding ==
    ASSUME NEW len \in Nat \ {0}, NEW reserve \in Nat, NEW d \in 1..len
    PROVE  LET gx == FirstX(len, reserve) + TextWidth(d - 1)
                       + GROUP_SPACING * (GroupCount(len) - GroupCount(len - d + 1))
           IN  /\ gx \in Nat /\ 1 <= gx
               /\ gx + GLYPH_WIDTH <= Width(len, reserve) - 1
BY DEF FirstX, Width, GroupCount, AtLeast, TextWidth, GLYPH_WIDTH, GLYPH_KERN,
       GROUP_SPACING

\* The width is a number of pixels.
LEMMA WidthType ==
    ASSUME NEW len \in Nat, NEW reserve \in Nat
    PROVE  Width(len, reserve) \in Nat
BY DEF Width, AtLeast, TextWidth, GLYPH_WIDTH, GLYPH_KERN, GROUP_SPACING

\* A group begins before a digit when the digits from there on are full groups.
LEMMA GroupBegins ==
    ASSUME NEW rest \in Nat
    PROVE  /\ GroupCount(rest) \in Nat
           /\ GroupCount(rest + 1)
                = GroupCount(rest) + (IF rest % 3 = 0 THEN 1 ELSE 0)
BY DEF GroupCount

\* A glyph that ends within its row ends within the buffer.
LEMMA RowsWithinBuffer ==
    ASSUME NEW width \in Nat, NEW gx \in Nat, gx + GLYPH_WIDTH <= width - 1
    PROVE  EndOfGlyph(gx, width) <= BufferSize(width)
BY DEF EndOfGlyph, BufferSize, Height, BYTES_PER_PIXEL, OFFSET_Y, GLYPH_HEIGHT,
       GLYPH_WIDTH

\* What Layout says of one glyph.
LEMMA GlyphAt ==
    ASSUME IInv, NEW k \in DOMAIN glyphs
    PROVE  /\ Len(text) \in Nat \ {0} /\ reserve_width \in Nat
           /\ k \in 1..Len(text)
           /\ glyphs[k].digit = text[k]
           /\ glyphs[k].x = XOf(k)
<1>1. /\ text \in Seq(0..9) \ {<<>>} /\ reserve_width \in Nat /\ drawn \in Nat
      /\ glyphs \in Seq([digit: 0..9, x: Nat])
  BY DEF IInv, TypeOK
<1>2. Len(text) \in Nat \ {0}
  BY <1>1
<1>3. drawn <= GroupCount(Len(text)) /\ Len(glyphs) = DigitsIn(drawn, Len(text))
  BY DEF IInv, Layout
<1>4. k \in 1..Len(glyphs)
  BY <1>1
<1>5. DigitsIn(drawn, Len(text)) <= Len(text)
  BY <1>1, <1>2, <1>3 DEF DigitsIn, GroupCount
<1>6. glyphs[k] = [digit |-> text[k], x |-> XOf(k)]
  BY DEF IInv, Layout
<1>7. Len(glyphs) \in Nat
  BY <1>1
<1>8. k \in 1..Len(text)
  BY <1>2, <1>3, <1>4, <1>5, <1>7
<1> QED BY <1>1, <1>2, <1>6, <1>8

\* When the loop ends, every digit was drawn.
LEMMA RenderedWhole ==
    ASSUME IInv, Rendered
    PROVE  /\ Len(text) \in Nat \ {0} /\ reserve_width \in Nat
           /\ Len(glyphs) = Len(text)
           /\ Len(text) \in DOMAIN glyphs
<1>1. /\ text \in Seq(0..9) \ {<<>>} /\ reserve_width \in Nat
      /\ glyphs \in Seq([digit: 0..9, x: Nat])
  BY DEF IInv, TypeOK
<1>2. Len(text) \in Nat \ {0}
  BY <1>1
<1>3. Len(glyphs) = DigitsIn(drawn, Len(text))
  BY DEF IInv, Layout
<1>4. Len(glyphs) = Len(text)
  BY <1>2, <1>3 DEF Rendered, DigitsIn, GroupCount
<1> QED BY <1>1, <1>2, <1>4

\* What is left right of the last digit, in numbers.
LEMMA MarginOf ==
    ASSUME NEW len \in Nat \ {0}, NEW reserve \in Nat
    PROVE  Width(len, reserve) - 1 - GLYPH_KERN
             - (FirstX(len, reserve) + TextWidth(len - 1)
                  + GROUP_SPACING * (GroupCount(len) - GroupCount(len - len + 1))
                  + GLYPH_WIDTH)
           = IF len % 3 = 0 THEN GROUP_SPACING ELSE 0
BY DEF FirstX, Width, GroupCount, AtLeast, TextWidth, GLYPH_WIDTH, GLYPH_KERN,
       GROUP_SPACING

\* For all numbers and reserved widths, no glyph is written beyond the buffer or
\* over the end of its row.
THEOREM BoundsCorrect == Spec => []InBounds
<1>1. IInv => InBounds
  <2> SUFFICES ASSUME IInv, NEW k \in DOMAIN glyphs
               PROVE  /\ EndOfGlyph(glyphs[k].x, ImageWidth) <= BufferSize(ImageWidth)
                      /\ 1 <= glyphs[k].x
                      /\ glyphs[k].x + GLYPH_WIDTH <= ImageWidth - 1
    BY DEF InBounds
  <2>1. /\ Len(text) \in Nat \ {0} /\ reserve_width \in Nat
        /\ k \in 1..Len(text) /\ glyphs[k].x = XOf(k)
    BY GlyphAt
  <2>2. /\ XOf(k) \in Nat /\ 1 <= XOf(k)
        /\ XOf(k) + GLYPH_WIDTH <= ImageWidth - 1
    BY <2>1, GlyphWithinPadding DEF XOf, ImageWidth
  <2>3. ImageWidth \in Nat
    BY <2>1, WidthType DEF ImageWidth
  <2> QED BY <2>1, <2>2, <2>3, RowsWithinBuffer
<1> QED BY <1>1, RenderInvariant, PTL

\* For all numbers and reserved widths, the finished image shows the digits of the
\* number in order, in groups of three from the right.
THEOREM LegibleCorrect == Spec => []Legible
<1>1. IInv => Legible
  <2> SUFFICES ASSUME IInv PROVE Legible
    OBVIOUS
  <2>1. Rendered => Len(glyphs) = Len(text)
    BY RenderedWhole
  <2>2. \A k \in DOMAIN glyphs : glyphs[k].digit = text[k]
    BY GlyphAt
  <2>3. ASSUME NEW k \in DOMAIN glyphs \ {1}
        PROVE  glyphs[k].x - (glyphs[k - 1].x + GLYPH_WIDTH) =
                  IF (Len(text) - k + 1) % 3 = 0
                  THEN GLYPH_KERN + GROUP_SPACING ELSE GLYPH_KERN
    <3>1. /\ Len(text) \in Nat \ {0} /\ reserve_width \in Nat
          /\ k \in 2..Len(text) /\ glyphs[k].x = XOf(k)
      BY GlyphAt
    <3>2. k - 1 \in DOMAIN glyphs
      BY <3>1 DEF IInv, TypeOK
    <3>3. glyphs[k - 1].x = XOf(k - 1)
      BY <3>2, GlyphAt
    <3>4. FirstX(Len(text), reserve_width) \in Nat
      BY <3>1, FirstXType
    <3>5. Len(text) \in Nat /\ k \in 2..Len(text)
      BY <3>1
    <3>6. XOf(k) - (XOf(k - 1) + GLYPH_WIDTH)
           = IF (Len(text) - k + 1) % 3 = 0
             THEN GLYPH_KERN + GROUP_SPACING ELSE GLYPH_KERN
      <4> DEFINE start == FirstX(Len(text), reserve_width)
                 rest == Len(text) - k + 1
                 before == GroupCount(Len(text))
                 after == GroupCount(rest)
      <4>1. rest \in Nat /\ Len(text) - (k - 1) + 1 = rest + 1 /\ before \in Nat
        <5>1. rest \in Nat /\ Len(text) - (k - 1) + 1 = rest + 1
          BY <3>5
        <5>2. before \in Nat
          BY <3>5, GroupBegins
        <5> QED BY <5>1, <5>2
      <4>2. /\ XOf(k) = start + TextWidth(k - 1) + GROUP_SPACING * (before - after)
            /\ XOf(k - 1) = start + TextWidth(k - 1 - 1)
                              + GROUP_SPACING * (before - GroupCount(rest + 1))
        BY <3>5, <4>1 DEF XOf
      <4>3. /\ after \in Nat
            /\ GroupCount(rest + 1) = after + (IF rest % 3 = 0 THEN 1 ELSE 0)
        BY <4>1, GroupBegins
      <4> HIDE DEF start, rest, before, after
      <4>4. k \in Nat /\ start \in Nat
        BY <3>4, <3>5 DEF start
      <4>5. XOf(k) - (XOf(k - 1) + GLYPH_WIDTH)
             = IF rest % 3 = 0 THEN GLYPH_KERN + GROUP_SPACING ELSE GLYPH_KERN
        BY <4>1, <4>2, <4>3, <4>4 DEF TextWidth, GLYPH_WIDTH, GLYPH_KERN, GROUP_SPACING
      <4> QED BY <4>5 DEF rest
    <3> QED BY <3>1, <3>3, <3>6
  <2> QED BY <2>1, <2>2, <2>3 DEF Legible
<1> QED BY <1>1, RenderInvariant, PTL

\* For all numbers and reserved widths, the finished number ends at the right edge
\* or one group space before it.
THEOREM EdgeCorrect == Spec => []EndsNearRightEdge
<1>1. IInv => EndsNearRightEdge
  <2> SUFFICES ASSUME IInv, Rendered
               PROVE  RightMargin = IF Len(text) % 3 = 0 THEN GROUP_SPACING ELSE 0
    BY DEF EndsNearRightEdge
  <2>1. /\ Len(text) \in Nat \ {0} /\ reserve_width \in Nat
        /\ Len(glyphs) = Len(text)
        /\ Len(text) \in DOMAIN glyphs
    BY RenderedWhole
  <2>2. glyphs[Len(glyphs)].x = XOf(Len(text))
    BY <2>1, GlyphAt
  <2>3. RightMargin = ImageWidth - 1 - GLYPH_KERN - (XOf(Len(text)) + GLYPH_WIDTH)
    BY <2>2 DEF RightMargin
  <2> QED BY <2>1, <2>3, MarginOf DEF XOf, ImageWidth
<1> QED BY <1>1, RenderInvariant, PTL

-----------------------------------------------------------------------------

\* For all numbers and reserved widths, the width of the image is that of every
\* other number that the reserved width has room for.
THEOREM SameWidthCorrect == Spec => []SameWidth
<1>1. \A len, reserve \in Nat : len <= reserve =>
         Width(len, reserve) = 2 + TextWidth(reserve) + GROUP_SPACING * (reserve \div 3)
  BY DEF Width, AtLeast, TextWidth, GLYPH_WIDTH, GLYPH_KERN, GROUP_SPACING
<1>2. IInv => SameWidth
  <2> SUFFICES ASSUME IInv, Len(text) <= reserve_width,
                      NEW n \in Numbers, Len(ToString[n]) <= reserve_width
               PROVE  ImageWidth = Width(Len(ToString[n]), reserve_width)
    BY DEF SameWidth
  <2>1. Len(text) \in Nat /\ reserve_width \in Nat
    BY DEF IInv, TypeOK
  <2>2. Len(ToString[n]) \in Nat
    BY NumbersAssumption, ToStringType
  <2> QED BY <1>1, <2>1, <2>2 DEF ImageWidth
<1> QED BY <1>2, RenderInvariant, PTL

-----------------------------------------------------------------------------

\* Glyphs at different places are a glyph's width apart.
LEMMA PlacesApart ==
    ASSUME NEW len \in Nat \ {0}, NEW start \in Nat,
           NEW j \in 1..len, NEW k \in 1..len, j < k
    PROVE  start + TextWidth(j - 1)
             + GROUP_SPACING * (GroupCount(len) - GroupCount(len - j + 1)) + GLYPH_WIDTH
           <= start + TextWidth(k - 1)
                + GROUP_SPACING * (GroupCount(len) - GroupCount(len - k + 1))
BY DEF GroupCount, TextWidth, GLYPH_WIDTH, GLYPH_KERN, GROUP_SPACING

\* A glyph covers its own pixels and none of another one's.
LEMMA CoversOwn ==
    ASSUME IInv, NEW k \in DOMAIN glyphs, NEW j \in DOMAIN glyphs,
           NEW row \in Rows, NEW col \in Columns
    PROVE  Covers(glyphs[j], XOf(k) + col, OFFSET_Y + row) <=> j = k
<1>1. /\ Len(text) \in Nat \ {0} /\ reserve_width \in Nat
      /\ k \in 1..Len(text) /\ glyphs[k].x = XOf(k)
      /\ j \in 1..Len(text) /\ glyphs[j].x = XOf(j)
  BY GlyphAt
<1>2. FirstX(Len(text), reserve_width) \in Nat
  BY <1>1, FirstXType
<1>3. XOf(j) \in Nat /\ XOf(k) \in Nat
  BY <1>1, GlyphWithinPadding DEF XOf
<1>4. j < k => XOf(j) + GLYPH_WIDTH <= XOf(k)
  BY <1>1, <1>2, PlacesApart DEF XOf
<1>5. k < j => XOf(k) + GLYPH_WIDTH <= XOf(j)
  BY <1>1, <1>2, PlacesApart DEF XOf
<1>6. Covers(glyphs[j], XOf(k) + col, OFFSET_Y + row) <=>
         (XOf(k) + col) - XOf(j) \in 0..GLYPH_WIDTH - 1
  <2>1. (OFFSET_Y + row) - OFFSET_Y \in Rows
    BY DEF OFFSET_Y, Rows, GLYPH_HEIGHT
  <2> QED BY <1>1, <2>1 DEF Covers, Columns
<1>7. col \in 0..GLYPH_WIDTH - 1
  BY DEF Columns
<1>8. CASE j = k
  <2>1. (XOf(k) + col) - XOf(k) = col
    BY <1>3, <1>7 DEF GLYPH_WIDTH
  <2> QED BY <1>6, <1>7, <1>8, <2>1
<1>9. CASE j # k
  <2> DEFINE a == XOf(j)
             b == XOf(k)
  <2>1. a + GLYPH_WIDTH <= b \/ b + GLYPH_WIDTH <= a
    BY <1>1, <1>4, <1>5, <1>9
  <2>2. a \in Nat /\ b \in Nat
    BY <1>3
  <2> HIDE DEF a, b
  <2>3. (b + col) - a \notin 0..GLYPH_WIDTH - 1
    BY <1>7, <2>1, <2>2 DEF GLYPH_WIDTH
  <2> QED BY <1>6, <1>9, <2>3 DEF a, b
<1> QED BY <1>8, <1>9

\* So the pixels at a glyph's place are those of its digit.
LEMMA LitLikeBitmap ==
    ASSUME IInv, NEW k \in DOMAIN glyphs, NEW row \in Rows, NEW col \in Columns
    PROVE  IsLit(XOf(k) + col, OFFSET_Y + row)
             <=> IsForeground(GLYPH_BITMAPS[text[k] + 1], row, col)
<1>1. glyphs[k].x = XOf(k) /\ glyphs[k].digit = text[k]
  BY GlyphAt
<1>2. \A j \in DOMAIN glyphs : Covers(glyphs[j], XOf(k) + col, OFFSET_Y + row) <=> j = k
  BY CoversOwn
<1>3. /\ Len(glyphs) \in Nat /\ DOMAIN glyphs = 1..Len(glyphs)
  BY DEF IInv, TypeOK
<1>4. \A j \in k + 1..Len(glyphs) : j \in DOMAIN glyphs /\ j # k
  BY <1>3
<1>5. (OFFSET_Y + row) - OFFSET_Y = row /\ (XOf(k) + col) - glyphs[k].x = col
  <2>1. /\ Len(text) \in Nat \ {0} /\ reserve_width \in Nat /\ k \in 1..Len(text)
    BY GlyphAt
  <2>2. XOf(k) \in Nat
    BY <2>1, GlyphWithinPadding DEF XOf
  <2> QED BY <1>1, <2>2 DEF OFFSET_Y, Rows, Columns, GLYPH_HEIGHT, GLYPH_WIDTH
<1>6. IsLit(XOf(k) + col, OFFSET_Y + row)
        <=> IsForeground(GlyphForChar(glyphs[k].digit), row, col)
  <2> DEFINE px == XOf(k) + col
             py == OFFSET_Y + row
  <2>1. ASSUME NEW i \in DOMAIN glyphs, Covers(glyphs[i], px, py) PROVE i = k
    BY <1>2, <2>1
  <2>2. Covers(glyphs[k], px, py)
    BY <1>2
  <2>3. \A j \in k + 1..Len(glyphs) : ~Covers(glyphs[j], px, py)
    BY <1>2, <1>4
  <2>4. py - OFFSET_Y = row /\ px - glyphs[k].x = col
    BY <1>5
  <2> HIDE DEF px, py
  <2>5. IsLit(px, py) <=> IsForeground(GlyphForChar(glyphs[k].digit), row, col)
    BY <2>1, <2>2, <2>3, <2>4 DEF IsLit
  <2> QED BY <2>5 DEF px, py
<1> QED BY <1>1, <1>6 DEF GlyphForChar

\* For all numbers and reserved widths, what is drawn can be read as the digits of
\* the number and as no others.
THEOREM ReadableCorrect == Spec => []DigitsReadable
<1>1. IInv => DigitsReadable
  <2> SUFFICES ASSUME IInv, NEW k \in DOMAIN glyphs
               PROVE  {d \in 0..9 : Shows(XOf(k), d)} = {text[k]}
    BY DEF DigitsReadable
  <2>1. text[k] \in 0..9
    <3>1. k \in 1..Len(text) /\ text \in Seq(0..9)
      BY GlyphAt DEF IInv, TypeOK
    <3> QED BY <3>1, ElementOfSeq
  <2>2. \A row \in Rows, col \in Columns :
           IsLit(XOf(k) + col, OFFSET_Y + row)
             <=> IsForeground(GLYPH_BITMAPS[text[k] + 1], row, col)
    BY LitLikeBitmap
  <2>3. Shows(XOf(k), text[k])
    BY <2>2 DEF Shows
  <2>4. ASSUME NEW d \in 0..9, Shows(XOf(k), d) PROVE d = text[k]
    <3>1. \A row \in Rows, col \in Columns :
             IsForeground(GLYPH_BITMAPS[d + 1], row, col)
               <=> IsForeground(GLYPH_BITMAPS[text[k] + 1], row, col)
      BY <2>2, <2>4 DEF Shows
    <3> QED BY <2>1, <3>1, GlyphsAssumption
  <2> QED BY <2>1, <2>3, <2>4
<1> QED BY <1>1, RenderInvariant, PTL
=============================================================================
