---------------------- MODULE HttpRequestReader_proofs ----------------------
(* The example server's reader for every request, every size of its buffer  *)
(* and every way to cut the stream: what it keeps of the bytes it received, *)
(* and when it takes the head of the request for complete.  The proofs rest *)
(* on where the line ends are in a request, and on every piece that the     *)
(* reader keeps being a segment of the stream that ends where it has read.  *)
EXTENDS HttpRequestReader, SequenceTheorems, FiniteSetTheorems, WellFoundedInduction, TLAPS

-----------------------------------------------------------------------------
(* Least elements, and the number that digits stand for.                   *)

LEMMA LessIsWellFounded ==
  \E R : IsWellFoundedOn(R, Nat) /\ \A x, y \in Nat : <<x, y>> \in R <=> x < y
<1>1. \A x, y \in Nat : <<x, y>> \in OpToRel(<, Nat) <=> x < y
  BY DEF OpToRel
<1> QED
  BY <1>1, NatLessThanWellFounded, Zenon

LEMMA Least ==
  ASSUME NEW S, S \subseteq Nat, S # {}
  PROVE  Min(S) \in S /\ \A x \in S : Min(S) <= x
<1>1. PICK R : IsWellFoundedOn(R, Nat) /\ \A x, y \in Nat : <<x, y>> \in R <=> x < y
  BY LessIsWellFounded
<1>2. IsWellFoundedOn(R, Nat)
  BY <1>1
<1>3. \E x \in S : \A y \in S : ~ (<<y, x>> \in R)
  BY <1>2, WFMin
<1>4. PICK x \in S : \A y \in S : ~ (<<y, x>> \in R)
  BY <1>3
<1>5. \A y \in S : y \in Nat /\ x \in Nat /\ ~ (y < x)
  BY <1>1, <1>4
<1>6. \A y \in S : x <= y
  BY <1>5
<1> QED
  BY <1>6 DEF Min

\* Induction over the numbers up to n.
LEMMA Induction ==
  ASSUME NEW n \in Nat, NEW S, 0 \in S, \A m \in 1 .. n : m - 1 \in S => m \in S
  PROVE  \A m \in 0 .. n : m \in S
<1> DEFINE rest == (0 .. n) \ S
<1> SUFFICES ASSUME rest # {} PROVE FALSE
  OBVIOUS
<1>1. rest \subseteq Nat
  OBVIOUS
<1>2. PICK m \in rest : \A x \in rest : m <= x
  <2> HIDE DEF rest
  <2> QED
    BY <1>1, Least
<1>3. m \in 0 .. n /\ m \notin S /\ m # 0
  OBVIOUS
<1>4. m \in 1 .. n /\ m - 1 \in 0 .. n /\ ~ (m <= m - 1)
  BY <1>3
<1>5. m - 1 \notin rest
  <2> HIDE DEF rest
  <2> QED
    BY <1>2, <1>4
<1> QED
  BY <1>3, <1>4, <1>5

Digits == 0 .. 9

\* The sums exist: where they last do, one more digit extends them.
LEMMA SumsExist ==
  ASSUME NEW digits \in Seq(Digits)
  PROVE  \E sum \in [0 .. Len(digits) -> Nat] :
           sum[0] = 0 /\ \A n \in 1 .. Len(digits) : sum[n] = 10 * sum[n - 1] + digits[n]
<1> DEFINE SumTo(m, sum) == sum[0] = 0 /\ \A n \in 1 .. m : sum[n] = 10 * sum[n - 1] + digits[n]
           Summed(m) == \E sum \in [0 .. m -> Nat] : SumTo(m, sum)
           S == {m \in 0 .. Len(digits) : Summed(m)}
<1>1. Len(digits) \in Nat /\ \A n \in 1 .. Len(digits) : digits[n] \in Nat
  BY DEF Digits
<1>2. 0 \in S
  <2>1. [n \in 0 .. 0 |-> 0] \in [0 .. 0 -> Nat] /\ SumTo(0, [n \in 0 .. 0 |-> 0])
    OBVIOUS
  <2>2. Summed(0)
    <3> HIDE DEF SumTo
    <3> QED
      BY <2>1
  <2> HIDE DEF Summed
  <2> QED
    BY <1>1, <2>2
<1>3. ASSUME NEW m \in 1 .. Len(digits), m - 1 \in S
      PROVE  m \in S
  <2>1. PICK sum \in [0 .. m - 1 -> Nat] : SumTo(m - 1, sum)
    BY <1>3
  <2> DEFINE longer == [n \in 0 .. m |-> IF n = m THEN 10 * sum[m - 1] + digits[m] ELSE sum[n]]
  <2>2. m \in Nat /\ m - 1 \in 0 .. m - 1
    BY <1>1
  <2>3. longer \in [0 .. m -> Nat]
    BY <1>1, <2>1, <2>2
  <2>4. SumTo(m, longer)
    BY <1>1, <2>1, <2>2
  <2>5. Summed(m)
    <3> HIDE DEF SumTo, longer
    <3> QED
      BY <2>3, <2>4
  <2> HIDE DEF Summed
  <2> QED
    BY <1>1, <2>5
<1>4. \A m \in 0 .. Len(digits) : m \in S
  <2> HIDE DEF S
  <2> QED
    BY <1>1, <1>2, <1>3, Induction
<1>5. Summed(Len(digits))
  <2> HIDE DEF Summed
  <2> QED
    BY <1>1, <1>4
<1> QED
  BY <1>5

LEMMA SumsAre ==
  ASSUME NEW digits \in Seq(Digits)
  PROVE  /\ Sums(digits) \in [0 .. Len(digits) -> Nat]
         /\ Sums(digits)[0] = 0
         /\ \A n \in 1 .. Len(digits) : Sums(digits)[n] = 10 * Sums(digits)[n - 1] + digits[n]
<1> DEFINE Next10(sum) == [n \in 0 .. Len(digits) |-> IF n = 0 THEN 0 ELSE 10 * sum[n - 1] + digits[n]]
<1>1. Sums(digits) = CHOOSE sum : sum = Next10(sum)
  BY DEF Sums
<1>2. \E sum : sum = Next10(sum)
  <2>1. PICK sum \in [0 .. Len(digits) -> Nat] :
          sum[0] = 0 /\ \A n \in 1 .. Len(digits) : sum[n] = 10 * sum[n - 1] + digits[n]
    BY SumsExist
  <2>2. sum = Next10(sum)
    BY <2>1
  <2> QED
    BY <2>2
<1>3. Sums(digits) = Next10(Sums(digits))
  BY <1>1, <1>2
<1> PICK sums : sums = Sums(digits)
  OBVIOUS
<1>8. sums = [n \in 0 .. Len(digits) |-> IF n = 0 THEN 0 ELSE 10 * sums[n - 1] + digits[n]]
  BY <1>3, Zenon
<1>9. Len(digits) \in Nat /\ \A n \in 1 .. Len(digits) : digits[n] \in Nat
  BY DEF Digits
<1>4. /\ sums = [n \in 0 .. Len(digits) |-> IF n = 0 THEN 0 ELSE 10 * sums[n - 1] + digits[n]]
      /\ Len(digits) \in Nat /\ \A n \in 1 .. Len(digits) : digits[n] \in Nat
  BY <1>8, <1>9
<1>5. /\ DOMAIN sums = 0 .. Len(digits)
      /\ \A n \in 0 .. Len(digits) : sums[n] = IF n = 0 THEN 0 ELSE 10 * sums[n - 1] + digits[n]
  BY <1>4
<1>6. \A n \in 0 .. Len(digits) : n \in {m \in 0 .. Len(digits) : sums[m] \in Nat}
  <2> DEFINE S == {m \in 0 .. Len(digits) : sums[m] \in Nat}
  <2>1. 0 \in S
    BY <1>4, <1>5
  <2>2. \A m \in 1 .. Len(digits) : m - 1 \in S => m \in S
    BY <1>4, <1>5
  <2> HIDE DEF S
  <2>3. \A n \in 0 .. Len(digits) : n \in S
    BY <1>4, <2>1, <2>2, Induction
  <2> QED
    BY <2>3 DEF S
<1>7. sums \in [0 .. Len(digits) -> Nat]
  BY <1>4, <1>5, <1>6
<1> QED
  BY <1>4, <1>5, <1>7

\* A number without its first digit is no larger.
LEMMA NumberIs ==
  ASSUME NEW digits \in Seq(Digits)
  PROVE  /\ Number(digits) \in Nat
         /\ digits # <<>> => Number(Tail(digits)) \in Nat /\ Number(Tail(digits)) <= Number(digits)
<1>1. Number(digits) \in Nat
  BY SumsAre DEF Number
<1>2. ASSUME digits # <<>>
      PROVE  Number(Tail(digits)) \in Nat /\ Number(Tail(digits)) <= Number(digits)
  <2> PICK rest : rest = Tail(digits)
    OBVIOUS
  <2>0. rest \in Seq(Digits)
    BY <1>2, HeadTailProperties
  <2>1. /\ Len(rest) \in Nat /\ Len(digits) = Len(rest) + 1
        /\ \A i \in 1 .. Len(rest) : rest[i] = digits[i + 1] /\ rest[i] \in Nat
    BY <1>2, <2>0 DEF Digits
  <2> PICK short : short = Sums(rest)
    OBVIOUS
  <2> PICK long : long = Sums(digits)
    OBVIOUS
  <2>2. /\ short \in [0 .. Len(rest) -> Nat] /\ short[0] = 0
        /\ \A n \in 1 .. Len(rest) : short[n] = 10 * short[n - 1] + rest[n]
    BY <2>0, SumsAre
  <2>3. /\ long \in [0 .. Len(digits) -> Nat] /\ long[0] = 0
        /\ \A n \in 1 .. Len(digits) : long[n] = 10 * long[n - 1] + digits[n]
    BY SumsAre
  <2>4. \A n \in 0 .. Len(rest) : n \in {m \in 0 .. Len(rest) : short[m] <= long[m + 1]}
    <3> DEFINE S == {m \in 0 .. Len(rest) : short[m] <= long[m + 1]}
    <3>1. 0 \in S
      BY <2>1, <2>2, <2>3
    <3>2. ASSUME NEW m \in 1 .. Len(rest), m - 1 \in S
          PROVE  m \in S
      <4>1. m - 1 \in 0 .. Len(rest) /\ m + 1 \in 1 .. Len(digits) /\ (m + 1) - 1 = m /\ (m - 1) + 1 = m
        BY <2>1
      <4>2. short[m - 1] <= long[m]
        BY <3>2, <4>1
      <4>3. short[m] = 10 * short[m - 1] + rest[m]
        BY <2>2
      <4>4. long[m + 1] = 10 * long[m] + rest[m]
        BY <2>1, <2>3, <4>1
      <4>5. short[m - 1] \in Nat /\ long[m] \in Nat /\ rest[m] \in Nat
        <5>1. short[m - 1] \in Nat
          BY <2>2, <4>1
        <5>2. long[m] \in Nat
          <6>1. m \in 0 .. Len(digits)
            BY <2>1
          <6> QED
            BY <2>3, <6>1
        <5> QED
          BY <2>1, <5>1, <5>2
      <4>6. short[m] <= long[m + 1]
        BY <4>2, <4>3, <4>4, <4>5
      <4> QED
        BY <2>1, <4>6
    <3> HIDE DEF S
    <3>3. \A n \in 0 .. Len(rest) : n \in S
      BY <2>1, <3>1, <3>2, Induction
    <3> QED
      BY <3>3 DEF S
  <2>5. Len(rest) \in 0 .. Len(rest)
    BY <2>1
  <2>6. short[Len(rest)] <= long[Len(digits)] /\ short[Len(rest)] \in Nat
    BY <2>1, <2>2, <2>4, <2>5
  <2> QED
    BY <2>6 DEF Number
<1> QED
  BY <1>1, <1>2

\* The sum never falls from one digit to the next.
LEMMA SumsGrow ==
  ASSUME NEW digits \in Seq(Digits), NEW n \in 0 .. Len(digits)
  PROVE  Sums(digits)[n] \in Nat /\ Sums(digits)[n] <= Number(digits)
<1> PICK sums : sums = Sums(digits)
  OBVIOUS
<1> PICK last : last = Len(digits)
  OBVIOUS
<1>1. /\ sums \in [0 .. last -> Nat] /\ sums[0] = 0
      /\ \A m \in 1 .. last : sums[m] = 10 * sums[m - 1] + digits[m]
  BY SumsAre
<1>2. last \in Nat /\ n \in 0 .. last /\ \A m \in 1 .. last : digits[m] \in Nat
  BY DEF Digits
<1> DEFINE S == {m \in 0 .. last : \A k \in 0 .. m : sums[k] <= sums[m]}
<1>3. 0 \in S
  BY <1>1, <1>2
<1>4. ASSUME NEW m \in 1 .. last, m - 1 \in S
      PROVE  m \in S
  <2>1. m - 1 \in 0 .. last /\ m \in 0 .. last /\ \A k \in 0 .. m - 1 : sums[k] <= sums[m - 1]
    BY <1>2, <1>4
  <2>2. sums[m - 1] \in Nat /\ sums[m] \in Nat /\ digits[m] \in Nat
    BY <1>1, <1>2, <2>1
  <2>3. sums[m - 1] <= sums[m]
    <3>1. sums[m] = 10 * sums[m - 1] + digits[m]
      BY <1>1
    <3> QED
      BY <2>2, <3>1
  <2>4. ASSUME NEW k \in 0 .. m
        PROVE  sums[k] <= sums[m]
    <3>1. CASE k = m
      BY <2>2, <3>1
    <3>2. CASE k # m
      <4>1. k \in 0 .. m - 1 /\ k \in 0 .. last
        BY <1>2, <3>2
      <4>2. sums[k] <= sums[m - 1] /\ sums[k] \in Nat
        BY <1>1, <2>1, <4>1
      <4> QED
        BY <2>2, <2>3, <4>2
    <3> QED
      BY <3>1, <3>2
  <2> QED
    BY <2>1, <2>4
<1>5. last \in S
  <2> HIDE DEF S
  <2>1. \A m \in 0 .. last : m \in S
    BY <1>2, <1>3, <1>4, Induction
  <2> QED
    BY <1>2, <2>1
<1>6. sums[n] \in Nat /\ sums[n] <= sums[last]
  BY <1>1, <1>2, <1>5
<1> QED
  BY <1>6 DEF Number

\* What fits into a size_t is not changed by it.
LEMMA SizeKept ==
  ASSUME NEW x \in Nat
  PROVE  x % (SizeMax + 1) \in 0 .. SizeMax /\ (x <= SizeMax => x % (SizeMax + 1) = x)
<1>1. SizeMax \in Nat
  BY RequestAssumption
<1> QED
  BY <1>1

\* The two guards stop exactly the digits that do not fit into a size_t.
LEMMA GuardsExact ==
  ASSUME NEW digits \in Seq(Digits)
  PROVE  (\E n \in DOMAIN digits : ~ DigitFits(Sums(digits)[n - 1], digits[n]))
           <=> Number(digits) > SizeMax
<1> PICK sums : sums = Sums(digits)
  OBVIOUS
<1> PICK last : last = Len(digits)
  OBVIOUS
<1>1. /\ sums \in [0 .. last -> Nat] /\ sums[0] = 0
      /\ \A n \in 1 .. last : sums[n] = 10 * sums[n - 1] + digits[n]
  BY SumsAre
<1>2. /\ last \in Nat /\ SizeMax \in Nat /\ DOMAIN digits = 1 .. last
      /\ \A n \in 1 .. last : digits[n] \in Nat
  BY RequestAssumption DEF Digits
<1>3. ASSUME NEW n \in 1 .. last
      PROVE  DigitFits(sums[n - 1], digits[n]) <=> sums[n] <= SizeMax
  <2>1. n - 1 \in 0 .. last /\ digits[n] \in Nat
    BY <1>2
  <2>2. sums[n - 1] \in Nat
    BY <1>1, <2>1
  <2>3. sums[n] = 10 * sums[n - 1] + digits[n]
    BY <1>1
  <2>4. \A x, d, m \in Nat : x <= m \div 10 /\ 10 * x <= m - d <=> 10 * x + d <= m
    OBVIOUS
  <2> QED
    BY <1>2, <2>1, <2>2, <2>3, <2>4 DEF DigitFits
<1>4. Number(digits) = sums[last] /\ Number(digits) \in Nat
  BY NumberIs DEF Number
<1>5. ASSUME NEW n \in 1 .. last, ~ DigitFits(sums[n - 1], digits[n])
      PROVE  Number(digits) > SizeMax
  <2>1. n \in 0 .. Len(digits)
    BY <1>2
  <2>2. sums[n] \in Nat /\ sums[n] <= Number(digits)
    BY <2>1, SumsGrow
  <2>3. ~ (sums[n] <= SizeMax)
    BY <1>3, <1>5
  <2> QED
    BY <1>2, <1>4, <2>2, <2>3
<1>6. ASSUME Number(digits) > SizeMax
      PROVE  \E n \in 1 .. last : ~ DigitFits(sums[n - 1], digits[n])
  <2>1. last # 0
    BY <1>1, <1>2, <1>4, <1>6
  <2>2. last \in 1 .. last
    BY <1>2, <2>1
  <2>3. ~ (sums[last] <= SizeMax)
    BY <1>2, <1>4, <1>6
  <2> QED
    BY <1>3, <2>2, <2>3
<1> QED
  BY <1>2, <1>5, <1>6

-----------------------------------------------------------------------------
(* The stream of a request.                                                *)

LEMMA RequestTypes ==
  ASSUME NEW r \in Requests
  PROVE  /\ r.fields \in Seq(Fields) /\ r.digits \in Seq(Digits) /\ r.route \in Routes
         /\ r.digits = <<>> => \A i \in 1 .. Len(r.fields) : r.fields[i] # "length"
<1>1. r.fields \in Seq(Fields) /\ r.digits \in Seq(0 .. 9) /\ r.route \in Routes
  BY RequestAssumption
<1>2. (r.digits = <<>>) = ~Contains(r.fields, "length")
  BY RequestAssumption
<1> QED
  BY <1>1, <1>2 DEF Digits, Contains

\* The tokens of the header: a field, then its line end.
LEMMA HeaderTextIs ==
  ASSUME NEW r \in Requests
  PROVE  /\ HeaderText(r) \in Seq(Tokens)
         /\ Len(HeaderText(r)) = 3 * Len(r.fields)
         /\ \A i \in 1 .. 3 * Len(r.fields) :
              /\ i % 3 = 1 => HeaderText(r)[i] = r.fields[(i + 2) \div 3] /\ HeaderText(r)[i] \in Fields
              /\ i % 3 = 2 => HeaderText(r)[i] = "CR"
              /\ i % 3 = 0 => HeaderText(r)[i] = "LF"
<1>1. r.fields \in Seq(Fields) /\ Len(r.fields) \in Nat
  BY RequestTypes
<1>2. \A i \in 1 .. 3 * Len(r.fields) : (i + 2) \div 3 \in 1 .. Len(r.fields)
  BY <1>1
<1>3. \A i \in 1 .. 3 * Len(r.fields) : r.fields[(i + 2) \div 3] \in Fields
  BY <1>1, <1>2
<1> DEFINE text == HeaderText(r)
<1>4. /\ text = [i \in 1 .. 3 * Len(r.fields) |-> text[i]]
      /\ \A i \in 1 .. 3 * Len(r.fields) :
           /\ i % 3 = 1 => text[i] = r.fields[(i + 2) \div 3]
           /\ i % 3 = 2 => text[i] = "CR"
           /\ i % 3 = 0 => text[i] = "LF"
  BY DEF HeaderText
<1> HIDE DEF text
<1>5. \A i \in 1 .. 3 * Len(r.fields) : text[i] \in Tokens
  <2> TAKE i \in 1 .. 3 * Len(r.fields)
  <2>1. i % 3 = 0 \/ i % 3 = 1 \/ i % 3 = 2
    BY <1>1
  <2> QED
    BY <1>3, <1>4, <2>1 DEF Tokens
<1>6. 3 * Len(r.fields) \in Nat
  BY <1>1
<1>7. text \in Seq(Tokens) /\ Len(text) = 3 * Len(r.fields)
  BY <1>4, <1>5, <1>6
<1> QED
  BY <1>3, <1>4, <1>7 DEF text

-----------------------------------------------------------------------------
(* Sequences of tokens.                                                    *)

LEMMA SameTokens ==
  ASSUME NEW s \in Seq(Tokens), NEW t \in Seq(Tokens), Len(s) = Len(t),
         \A i \in 1 .. Len(s) : s[i] = t[i]
  PROVE  s = t
OBVIOUS

LEMMA Joined ==
  ASSUME NEW s \in Seq(Tokens), NEW t \in Seq(Tokens)
  PROVE  /\ s \o t \in Seq(Tokens)
         /\ Len(s \o t) = Len(s) + Len(t)
         /\ \A i \in 1 .. Len(s) : (s \o t)[i] = s[i]
         /\ \A i \in 1 .. Len(t) : (s \o t)[Len(s) + i] = t[i]
OBVIOUS

LEMMA Segment ==
  ASSUME NEW s \in Seq(Tokens), NEW a \in 1 .. Len(s) + 1, NEW b \in a - 1 .. Len(s)
  PROVE  /\ SubSeq(s, a, b) \in Seq(Tokens)
         /\ Len(SubSeq(s, a, b)) = b - a + 1
         /\ \A i \in 1 .. b - a + 1 : SubSeq(s, a, b)[i] = s[a + i - 1]
OBVIOUS

\* Two segments that meet are one.
LEMMA SegmentsMeet ==
  ASSUME NEW s \in Seq(Tokens), NEW a \in 1 .. Len(s) + 1, NEW b \in a - 1 .. Len(s),
         NEW c \in b .. Len(s)
  PROVE  SubSeq(s, a, b) \o SubSeq(s, b + 1, c) = SubSeq(s, a, c)
OBVIOUS

\* A segment of a segment.
LEMMA SegmentOfSegment ==
  ASSUME NEW s \in Seq(Tokens), NEW a \in 1 .. Len(s) + 1, NEW b \in a - 1 .. Len(s),
         NEW i \in 1 .. b - a + 2, NEW j \in i - 1 .. b - a + 1
  PROVE  SubSeq(SubSeq(s, a, b), i, j) = SubSeq(s, a + i - 1, a + j - 1)
<1>1. /\ SubSeq(s, a, b) \in Seq(Tokens) /\ Len(SubSeq(s, a, b)) = b - a + 1
      /\ \A n \in 1 .. b - a + 1 : SubSeq(s, a, b)[n] = s[a + n - 1]
  BY Segment
<1> PICK t \in Seq(Tokens) : t = SubSeq(s, a, b)
  BY <1>1
<1>2. /\ SubSeq(t, i, j) \in Seq(Tokens) /\ Len(SubSeq(t, i, j)) = j - i + 1
      /\ \A n \in 1 .. j - i + 1 : SubSeq(t, i, j)[n] = t[i + n - 1]
  <2>1. i \in 1 .. Len(t) + 1 /\ j \in i - 1 .. Len(t)
    BY <1>1
  <2> QED
    BY <2>1, Segment
<1>3. /\ SubSeq(s, a + i - 1, a + j - 1) \in Seq(Tokens) /\ Len(SubSeq(s, a + i - 1, a + j - 1)) = j - i + 1
      /\ \A n \in 1 .. j - i + 1 : SubSeq(s, a + i - 1, a + j - 1)[n] = s[(a + i - 1) + n - 1]
  <2>1. a + i - 1 \in 1 .. Len(s) + 1 /\ a + j - 1 \in (a + i - 1) - 1 .. Len(s)
    OBVIOUS
  <2>2. (a + j - 1) - (a + i - 1) + 1 = j - i + 1
    OBVIOUS
  <2> QED
    BY <2>1, <2>2, Segment
<1>4. \A n \in 1 .. j - i + 1 : t[i + n - 1] = s[(a + i - 1) + n - 1]
  BY <1>1
<1> QED
  BY <1>2, <1>3, <1>4, SameTokens

\* The position of the last token of the head.
HeadLen(r) == 3 * Len(r.fields) + 9

LEMMA HeadIs ==
  ASSUME NEW r \in Requests
  PROVE  /\ RequestHead(r) \in Seq(Tokens)
         /\ HeadLen(r) \in Nat /\ HeadLen(r) >= 9
         /\ Len(RequestHead(r)) = HeadLen(r)
         /\ SubSeq(RequestHead(r), 1, 5) = Line
         /\ \A i \in 1 .. 5 : RequestHead(r)[i] \notin {"CR", "LF"} \cup Fields
         /\ RequestHead(r)[6] = "CR" /\ RequestHead(r)[7] = "LF"
         /\ \A i \in 1 .. 3 * Len(r.fields) : RequestHead(r)[i + 7] = HeaderText(r)[i]
         /\ RequestHead(r)[HeadLen(r) - 1] = "CR" /\ RequestHead(r)[HeadLen(r)] = "LF"
<1>1. PICK text : text = HeaderText(r)
  OBVIOUS
<1>2. text \in Seq(Tokens) /\ Len(text) = 3 * Len(r.fields) /\ Len(r.fields) \in Nat
  BY <1>1, HeaderTextIs, RequestTypes
<1>3. PICK line : line = Line \o CRLF
  OBVIOUS
<1>4. /\ Line \in Seq(Tokens) /\ Len(Line) = 5
      /\ \A i \in 1 .. 5 : Line[i] \notin {"CR", "LF"} \cup Fields
      /\ CRLF \in Seq(Tokens) /\ Len(CRLF) = 2 /\ CRLF[1] = "CR" /\ CRLF[2] = "LF"
  BY DEF Line, CRLF, Tokens, Fields
<1>5. /\ line \in Seq(Tokens) /\ Len(line) = 7
      /\ \A i \in 1 .. 5 : line[i] = Line[i]
      /\ line[6] = "CR" /\ line[7] = "LF"
  <2>1. /\ line \in Seq(Tokens) /\ Len(line) = Len(Line) + Len(CRLF)
        /\ \A i \in 1 .. Len(Line) : line[i] = Line[i]
        /\ \A i \in 1 .. Len(CRLF) : line[Len(Line) + i] = CRLF[i]
    <3>1. Line \in Seq(Tokens) /\ CRLF \in Seq(Tokens)
      BY <1>4
    <3> QED
      BY <1>3, <3>1, Joined
  <2>2. line[5 + 1] = CRLF[1] /\ line[5 + 2] = CRLF[2]
    BY <1>4, <2>1
  <2> QED
    BY <1>4, <2>1, <2>2
<1>6. PICK open : open = line \o text
  OBVIOUS
<1>7. /\ open \in Seq(Tokens) /\ Len(open) = 7 + Len(text)
      /\ \A i \in 1 .. 7 : open[i] = line[i]
      /\ \A i \in 1 .. Len(text) : open[7 + i] = text[i]
  <2>1. /\ open \in Seq(Tokens) /\ Len(open) = Len(line) + Len(text)
        /\ \A i \in 1 .. Len(line) : open[i] = line[i]
        /\ \A i \in 1 .. Len(text) : open[Len(line) + i] = text[i]
    <3>1. line \in Seq(Tokens) /\ text \in Seq(Tokens)
      BY <1>2, <1>5
    <3> QED
      BY <3>1, <1>6, Joined
  <2> QED
    BY <1>5, <2>1
<1>8. PICK head : head = open \o CRLF
  OBVIOUS
<1>9. /\ head \in Seq(Tokens) /\ Len(head) = Len(open) + 2
      /\ \A i \in 1 .. Len(open) : head[i] = open[i]
      /\ head[Len(open) + 1] = "CR" /\ head[Len(open) + 2] = "LF"
  <2>1. /\ head \in Seq(Tokens) /\ Len(head) = Len(open) + Len(CRLF)
        /\ \A i \in 1 .. Len(open) : head[i] = open[i]
        /\ \A i \in 1 .. Len(CRLF) : head[Len(open) + i] = CRLF[i]
    <3>1. open \in Seq(Tokens) /\ CRLF \in Seq(Tokens)
      BY <1>4, <1>7
    <3> QED
      BY <3>1, <1>8, Joined
  <2> QED
    BY <1>4, <2>1
<1>10. head = RequestHead(r)
  BY <1>1, <1>3, <1>6, <1>8 DEF RequestHead
<1>11. HeadLen(r) = Len(text) + 9 /\ HeadLen(r) - 1 = Len(text) + 8 /\ Len(text) \in Nat
  BY <1>2 DEF HeadLen
<1>12. \A i \in 1 .. 7 : head[i] = line[i]
  <2>1. \A i \in 1 .. 7 : i \in 1 .. Len(open)
    BY <1>7, <1>11
  <2> QED
    BY <1>7, <1>9, <2>1
<1>13. \A i \in 1 .. Len(text) : head[i + 7] = text[i]
  <2>1. \A i \in 1 .. Len(text) : i + 7 \in 1 .. Len(open) /\ i + 7 = 7 + i
    BY <1>7, <1>11
  <2> QED
    BY <1>7, <1>9, <1>11, <2>1
<1>14. head[HeadLen(r) - 1] = "CR" /\ head[HeadLen(r)] = "LF" /\ Len(head) = HeadLen(r)
  <2>1. Len(open) + 1 = HeadLen(r) - 1 /\ Len(open) + 2 = HeadLen(r)
    BY <1>7, <1>11
  <2> QED
    BY <1>9, <2>1
<1>15. \A i \in 1 .. 5 : head[i] = Line[i]
  BY <1>5, <1>12
<1>16. SubSeq(head, 1, 5) = Line
  <2>1. 1 \in 1 .. Len(head) + 1 /\ 5 \in 1 - 1 .. Len(head)
    BY <1>11, <1>14
  <2>2. /\ SubSeq(head, 1, 5) \in Seq(Tokens) /\ Len(SubSeq(head, 1, 5)) = 5
        /\ \A i \in 1 .. 5 : SubSeq(head, 1, 5)[i] = head[i]
    BY <1>9, <2>1, Segment
  <2> QED
    BY <1>4, <1>15, <2>2, SameTokens
<1>17. head[6] = "CR" /\ head[7] = "LF"
  BY <1>5, <1>12
<1>18. \A i \in 1 .. 5 : head[i] \notin {"CR", "LF"} \cup Fields
  BY <1>4, <1>15
<1>19. \A i \in 1 .. 3 * Len(r.fields) : head[i + 7] = HeaderText(r)[i]
  BY <1>1, <1>2, <1>13
<1>20. HeadLen(r) \in Nat /\ HeadLen(r) >= 9
  BY <1>11
<1> QED
  BY <1>9, <1>10, <1>14, <1>16, <1>17, <1>18, <1>19, <1>20

LEMMA Thirds ==
  ASSUME NEW n \in Nat
  PROVE  (3 * n) % 3 = 0 /\ (n # 0 => (3 * n - 1) % 3 = 2)
OBVIOUS

\* The tokens of a request: its head, then its body.
LEMMA StreamIs ==
  ASSUME NEW r \in Requests
  PROVE  /\ Stream(r) \in Seq(Tokens)
         /\ Len(Stream(r)) = HeadLen(r) + Number(r.digits) /\ Number(r.digits) \in Nat
         /\ \A p \in 1 .. HeadLen(r) : Stream(r)[p] = RequestHead(r)[p]
         /\ \A p \in 1 .. Len(Stream(r)) : p > HeadLen(r) => Stream(r)[p] = "body"
<1>1. Number(r.digits) \in Nat
  BY RequestTypes, NumberIs
<1>2. PICK body : body = [i \in 1 .. Number(r.digits) |-> "body"]
  OBVIOUS
<1>3. /\ body \in Seq(Tokens) /\ Len(body) = Number(r.digits)
      /\ \A i \in 1 .. Number(r.digits) : body[i] = "body"
  BY <1>1, <1>2 DEF Tokens
<1>4. PICK head : head = RequestHead(r)
  OBVIOUS
<1>5. head \in Seq(Tokens) /\ Len(head) = HeadLen(r) /\ HeadLen(r) \in Nat
  BY <1>4, HeadIs
<1>6. PICK whole : whole = head \o body
  OBVIOUS
<1>7. /\ whole \in Seq(Tokens) /\ Len(whole) = HeadLen(r) + Number(r.digits)
      /\ \A p \in 1 .. HeadLen(r) : whole[p] = head[p]
      /\ \A i \in 1 .. Number(r.digits) : whole[HeadLen(r) + i] = body[i]
  <2>1. head \in Seq(Tokens) /\ body \in Seq(Tokens)
    BY <1>3, <1>5
  <2>2. /\ whole \in Seq(Tokens) /\ Len(whole) = Len(head) + Len(body)
        /\ \A p \in 1 .. Len(head) : whole[p] = head[p]
        /\ \A i \in 1 .. Len(body) : whole[Len(head) + i] = body[i]
    BY <1>6, <2>1, Joined
  <2> QED
    BY <1>3, <1>5, <2>2
<1>8. \A p \in 1 .. Len(whole) : p > HeadLen(r) => whole[p] = "body"
  <2> TAKE p \in 1 .. Len(whole)
  <2> HAVE p > HeadLen(r)
  <2>1. p - HeadLen(r) \in 1 .. Number(r.digits) /\ p = HeadLen(r) + (p - HeadLen(r))
    BY <1>1, <1>5, <1>7
  <2> QED
    BY <1>3, <1>7, <2>1
<1>9. whole = Stream(r)
  BY <1>2, <1>4, <1>6 DEF Stream
<1> QED
  BY <1>1, <1>4, <1>7, <1>8, <1>9

LineEnd(text, i) == text[i] = "CR" /\ text[i + 1] = "LF"
HeadEnd(text, i) == LineEnd(text, i) /\ LineEnd(text, i + 2)

\* The first line end is that of the request line, and the only empty line is
\* the one that ends the head.
LEMMA LineEnds ==
  ASSUME NEW r \in Requests
  PROVE  /\ LineEnd(Stream(r), 6)
         /\ \A p \in 1 .. Len(Stream(r)) : Stream(r)[p] = "CR" => p >= 6
         /\ HeadEnd(Stream(r), HeadLen(r) - 3)
         /\ \A p \in 1 .. Len(Stream(r)) - 3 : HeadEnd(Stream(r), p) => p = HeadLen(r) - 3
         /\ SubSeq(Stream(r), 1, 5) = Line
         /\ SubSeq(Stream(r), 8, HeadLen(r) - 2) = HeaderText(r)
         /\ \A p \in 1 .. Len(Stream(r)) : Stream(r)[p] = "length" => r.digits # <<>>
<1>1. PICK st : st = Stream(r)
  OBVIOUS
<1>2. PICK fields \in Nat : fields = Len(r.fields)
  BY RequestTypes
<1>3. HeadLen(r) = 3 * fields + 9
  BY <1>2 DEF HeadLen
<1>4. /\ st \in Seq(Tokens) /\ Len(st) \in Nat /\ Len(st) >= 3 * fields + 9
      /\ \A p \in 1 .. 3 * fields + 9 : st[p] = RequestHead(r)[p]
      /\ \A p \in 1 .. Len(st) : p > 3 * fields + 9 => st[p] = "body"
  <2>1. /\ st \in Seq(Tokens) /\ Len(st) = (3 * fields + 9) + Number(r.digits) /\ Number(r.digits) \in Nat
        /\ \A p \in 1 .. 3 * fields + 9 : st[p] = RequestHead(r)[p]
        /\ \A p \in 1 .. Len(st) : p > 3 * fields + 9 => st[p] = "body"
    BY <1>1, <1>3, StreamIs
  <2> QED
    BY <1>2, <2>1
<1>5. /\ \A i \in 1 .. 5 : st[i] \notin {"CR", "LF"} \cup Fields
      /\ st[6] = "CR" /\ st[7] = "LF"
      /\ st[3 * fields + 8] = "CR" /\ st[3 * fields + 9] = "LF"
  <2>1. /\ \A i \in 1 .. 5 : RequestHead(r)[i] \notin {"CR", "LF"} \cup Fields
        /\ RequestHead(r)[6] = "CR" /\ RequestHead(r)[7] = "LF"
        /\ RequestHead(r)[3 * fields + 8] = "CR" /\ RequestHead(r)[3 * fields + 9] = "LF"
    <3>1. HeadLen(r) - 1 = 3 * fields + 8
      BY <1>3
    <3> QED
      BY <1>3, <3>1, HeadIs
  <2>2. /\ \A i \in 1 .. 5 : i \in 1 .. 3 * fields + 9
        /\ {6, 7, 3 * fields + 8, 3 * fields + 9} \subseteq 1 .. 3 * fields + 9
    BY <1>2
  <2>3. /\ \A i \in 1 .. 5 : st[i] = RequestHead(r)[i]
        /\ st[6] = RequestHead(r)[6] /\ st[7] = RequestHead(r)[7]
        /\ st[3 * fields + 8] = RequestHead(r)[3 * fields + 8]
        /\ st[3 * fields + 9] = RequestHead(r)[3 * fields + 9]
    BY <1>4, <2>2
  <2> QED
    BY <2>1, <2>3
<1>6. \A p \in 8 .. 3 * fields + 7 : st[p] = HeaderText(r)[p - 7]
  <2> TAKE p \in 8 .. 3 * fields + 7
  <2>1. p - 7 \in 1 .. 3 * fields /\ (p - 7) + 7 = p
    BY <1>2
  <2>2. RequestHead(r)[(p - 7) + 7] = HeaderText(r)[p - 7]
    BY <1>2, <2>1, HeadIs
  <2> QED
    BY <1>4, <2>1, <2>2
<1>7. \A p \in 8 .. 3 * fields + 7 :
        /\ (p - 7) % 3 = 1 => st[p] \in Fields /\ st[p] = r.fields[(p - 5) \div 3]
        /\ (p - 7) % 3 = 2 => st[p] = "CR"
        /\ (p - 7) % 3 = 0 => st[p] = "LF"
  <2> TAKE p \in 8 .. 3 * fields + 7
  <2>1. p - 7 \in 1 .. 3 * fields /\ (p - 7) + 2 = p - 5
    BY <1>2
  <2> QED
    BY <1>2, <1>6, <2>1, HeaderTextIs
<1>8. \A p \in 1 .. Len(st) :
        \/ p \in 1 .. 5 \/ p = 6 \/ p = 7
        \/ p \in 8 .. 3 * fields + 7 /\ (p - 7) % 3 \in {0, 1, 2}
        \/ p = 3 * fields + 8 \/ p = 3 * fields + 9 \/ p > 3 * fields + 9
  BY <1>4
<1>9. "CR" \notin Fields /\ "LF" \notin Fields
  BY DEF Fields
\* Where a CR and where a LF may be.
<1>10. \A p \in 1 .. Len(st) :
         /\ st[p] = "CR" =>
              \/ p = 6 \/ p = 3 * fields + 8
              \/ p \in 8 .. 3 * fields + 7 /\ (p - 7) % 3 = 2
         /\ st[p] = "LF" =>
              \/ p = 7 \/ p = 3 * fields + 9
              \/ p \in 8 .. 3 * fields + 7 /\ (p - 7) % 3 = 0
  <2>1. \A p \in 1 .. 5 : st[p] # "CR" /\ st[p] # "LF"
    BY <1>5
  <2>2. \A p \in 8 .. 3 * fields + 7 :
          /\ (p - 7) % 3 = 1 => st[p] # "CR" /\ st[p] # "LF"
          /\ (p - 7) % 3 = 2 => st[p] # "LF"
          /\ (p - 7) % 3 = 0 => st[p] # "CR"
    BY <1>7, <1>9
  <2>3. \A p \in 1 .. Len(st) : p > 3 * fields + 9 => st[p] # "CR" /\ st[p] # "LF"
    BY <1>4
  <2>4. st[6] # "LF" /\ st[7] # "CR" /\ st[3 * fields + 8] # "LF" /\ st[3 * fields + 9] # "CR"
    BY <1>5
  <2> QED
    BY <1>8, <2>1, <2>2, <2>3, <2>4
<1>11. \A p \in 1 .. Len(st) : st[p] = "CR" => p >= 6
  BY <1>10
<1>12. \A p \in 1 .. Len(st) - 3 : HeadEnd(st, p) => p = 3 * fields + 6
  <2> TAKE p \in 1 .. Len(st) - 3
  <2> HAVE HeadEnd(st, p)
  <2>1. /\ p \in 1 .. Len(st) /\ p + 2 \in 1 .. Len(st)
        /\ st[p] = "CR" /\ st[p + 2] = "CR"
    BY <1>4 DEF HeadEnd, LineEnd
  <2>2. \/ p = 6 \/ p = 3 * fields + 8
        \/ p \in 8 .. 3 * fields + 7 /\ (p - 7) % 3 = 2
    BY <1>10, <2>1
  <2>3. \/ p + 2 = 6 \/ p + 2 = 3 * fields + 8
        \/ p + 2 \in 8 .. 3 * fields + 7 /\ ((p + 2) - 7) % 3 = 2
    BY <1>10, <2>1
  <2> QED
    BY <1>2, <2>1, <2>2, <2>3
<1>13. HeadEnd(st, 3 * fields + 6)
  <2>1. fields = 0 => st[3 * fields + 6] = "CR" /\ st[3 * fields + 7] = "LF"
    BY <1>5
  <2>2. ASSUME fields # 0
        PROVE  st[3 * fields + 6] = "CR" /\ st[3 * fields + 7] = "LF"
    <3>1. /\ 3 * fields + 6 \in 8 .. 3 * fields + 7 /\ ((3 * fields + 6) - 7) % 3 = 2
          /\ 3 * fields + 7 \in 8 .. 3 * fields + 7 /\ ((3 * fields + 7) - 7) % 3 = 0
      <4>1. fields \in Nat \ {0}
        BY <1>2, <2>2
      <4>2. (3 * fields + 6) - 7 = 3 * fields - 1 /\ (3 * fields + 7) - 7 = 3 * fields
        BY <4>1
      <4>3. (3 * fields - 1) % 3 = 2 /\ (3 * fields) % 3 = 0
        BY <4>1, Thirds
      <4>4. 3 * fields + 6 \in 8 .. 3 * fields + 7 /\ 3 * fields + 7 \in 8 .. 3 * fields + 7
        BY <4>1
      <4> QED
        BY <4>2, <4>3, <4>4
    <3> QED
      BY <1>7, <3>1
  <2>3. (3 * fields + 6) + 1 = 3 * fields + 7 /\ (3 * fields + 6) + 2 = 3 * fields + 8
        /\ (3 * fields + 8) + 1 = 3 * fields + 9
    BY <1>2
  <2> QED
    BY <1>5, <2>1, <2>2, <2>3 DEF HeadEnd, LineEnd
<1>14. SubSeq(st, 1, 5) = Line
  <2>1. \A i \in 1 .. 5 : st[i] = RequestHead(r)[i]
    BY <1>4
  <2>2. /\ SubSeq(st, 1, 5) \in Seq(Tokens) /\ Len(SubSeq(st, 1, 5)) = 5
        /\ \A i \in 1 .. 5 : SubSeq(st, 1, 5)[i] = st[i]
    <3>1. 1 \in 1 .. Len(st) + 1 /\ 5 \in 1 - 1 .. Len(st)
      BY <1>4
    <3> QED
      BY <1>4, <3>1, Segment
  <2>3. PICK head : head = RequestHead(r)
    OBVIOUS
  <2>4. /\ SubSeq(head, 1, 5) \in Seq(Tokens) /\ Len(SubSeq(head, 1, 5)) = 5
        /\ \A i \in 1 .. 5 : SubSeq(head, 1, 5)[i] = head[i]
    <3>1. head \in Seq(Tokens) /\ Len(head) \in Nat /\ Len(head) >= 9
      BY <2>3, HeadIs
    <3>2. 1 \in 1 .. Len(head) + 1 /\ 5 \in 1 - 1 .. Len(head)
      BY <3>1
    <3> QED
      BY <3>1, <3>2, Segment
  <2>5. SubSeq(st, 1, 5) = SubSeq(head, 1, 5)
    BY <2>1, <2>2, <2>3, <2>4, SameTokens
  <2> QED
    BY <2>3, <2>5, HeadIs
<1>15. SubSeq(st, 8, 3 * fields + 7) = HeaderText(r)
  <2>1. /\ SubSeq(st, 8, 3 * fields + 7) \in Seq(Tokens) /\ Len(SubSeq(st, 8, 3 * fields + 7)) = 3 * fields
        /\ \A i \in 1 .. 3 * fields : SubSeq(st, 8, 3 * fields + 7)[i] = st[8 + i - 1]
    <3>1. 8 \in 1 .. Len(st) + 1 /\ 3 * fields + 7 \in 8 - 1 .. Len(st) /\ (3 * fields + 7) - 8 + 1 = 3 * fields
      BY <1>2, <1>4
    <3> QED
      BY <1>4, <3>1, Segment
  <2>2. HeaderText(r) \in Seq(Tokens) /\ Len(HeaderText(r)) = 3 * fields
    BY <1>2, HeaderTextIs
  <2>3. \A i \in 1 .. 3 * fields : 8 + i - 1 \in 8 .. 3 * fields + 7 /\ (8 + i - 1) - 7 = i
    BY <1>2
  <2>4. \A i \in 1 .. 3 * fields : SubSeq(st, 8, 3 * fields + 7)[i] = HeaderText(r)[i]
    BY <1>6, <2>1, <2>3
  <2> QED
    BY <2>1, <2>2, <2>4, SameTokens
<1>16. ASSUME NEW p \in 1 .. Len(st), st[p] = "length"
       PROVE  r.digits # <<>>
  <2>1. p \in 8 .. 3 * fields + 7 /\ (p - 7) % 3 = 1
    BY <1>5, <1>4, <1>7, <1>8, <1>16 DEF Fields
  <2>2. (p - 5) \div 3 \in 1 .. fields
    BY <1>2, <2>1
  <2>3. r.fields[(p - 5) \div 3] = "length"
    BY <1>7, <1>16, <2>1
  <2> QED
    BY <1>2, <2>2, <2>3, RequestTypes
<1>17. HeadLen(r) - 3 = 3 * fields + 6 /\ HeadLen(r) - 2 = 3 * fields + 7
  BY <1>2, <1>3
<1> QED
  BY <1>1, <1>5, <1>11, <1>12, <1>13, <1>14, <1>15, <1>16, <1>17 DEF LineEnd

-----------------------------------------------------------------------------
(* Finding a line end, and the empty line.                                 *)

Occurrences(pattern, text) ==
  {i \in 1 .. Len(text) - Len(pattern) + 1 : SubSeq(text, i, i + Len(pattern) - 1) = pattern}

\* string::find returns the first occurrence, 0 (npos) when there is none.
LEMMA FindIs ==
  ASSUME NEW pattern, NEW text, NEW found, found \subseteq Nat \ {0},
         found = Occurrences(pattern, text)
  PROVE  /\ Find(pattern, text) \in Nat
         /\ Find(pattern, text) # 0 => Find(pattern, text) \in found
         /\ \A i \in found : Find(pattern, text) # 0 /\ Find(pattern, text) <= i
<1>1. Find(pattern, text) = IF found = {} THEN 0 ELSE Min(found)
  BY DEF Find, Occurrences
<1>2. CASE found = {}
  <2>1. Find(pattern, text) = 0
    BY <1>1, <1>2, Zenon
  <2>2. \A i \in found : FALSE
    BY <1>2, Zenon
  <2>3. 0 \in Nat
    OBVIOUS
  <2>4. Find(pattern, text) \in Nat
    BY <2>1, <2>3, Zenon
  <2> QED
    BY <2>1, <2>2, <2>4, Zenon
<1>3. CASE found # {}
  <2>1. found \subseteq Nat
    OBVIOUS
  <2>2. Min(found) \in found /\ \A i \in found : Min(found) <= i
    BY <1>3, <2>1, Least
  <2>3. Find(pattern, text) = Min(found)
    BY <1>1, <1>3
  <2>4. PICK least : least = Min(found)
    OBVIOUS
  <2>5. Find(pattern, text) = least /\ least \in found /\ \A i \in found : least <= i
    BY <2>2, <2>3, <2>4
  <2>6. least \in Nat /\ least # 0
    BY <2>5
  <2> QED
    BY <2>5, <2>6
<1> QED
  BY <1>2, <1>3

LEMMA FindLineEnd ==
  ASSUME NEW text \in Seq(Tokens)
  PROVE  /\ Find(CRLF, text) \in Nat
         /\ Find(CRLF, text) # 0 =>
              Find(CRLF, text) \in 1 .. Len(text) - 1 /\ LineEnd(text, Find(CRLF, text))
         /\ \A i \in 1 .. Len(text) - 1 :
              LineEnd(text, i) => Find(CRLF, text) # 0 /\ Find(CRLF, text) <= i
<1>1. CRLF \in Seq(Tokens) /\ Len(CRLF) = 2 /\ CRLF[1] = "CR" /\ CRLF[2] = "LF"
  BY DEF CRLF, Tokens
<1>2. ASSUME NEW i \in 1 .. Len(text) - 1
      PROVE  SubSeq(text, i, i + 1) = CRLF <=> LineEnd(text, i)
  <2>1. i \in 1 .. Len(text) + 1 /\ i + 1 \in i - 1 .. Len(text) /\ (i + 1) - i + 1 = 2
        /\ i + 1 - 1 = i /\ i + 2 - 1 = i + 1
    OBVIOUS
  <2>2. PICK part : part = SubSeq(text, i, i + 1)
    OBVIOUS
  <2>3. part \in Seq(Tokens) /\ Len(part) = 2 /\ part[1] = text[i] /\ part[2] = text[i + 1]
    <3>1. /\ part \in Seq(Tokens) /\ Len(part) = 2
          /\ \A n \in 1 .. 2 : part[n] = text[i + n - 1]
      BY <2>1, <2>2, Segment
    <3> QED
      BY <2>1, <3>1
  <2>4. part = CRLF <=> part[1] = "CR" /\ part[2] = "LF"
    <3>1. \A n \in 1 .. 2 : n = 1 \/ n = 2
      OBVIOUS
    <3> QED
      BY <1>1, <2>3, <3>1, SameTokens
  <2> QED
    BY <2>2, <2>3, <2>4 DEF LineEnd
<1>3. PICK found : found = {i \in 1 .. Len(text) - 1 : LineEnd(text, i)}
  OBVIOUS
<1>4. found = Occurrences(CRLF, text)
  <2>1. Len(text) - Len(CRLF) + 1 = Len(text) - 1 /\ \A i \in 1 .. Len(text) - 1 : i + Len(CRLF) - 1 = i + 1
    BY <1>1
  <2> QED
    BY <1>2, <1>3, <2>1 DEF Occurrences
<1>5. found \subseteq Nat \ {0}
  BY <1>3
<1>6. /\ Find(CRLF, text) \in Nat
      /\ Find(CRLF, text) # 0 => Find(CRLF, text) \in found
      /\ \A i \in found : Find(CRLF, text) # 0 /\ Find(CRLF, text) <= i
  BY <1>4, <1>5, FindIs, Zenon
<1> QED
  BY <1>3, <1>6

LEMMA FindHeadEnd ==
  ASSUME NEW text \in Seq(Tokens)
  PROVE  /\ Find(HeaderEnd, text) \in Nat
         /\ Find(HeaderEnd, text) # 0 =>
              Find(HeaderEnd, text) \in 1 .. Len(text) - 3 /\ HeadEnd(text, Find(HeaderEnd, text))
         /\ \A i \in 1 .. Len(text) - 3 :
              HeadEnd(text, i) => Find(HeaderEnd, text) # 0 /\ Find(HeaderEnd, text) <= i
<1>1. /\ HeaderEnd \in Seq(Tokens) /\ Len(HeaderEnd) = 4
      /\ HeaderEnd[1] = "CR" /\ HeaderEnd[2] = "LF" /\ HeaderEnd[3] = "CR" /\ HeaderEnd[4] = "LF"
  BY DEF HeaderEnd, CRLF, Tokens
<1>2. ASSUME NEW i \in 1 .. Len(text) - 3
      PROVE  SubSeq(text, i, i + 3) = HeaderEnd <=> HeadEnd(text, i)
  <2>1. i \in 1 .. Len(text) + 1 /\ i + 3 \in i - 1 .. Len(text) /\ (i + 3) - i + 1 = 4
        /\ i + 1 - 1 = i /\ i + 2 - 1 = i + 1 /\ i + 3 - 1 = i + 2 /\ i + 4 - 1 = i + 3 /\ (i + 2) + 1 = i + 3
    OBVIOUS
  <2>2. PICK part : part = SubSeq(text, i, i + 3)
    OBVIOUS
  <2>3. /\ part \in Seq(Tokens) /\ Len(part) = 4
        /\ part[1] = text[i] /\ part[2] = text[i + 1] /\ part[3] = text[i + 2] /\ part[4] = text[i + 3]
    <3>1. /\ part \in Seq(Tokens) /\ Len(part) = 4
          /\ \A n \in 1 .. 4 : part[n] = text[i + n - 1]
      BY <2>1, <2>2, Segment
    <3> QED
      BY <2>1, <3>1
  <2>4. part = HeaderEnd <=> part[1] = "CR" /\ part[2] = "LF" /\ part[3] = "CR" /\ part[4] = "LF"
    <3>1. ASSUME part[1] = "CR", part[2] = "LF", part[3] = "CR", part[4] = "LF"
          PROVE  part = HeaderEnd
      <4>1. \A n \in 1 .. 4 : n = 1 \/ n = 2 \/ n = 3 \/ n = 4
        OBVIOUS
      <4>2. \A n \in 1 .. 4 : part[n] = HeaderEnd[n]
        BY <1>1, <3>1, <4>1
      <4> QED
        BY <1>1, <2>3, <4>2, SameTokens
    <3> QED
      BY <1>1, <3>1
  <2> QED
    BY <2>1, <2>2, <2>3, <2>4 DEF HeadEnd, LineEnd
<1>3. PICK found : found = {i \in 1 .. Len(text) - 3 : HeadEnd(text, i)}
  OBVIOUS
<1>4. found = Occurrences(HeaderEnd, text)
  <2>1. Len(text) - Len(HeaderEnd) + 1 = Len(text) - 3
        /\ \A i \in 1 .. Len(text) - 3 : i + Len(HeaderEnd) - 1 = i + 3
    BY <1>1
  <2> QED
    BY <1>2, <1>3, <2>1 DEF Occurrences
<1>5. found \subseteq Nat \ {0}
  BY <1>3
<1>6. /\ Find(HeaderEnd, text) \in Nat
      /\ Find(HeaderEnd, text) # 0 => Find(HeaderEnd, text) \in found
      /\ \A i \in found : Find(HeaderEnd, text) # 0 /\ Find(HeaderEnd, text) <= i
  BY <1>4, <1>5, FindIs, Zenon
<1> QED
  BY <1>3, <1>6

\* What the search needs to know of a stream and of where its head ends.
Shaped(st, end) ==
  /\ st \in Seq(Tokens) /\ end \in Nat /\ end >= 9 /\ Len(st) >= end
  /\ LineEnd(st, 6)
  /\ \A p \in 1 .. Len(st) : st[p] = "CR" => p >= 6
  /\ HeadEnd(st, end - 3)
  /\ \A p \in 1 .. Len(st) - 3 : HeadEnd(st, p) => p = end - 3

LEMMA StreamIsShaped ==
  ASSUME NEW r \in Requests
  PROVE  Shaped(Stream(r), HeadLen(r))
<1>1. Stream(r) \in Seq(Tokens) /\ HeadLen(r) \in Nat /\ HeadLen(r) >= 9 /\ Len(Stream(r)) >= HeadLen(r)
  <2>1. /\ Stream(r) \in Seq(Tokens) /\ HeadLen(r) \in Nat /\ HeadLen(r) >= 9
        /\ Len(Stream(r)) = HeadLen(r) + Number(r.digits) /\ Number(r.digits) \in Nat
    BY StreamIs, HeadIs
  <2> QED
    BY <2>1
<1>2. /\ LineEnd(Stream(r), 6)
      /\ \A p \in 1 .. Len(Stream(r)) : Stream(r)[p] = "CR" => p >= 6
      /\ HeadEnd(Stream(r), HeadLen(r) - 3)
      /\ \A p \in 1 .. Len(Stream(r)) - 3 : HeadEnd(Stream(r), p) => p = HeadLen(r) - 3
  BY LineEnds
<1> QED
  BY <1>1, <1>2 DEF Shaped

\* In a segment of the stream a line end is found where the stream has one.
LEMMA LineEndInSegment ==
  ASSUME NEW st, NEW end, Shaped(st, end),
         NEW a \in 1 .. Len(st) + 1, NEW b \in a - 1 .. Len(st)
  PROVE  /\ Find(CRLF, SubSeq(st, a, b)) \in Nat
         /\ Find(CRLF, SubSeq(st, a, b)) # 0 =>
              Find(CRLF, SubSeq(st, a, b)) \in 7 - a .. b - a
         /\ a <= 6 /\ 7 <= b => Find(CRLF, SubSeq(st, a, b)) = 7 - a
<1>1. /\ st \in Seq(Tokens) /\ Len(st) \in Nat
      /\ st[6] = "CR" /\ st[7] = "LF"
      /\ \A p \in 1 .. Len(st) : st[p] = "CR" => p >= 6
  BY DEF Shaped, LineEnd
<1>2. PICK text : text = SubSeq(st, a, b)
  OBVIOUS
<1>3. /\ text \in Seq(Tokens) /\ Len(text) = b - a + 1
      /\ \A n \in 1 .. b - a + 1 : text[n] = st[a + n - 1]
  BY <1>1, <1>2, Segment
<1>4. PICK i : i = Find(CRLF, text)
  OBVIOUS
<1>5. /\ i \in Nat
      /\ i # 0 => i \in 1 .. Len(text) - 1 /\ LineEnd(text, i)
      /\ \A n \in 1 .. Len(text) - 1 : LineEnd(text, n) => i # 0 /\ i <= n
  BY <1>3, <1>4, FindLineEnd
<1>6. ASSUME i # 0
      PROVE  i \in 7 - a .. b - a
  <2>1. i \in 1 .. b - a /\ i \in 1 .. b - a + 1 /\ text[i] = "CR"
    BY <1>3, <1>5, <1>6 DEF LineEnd
  <2>2. st[a + i - 1] = "CR" /\ a + i - 1 \in 1 .. Len(st)
    BY <1>1, <1>3, <2>1
  <2>3. a + i - 1 >= 6
    BY <1>1, <2>2
  <2> QED
    BY <2>1, <2>3
<1>7. ASSUME a <= 6, 7 <= b
      PROVE  i = 7 - a
  <2>1. /\ 7 - a \in 1 .. b - a + 1 /\ (7 - a) + 1 \in 1 .. b - a + 1
        /\ a + (7 - a) - 1 = 6 /\ a + ((7 - a) + 1) - 1 = 7
        /\ 7 - a \in 1 .. Len(text) - 1
    BY <1>3, <1>7
  <2>2. text[7 - a] = "CR" /\ text[(7 - a) + 1] = "LF"
    BY <1>1, <1>3, <2>1
  <2>3. i # 0 /\ i <= 7 - a
    BY <1>5, <2>1, <2>2 DEF LineEnd
  <2> QED
    BY <1>5, <1>6, <2>3
<1> QED
  BY <1>2, <1>4, <1>5, <1>6, <1>7

\* And the empty line is found when all of it is in the segment.
LEMMA HeadEndInSegment ==
  ASSUME NEW st, NEW end, Shaped(st, end),
         NEW a \in 1 .. Len(st) + 1, NEW b \in a - 1 .. Len(st)
  PROVE  /\ Find(HeaderEnd, SubSeq(st, a, b)) \in Nat
         /\ Find(HeaderEnd, SubSeq(st, a, b)) # 0 =>
              /\ Find(HeaderEnd, SubSeq(st, a, b)) = (end - 3) - (a - 1)
              /\ a <= end - 3 /\ end <= b
         /\ a <= end - 3 /\ end <= b => Find(HeaderEnd, SubSeq(st, a, b)) # 0
<1>1. /\ st \in Seq(Tokens) /\ Len(st) \in Nat /\ end \in Nat /\ end >= 9 /\ end <= Len(st)
      /\ HeadEnd(st, end - 3)
      /\ \A p \in 1 .. Len(st) - 3 : HeadEnd(st, p) => p = end - 3
  BY DEF Shaped
<1>2. PICK text : text = SubSeq(st, a, b)
  OBVIOUS
<1>3. /\ text \in Seq(Tokens) /\ Len(text) = b - a + 1
      /\ \A n \in 1 .. b - a + 1 : text[n] = st[a + n - 1]
  BY <1>1, <1>2, Segment
<1>4. PICK i : i = Find(HeaderEnd, text)
  OBVIOUS
<1>5. /\ i \in Nat
      /\ i # 0 => i \in 1 .. Len(text) - 3 /\ HeadEnd(text, i)
      /\ \A n \in 1 .. Len(text) - 3 : HeadEnd(text, n) => i # 0 /\ i <= n
  BY <1>3, <1>4, FindHeadEnd
<1>6. ASSUME NEW n \in 1 .. b - a - 2
      PROVE  HeadEnd(text, n) <=> HeadEnd(st, a + n - 1)
  <2>1. /\ n \in 1 .. b - a + 1 /\ n + 1 \in 1 .. b - a + 1
        /\ n + 2 \in 1 .. b - a + 1 /\ (n + 2) + 1 \in 1 .. b - a + 1
        /\ a + (n + 1) - 1 = (a + n - 1) + 1 /\ a + (n + 2) - 1 = (a + n - 1) + 2
        /\ a + ((n + 2) + 1) - 1 = ((a + n - 1) + 2) + 1
    OBVIOUS
  <2>2. /\ text[n] = st[a + n - 1] /\ text[n + 1] = st[(a + n - 1) + 1]
        /\ text[n + 2] = st[(a + n - 1) + 2] /\ text[(n + 2) + 1] = st[((a + n - 1) + 2) + 1]
    BY <1>3, <2>1
  <2> QED
    BY <2>2 DEF HeadEnd, LineEnd
<1>7. ASSUME i # 0
      PROVE  i = (end - 3) - (a - 1) /\ a <= end - 3 /\ end <= b
  <2>1. i \in 1 .. b - a - 2 /\ HeadEnd(text, i)
    BY <1>3, <1>5, <1>7
  <2>2. HeadEnd(st, a + i - 1) /\ a + i - 1 \in 1 .. Len(st) - 3
    BY <1>1, <1>6, <2>1
  <2>3. a + i - 1 = end - 3
    BY <1>1, <2>2
  <2> QED
    BY <1>1, <2>1, <2>3
<1>8. ASSUME a <= end - 3, end <= b
      PROVE  i # 0
  <2>1. PICK n : n = (end - 3) - (a - 1)
    OBVIOUS
  <2>2. n \in 1 .. b - a - 2 /\ a + n - 1 = end - 3 /\ n \in 1 .. Len(text) - 3
    BY <1>1, <1>3, <1>8, <2>1
  <2>3. HeadEnd(text, n)
    BY <1>1, <1>6, <2>2
  <2> QED
    BY <1>5, <2>2, <2>3
<1> QED
  BY <1>2, <1>4, <1>5, <1>7, <1>8

-----------------------------------------------------------------------------
(* What one read does.                                                     *)

\* The header is a segment from h to the byte before q, and the bytes q to p
\* come: it grows to p, or it ends with the line end before the empty line.
LEMMA HeaderStageSeen ==
  ASSUME NEW st, NEW end, Shaped(st, end),
         NEW h \in Nat \ {0}, NEW q \in h .. Len(st) + 1, NEW p \in q - 1 .. Len(st),
         requestHeader = SubSeq(st, h, q - 1),
         HeaderStage(SubSeq(st, q, p))
  PROVE  \/ /\ requestHeader' = SubSeq(st, h, p)
            /\ h <= end - 3 => p < end
            /\ parseStatus' = "Header"
            /\ ReadNext
         \/ /\ requestHeader' = SubSeq(st, h, end - 2)
            /\ q <= end - 3 /\ end <= p
            /\ FinishHeader(requestHeader')
         \/ /\ requestHeader' = SubSeq(st, h, p)
            /\ q > end - 3 /\ h <= end - 3 /\ end <= p
            /\ FinishHeader(requestHeader')
<1>1. /\ st \in Seq(Tokens) /\ Len(st) \in Nat /\ end \in Nat /\ end >= 9 /\ end <= Len(st)
      /\ h \in 1 .. Len(st) + 1 /\ q \in 1 .. Len(st) + 1
      /\ q - 1 \in h - 1 .. Len(st) /\ p \in q - 1 .. Len(st) /\ p \in h - 1 .. Len(st)
  BY DEF Shaped
<1>2. PICK sv : sv = SubSeq(st, q, p)
  OBVIOUS
<1>3. HeaderStage(sv)
  BY <1>2
<1>4. PICK i : i = Find(HeaderEnd, sv)
  OBVIOUS
<1>5. /\ i \in Nat
      /\ i # 0 => i = (end - 3) - (q - 1) /\ q <= end - 3 /\ end <= p
      /\ q <= end - 3 /\ end <= p => i # 0
  <2>1. /\ Find(HeaderEnd, SubSeq(st, q, p)) \in Nat
        /\ Find(HeaderEnd, SubSeq(st, q, p)) # 0 =>
             /\ Find(HeaderEnd, SubSeq(st, q, p)) = (end - 3) - (q - 1)
             /\ q <= end - 3 /\ end <= p
        /\ q <= end - 3 /\ end <= p => Find(HeaderEnd, SubSeq(st, q, p)) # 0
    BY <1>1, HeadEndInSegment
  <2> QED
    BY <1>2, <1>4, <2>1
<1>6. requestHeader \o sv = SubSeq(st, h, p)
  <2>1. SubSeq(st, h, q - 1) \o SubSeq(st, (q - 1) + 1, p) = SubSeq(st, h, p)
    BY <1>1, SegmentsMeet
  <2>2. (q - 1) + 1 = q
    BY <1>1
  <2> QED
    BY <1>2, <2>1, <2>2
<1>7. CASE i # 0
  <2>1. requestHeader' = requestHeader \o Upto(sv, i + 1) /\ FinishHeader(requestHeader')
    BY <1>3, <1>4, <1>7 DEF HeaderStage
  <2>2. i = (end - 3) - (q - 1) /\ q <= end - 3 /\ end <= p
    BY <1>5, <1>7
  <2>3. Upto(sv, i + 1) = SubSeq(st, q, end - 2)
    <3>1. /\ 1 \in 1 .. p - q + 2 /\ i + 1 \in 1 - 1 .. p - q + 1
          /\ q + 1 - 1 = q /\ q + (i + 1) - 1 = end - 2
      BY <1>1, <2>2
    <3>2. SubSeq(SubSeq(st, q, p), 1, i + 1) = SubSeq(st, q + 1 - 1, q + (i + 1) - 1)
      BY <1>1, <3>1, SegmentOfSegment
    <3> QED
      BY <1>2, <3>1, <3>2 DEF Upto
  <2>4. SubSeq(st, h, q - 1) \o SubSeq(st, (q - 1) + 1, end - 2) = SubSeq(st, h, end - 2)
    <3>1. end - 2 \in q - 1 .. Len(st)
      BY <1>1, <2>2
    <3> QED
      BY <1>1, <3>1, SegmentsMeet
  <2>5. (q - 1) + 1 = q
    BY <1>1
  <2>6. requestHeader' = SubSeq(st, h, end - 2)
    BY <2>1, <2>3, <2>4, <2>5
  <2> QED
    BY <2>1, <2>2, <2>6
<1>8. CASE i = 0
  <2>1. /\ requestHeader' = requestHeader \o sv
        /\ \/ Find(HeaderEnd, requestHeader') = 0 /\ parseStatus' = "Header" /\ ReadNext
           \/ Find(HeaderEnd, requestHeader') # 0 /\ FinishHeader(requestHeader')
    BY <1>3, <1>4, <1>8 DEF HeaderStage
  <2>2. requestHeader' = SubSeq(st, h, p)
    BY <1>6, <2>1
  <2>3. /\ Find(HeaderEnd, requestHeader') # 0 => h <= end - 3 /\ end <= p
        /\ h <= end - 3 /\ end <= p => Find(HeaderEnd, requestHeader') # 0
    <3>1. /\ Find(HeaderEnd, SubSeq(st, h, p)) # 0 => h <= end - 3 /\ end <= p
          /\ h <= end - 3 /\ end <= p => Find(HeaderEnd, SubSeq(st, h, p)) # 0
      BY <1>1, HeadEndInSegment
    <3> QED
      BY <2>2, <3>1
  <2>4. ~ (q <= end - 3 /\ end <= p)
    BY <1>5, <1>8
  <2>5. CASE Find(HeaderEnd, requestHeader') = 0
    <3>1. h <= end - 3 => p < end
      BY <1>1, <2>3, <2>5
    <3> QED
      BY <2>1, <2>2, <2>5, <3>1
  <2>6. CASE Find(HeaderEnd, requestHeader') # 0
    <3>1. h <= end - 3 /\ end <= p /\ q > end - 3
      BY <1>1, <2>3, <2>4, <2>6
    <3> QED
      BY <2>1, <2>2, <2>6, <3>1
  <2> QED
    BY <2>5, <2>6
<1> QED
  BY <1>7, <1>8

\* The request line gets the bytes a to p: it goes on, it is not one, or what
\* is left of the piece is header.
LEMMA LineStageSeen ==
  ASSUME NEW st \in Seq(Tokens), NEW a \in 1 .. Len(st) + 1, NEW p \in a - 1 .. Len(st),
         requestLine \in Seq(Tokens),
         LineStage(SubSeq(st, a, p))
  PROVE  /\ requestLine' \in Seq(Tokens)
         /\ \/ ReadNext /\ UNCHANGED <<parseStatus, requestHeader>>
            \/ Terminates /\ UNCHANGED <<parseStatus, requestHeader, expectedBodySize>>
            \/ \E q \in a .. p + 1 : HeaderStage(SubSeq(st, q, p))
<1>1. PICK sv : sv = SubSeq(st, a, p)
  OBVIOUS
<1>2. sv \in Seq(Tokens) /\ Len(sv) = p - a + 1
  BY <1>1, Segment
<1>3. PICK i : i = Find(CRLF, sv)
  OBVIOUS
<1>4. i \in Nat /\ (i # 0 => i \in 1 .. Len(sv) - 1)
  BY <1>2, <1>3, FindLineEnd
<1>5. LineStage(sv)
  BY <1>1
<1>6. CASE i # 0
  <2>1. /\ requestLine' = requestLine \o Before(sv, i)
        /\ \/ ReadNext /\ UNCHANGED <<parseStatus, requestHeader>>
           \/ i + 2 <= Len(sv) /\ FinishLine(requestLine', From(sv, i + 2))
    BY <1>3, <1>5, <1>6 DEF LineStage
  <2>2. Before(sv, i) \in Seq(Tokens)
    <3>1. 1 \in 1 .. Len(sv) + 1 /\ i - 1 \in 1 - 1 .. Len(sv)
      BY <1>2, <1>4, <1>6
    <3> QED
      BY <1>2, <3>1, Segment DEF Before, Upto
  <2>3. requestLine' \in Seq(Tokens)
    <3>1. requestLine \o Before(sv, i) \in Seq(Tokens)
      BY <2>2, Joined
    <3> QED
      BY <2>1, <3>1
  <2>4. ASSUME i + 2 <= Len(sv)
        PROVE  a + i + 1 \in a .. p + 1 /\ From(sv, i + 2) = SubSeq(st, a + i + 1, p)
    <3>1. /\ a + i + 1 \in a .. p + 1
          /\ i + 2 \in 1 .. p - a + 2 /\ Len(sv) \in (i + 2) - 1 .. p - a + 1
          /\ a + (i + 2) - 1 = a + i + 1 /\ a + Len(sv) - 1 = p
      BY <1>2, <1>4, <1>6, <2>4
    <3>2. SubSeq(SubSeq(st, a, p), i + 2, Len(sv)) = SubSeq(st, a + (i + 2) - 1, a + Len(sv) - 1)
      BY <3>1, SegmentOfSegment
    <3> QED
      BY <1>1, <3>1, <3>2 DEF From
  <2>5. ASSUME i + 2 <= Len(sv), FinishLine(requestLine', From(sv, i + 2))
        PROVE  \/ Terminates /\ UNCHANGED <<parseStatus, requestHeader, expectedBodySize>>
               \/ \E q \in a .. p + 1 : HeaderStage(SubSeq(st, q, p))
    <3>1. \/ Terminates /\ UNCHANGED <<parseStatus, requestHeader, expectedBodySize>>
          \/ HeaderStage(From(sv, i + 2))
      BY <2>5 DEF FinishLine
    <3> QED
      BY <2>4, <2>5, <3>1
  <2> QED
    BY <2>1, <2>3, <2>5
<1>7. CASE i = 0
  <2>1. /\ requestLine' = requestLine \o sv
        /\ \/ ReadNext /\ UNCHANGED <<parseStatus, requestHeader>>
           \/ FinishLine(requestLine', sv)
    BY <1>3, <1>5, <1>7 DEF LineStage
  <2>2. requestLine' \in Seq(Tokens)
    <3>1. requestLine \o sv \in Seq(Tokens)
      BY <1>2, Joined
    <3> QED
      BY <2>1, <3>1
  <2>3. \/ ReadNext /\ UNCHANGED <<parseStatus, requestHeader>>
        \/ Terminates /\ UNCHANGED <<parseStatus, requestHeader, expectedBodySize>>
        \/ HeaderStage(sv)
    BY <2>1 DEF FinishLine
  <2>4. a \in a .. p + 1
    OBVIOUS
  <2> QED
    BY <1>1, <2>2, <2>3, <2>4
<1> QED
  BY <1>6, <1>7

LEMMA LineHasItsSpaces == LineParses(Line)
<1>1. Line = <<"method", "SP", "path", "SP", "version">>
  BY DEF Line
<1>2. PICK spaces : spaces = {i \in DOMAIN Line : Line[i] = "SP"}
  OBVIOUS
<1>3. spaces = {2, 4}
  BY <1>1, <1>2
<1>4. Cardinality({2, 4}) = 2
  <2>1. IsFiniteSet({2}) /\ Cardinality({2}) = 1
    BY FS_Singleton
  <2>2. 4 \notin {2} /\ {2, 4} = {2} \cup {4}
    OBVIOUS
  <2>3. Cardinality({2} \cup {4}) = Cardinality({2}) + 1
    BY <2>1, <2>2, FS_AddElement
  <2> QED
    BY <2>1, <2>2, <2>3
<1>5. Cardinality(spaces) >= 2
  BY <1>3, <1>4
<1> QED
  BY <1>2, <1>5, Zenon DEF LineParses

\* When the line end of the request line is not cut, the reader finds it.
LEMMA LineStageWellCut ==
  ASSUME NEW st, NEW end, Shaped(st, end), SubSeq(st, 1, 5) = Line,
         NEW a \in 1 .. 6, NEW p \in a - 1 .. Len(st), p \notin {6, 7},
         requestLine = SubSeq(st, 1, a - 1),
         LineStage(SubSeq(st, a, p))
  PROVE  \/ /\ p <= 5
            /\ requestLine' = SubSeq(st, 1, p)
            /\ ReadNext
            /\ UNCHANGED <<parseStatus, requestHeader>>
         \/ /\ p >= 8
            /\ requestLine' = Line
            /\ HeaderStage(SubSeq(st, 8, p))
<1>1. /\ st \in Seq(Tokens) /\ Len(st) \in Nat /\ Len(st) >= 9
      /\ 1 \in 1 .. Len(st) + 1 /\ a \in 1 .. Len(st) + 1
      /\ a - 1 \in 1 - 1 .. Len(st) /\ p \in 1 - 1 .. Len(st)
      /\ p <= 5 \/ p >= 8
  BY DEF Shaped
<1>2. PICK sv : sv = SubSeq(st, a, p)
  OBVIOUS
<1>3. sv \in Seq(Tokens) /\ Len(sv) = p - a + 1
  BY <1>1, <1>2, Segment
<1>4. PICK i : i = Find(CRLF, sv)
  OBVIOUS
<1>5. i \in Nat /\ (i # 0 => i \in 7 - a .. p - a) /\ (7 <= p => i = 7 - a)
  <2>1. a <= 6
    OBVIOUS
  <2> QED
    BY <1>1, <1>2, <1>4, <2>1, LineEndInSegment
<1>6. LineStage(sv)
  BY <1>2
<1>7. (a - 1) + 1 = a
  OBVIOUS
<1>8. CASE p <= 5
  <2>1. i = 0
    BY <1>5, <1>8
  <2>2. /\ requestLine' = requestLine \o sv
        /\ \/ ReadNext /\ UNCHANGED <<parseStatus, requestHeader>>
           \/ Find(CRLF, requestLine') # 0
    BY <1>4, <1>6, <2>1 DEF LineStage
  <2>3. SubSeq(st, 1, a - 1) \o SubSeq(st, (a - 1) + 1, p) = SubSeq(st, 1, p)
    BY <1>1, SegmentsMeet
  <2>4. requestLine' = SubSeq(st, 1, p)
    BY <1>2, <1>7, <2>2, <2>3
  <2>5. Find(CRLF, SubSeq(st, 1, p)) # 0 => Find(CRLF, SubSeq(st, 1, p)) \in 7 - 1 .. p - 1
    BY <1>1, LineEndInSegment
  <2>6. Find(CRLF, requestLine') = 0
    BY <1>1, <1>8, <2>4, <2>5
  <2> QED
    BY <1>8, <2>2, <2>4, <2>6
<1>9. CASE p >= 8
  <2>1. i = 7 - a /\ i # 0 /\ i + 2 <= Len(sv)
    BY <1>3, <1>5, <1>9
  <2>2. /\ requestLine' = requestLine \o Before(sv, i)
        /\ FinishLine(requestLine', From(sv, i + 2))
    <3>1. ~ (i + 2 > Len(sv))
      BY <1>3, <2>1
    <3> QED
      BY <1>4, <1>6, <2>1, <3>1 DEF LineStage
  <2>3. Before(sv, i) = SubSeq(st, a, 5)
    <3>1. /\ 1 \in 1 .. p - a + 2 /\ i - 1 \in 1 - 1 .. p - a + 1
          /\ a + 1 - 1 = a /\ a + (i - 1) - 1 = 5
      BY <1>9, <2>1
    <3>2. SubSeq(SubSeq(st, a, p), 1, i - 1) = SubSeq(st, a + 1 - 1, a + (i - 1) - 1)
      BY <1>1, <3>1, SegmentOfSegment
    <3> QED
      BY <1>2, <3>1, <3>2 DEF Before, Upto
  <2>4. SubSeq(st, 1, a - 1) \o SubSeq(st, (a - 1) + 1, 5) = SubSeq(st, 1, 5)
    <3>1. 5 \in a - 1 .. Len(st)
      BY <1>1
    <3> QED
      BY <1>1, <3>1, SegmentsMeet
  <2>5. requestLine' = Line
    BY <1>7, <2>2, <2>3, <2>4
  <2>6. From(sv, i + 2) = SubSeq(st, 8, p)
    <3>1. /\ i + 2 \in 1 .. p - a + 2 /\ Len(sv) \in (i + 2) - 1 .. p - a + 1
          /\ a + (i + 2) - 1 = 8 /\ a + Len(sv) - 1 = p
      BY <1>3, <1>9, <2>1
    <3>2. SubSeq(SubSeq(st, a, p), i + 2, Len(sv)) = SubSeq(st, a + (i + 2) - 1, a + Len(sv) - 1)
      BY <1>1, <3>1, SegmentOfSegment
    <3> QED
      BY <1>2, <3>1, <3>2 DEF From
  <2>7. HeaderStage(SubSeq(st, 8, p))
    BY <2>2, <2>5, <2>6, LineHasItsSpaces DEF FinishLine
  <2> QED
    BY <1>9, <2>5, <2>7
<1> QED
  BY <1>1, <1>8, <1>9

Answers == Routes \cup {"none", "terminated", "exception", "outOfMemory",
                       "chunksRefused", "lengthRefused"}

\* A header that was received has a "length" only if the request has one; the
\* length that is read from it is a size_t, is no longer than the one that was
\* sent, and is exact unless the guards refuse it.
LengthRead(header) ==
  /\ ContentLength(header) \in 0 .. SizeMax
  /\ ContentLength(header) <= Number(request.digits)
  /\ Has("length", header) /\ ~ LengthRefused(header) =>
       ContentLength(header) = Number(DigitsRead)
  /\ LengthRefused(header) => request.padded \/ Number(DigitsRead) > SizeMax

LEMMA ContentLengthFits ==
  ASSUME request \in Requests,
         NEW h \in 1 .. Len(stream) + 1, NEW e \in h - 1 .. Len(stream),
         NEW header, header = SubSeq(stream, h, e)
  PROVE  LengthRead(header)
<1>1. PICK st : st = stream
  OBVIOUS
<1>2. /\ st \in Seq(Tokens) /\ h \in 1 .. Len(st) + 1 /\ e \in h - 1 .. Len(st)
      /\ header = SubSeq(st, h, e)
  BY <1>1, StreamIs DEF stream
<1>3. /\ header \in Seq(Tokens) /\ Len(header) = e - h + 1
      /\ \A i \in 1 .. e - h + 1 : header[i] = st[h + i - 1]
  BY <1>2, Segment
<1>4. request.digits \in Seq(Digits) /\ Number(request.digits) \in Nat
  BY RequestTypes, NumberIs
<1>5. ASSUME NEW i \in DOMAIN header, header[i] = "length"
      PROVE  request.digits # <<>>
  <2>1. i \in 1 .. e - h + 1 /\ h + i - 1 \in 1 .. Len(st)
    BY <1>2, <1>3
  <2>2. st[h + i - 1] = "length"
    BY <1>3, <1>5, <2>1
  <2>3. \A p \in 1 .. Len(st) : st[p] = "length" => request.digits # <<>>
    BY <1>1, LineEnds DEF stream
  <2> QED
    BY <2>1, <2>2, <2>3
<1>6. CASE Has("length", header)
  <2>1. ContentLength(header) = Number(DigitsRead) % (SizeMax + 1)
    BY <1>6 DEF ContentLength
  <2>2. request.digits # <<>>
    BY <1>5, <1>6 DEF Has
  <2>3. DigitsRead \in Seq(Digits)
    BY <1>4, <2>2, HeadTailProperties DEF DigitsRead
  <2>4. Number(DigitsRead) \in Nat /\ Number(DigitsRead) <= Number(request.digits)
    BY <1>4, <2>2, NumberIs DEF DigitsRead
  <2>5. SizeMax \in Nat
    BY RequestAssumption
  <2>6. /\ ContentLength(header) \in 0 .. SizeMax
        /\ Number(DigitsRead) <= SizeMax => ContentLength(header) = Number(DigitsRead)
    BY <2>1, <2>4, SizeKept
  <2>7. LengthRefused(header) <=> request.padded \/ Number(DigitsRead) > SizeMax
    BY <1>6, <2>3, GuardsExact DEF LengthRefused
  <2>8. ContentLength(header) <= Number(request.digits)
    BY <1>4, <2>4, <2>5, <2>6
  <2>9. ~ LengthRefused(header) => Number(DigitsRead) <= SizeMax
    BY <2>4, <2>5, <2>7
  <2> QED
    BY <2>6, <2>7, <2>8, <2>9 DEF LengthRead
<1>7. CASE ~ Has("length", header)
  <2>1. ContentLength(header) = 0 /\ ~ LengthRefused(header)
    BY <1>7 DEF ContentLength, LengthRefused
  <2>2. SizeMax \in Nat
    BY RequestAssumption
  <2>3. ContentLength(header) \in 0 .. SizeMax /\ ContentLength(header) <= Number(request.digits)
    BY <1>4, <2>1, <2>2
  <2> QED
    BY <1>7, <2>1, <2>3 DEF LengthRead
<1> QED
  BY <1>6, <1>7

\* When the header is taken for complete, no other read for the head follows.
LEMMA FinishHeaderSeen ==
  ASSUME request \in Requests, expectedBodySize \in 0 .. SizeMax, answer \in Answers,
         LengthExact, NEW header, LengthRead(header), FinishHeader(header)
  PROVE  /\ parseStatus' \in {"Header", "Body"}
         /\ pending' \in {"none", "body"}
         /\ expectedBodySize' \in 0 .. SizeMax
         /\ answer' \in Answers
         /\ pending' = "body" => parseStatus' = "Body" /\ expectedBodySize' <= Number(request.digits)
         /\ parseStatus' = "Body" /\ Has("length", header) /\ ~ Has("chunked", header) =>
              expectedBodySize' = Number(DigitsRead)
         /\ answer' = "lengthRefused" => request.padded \/ Number(DigitsRead) > SizeMax
<1>1. /\ request.route \in Answers /\ request.route # "lengthRefused"
      /\ {"terminated", "exception", "outOfMemory", "chunksRefused", "lengthRefused"} \subseteq Answers
  BY RequestTypes DEF Answers, Routes
<1>2. CASE parseStatus' = "Header" /\ Terminates /\ UNCHANGED expectedBodySize
  BY <1>1, <1>2 DEF Terminates
<1>3. CASE /\ parseStatus' = "Header" /\ answer' = "outOfMemory" /\ pending' = "none"
           /\ UNCHANGED expectedBodySize
  BY <1>1, <1>3
<1>4. CASE /\ Has("chunked", header)
           /\ parseStatus' = "Body" /\ answer' = "chunksRefused" /\ pending' = "none"
           /\ UNCHANGED expectedBodySize
  BY <1>1, <1>4
<1>5. CASE /\ LengthRefused(header)
           /\ parseStatus' = "Header" /\ answer' = "lengthRefused" /\ pending' = "none"
           /\ UNCHANGED expectedBodySize
  BY <1>1, <1>5 DEF LengthRead
<1>6. CASE /\ ~ LengthRefused(header)
           /\ parseStatus' = "Body"
           /\ expectedBodySize' = ContentLength(header)
           /\ \/ expectedBodySize' # 0 /\ pending' = "body" /\ UNCHANGED answer
              \/ expectedBodySize' = 0 /\ Respond
  <2>1. /\ expectedBodySize' \in 0 .. SizeMax /\ expectedBodySize' <= Number(request.digits)
        /\ Has("length", header) => expectedBodySize' = Number(DigitsRead)
    BY <1>6 DEF LengthRead
  <2>2. CASE pending' = "body" /\ UNCHANGED answer
    BY <1>6, <2>1, <2>2 DEF LengthExact
  <2>3. CASE Respond
    BY <1>1, <1>6, <2>1, <2>3 DEF Respond
  <2> QED
    BY <1>6, <2>2, <2>3
<1> QED
  BY <1>2, <1>3, <1>4, <1>5, <1>6 DEF FinishHeader

-----------------------------------------------------------------------------
(* The inductive invariant.                                                *)

\* While the request line is read there is no header yet; while the header is
\* read it is a segment of the stream that ends with the last byte received.
LineFirst == parseStatus = "Initial" => requestHeader = <<>>

HeaderIsSegment ==
  parseStatus = "Header" /\ pending = "head" =>
    \E h \in 1 .. pos + 1 : requestHeader = SubSeq(stream, h, pos)

BodyLast == pending = "body" => parseStatus = "Body"

\* When no cut was bad, the status says which part of the head comes next.
CutsInStep ==
  WellCut /\ pending = "head" =>
    /\ parseStatus = "Initial" => pos <= 5
    /\ parseStatus = "Header"  => pos \in 7 .. HeadLen(request) - 4

ReaderInv ==
  /\ TypeOK
  /\ NoEarlyAnswer
  /\ BodyReadFits
  /\ LengthExact
  /\ HeadIntact
  /\ LineFirst
  /\ HeaderIsSegment
  /\ BodyLast
  /\ CutsInStep

LEMMA StreamShape ==
  ASSUME request \in Requests
  PROVE  /\ Shaped(stream, HeadLen(request))
         /\ stream \in Seq(Tokens) /\ Len(stream) \in Nat /\ Len(stream) >= HeadLen(request)
         /\ HeadLength = HeadLen(request) /\ HeadLen(request) \in Nat /\ HeadLen(request) >= 9
         /\ LineLength = 5
         /\ SubSeq(stream, 1, 5) = Line
         /\ SubSeq(stream, 8, HeadLen(request) - 2) = HeaderText(request)
         /\ request.fields # <<>> => HeadLen(request) >= 12
<1>1. Shaped(stream, HeadLen(request))
  BY StreamIsShaped DEF stream
<1>2. stream \in Seq(Tokens) /\ Len(stream) \in Nat /\ Len(stream) >= HeadLen(request)
  BY <1>1 DEF Shaped
<1>3. HeadLength = HeadLen(request) /\ HeadLen(request) \in Nat /\ HeadLen(request) >= 9
  BY HeadIs DEF HeadLength
<1>4. LineLength = 5
  BY DEF LineLength, Line
<1>5. SubSeq(stream, 1, 5) = Line /\ SubSeq(stream, 8, HeadLen(request) - 2) = HeaderText(request)
  BY LineEnds DEF stream
<1>6. request.fields # <<>> => HeadLen(request) >= 12
  <2>1. request.fields \in Seq(Fields)
    BY RequestTypes
  <2>2. request.fields # <<>> => Len(request.fields) \in Nat \ {0}
    BY <2>1
  <2> QED
    BY <2>2 DEF HeadLen
<1> QED
  BY <1>1, <1>2, <1>3, <1>4, <1>5, <1>6

\* A read gives no more than is left of the stream.
LEMMA Received ==
  ASSUME TypeOK, NEW size \in Nat, NEW n \in Available(size), Completes(n)
  PROVE  /\ pos' = pos + n
         /\ pos' \in pos .. Len(stream) /\ pos' \in 0 .. Len(stream)
         /\ request' = request /\ stream' = stream /\ HeadLength' = HeadLength
         /\ closed' \in BOOLEAN /\ cutsKept' \in BOOLEAN
         /\ WellCut' => WellCut /\ ~ BadCut(pos')
<1>1. request \in Requests /\ pos \in 0 .. Len(stream) /\ closed \in BOOLEAN /\ cutsKept \in BOOLEAN
  BY DEF TypeOK
<1>2. Len(stream) \in Nat
  BY <1>1, StreamShape
<1>3. PICK left : left = Len(stream) - pos
  OBVIOUS
<1>4. left \in Nat
  BY <1>1, <1>2, <1>3
<1>5. {size, left} \subseteq Nat /\ {size, left} # {}
  BY <1>4
<1>6. Min({size, left}) \in Nat /\ Min({size, left}) <= left
  BY <1>5, Least
<1>7. n \in 0 .. Min({size, left})
  BY <1>3 DEF Available
<1>8. n \in Nat /\ n <= left
  BY <1>4, <1>6, <1>7
<1>9. pos' = pos + n /\ cutsKept' = (cutsKept /\ ~ BadCut(pos')) /\ request' = request /\ closed' = closed
  BY DEF Completes
<1>10. pos' \in pos .. Len(stream) /\ pos' \in 0 .. Len(stream)
  BY <1>1, <1>2, <1>3, <1>8, <1>9
<1>11. stream' = stream /\ HeadLength' = HeadLength
  BY <1>9 DEF stream, HeadLength
<1>12. cutsKept' \in BOOLEAN /\ (WellCut' => WellCut /\ ~ BadCut(pos'))
  BY <1>9 DEF WellCut
<1> QED
  BY <1>1, <1>9, <1>10, <1>11, <1>12

\* The invariant holds after a read that goes on with the header.  h is where
\* the header begins and q where the piece that is header does.
LEMMA HeaderStageKeeps ==
  ASSUME ReaderInv, pending = "head", requestLine' \in Seq(Tokens),
         request' = request, stream' = stream, HeadLength' = HeadLength,
         pos' \in pos .. Len(stream), pos' \in 0 .. Len(stream),
         closed' \in BOOLEAN, cutsKept' \in BOOLEAN,
         WellCut' => WellCut /\ ~ BadCut(pos'),
         NEW h \in Nat \ {0}, NEW q \in h .. pos' + 1,
         requestHeader = SubSeq(stream, h, q - 1),
         HeaderStage(SubSeq(stream, q, pos')),
         WellCut' => h = 8 /\ q <= HeadLen(request) - 3 /\ requestLine' = Line
  PROVE  ReaderInv'
<1>1. /\ request \in Requests /\ expectedBodySize \in 0 .. SizeMax /\ answer \in Answers
      /\ pos \in 0 .. Len(stream)
  BY DEF ReaderInv, TypeOK, Answers
<1>2. PICK st : st = stream
  OBVIOUS
<1>3. PICK end : end = HeadLen(request)
  OBVIOUS
<1>4. PICK p : p = pos'
  OBVIOUS
<1>5. /\ Shaped(st, end) /\ st \in Seq(Tokens) /\ Len(st) \in Nat /\ Len(st) >= end
      /\ HeadLength = end /\ end \in Nat /\ end >= 9 /\ LineLength = 5
  BY <1>1, <1>2, <1>3, StreamShape
<1>6. /\ SubSeq(st, 8, end - 2) = HeaderText(request)
      /\ request.fields # <<>> => end >= 12
  BY <1>1, <1>2, <1>3, StreamShape
<1>7. /\ p \in pos .. Len(st) /\ p \in 0 .. Len(st) /\ pos \in 0 .. Len(st)
      /\ q \in h .. p + 1 /\ q \in h .. Len(st) + 1 /\ p \in q - 1 .. Len(st)
      /\ p \in h - 1 .. Len(st) /\ h \in 1 .. Len(st) + 1 /\ h \in 1 .. p + 1
  <2>1. p \in pos .. Len(st) /\ p \in 0 .. Len(st) /\ pos \in 0 .. Len(st) /\ q \in h .. p + 1
    BY <1>1, <1>2, <1>4
  <2>2. Len(st) \in Nat
    BY <1>5
  <2>3. h \in Nat \ {0} /\ q \in Nat /\ h <= q /\ q <= p + 1 /\ p <= Len(st) /\ p \in Nat
    BY <2>1, <2>2
  <2>4. /\ q \in h .. Len(st) + 1 /\ p \in q - 1 .. Len(st)
        /\ p \in h - 1 .. Len(st) /\ h \in 1 .. Len(st) + 1 /\ h \in 1 .. p + 1
    BY <2>2, <2>3
  <2> QED
    BY <2>1, <2>4
<1>8. requestHeader = SubSeq(st, h, q - 1) /\ HeaderStage(SubSeq(st, q, p))
  BY <1>2, <1>4
<1>9. WellCut' => /\ h = 8 /\ q <= end - 3 /\ requestLine' = Line /\ end >= 12
                  /\ p \notin {6, 7} /\ p \notin end - 3 .. end - 1
  <2>1. BadCut(p) <=> p \in {6, 7} \/ p \in end - 3 .. end - 1
    BY <1>5 DEF BadCut
  <2> QED
    BY <1>3, <1>4, <1>6, <2>1 DEF WellCut
<1>10. \/ /\ requestHeader' = SubSeq(st, h, p)
          /\ h <= end - 3 => p < end
          /\ parseStatus' = "Header"
          /\ ReadNext
       \/ /\ requestHeader' = SubSeq(st, h, end - 2)
          /\ q <= end - 3 /\ end <= p
          /\ FinishHeader(requestHeader')
       \/ /\ requestHeader' = SubSeq(st, h, p)
          /\ q > end - 3 /\ h <= end - 3 /\ end <= p
          /\ FinishHeader(requestHeader')
  BY <1>5, <1>7, <1>8, HeaderStageSeen
\* The header goes on.
<1>11. CASE /\ requestHeader' = SubSeq(st, h, p)
            /\ h <= end - 3 => p < end
            /\ parseStatus' = "Header"
            /\ ReadNext
  <2>1. pending' = "head" /\ expectedBodySize' = expectedBodySize /\ answer' = answer
    BY <1>11 DEF ReadNext
  <2>2. requestHeader' \in Seq(Tokens)
    <3>1. SubSeq(st, h, p) \in Seq(Tokens)
      BY <1>5, <1>7, Segment
    <3> QED
      BY <1>11, <3>1
  <2>3. TypeOK'
    BY <1>1, <1>11, <2>1, <2>2 DEF TypeOK, Answers
  <2>4. NoEarlyAnswer'
    <3>1. answer \in Routes => pos >= end
      BY <1>5 DEF ReaderInv, NoEarlyAnswer
    <3>2. answer \in Routes => p >= end
      BY <1>5, <1>7, <3>1
    <3> QED
      BY <1>4, <1>5, <2>1, <3>2 DEF NoEarlyAnswer
  <2>5. BodyReadFits' /\ LineFirst' /\ BodyLast' /\ LengthExact'
    BY <1>11, <2>1 DEF ReaderInv, BodyReadFits, LineFirst, BodyLast, LengthExact, DigitsRead
  <2>6. HeaderIsSegment'
    BY <1>2, <1>4, <1>7, <1>11 DEF HeaderIsSegment
  <2>7. WellCut' => p \in 7 .. end - 4
    <3> SUFFICES ASSUME WellCut' PROVE p \in 7 .. end - 4
      OBVIOUS
    <3>1. h = 8 /\ end >= 12 /\ p \notin end - 3 .. end - 1
      BY <1>9
    <3>2. p < end /\ p >= h - 1 /\ p \in Nat
      BY <1>5, <1>7, <1>11, <3>1
    <3> QED
      BY <1>5, <3>1, <3>2
  <2>8. CutsInStep'
    BY <1>3, <1>4, <1>11, <2>7 DEF CutsInStep
  <2>9. HeadIntact'
    <3> SUFFICES ASSUME WellCut'
                 PROVE  requestLine' = Line /\ requestHeader' = SubSeq(stream', LineLength + 3, pos')
      BY <1>11 DEF HeadIntact
    <3>1. requestLine' = Line /\ h = 8 /\ LineLength + 3 = 8
      BY <1>5, <1>9
    <3> QED
      BY <1>2, <1>4, <1>11, <3>1
  <2> QED
    BY <2>3, <2>4, <2>5, <2>6, <2>8, <2>9 DEF ReaderInv
\* The header is taken for complete.
<1>12. CASE \E e \in h - 1 .. Len(st) :
              /\ requestHeader' = SubSeq(st, h, e)
              /\ end <= p
              /\ WellCut' => e = end - 2
              /\ FinishHeader(requestHeader')
  <2>1. PICK e \in h - 1 .. Len(st) :
          /\ requestHeader' = SubSeq(st, h, e)
          /\ end <= p
          /\ WellCut' => e = end - 2
          /\ FinishHeader(requestHeader')
    BY <1>12
  <2>2. requestHeader' \in Seq(Tokens)
    <3>1. SubSeq(st, h, e) \in Seq(Tokens)
      BY <1>5, <1>7, Segment
    <3> QED
      BY <2>1, <3>1
  <2>3. PICK header : header = requestHeader'
    OBVIOUS
  <2>4. LengthRead(header)
    <3>1. h \in 1 .. Len(stream) + 1 /\ e \in h - 1 .. Len(stream) /\ header = SubSeq(stream, h, e)
      BY <1>2, <1>7, <2>1, <2>3
    <3> QED
      BY <1>1, <3>1, ContentLengthFits
  <2>5. FinishHeader(header)
    BY <2>1, <2>3
  <2>6. /\ parseStatus' \in {"Header", "Body"}
        /\ pending' \in {"none", "body"}
        /\ expectedBodySize' \in 0 .. SizeMax
        /\ answer' \in Answers
        /\ pending' = "body" => parseStatus' = "Body" /\ expectedBodySize' <= Number(request.digits)
        /\ parseStatus' = "Body" /\ Has("length", header) /\ ~ Has("chunked", header) =>
             expectedBodySize' = Number(DigitsRead)
        /\ answer' = "lengthRefused" => request.padded \/ Number(DigitsRead) > SizeMax
    <3>1. LengthExact
      BY DEF ReaderInv
    <3> QED
      BY <1>1, <2>4, <2>5, <3>1, FinishHeaderSeen
  <2>7. TypeOK'
    BY <1>1, <2>2, <2>6 DEF TypeOK, Answers
  <2>8. NoEarlyAnswer'
    BY <1>4, <1>5, <2>1 DEF NoEarlyAnswer
  <2>9. BodyReadFits' /\ LineFirst' /\ BodyLast' /\ HeaderIsSegment' /\ CutsInStep'
    BY <2>6 DEF BodyReadFits, LineFirst, BodyLast, HeaderIsSegment, CutsInStep
  <2>10. HeadIntact'
    <3> SUFFICES ASSUME WellCut'
                 PROVE  requestLine' = Line /\ requestHeader' = HeaderText(request')
      BY <2>6 DEF HeadIntact
    <3>1. requestLine' = Line /\ h = 8 /\ e = end - 2
      BY <1>9, <2>1
    <3> QED
      BY <1>6, <2>1, <3>1
  <2>11. LengthExact'
    BY <2>3, <2>6 DEF LengthExact, DigitsRead, Has, Named
  <2> QED
    BY <2>7, <2>8, <2>9, <2>10, <2>11 DEF ReaderInv
<1>13. CASE /\ requestHeader' = SubSeq(st, h, end - 2)
            /\ q <= end - 3 /\ end <= p
            /\ FinishHeader(requestHeader')
  <2>1. end - 2 \in h - 1 .. Len(st)
    BY <1>5, <1>7, <1>13
  <2> QED
    BY <1>12, <1>13, <2>1
<1>14. CASE /\ requestHeader' = SubSeq(st, h, p)
            /\ q > end - 3 /\ h <= end - 3 /\ end <= p
            /\ FinishHeader(requestHeader')
  <2>1. ~ WellCut'
    BY <1>5, <1>7, <1>9, <1>14
  <2> QED
    BY <1>7, <1>12, <1>14, <2>1
<1> QED
  BY <1>10, <1>11, <1>13, <1>14

LEMMA ReadHeaderKeeps ==
  ASSUME ReaderInv, ReadHeader
  PROVE  ReaderInv'
<1>1. /\ request \in Requests /\ pos \in 0 .. Len(stream) /\ requestLine \in Seq(Tokens)
      /\ BufferSize \in Nat /\ TypeOK
  BY RequestAssumption DEF ReaderInv, TypeOK
<1>2. PICK n \in Available(BufferSize) :
        /\ Completes(n)
        /\ HeaderStage(SubSeq(stream, pos + 1, pos + n))
  BY DEF ReadHeader
<1>3. pending = "head" /\ parseStatus = "Header" /\ requestLine' = requestLine
  BY DEF ReadHeader
<1>4. /\ pos' = pos + n
      /\ pos' \in pos .. Len(stream) /\ pos' \in 0 .. Len(stream)
      /\ request' = request /\ stream' = stream /\ HeadLength' = HeadLength
      /\ closed' \in BOOLEAN /\ cutsKept' \in BOOLEAN
      /\ WellCut' => WellCut /\ ~ BadCut(pos')
  BY <1>1, <1>2, Received
<1>5. Len(stream) \in Nat /\ HeadLen(request) \in Nat /\ LineLength = 5
  BY <1>1, StreamShape
<1>6. PICK h \in Nat \ {0} :
        /\ h <= pos + 1
        /\ requestHeader = SubSeq(stream, h, pos)
        /\ WellCut => h = 8
  <2>1. CASE WellCut
    <3>1. requestHeader = SubSeq(stream, 8, pos)
      <4>1. requestHeader = SubSeq(stream, LineLength + 3, pos)
        BY <1>3, <2>1 DEF ReaderInv, HeadIntact
      <4> QED
        BY <1>5, <4>1
    <3>2. 8 <= pos + 1
      <4>1. pos \in 7 .. HeadLen(request) - 4
        BY <1>3, <2>1 DEF ReaderInv, CutsInStep
      <4> QED
        BY <1>5, <4>1
    <3>3. 8 \in Nat \ {0}
      OBVIOUS
    <3> QED
      BY <3>1, <3>2, <3>3, Zenon
  <2>2. CASE ~ WellCut
    <3>1. \E h \in 1 .. pos + 1 : requestHeader = SubSeq(stream, h, pos)
      BY <1>3 DEF ReaderInv, HeaderIsSegment
    <3>2. \A h \in 1 .. pos + 1 : h \in Nat \ {0} /\ h <= pos + 1
      BY <1>1, <1>5
    <3> QED
      BY <2>2, <3>1, <3>2
  <2> QED
    BY <2>1, <2>2
<1>7. PICK q : q = pos + 1
  OBVIOUS
<1>8. q \in h .. pos' + 1 /\ q - 1 = pos
  BY <1>1, <1>4, <1>5, <1>6, <1>7
<1>9. requestHeader = SubSeq(stream, h, q - 1) /\ HeaderStage(SubSeq(stream, q, pos'))
  BY <1>2, <1>4, <1>6, <1>7, <1>8
<1>10. WellCut' => h = 8 /\ q <= HeadLen(request) - 3 /\ requestLine' = Line
  <2> SUFFICES ASSUME WellCut'
               PROVE  h = 8 /\ q <= HeadLen(request) - 3 /\ requestLine' = Line
    OBVIOUS
  <2>1. WellCut /\ h = 8
    BY <1>4, <1>6
  <2>2. requestLine = Line
    BY <1>3, <2>1 DEF ReaderInv, HeadIntact
  <2>3. pos \in 7 .. HeadLen(request) - 4
    BY <1>3, <2>1 DEF ReaderInv, CutsInStep
  <2>4. q <= HeadLen(request) - 3
    BY <1>5, <1>7, <2>3
  <2> QED
    BY <1>3, <2>1, <2>2, <2>4
<1>11. requestLine' \in Seq(Tokens)
  BY <1>1, <1>3
<1> QED
  BY <1>3, <1>4, <1>8, <1>9, <1>10, <1>11, HeaderStageKeeps

LEMMA ReadLineKeeps ==
  ASSUME ReaderInv, ReadLine
  PROVE  ReaderInv'
<1>1. /\ request \in Requests /\ pos \in 0 .. Len(stream) /\ requestLine \in Seq(Tokens)
      /\ requestHeader = <<>> /\ expectedBodySize \in 0 .. SizeMax /\ answer \in Answers
      /\ BufferSize \in Nat /\ TypeOK
  BY RequestAssumption DEF ReaderInv, TypeOK, LineFirst, ReadLine, Answers
<1>2. PICK n \in Available(BufferSize) :
        /\ Completes(n)
        /\ LineStage(SubSeq(stream, pos + 1, pos + n))
  BY DEF ReadLine
<1>3. pending = "head" /\ parseStatus = "Initial"
  BY DEF ReadLine
<1>4. /\ pos' = pos + n
      /\ pos' \in pos .. Len(stream) /\ pos' \in 0 .. Len(stream)
      /\ request' = request /\ stream' = stream /\ HeadLength' = HeadLength
      /\ closed' \in BOOLEAN /\ cutsKept' \in BOOLEAN
      /\ WellCut' => WellCut /\ ~ BadCut(pos')
  BY <1>1, <1>2, Received
<1>5. PICK st : st = stream
  OBVIOUS
<1>6. PICK a : a = pos + 1
  OBVIOUS
<1>7. PICK p : p = pos'
  OBVIOUS
<1>8. /\ Shaped(st, HeadLen(request)) /\ st \in Seq(Tokens) /\ Len(st) \in Nat
      /\ Len(st) >= HeadLen(request)
      /\ HeadLength = HeadLen(request) /\ HeadLen(request) \in Nat /\ HeadLen(request) >= 9
      /\ LineLength = 5 /\ SubSeq(st, 1, 5) = Line
      /\ request.fields # <<>> => HeadLen(request) >= 12
  BY <1>1, <1>5, StreamShape
<1>9. p \in pos .. Len(st) /\ p \in 0 .. Len(st) /\ pos \in 0 .. Len(st)
  BY <1>1, <1>4, <1>5, <1>7
<1>10. a \in 1 .. Len(st) + 1 /\ p \in a - 1 .. Len(st) /\ a - 1 = pos
  BY <1>6, <1>8, <1>9
<1>11. LineStage(SubSeq(st, a, p))
  BY <1>2, <1>4, <1>5, <1>6, <1>7
<1>12. /\ requestLine' \in Seq(Tokens)
       /\ \/ ReadNext /\ UNCHANGED <<parseStatus, requestHeader>>
          \/ Terminates /\ UNCHANGED <<parseStatus, requestHeader, expectedBodySize>>
          \/ \E q \in a .. p + 1 : HeaderStage(SubSeq(st, q, p))
  BY <1>1, <1>8, <1>10, <1>11, LineStageSeen
\* What the line and the header are when no cut was bad.
<1>13. WellCut' => \/ /\ p <= 5
                      /\ requestLine' = SubSeq(st, 1, p)
                      /\ ReadNext
                      /\ UNCHANGED <<parseStatus, requestHeader>>
                   \/ /\ p >= 8
                      /\ requestLine' = Line
                      /\ HeaderStage(SubSeq(st, 8, p))
  <2> SUFFICES ASSUME WellCut'
               PROVE  \/ /\ p <= 5
                         /\ requestLine' = SubSeq(st, 1, p)
                         /\ ReadNext
                         /\ UNCHANGED <<parseStatus, requestHeader>>
                      \/ /\ p >= 8
                         /\ requestLine' = Line
                         /\ HeaderStage(SubSeq(st, 8, p))
    OBVIOUS
  <2>1. WellCut /\ ~ BadCut(p)
    BY <1>4, <1>7
  <2>2. p \notin {6, 7}
    BY <1>8, <2>1 DEF BadCut
  <2>3. pos <= 5 /\ requestLine = SubSeq(stream, 1, pos)
    BY <1>3, <2>1 DEF ReaderInv, CutsInStep, HeadIntact, Upto
  <2>4. a \in 1 .. 6
    BY <1>6, <1>8, <1>9, <2>3
  <2>5. requestLine = SubSeq(st, 1, a - 1)
    BY <1>5, <1>10, <2>3
  <2> QED
    BY <1>8, <1>10, <1>11, <2>2, <2>4, <2>5, LineStageWellCut
\* The line goes on.
<1>14. CASE ReadNext /\ UNCHANGED <<parseStatus, requestHeader>> /\ (WellCut' => p <= 5 /\ requestLine' = SubSeq(st, 1, p))
  <2>1. /\ pending' = "head" /\ expectedBodySize' = expectedBodySize /\ answer' = answer
        /\ parseStatus' = "Initial" /\ requestHeader' = <<>>
    BY <1>1, <1>3, <1>14 DEF ReadNext
  <2>2. TypeOK'
    BY <1>1, <1>4, <1>12, <2>1 DEF TypeOK, Answers
  <2>3. NoEarlyAnswer'
    <3>1. answer \in Routes => pos >= HeadLen(request)
      BY <1>8 DEF ReaderInv, NoEarlyAnswer
    <3>2. answer \in Routes => p >= HeadLen(request)
      BY <1>8, <1>9, <3>1
    <3> QED
      BY <1>4, <1>7, <1>8, <2>1, <3>2 DEF NoEarlyAnswer
  <2>4. BodyReadFits' /\ LineFirst' /\ BodyLast' /\ HeaderIsSegment' /\ LengthExact'
    BY <1>4, <2>1 DEF ReaderInv, BodyReadFits, LineFirst, BodyLast, HeaderIsSegment, LengthExact, DigitsRead
  <2>5. CutsInStep'
    BY <1>7, <1>14, <2>1 DEF CutsInStep
  <2>6. HeadIntact'
    <3> SUFFICES ASSUME WellCut' PROVE requestLine' = Upto(stream', pos')
      BY <2>1 DEF HeadIntact
    <3> QED
      BY <1>4, <1>5, <1>7, <1>14 DEF Upto
  <2> QED
    BY <2>2, <2>3, <2>4, <2>5, <2>6 DEF ReaderInv
\* What is not a request line ends the reader, and no good cut leads there.
<1>15. CASE Terminates /\ UNCHANGED <<parseStatus, requestHeader, expectedBodySize>> /\ ~ WellCut'
  <2>1. /\ pending' = "none" /\ expectedBodySize' = expectedBodySize /\ answer' = "terminated"
        /\ parseStatus' = "Initial" /\ requestHeader' = <<>>
    BY <1>1, <1>3, <1>15 DEF Terminates
  <2>2. TypeOK'
    BY <1>1, <1>4, <1>12, <2>1 DEF TypeOK, Answers
  <2>3. /\ NoEarlyAnswer' /\ BodyReadFits' /\ LineFirst' /\ BodyLast' /\ HeaderIsSegment'
        /\ LengthExact'
    BY <2>1
    DEF NoEarlyAnswer, Routes, BodyReadFits, LineFirst, BodyLast, HeaderIsSegment, LengthExact
  <2>4. CutsInStep' /\ HeadIntact'
    BY <1>15 DEF CutsInStep, HeadIntact
  <2> QED
    BY <2>2, <2>3, <2>4 DEF ReaderInv
\* The header begins.
<1>16. CASE \E q \in 1 .. p + 1 :
              HeaderStage(SubSeq(st, q, p)) /\ (WellCut' => q = 8 /\ requestLine' = Line)
  <2>1. PICK q \in 1 .. p + 1 :
          HeaderStage(SubSeq(st, q, p)) /\ (WellCut' => q = 8 /\ requestLine' = Line)
    BY <1>16
  <2>2. q \in Nat \ {0} /\ q \in q .. pos' + 1
    <3>1. q \in Nat \ {0} /\ q \in q .. p + 1
      BY <1>8, <1>9
    <3> QED
      BY <1>7, <3>1
  <2>3. requestHeader = SubSeq(stream, q, q - 1)
    <3>1. q \in 1 .. Len(st) + 1 /\ q - 1 \in q - 1 .. Len(st) /\ (q - 1) - q + 1 = 0
      <4>1. Len(st) \in Nat /\ p \in Nat /\ p <= Len(st) /\ q \in Nat /\ 1 <= q /\ q <= p + 1
        <5>1. Len(st) \in Nat /\ p \in 0 .. Len(st)
          BY <1>8, <1>9
        <5> QED
          BY <5>1
      <4> QED
        BY <4>1
    <3>2. SubSeq(st, q, q - 1) \in Seq(Tokens) /\ Len(SubSeq(st, q, q - 1)) = 0
      BY <1>8, <3>1, Segment
    <3> QED
      BY <1>1, <1>5, <3>2, EmptySeq
  <2>4. HeaderStage(SubSeq(stream, q, pos'))
    BY <1>5, <1>7, <2>1
  <2>5. WellCut' => q = 8 /\ q <= HeadLen(request) - 3 /\ requestLine' = Line
    <3>1. WellCut' => HeadLen(request) >= 12
      BY <1>4, <1>8 DEF WellCut
    <3> QED
      BY <1>8, <2>1, <3>1
  <2> QED
    BY <1>3, <1>4, <1>12, <2>2, <2>3, <2>4, <2>5, HeaderStageKeeps
<1> QED
  <2>1. CASE WellCut'
    <3>1. CASE p <= 5 /\ requestLine' = SubSeq(st, 1, p) /\ ReadNext /\ UNCHANGED <<parseStatus, requestHeader>>
      BY <1>14, <3>1
    <3>2. CASE p >= 8 /\ requestLine' = Line /\ HeaderStage(SubSeq(st, 8, p))
      <4>1. 8 \in 1 .. p + 1
        BY <1>8, <1>9, <3>2
      <4> QED
        BY <1>16, <3>2, <4>1
    <3> QED
      BY <1>13, <2>1, <3>1, <3>2
  <2>2. CASE ~ WellCut'
    <3>1. CASE ReadNext /\ UNCHANGED <<parseStatus, requestHeader>>
      BY <1>14, <2>2, <3>1
    <3>2. CASE Terminates /\ UNCHANGED <<parseStatus, requestHeader, expectedBodySize>>
      BY <1>15, <2>2, <3>2
    <3>3. CASE \E q \in a .. p + 1 : HeaderStage(SubSeq(st, q, p))
      <4>1. \A q \in a .. p + 1 : q \in 1 .. p + 1
        BY <1>8, <1>9, <1>10
      <4> QED
        BY <1>16, <2>2, <3>3, <4>1
    <3> QED
      BY <1>12, <3>1, <3>2, <3>3
  <2> QED
    BY <2>1, <2>2

LEMMA ReadBodyKeeps ==
  ASSUME ReaderInv, ReadBody
  PROVE  ReaderInv'
<1>1. TypeOK /\ expectedBodySize \in 0 .. SizeMax /\ request \in Requests /\ pos \in 0 .. Len(stream)
  BY DEF ReaderInv, TypeOK
<1>2. PICK n \in Available(expectedBodySize) : Completes(n)
  BY DEF ReadBody
<1>3. /\ pending = "body" /\ Respond
      /\ UNCHANGED <<parseStatus, requestLine, requestHeader, expectedBodySize>>
  BY DEF ReadBody, readerVars
<1>4. /\ pos' \in pos .. Len(stream) /\ pos' \in 0 .. Len(stream)
      /\ request' = request /\ stream' = stream /\ HeadLength' = HeadLength
      /\ closed' \in BOOLEAN /\ cutsKept' \in BOOLEAN
      /\ WellCut' => WellCut /\ ~ BadCut(pos')
  BY <1>1, <1>2, Received
<1>5. answer' \in Routes \cup {"exception"} /\ pending' = "none"
  BY <1>1, <1>3, RequestTypes DEF Respond
<1>6. parseStatus = "Body" /\ pos >= HeadLength
  BY <1>3 DEF ReaderInv, BodyLast, NoEarlyAnswer
<1>7. Len(stream) \in Nat /\ HeadLength \in Nat
  BY <1>1, StreamShape
<1>8. TypeOK'
  BY <1>1, <1>3, <1>4, <1>5 DEF TypeOK
<1>9. NoEarlyAnswer'
  <2>1. pos' >= HeadLength
    BY <1>1, <1>4, <1>6, <1>7
  <2> QED
    BY <1>4, <2>1 DEF NoEarlyAnswer
<1>10. BodyReadFits' /\ LineFirst' /\ HeaderIsSegment' /\ BodyLast' /\ CutsInStep'
  BY <1>3, <1>5, <1>6 DEF BodyReadFits, LineFirst, HeaderIsSegment, BodyLast, CutsInStep
<1>11. HeadIntact'
  BY <1>3, <1>4, <1>6 DEF ReaderInv, HeadIntact
<1>12. LengthExact'
  <2>1. answer' # "lengthRefused"
    BY <1>5 DEF Routes
  <2> QED
    BY <1>3, <1>4, <2>1 DEF ReaderInv, LengthExact, DigitsRead, Has, Named
<1> QED
  BY <1>8, <1>9, <1>10, <1>11, <1>12 DEF ReaderInv

LEMMA ReadFailsKeeps ==
  ASSUME ReaderInv, ReadFails
  PROVE  ReaderInv'
<1>1. /\ answer' = "exception" /\ pending' = "none"
      /\ UNCHANGED <<request, pos, closed, parseStatus, requestLine, requestHeader,
                     expectedBodySize, cutsKept>>
  BY DEF ReadFails, readerVars
<1>2. stream' = stream /\ WellCut' = WellCut
  BY <1>1 DEF stream, WellCut
<1>3. TypeOK'
  BY <1>1, <1>2 DEF ReaderInv, TypeOK
<1>4. NoEarlyAnswer' /\ BodyReadFits' /\ HeaderIsSegment' /\ BodyLast' /\ CutsInStep'
  BY <1>1 DEF NoEarlyAnswer, Routes, BodyReadFits, HeaderIsSegment, BodyLast, CutsInStep
<1>5. LineFirst' /\ HeadIntact' /\ LengthExact'
  BY <1>1, <1>2 DEF ReaderInv, LineFirst, HeadIntact, LengthExact, DigitsRead, Has, Named
<1> QED
  BY <1>3, <1>4, <1>5 DEF ReaderInv

LEMMA PeerClosesKeeps ==
  ASSUME ReaderInv, PeerCloses
  PROVE  ReaderInv'
<1>1. /\ closed' = TRUE
      /\ UNCHANGED <<request, pos, pending, parseStatus, requestLine, requestHeader,
                     expectedBodySize, answer, cutsKept>>
  BY DEF PeerCloses, readerVars
<1>2. stream' = stream /\ WellCut' = WellCut /\ HeadLength' = HeadLength
  BY <1>1 DEF stream, WellCut, HeadLength
<1>3. TypeOK'
  BY <1>1, <1>2 DEF ReaderInv, TypeOK
<1>4. NoEarlyAnswer' /\ BodyReadFits' /\ HeaderIsSegment' /\ BodyLast' /\ CutsInStep'
  BY <1>1, <1>2 DEF ReaderInv, NoEarlyAnswer, BodyReadFits, HeaderIsSegment, BodyLast, CutsInStep
<1>5. LineFirst' /\ HeadIntact' /\ LengthExact'
  BY <1>1, <1>2 DEF ReaderInv, LineFirst, HeadIntact, LengthExact, DigitsRead, Has, Named
<1> QED
  BY <1>3, <1>4, <1>5 DEF ReaderInv

LEMMA ReaderInvInit == Init => ReaderInv
<1> SUFFICES ASSUME Init PROVE ReaderInv
  OBVIOUS
<1>1. /\ request \in Requests /\ pos = 0 /\ closed = FALSE /\ pending = "head"
      /\ parseStatus = "Initial" /\ requestLine = <<>> /\ requestHeader = <<>>
      /\ expectedBodySize = 0 /\ answer = "none" /\ cutsKept = TRUE
  BY DEF Init
<1>2. stream \in Seq(Tokens) /\ Len(stream) \in Nat
  BY <1>1, StreamShape
<1>3. TypeOK
  <2>1. 0 \in 0 .. Len(stream) /\ <<>> \in Seq(Tokens) /\ 0 \in 0 .. SizeMax
    BY <1>2, RequestAssumption
  <2> QED
    BY <1>1, <2>1, Zenon DEF TypeOK
<1>4. /\ NoEarlyAnswer /\ BodyReadFits /\ LineFirst /\ HeaderIsSegment /\ BodyLast /\ CutsInStep
      /\ LengthExact
  BY <1>1
  DEF NoEarlyAnswer, Routes, BodyReadFits, LineFirst, HeaderIsSegment, BodyLast, CutsInStep, LengthExact
<1>5. SubSeq(stream, 1, 0) = <<>>
  <2>1. 1 \in 1 .. Len(stream) + 1 /\ 0 \in 1 - 1 .. Len(stream) /\ 0 - 1 + 1 = 0
    BY <1>2
  <2>2. SubSeq(stream, 1, 0) \in Seq(Tokens) /\ Len(SubSeq(stream, 1, 0)) = 0
    BY <1>2, <2>1, Segment
  <2> QED
    BY <2>2, EmptySeq
<1>6. HeadIntact
  BY <1>1, <1>5 DEF HeadIntact, Upto
<1> QED
  BY <1>3, <1>4, <1>6 DEF ReaderInv

-----------------------------------------------------------------------------
(* The theorems, for every request and every size of the buffer.           *)

\* The invariant of the reader, inductive over its five actions.
THEOREM ReaderInvariance == Spec => []ReaderInv
<1>1. ASSUME ReaderInv, [Next]_vars
      PROVE  ReaderInv'
  <2>1. CASE ReadLine
    BY <1>1, <2>1, ReadLineKeeps
  <2>2. CASE ReadHeader
    BY <1>1, <2>2, ReadHeaderKeeps
  <2>3. CASE ReadBody
    BY <1>1, <2>3, ReadBodyKeeps
  <2>4. CASE ReadFails
    BY <1>1, <2>4, ReadFailsKeeps
  <2>5. CASE PeerCloses
    BY <1>1, <2>5, PeerClosesKeeps
  <2>6. CASE UNCHANGED vars
    BY <1>1, <2>6
    DEF vars, readerVars, ReaderInv, TypeOK, NoEarlyAnswer, BodyReadFits, HeadIntact, WellCut,
        LengthExact, DigitsRead, Has, Named, LineFirst, HeaderIsSegment, BodyLast, CutsInStep, stream, HeadLength
  <2> QED
    BY <1>1, <2>1, <2>2, <2>3, <2>4, <2>5, <2>6 DEF Next
<1> QED
  BY <1>1, ReaderInvInit, PTL DEF Spec

\* The variables keep their types; no read passes the end of the stream.
THEOREM ReaderTypeCorrect == Spec => []TypeOK
<1>1. ReaderInv => TypeOK
  BY DEF ReaderInv
<1> QED
  BY <1>1, ReaderInvariance, PTL

\* However the bytes of the head are cut, short of the cuts that the code
\* cannot take, the line and the header are kept whole and in order.
THEOREM HeadKeptWhole == Spec => []HeadIntact
<1>1. ReaderInv => HeadIntact
  BY DEF ReaderInv
<1> QED
  BY <1>1, ReaderInvariance, PTL

\* However the stream is cut, the reader neither answers nor waits for a body
\* before it has the whole head.
THEOREM NoEarlyAnswerSafety == Spec => []NoEarlyAnswer
<1>1. ReaderInv => NoEarlyAnswer
  BY DEF ReaderInv
<1> QED
  BY <1>1, ReaderInvariance, PTL

\* However the stream is cut, a body read is no longer than the body that the
\* peer declared.
THEOREM BodyReadsFit == Spec => []BodyReadFits
<1>1. ReaderInv => BodyReadFits
  BY DEF ReaderInv
<1> QED
  BY <1>1, ReaderInvariance, PTL

\* A length of any number of digits is either refused or expected as it is
\* read, for every SIZE_MAX: the two guards before each digit leave no sum that
\* wraps, and refuse none that fits.
THEOREM LengthsExact == Spec => []LengthExact
<1>1. ReaderInv => LengthExact
  BY DEF ReaderInv
<1> QED
  BY <1>1, ReaderInvariance, PTL
=============================================================================
