------------------------- MODULE ShadowLayoutProofs -------------------------
(***************************************************************************)
(* That Shadowed holds for every size of slice, page and word that          *)
(* LayoutAssumption allows, every set of start-up mappings and any mmap     *)
(* calls.  The ends of the ranges and regions are thirds of powers of two   *)
(* rounded up to pages; Thirds writes them all as combinations of two       *)
(* lengths, after which where cells and regions lie is linear arithmetic.   *)
(***************************************************************************)
EXTENDS ShadowLayout, WellFoundedInduction, TLAPS

\* The quotient is the number whose multiple is next below.
LEMMA DivIs ==
  ASSUME NEW n \in Nat, NEW d \in Nat \ {0}, NEW q \in Nat, q * d <= n, n < q * d + d
  PROVE  n \div d = q /\ n % d = n - q * d
<1>1. n = d * (n \div d) + (n % d) /\ n % d \in 0 .. (d - 1) /\ n \div d \in Nat
  BY SMT
<1>2. \A x \in Nat : x <= q - 1 => d * x <= d * q - d
  BY SMT
<1>3. \A x \in Nat : q + 1 <= x => d * q + d <= d * x
  BY SMT
<1>4. d * q = q * d
  BY SMT
<1>5. n \div d = q
  BY <1>1, <1>2, <1>3, <1>4, SMT
<1> QED
  BY <1>1, <1>4, <1>5, SMT

\* Up rounds to the multiple of a page next above.
LEMMA UpIs ==
  ASSUME NEW n \in Nat, NEW k \in Nat, Page \in Nat \ {0}, n <= k * Page, k * Page < n + Page
  PROVE  Up(n) = k * Page
<1>1. k * Page \in Nat
  BY SMT
<1>2. (n + Page - 1) \div Page = k
  BY <1>1, DivIs
<1> QED
  BY <1>2 DEF Up

\* A multiple of 32 pages that is one more than a multiple of three pages is four
\* more than a multiple of six: the number of pages in a slice is 2^32.
LEMMA Sixths ==
  \E i \in Nat : Slice = 6 * (i * Page) + 4 * Page
<1>1. Slice \in Nat /\ Page \in Nat \ {0} /\ Slice % (32 * Page) = 0 /\ (Slice \div Page) % 3 = 1
  BY LayoutAssumption DEF LayoutAssumption
<1> DEFINE q == Slice \div (32 * Page)
<1>2. q \in Nat /\ Slice = (32 * Page) * q + (Slice % (32 * Page))
  <2>1. 32 * Page \in Nat \ {0}
    BY <1>1
  <2> HIDE DEF q
  <2> DEFINE d == 32 * Page
  <2>2. Slice \div d \in Nat /\ Slice = d * (Slice \div d) + (Slice % d)
    <3> HIDE DEF d
    <3> QED BY <1>1, <2>1, SMT DEF d
  <2> QED
    BY <2>2 DEF q
<1> HIDE DEF q
<1>3. 32 * q \in Nat /\ Slice = (32 * q) * Page
  BY <1>1, <1>2, SMT
<1>4. Slice \div Page = 32 * q
  BY <1>1, <1>3, DivIs, SMT
<1>5. (32 * q) % 3 = 1
  BY <1>1, <1>4
<1>6. PICK i \in Nat : 32 * q = 6 * i + 4
  <2>1. 32 * q = 6 * ((32 * q) \div 6) + 4 /\ (32 * q) \div 6 \in Nat
    BY <1>2, <1>5, SMT
  <2> QED
    BY <2>1
<1>7. (6 * i + 4) * Page = 6 * (i * Page) + 4 * Page
  BY <1>1, SMT
<1> QED
  BY <1>3, <1>6, <1>7

\* The ends of the ranges and of the regions, where 6 * l is four pages less than a slice.
Ends(l) ==
  /\ Up((8 * Slice) \div 3) = 16 * l + 11 * Page
  /\ Up((16 * Slice) \div 3) = 32 * l + 22 * Page
  /\ Up((23 * Slice) \div 3) = 46 * l + 31 * Page
  /\ Up((22 * Slice) \div 3) = 44 * l + 30 * Page
  /\ Up((17 * Slice) \div 3) = 34 * l + 23 * Page
  /\ Up((7 * Slice) \div 3) = 14 * l + 10 * Page
  /\ Up((2 * Slice) \div 3) = 4 * l + 3 * Page
  /\ Up((13 * Slice) \div 3) = 26 * l + 18 * Page
  /\ Up((19 * Slice) \div 6) = 19 * l + 13 * Page
  /\ Up((11 * Slice) \div 6) = 11 * l + 8 * Page
  /\ Up((13 * Slice) \div 6) = 13 * l + 9 * Page

\* They are what the rounding makes of the thirds and sixths.
LEMMA Thirds ==
  \E l \in Nat : (\E i \in Nat : l = i * Page) /\ Slice = 6 * l + 4 * Page /\ Ends(l)
<1>1. PICK i \in Nat : Slice = 6 * (i * Page) + 4 * Page
  BY Sixths
<1>2. Page \in Nat /\ Page >= 4 /\ Slice \in Nat
  <2>1. Page \in Nat \ {0} /\ Word \in Nat \ {0} /\ Page % (2 * Word) = 0 /\ Word % 2 = 0 /\ Slice \in Nat
    BY LayoutAssumption DEF LayoutAssumption
  <2>2. Word >= 2
    BY <2>1, SMT
  <2>3. CASE Page < 4
    <3>1. 0 * (2 * Word) <= Page /\ Page < 0 * (2 * Word) + 2 * Word /\ 2 * Word \in Nat \ {0}
      BY <2>1, <2>2, <2>3, SMT
    <3>2. Page % (2 * Word) = Page - 0 * (2 * Word)
      BY <2>1, <3>1, DivIs
    <3> QED
      BY <2>1, <3>2, SMT
  <2> QED
    BY <2>1, <2>3, SMT
<1> DEFINE l == i * Page
<1>3. l \in Nat
  BY <1>1, <1>2, SMT
<1>4. ASSUME NEW a \in Nat, NEW n \in Nat, NEW b \in Nat,
             n <= a * l + b * Page, a * l + b * Page < n + Page
      PROVE  Up(n) = a * l + b * Page
  <2>1. (a * i + b) * Page = a * (i * Page) + b * Page /\ a * i + b \in Nat
    BY <1>1, <1>2, <1>4, SMT
  <2>2. (a * i + b) * Page = a * l + b * Page
    BY <2>1
  <2> DEFINE k == a * i + b
  <2>3. k \in Nat /\ n <= k * Page /\ k * Page < n + Page /\ Page \in Nat \ {0}
    BY <1>2, <1>4, <2>1, <2>2
  <2> HIDE DEF k, l
  <2>4. Up(n) = k * Page
    BY <2>3, UpIs
  <2> QED
    BY <2>2, <2>4 DEF k
<1>5. \E j \in Nat : l = j * Page
  BY <1>1
<1>6. Slice = 6 * l + 4 * Page
  BY <1>1
<1> HIDE DEF l
<1>7. \A a, n, b \in Nat : (n <= a * l + b * Page /\ a * l + b * Page < n + Page)
                         => Up(n) = a * l + b * Page
  BY <1>4
<1>8. Up((8 * Slice) \div 3) = 16 * l + 11 * Page
  <2>1. /\ (8 * Slice) \div 3 \in Nat
        /\ (8 * Slice) \div 3 <= 16 * l + 11 * Page
        /\ 16 * l + 11 * Page < (8 * Slice) \div 3 + Page
    BY <1>2, <1>3, <1>6, SMT
  <2> QED BY <1>7, <2>1
<1>9. Up((16 * Slice) \div 3) = 32 * l + 22 * Page
  <2>1. /\ (16 * Slice) \div 3 \in Nat
        /\ (16 * Slice) \div 3 <= 32 * l + 22 * Page
        /\ 32 * l + 22 * Page < (16 * Slice) \div 3 + Page
    BY <1>2, <1>3, <1>6, SMT
  <2> QED BY <1>7, <2>1
<1>10. Up((23 * Slice) \div 3) = 46 * l + 31 * Page
  <2>1. /\ (23 * Slice) \div 3 \in Nat
        /\ (23 * Slice) \div 3 <= 46 * l + 31 * Page
        /\ 46 * l + 31 * Page < (23 * Slice) \div 3 + Page
    BY <1>2, <1>3, <1>6, SMT
  <2> QED BY <1>7, <2>1
<1>11. Up((22 * Slice) \div 3) = 44 * l + 30 * Page
  <2>1. /\ (22 * Slice) \div 3 \in Nat
        /\ (22 * Slice) \div 3 <= 44 * l + 30 * Page
        /\ 44 * l + 30 * Page < (22 * Slice) \div 3 + Page
    BY <1>2, <1>3, <1>6, SMT
  <2> QED BY <1>7, <2>1
<1>12. Up((17 * Slice) \div 3) = 34 * l + 23 * Page
  <2>1. /\ (17 * Slice) \div 3 \in Nat
        /\ (17 * Slice) \div 3 <= 34 * l + 23 * Page
        /\ 34 * l + 23 * Page < (17 * Slice) \div 3 + Page
    BY <1>2, <1>3, <1>6, SMT
  <2> QED BY <1>7, <2>1
<1>13. Up((7 * Slice) \div 3) = 14 * l + 10 * Page
  <2>1. /\ (7 * Slice) \div 3 \in Nat
        /\ (7 * Slice) \div 3 <= 14 * l + 10 * Page
        /\ 14 * l + 10 * Page < (7 * Slice) \div 3 + Page
    BY <1>2, <1>3, <1>6, SMT
  <2> QED BY <1>7, <2>1
<1>14. Up((2 * Slice) \div 3) = 4 * l + 3 * Page
  <2>1. /\ (2 * Slice) \div 3 \in Nat
        /\ (2 * Slice) \div 3 <= 4 * l + 3 * Page
        /\ 4 * l + 3 * Page < (2 * Slice) \div 3 + Page
    BY <1>2, <1>3, <1>6, SMT
  <2> QED BY <1>7, <2>1
<1>15. Up((13 * Slice) \div 3) = 26 * l + 18 * Page
  <2>1. /\ (13 * Slice) \div 3 \in Nat
        /\ (13 * Slice) \div 3 <= 26 * l + 18 * Page
        /\ 26 * l + 18 * Page < (13 * Slice) \div 3 + Page
    BY <1>2, <1>3, <1>6, SMT
  <2> QED BY <1>7, <2>1
<1>16. Up((19 * Slice) \div 6) = 19 * l + 13 * Page
  <2>1. /\ (19 * Slice) \div 6 \in Nat
        /\ (19 * Slice) \div 6 <= 19 * l + 13 * Page
        /\ 19 * l + 13 * Page < (19 * Slice) \div 6 + Page
    BY <1>2, <1>3, <1>6, SMT
  <2> QED BY <1>7, <2>1
<1>17. Up((11 * Slice) \div 6) = 11 * l + 8 * Page
  <2>1. /\ (11 * Slice) \div 6 \in Nat
        /\ (11 * Slice) \div 6 <= 11 * l + 8 * Page
        /\ 11 * l + 8 * Page < (11 * Slice) \div 6 + Page
    BY <1>2, <1>3, <1>6, SMT
  <2> QED BY <1>7, <2>1
<1>18. Up((13 * Slice) \div 6) = 13 * l + 9 * Page
  <2>1. /\ (13 * Slice) \div 6 \in Nat
        /\ (13 * Slice) \div 6 <= 13 * l + 9 * Page
        /\ 13 * l + 9 * Page < (13 * Slice) \div 6 + Page
    BY <1>2, <1>3, <1>6, SMT
  <2> QED BY <1>7, <2>1
<1> QED
  BY <1>3, <1>5, <1>6, <1>8, <1>9, <1>10, <1>11, <1>12, <1>13, <1>14, <1>15, <1>16,
     <1>17, <1>18 DEF Ends
-----------------------------------------------------------------------------
(* Where cells and regions lie *)

\* The lengths that the ends are combinations of, and that they are whole words.
Lengths3(l, q) ==
  /\ Slice = 6 * l + 4 * Page /\ Slice = 32 * q /\ Slack <= q
  /\ Slack \in Nat /\ Page \in Nat /\ Page >= 4 /\ Word \in Nat /\ Word >= 2 /\ Word % 2 = 0
  /\ \E i, j, k \in Nat : l = i * Word /\ Page = j * Word /\ q = k * Word

\* There are such lengths.
LEMMA Measure ==
  \E l, q \in Nat : Lengths3(l, q) /\ Ends(l)
<1>1. PICK l \in Nat : (\E i \in Nat : l = i * Page) /\ Slice = 6 * l + 4 * Page /\ Ends(l)
  BY Thirds
<1>2. /\ Slice \in Nat /\ Page \in Nat \ {0} /\ Word \in Nat \ {0} /\ Slack \in Nat
      /\ Slice % (32 * Page) = 0 /\ Page % (2 * Word) = 0 /\ Word % 2 = 0
      /\ Slack <= Slice \div 32
  BY LayoutAssumption DEF LayoutAssumption
<1>3. ASSUME NEW n \in Nat, NEW d \in Nat \ {0}, n % d = 0
      PROVE  \E k \in Nat : n = k * d
  <2>1. n = d * (n \div d) + (n % d) /\ n \div d \in Nat
    BY <1>3, SMT
  <2>2. n = (n \div d) * d
    BY <1>3, <2>1, SMT
  <2> QED BY <2>1, <2>2
<1>4. PICK j \in Nat : Page = j * (2 * Word)
  <2>1. 2 * Word \in Nat \ {0} /\ Page \in Nat /\ Page % (2 * Word) = 0
    BY <1>2
  <2> QED BY <2>1, <1>3
<1>5. PICK k \in Nat : Slice = k * (32 * Page)
  <2>1. 32 * Page \in Nat \ {0} /\ Slice \in Nat /\ Slice % (32 * Page) = 0
    BY <1>2
  <2> QED BY <2>1, <1>3
<1>6. PICK i \in Nat : l = i * Page
  BY <1>1
<1>7. Word >= 2 /\ Page >= 4
  <2>1. Word >= 2
    BY <1>2, SMT
  <2>2. j # 0
    BY <1>2, <1>4, SMT
  <2>3. j * (2 * Word) >= 2 * Word
    BY <1>2, <2>2, SMT
  <2> QED BY <1>2, <1>4, <2>1, <2>3, SMT
<1>8. /\ Page = (2 * j) * Word /\ 2 * j \in Nat
      /\ k * Page \in Nat /\ Slice = 32 * (k * Page)
  BY <1>2, <1>4, <1>5, SMT
<1>9. i * (2 * j) \in Nat /\ l = (i * (2 * j)) * Word
  <2>1. i * ((2 * j) * Word) = (i * (2 * j)) * Word /\ i * (2 * j) \in Nat
    BY <1>2, SMT
  <2> QED BY <1>6, <1>8, <2>1
<1>10. k * (2 * j) \in Nat /\ k * Page = (k * (2 * j)) * Word
  <2>1. k * ((2 * j) * Word) = (k * (2 * j)) * Word /\ k * (2 * j) \in Nat
    BY <1>2, SMT
  <2> QED BY <1>8, <2>1
<1> DEFINE q == k * Page
<1>11. q \in Nat /\ Slice = 32 * q
  BY <1>8
<1>12. \E a, b, c \in Nat : l = a * Word /\ Page = b * Word /\ q = c * Word
  BY <1>8, <1>9, <1>10
<1> HIDE DEF q
<1>13. Slack <= q
  BY <1>2, <1>11, SMT
<1>14. Lengths3(l, q)
  BY <1>1, <1>2, <1>7, <1>11, <1>12, <1>13 DEF Lengths3
<1> QED
  BY <1>1, <1>11, <1>14

\* A word that begins before a multiple of the word's length ends by it.
LEMMA WordEnds ==
  ASSUME NEW a \in Nat, NEW w \in Nat \ {0}, a % w = 0, NEW k \in Nat, a < k * w
  PROVE  a + w <= k * w
<1> DEFINE x == a \div w
<1>1. a = w * x + (a % w) /\ x \in Nat
  BY SMT
<1> HIDE DEF x
<1>2. a = w * x
  BY <1>1, SMT
<1>3. k <= x => k * w <= w * x
  BY <1>1, SMT
<1>4. x + 1 <= k => w * x + w <= k * w
  BY <1>1, SMT
<1>5. w * x \in Nat /\ k * w \in Nat
  BY <1>1, SMT
<1>6. x + 1 <= k
  BY <1>1, <1>2, <1>3, <1>5, SMT
<1> QED
  BY <1>2, <1>4, <1>6, SMT

\* Where the words of shadowed mappings are, in those lengths.
LEMMA WordPlace ==
  ASSUME NEW l \in Nat, NEW q \in Nat, Lengths3(l, q), Ends(l),
         NEW lo \in Nat, NEW hi \in Nat, Shadowable(Bytes(lo, hi)),
         NEW a \in Nat, lo <= a, a < hi, a % Word = 0
  PROVE  \/ a + Word <= 2 * l + 2 * Page
         \/ 16 * l + 11 * Page <= a /\ a + Word <= 18 * l + 12 * Page
         \/ 32 * l + 22 * Page <= a /\ a + Word <= 32 * l + 22 * Page + 2 * q
         \/ 46 * l + 31 * Page <= a /\ a + Word <= 48 * l + 32 * Page
<1>1. /\ Slice = 6 * l + 4 * Page /\ Slice = 32 * q
      /\ Page \in Nat /\ Page >= 4 /\ Word \in Nat /\ Word >= 2
  BY DEF Lengths3
<1>2. PICK i, j, k \in Nat : l = i * Word /\ Page = j * Word /\ q = k * Word
  BY DEF Lengths3
<1>3. /\ Slice \div 3 <= 2 * l + 2 * Page /\ Slice \div 16 = 2 * q
  BY <1>1, SMT
<1>4. /\ 2 * l + 2 * Page = (2 * i + 2 * j) * Word
      /\ 18 * l + 12 * Page = (18 * i + 12 * j) * Word
      /\ 32 * l + 22 * Page + 2 * q = (32 * i + 22 * j + 2 * k) * Word
      /\ 48 * l + 32 * Page = (48 * i + 32 * j) * Word
  <2>1. \A w \in Nat :
          /\ 2 * (i * w) + 2 * (j * w) = (2 * i + 2 * j) * w
          /\ 18 * (i * w) + 12 * (j * w) = (18 * i + 12 * j) * w
          /\ 32 * (i * w) + 22 * (j * w) + 2 * (k * w) = (32 * i + 22 * j + 2 * k) * w
          /\ 48 * (i * w) + 32 * (j * w) = (48 * i + 32 * j) * w
    BY SMT
  <2> QED
    BY <1>1, <1>2, <2>1
<1>5. ASSUME NEW x \in Nat, NEW n \in Nat, n = x * Word, a < n
      PROVE  a + Word <= n
  <2>1. Word \in Nat \ {0} /\ a % Word = 0 /\ a < x * Word
    BY <1>1, <1>5
  <2>2. a + Word <= x * Word
    BY <2>1, WordEnds, Zenon
  <2> QED
    BY <1>5, <2>2
<1>6. /\ 2 * i + 2 * j \in Nat /\ 18 * i + 12 * j \in Nat
      /\ 32 * i + 22 * j + 2 * k \in Nat /\ 48 * i + 32 * j \in Nat
  BY SMT
<1>7. /\ a < 2 * l + 2 * Page => a + Word <= 2 * l + 2 * Page
      /\ a < 18 * l + 12 * Page => a + Word <= 18 * l + 12 * Page
      /\ a < 32 * l + 22 * Page + 2 * q => a + Word <= 32 * l + 22 * Page + 2 * q
      /\ a < 48 * l + 32 * Page => a + Word <= 48 * l + 32 * Page
  <2>1. /\ 2 * l + 2 * Page \in Nat /\ 18 * l + 12 * Page \in Nat
        /\ 32 * l + 22 * Page + 2 * q \in Nat /\ 48 * l + 32 * Page \in Nat
    BY <1>1
  <2>2. \A x, n \in Nat : n = x * Word /\ a < n => a + Word <= n
    BY <1>5
  <2> QED
    BY <1>4, <1>6, <2>1, <2>2
<1>8. CASE In(Bytes(lo, hi), Bytes(0, Slice \div 3))
  BY <1>1, <1>3, <1>7, <1>8, SMT DEF In, Bytes
<1>9. CASE In(Bytes(lo, hi), Range2a)
  BY <1>1, <1>7, <1>9, SMT DEF In, Bytes, Range2a, Start2a, Ends
<1>10. CASE In(Bytes(lo, hi), Range55)
  BY <1>1, <1>3, <1>7, <1>10, SMT DEF In, Bytes, Range55, Ends
<1>11. CASE In(Bytes(lo, hi), Range7a)
  BY <1>1, <1>7, <1>11, SMT DEF In, Bytes, Range7a, Ends
<1> QED
  BY <1>8, <1>9, <1>10, <1>11 DEF Shadowable

\* The base cell of a shadowed word: its top three bits inverted.
LEMMA BaseCell ==
  ASSUME NEW lo \in Nat, NEW hi \in Nat, Shadowable(Bytes(lo, hi)),
         NEW a \in Nat, lo <= a, a < hi, a % Word = 0
  PROVE  Reserved(Bytes(base_stored_loc(a), base_stored_loc(a) + Word), BaseRegions)
<1>1. PICK l, q \in Nat : Lengths3(l, q) /\ Ends(l)
  BY Measure
<1>2. /\ Slice = 6 * l + 4 * Page /\ Slice = 32 * q /\ Slice \in Nat \ {0}
      /\ Page \in Nat /\ Page >= 4 /\ Word \in Nat /\ Word >= 2
  BY <1>1, SMT DEF Lengths3
<1>3. Slice \div 16 = 2 * q
  BY <1>2, SMT
<1> DEFINE b == base_stored_loc(a)
<1>4. ASSUME NEW n \in 0 .. 7, n * Slice <= a, a < n * Slice + Slice
      PROVE  b = (7 - n) * Slice + (a - n * Slice)
  <2>1. n \in Nat
    BY <1>4
  <2>2. a \div Slice = n /\ a % Slice = a - n * Slice
    BY <1>2, <1>4, <2>1, DivIs, ZenonT(40)
  <2> QED
    BY <2>2 DEF base_stored_loc
<1>5. /\ a < Slice => b = 7 * Slice + a
      /\ 2 * Slice <= a /\ a < 3 * Slice => b = 5 * Slice + (a - 2 * Slice)
      /\ 5 * Slice <= a /\ a < 6 * Slice => b = 2 * Slice + (a - 5 * Slice)
      /\ 7 * Slice <= a /\ a < 8 * Slice => b = a - 7 * Slice
  <2>1. ASSUME a < Slice PROVE b = 7 * Slice + a
    <3>1. b = (7 - 0) * Slice + (a - 0 * Slice)
      <4>1. 0 \in 0 .. 7 /\ 0 * Slice <= a /\ a < 0 * Slice + Slice
        BY <1>2, <2>1
      <4> QED BY <4>1, <1>4
    <3> HIDE DEF b
    <3> QED BY <1>2, <3>1
  <2>2. ASSUME 2 * Slice <= a, a < 3 * Slice PROVE b = 5 * Slice + (a - 2 * Slice)
    <3>1. b = (7 - 2) * Slice + (a - 2 * Slice)
      <4>1. 2 \in 0 .. 7 /\ 2 * Slice <= a /\ a < 2 * Slice + Slice
        BY <1>2, <2>2
      <4> QED BY <4>1, <1>4
    <3> HIDE DEF b
    <3> QED BY <1>2, <3>1
  <2>3. ASSUME 5 * Slice <= a, a < 6 * Slice PROVE b = 2 * Slice + (a - 5 * Slice)
    <3>1. b = (7 - 5) * Slice + (a - 5 * Slice)
      <4>1. 5 \in 0 .. 7 /\ 5 * Slice <= a /\ a < 5 * Slice + Slice
        BY <1>2, <2>3
      <4> QED BY <4>1, <1>4
    <3> HIDE DEF b
    <3> QED BY <1>2, <3>1
  <2>4. ASSUME 7 * Slice <= a, a < 8 * Slice PROVE b = a - 7 * Slice
    <3>1. b = (7 - 7) * Slice + (a - 7 * Slice)
      <4>1. 7 \in 0 .. 7 /\ 7 * Slice <= a /\ a < 7 * Slice + Slice
        BY <1>2, <2>4
      <4> QED BY <4>1, <1>4
    <3> HIDE DEF b
    <3> QED BY <1>2, <3>1
  <2> HIDE DEF b
  <2> QED
    BY <2>1, <2>2, <2>3, <2>4
<1> HIDE DEF b
<1>6. SUFFICES \E r \in BaseRegions : r.lo <= b /\ b + Word <= r.hi
  BY DEF Reserved, In, Bytes, b
<1>7. CASE a + Word <= 2 * l + 2 * Page
  <2>1. 7 * Slice <= b /\ b + Word <= 44 * l + 30 * Page
    BY <1>2, <1>5, <1>7, SMT
  <2>2. Bytes(7 * Slice, Up((22 * Slice) \div 3)) \in BaseRegions
    BY DEF BaseRegions
  <2> QED
    BY <1>1, <2>1, <2>2 DEF Bytes, Ends
<1>8. CASE 16 * l + 11 * Page <= a /\ a + Word <= 18 * l + 12 * Page
  <2>1. 34 * l + 23 * Page <= b /\ b + Word <= 6 * Slice
    BY <1>2, <1>5, <1>8, SMT
  <2>2. Bytes(Up((17 * Slice) \div 3), 6 * Slice) \in BaseRegions
    BY DEF BaseRegions
  <2> QED
    BY <1>1, <2>1, <2>2 DEF Bytes, Ends
<1>9. CASE 32 * l + 22 * Page <= a /\ a + Word <= 32 * l + 22 * Page + 2 * q
  <2>1. 14 * l + 10 * Page <= b /\ b + Word <= 14 * l + 10 * Page + 2 * q
    BY <1>2, <1>5, <1>9, SMT
  <2>2. Bytes(Up((7 * Slice) \div 3), Up((7 * Slice) \div 3) + Slice \div 16) \in BaseRegions
    BY DEF BaseRegions
  <2> QED
    BY <1>1, <1>3, <2>1, <2>2 DEF Bytes, Ends
<1>10. CASE 46 * l + 31 * Page <= a /\ a + Word <= 48 * l + 32 * Page
  <2>1. 4 * l + 3 * Page <= b /\ b + Word <= Slice
    BY <1>2, <1>5, <1>10, SMT
  <2>2. Bytes(Up((2 * Slice) \div 3), Slice) \in BaseRegions
    BY DEF BaseRegions
  <2> QED
    BY <1>1, <2>1, <2>2 DEF Bytes, Ends
<1> QED
  BY <1>1, <1>7, <1>8, <1>9, <1>10, WordPlace

\* The size cell of a shadowed word: half its address further on.
LEMMA SizeCell ==
  ASSUME NEW lo \in Nat, NEW hi \in Nat, Shadowable(Bytes(lo, hi)),
         NEW a \in Nat, lo <= a, a < hi, a % Word = 0
  PROVE  Reserved(SizeOf(a), SizeRegions) \/ \E f \in FirstPages : f.lo <= a /\ a < f.hi
<1>1. PICK l, q \in Nat : Lengths3(l, q) /\ Ends(l)
  BY Measure
<1>2. /\ Slice = 6 * l + 4 * Page /\ Slice = 32 * q /\ Slice \in Nat \ {0}
      /\ Page \in Nat /\ Page >= 4 /\ Word \in Nat /\ Word >= 2 /\ Word % 2 = 0 /\ Slack \in Nat
  BY <1>1, SMT DEF Lengths3
<1>3. /\ Slice \div 32 = q /\ Slice \div 2 = 3 * l + 2 * Page
  BY <1>2, SMT
<1> DEFINE c == size_stored_loc(a)
<1>4. c = 3 * l + 2 * Page + (a \div 2)
  BY <1>3 DEF size_stored_loc
<1> HIDE DEF c
<1>5. \A n \in Nat : a + Word <= 2 * n => (a \div 2) + (Word \div 2) <= n
  BY <1>2, SMT
<1>6. \A n \in Nat : 2 * n <= a => n <= a \div 2
  BY <1>2, SMT
<1>7. a \div 2 \in Nat /\ Word \div 2 \in Nat
  BY <1>2, SMT
<1>8. SUFFICES \/ \E r \in SizeRegions : r.lo <= c /\ c + (Word \div 2) <= r.hi
               \/ \E f \in FirstPages : f.lo <= a /\ a < f.hi
  BY DEF Reserved, In, Bytes, c, SizeOf
<1>9. CASE a + Word <= 2 * l + 2 * Page
  <2>1. (a \div 2) + (Word \div 2) <= l + Page
    BY <1>2, <1>5, <1>9, SMT
  <2>2. Slice \div 2 <= c /\ c + (Word \div 2) <= 4 * l + 3 * Page
    BY <1>2, <1>3, <1>4, <1>7, <2>1, SMT
  <2>3. Bytes(Slice \div 2, Up((2 * Slice) \div 3)) \in SizeRegions
    BY DEF SizeRegions
  <2> QED
    BY <1>1, <2>2, <2>3 DEF Bytes, Ends
<1>10. CASE 16 * l + 11 * Page <= a /\ a + Word <= 18 * l + 12 * Page
  <2>1. CASE a < 16 * l + 12 * Page
    <3>1. Bytes(Start2a, Start2a + Page) \in FirstPages
      BY DEF FirstPages
    <3>2. Start2a <= a /\ a < Start2a + Page
      BY <1>1, <1>2, <1>10, <2>1, SMT DEF Start2a, Ends
    <3> QED
      BY <3>1, <3>2 DEF Bytes
  <2>2. CASE 16 * l + 12 * Page <= a
    <3>1. (a \div 2) + (Word \div 2) <= 9 * l + 6 * Page
      BY <1>2, <1>5, <1>10, SMT
    <3>2. 8 * l + 6 * Page <= a \div 2
      BY <1>2, <1>6, <2>2, SMT
    <3>3. 11 * l + 8 * Page <= c /\ c + (Word \div 2) <= 13 * l + 9 * Page
      BY <1>2, <1>4, <1>7, <3>1, <3>2, SMT
    <3>4. Bytes(Up((11 * Slice) \div 6), Up((13 * Slice) \div 6)) \in SizeRegions
      BY DEF SizeRegions
    <3> QED
      BY <1>1, <3>3, <3>4 DEF Bytes, Ends
  <2> QED
    BY <1>2, <2>1, <2>2, SMT
<1>11. CASE 32 * l + 22 * Page <= a /\ a + Word <= 32 * l + 22 * Page + 2 * q
  <2>1. (a \div 2) + (Word \div 2) <= 16 * l + 11 * Page + q
    BY <1>2, <1>5, <1>11, SMT
  <2>2. 16 * l + 11 * Page <= a \div 2
    BY <1>2, <1>6, <1>11, SMT
  <2>3. 19 * l + 13 * Page - Slack <= c /\ c + (Word \div 2) <= 19 * l + 13 * Page + q
    BY <1>2, <1>4, <1>7, <2>1, <2>2, SMT
  <2>4. Sizes55 \in SizeRegions
    BY DEF SizeRegions
  <2>5. Sizes55.lo = 19 * l + 13 * Page - Slack /\ Sizes55.hi = 19 * l + 13 * Page + q
    BY <1>1, <1>2, <1>3 DEF Bytes, Ends, Sizes55
  <2>6. Sizes55.lo <= c /\ c + (Word \div 2) <= Sizes55.hi
    BY <2>3, <2>5, Zenon
  <2> QED
    BY <2>4, <2>6, Zenon
<1>12. CASE 46 * l + 31 * Page <= a /\ a + Word <= 48 * l + 32 * Page
  <2>1. CASE a < 46 * l + 32 * Page
    <3>1. Bytes(Range7a.lo, Range7a.lo + Page) \in FirstPages
      BY DEF FirstPages
    <3>2. Range7a.lo <= a /\ a < Range7a.lo + Page
      BY <1>1, <1>2, <1>12, <2>1, SMT DEF Range7a, Ends, Bytes
    <3> QED
      BY <3>1, <3>2 DEF Bytes
  <2>2. CASE 46 * l + 32 * Page <= a
    <3>1. (a \div 2) + (Word \div 2) <= 24 * l + 16 * Page
      BY <1>2, <1>5, <1>12, SMT
    <3>2. 23 * l + 16 * Page <= a \div 2
      BY <1>2, <1>6, <2>2, SMT
    <3>3. 26 * l + 18 * Page <= c /\ c + (Word \div 2) <= 4 * Slice + Slice \div 2
      BY <1>2, <1>3, <1>4, <1>7, <3>1, <3>2, SMT
    <3>4. Bytes(Up((13 * Slice) \div 3), 4 * Slice + Slice \div 2) \in SizeRegions
      BY DEF SizeRegions
    <3> QED
      BY <1>1, <3>3, <3>4 DEF Bytes, Ends
  <2> QED
    BY <1>2, <2>1, <2>2, SMT
<1> QED
  BY <1>1, <1>9, <1>10, <1>11, <1>12, WordPlace

\* The ends of the eight regions, in those lengths.
LEMMA RegionEnds ==
  ASSUME NEW l \in Nat, NEW q \in Nat, Lengths3(l, q), Ends(l), NEW r \in Regions
  PROVE  \/ r.lo = 42 * l + 28 * Page /\ r.hi = 44 * l + 30 * Page
         \/ r.lo = 34 * l + 23 * Page /\ r.hi = 36 * l + 24 * Page
         \/ r.lo = 14 * l + 10 * Page /\ r.hi = 14 * l + 10 * Page + 2 * q
         \/ r.lo = 4 * l + 3 * Page /\ r.hi = 6 * l + 4 * Page
         \/ r.lo = 3 * l + 2 * Page /\ r.hi = 4 * l + 3 * Page
         \/ r.lo = 11 * l + 8 * Page /\ r.hi = 13 * l + 9 * Page
         \/ r.lo = 19 * l + 13 * Page - Slack /\ r.hi = 19 * l + 13 * Page + q
         \/ r.lo = 26 * l + 18 * Page /\ r.hi = 27 * l + 18 * Page
<1>1. Ends(l)
  OBVIOUS
<1>2. /\ Slice = 6 * l + 4 * Page /\ Slice = 32 * q
      /\ Page \in Nat /\ Page >= 4 /\ Slack \in Nat /\ Slack <= q
  BY DEF Lengths3
<1>3. /\ Slice \div 32 = q /\ Slice \div 16 = 2 * q /\ Slice \div 2 = 3 * l + 2 * Page
  BY <1>2, SMT
<1>4. CASE r \in BaseRegions
  <2>1. CASE r = Bytes(7 * Slice, Up((22 * Slice) \div 3))
    BY <1>1, <1>2, <2>1, SMT DEF Bytes, Ends
  <2>2. CASE r = Bytes(Up((17 * Slice) \div 3), 6 * Slice)
    BY <1>1, <1>2, <2>2, SMT DEF Bytes, Ends
  <2>3. CASE r = Bytes(Up((7 * Slice) \div 3), Up((7 * Slice) \div 3) + Slice \div 16)
    BY <1>1, <1>3, <2>3, SMT DEF Bytes, Ends
  <2>4. CASE r = Bytes(Up((2 * Slice) \div 3), Slice)
    BY <1>1, <1>2, <2>4, SMT DEF Bytes, Ends
  <2> QED
    BY <1>4, <2>1, <2>2, <2>3, <2>4 DEF BaseRegions
<1>5. CASE r \in SizeRegions
  <2>1. CASE r = Bytes(Slice \div 2, Up((2 * Slice) \div 3))
    BY <1>1, <1>3, <2>1, SMT DEF Bytes, Ends
  <2>2. CASE r = Bytes(Up((11 * Slice) \div 6), Up((13 * Slice) \div 6))
    BY <1>1, <1>2, <2>2, SMT DEF Bytes, Ends
  <2>3. CASE r = Sizes55
    BY <1>1, <1>2, <1>3, <2>3, SMT DEF Bytes, Ends, Sizes55
  <2>4. CASE r = Bytes(Up((13 * Slice) \div 3), 4 * Slice + Slice \div 2)
    BY <1>1, <1>2, <1>3, <2>4, SMT DEF Bytes, Ends
  <2> QED
    BY <1>5, <2>1, <2>2, <2>3, <2>4 DEF SizeRegions
<1> QED
  BY <1>4, <1>5 DEF Regions

\* What check_maps_cb says is shadowed does not lie where a region will be.
LEMMA RegionsApart ==
  ASSUME NEW lo \in Nat, NEW hi \in Nat, lo < hi, Shadowable(Bytes(lo, hi)), NEW r \in Regions
  PROVE  ~Overlap(Bytes(lo, hi), r)
<1>1. PICK l, q \in Nat : Lengths3(l, q) /\ Ends(l)
  BY Measure
<1>2. /\ Slice = 6 * l + 4 * Page /\ Slice = 32 * q
      /\ Page \in Nat /\ Page >= 4 /\ Slack \in Nat /\ Slack <= q
  BY <1>1, SMT DEF Lengths3
<1>3. /\ Slice \div 32 = q /\ Slice \div 16 = 2 * q /\ Slice \div 2 = 3 * l + 2 * Page
      /\ Slice \div 3 <= 2 * l + 2 * Page
  BY <1>2, SMT
<1>4. \/ hi <= 2 * l + 2 * Page
      \/ 16 * l + 11 * Page <= lo /\ hi <= 18 * l + 12 * Page
      \/ 32 * l + 22 * Page <= lo /\ hi <= 32 * l + 22 * Page + 2 * q
      \/ 46 * l + 31 * Page <= lo /\ hi <= 48 * l + 32 * Page
  <2>1. CASE In(Bytes(lo, hi), Bytes(0, Slice \div 3))
    BY <1>2, <1>3, <2>1, SMT DEF In, Bytes
  <2>2. CASE In(Bytes(lo, hi), Range2a)
    BY <1>1, <1>2, <2>2, SMT DEF In, Bytes, Range2a, Start2a, Ends
  <2>3. CASE In(Bytes(lo, hi), Range55)
    BY <1>1, <1>2, <1>3, <2>3, SMT DEF In, Bytes, Range55, Ends
  <2>4. CASE In(Bytes(lo, hi), Range7a)
    BY <1>1, <1>2, <2>4, SMT DEF In, Bytes, Range7a, Ends
  <2> QED
    BY <2>1, <2>2, <2>3, <2>4 DEF Shadowable
<1>5. \/ r.lo = 42 * l + 28 * Page /\ r.hi = 44 * l + 30 * Page
      \/ r.lo = 34 * l + 23 * Page /\ r.hi = 36 * l + 24 * Page
      \/ r.lo = 14 * l + 10 * Page /\ r.hi = 14 * l + 10 * Page + 2 * q
      \/ r.lo = 4 * l + 3 * Page /\ r.hi = 6 * l + 4 * Page
      \/ r.lo = 3 * l + 2 * Page /\ r.hi = 4 * l + 3 * Page
      \/ r.lo = 11 * l + 8 * Page /\ r.hi = 13 * l + 9 * Page
      \/ r.lo = 19 * l + 13 * Page - Slack /\ r.hi = 19 * l + 13 * Page + q
      \/ r.lo = 26 * l + 18 * Page /\ r.hi = 27 * l + 18 * Page
  BY <1>1, RegionEnds, Zenon
<1>6. SUFFICES ~(lo < r.hi /\ r.lo < hi)
  BY DEF Overlap, Bytes
<1> QED
  BY <1>2, <1>4, <1>5, SMT

\* The regions lie in the address space.
LEMMA RegionsIn ==
  ASSUME NEW r \in Regions
  PROVE  r.lo \in Nat /\ r.hi \in Nat /\ r.hi <= 8 * Slice
<1>1. PICK l, q \in Nat : Lengths3(l, q) /\ Ends(l)
  BY Measure
<1>2. /\ Slice = 6 * l + 4 * Page /\ Slice = 32 * q
      /\ Page \in Nat /\ Page >= 4 /\ Slack \in Nat /\ Slack <= q
  BY <1>1, SMT DEF Lengths3
<1>3. \/ r.lo = 42 * l + 28 * Page /\ r.hi = 44 * l + 30 * Page
      \/ r.lo = 34 * l + 23 * Page /\ r.hi = 36 * l + 24 * Page
      \/ r.lo = 14 * l + 10 * Page /\ r.hi = 14 * l + 10 * Page + 2 * q
      \/ r.lo = 4 * l + 3 * Page /\ r.hi = 6 * l + 4 * Page
      \/ r.lo = 3 * l + 2 * Page /\ r.hi = 4 * l + 3 * Page
      \/ r.lo = 11 * l + 8 * Page /\ r.hi = 13 * l + 9 * Page
      \/ r.lo = 19 * l + 13 * Page - Slack /\ r.hi = 19 * l + 13 * Page + q
      \/ r.lo = 26 * l + 18 * Page /\ r.hi = 27 * l + 18 * Page
  BY <1>1, RegionEnds, Zenon
<1> QED
  BY <1>2, <1>3, SMT
-----------------------------------------------------------------------------
(* The kernel's choice *)

\* A mapping of at least a byte within the address space.
Maps == {m \in [lo : Nat, hi : Nat] : m.lo < m.hi /\ m.hi <= 8 * Slice}

\* What being a mapping gives.
LEMMA MapsFacts ==
  ASSUME NEW m \in Maps
  PROVE  m = Bytes(m.lo, m.hi) /\ m.lo \in Nat /\ m.hi \in Nat /\ m.lo < m.hi /\ m.hi <= 8 * Slice
  BY DEF Maps, Bytes

\* The sizes are numbers.
LEMMA SizesNat ==
  /\ Slice \in Nat /\ Page \in Nat \ {0} /\ Word \in Nat \ {0} /\ Start2a \in Nat
  /\ Sizes55.hi \in Nat /\ 3 * Slice <= 8 * Slice
<1>1. PICK l, q \in Nat : Lengths3(l, q) /\ Ends(l)
  BY Measure
<1>2. /\ Slice = 6 * l + 4 * Page /\ Slice = 32 * q /\ Page \in Nat /\ Page >= 4 /\ Word \in Nat /\ Word >= 2
  BY <1>1, SMT DEF Lengths3
<1>3. Slice \div 32 = q
  BY <1>2, SMT
<1>4. Start2a \in Nat
  BY <1>1, <1>2, SMT DEF Ends, Start2a
<1>5. Sizes55.hi = 19 * l + 13 * Page + q
  BY <1>1, <1>2, <1>3 DEF Bytes, Ends, Sizes55
<1>6. Sizes55.hi \in Nat
  BY <1>2, <1>5
<1> QED
  BY <1>2, <1>4, <1>6, SMT

\* Rounding to pages keeps a length positive, and an address from Start2a on there.
LEMMA PagesFacts ==
  ASSUME NEW length \in Nat \ {0}, NEW a \in Nat
  PROVE  /\ Up(length) \in Nat \ {0} /\ Down(a) \in Nat
         /\ a >= Start2a => Down(a) >= Start2a
<1>1. Page \in Nat \ {0} /\ (8 * Slice) \div 3 \in Nat
  BY SizesNat, SMT
<1>2. \A n, d \in Nat : d > 0 =>
        n = d * (n \div d) + (n % d) /\ n % d \in 0 .. (d - 1) /\ n \div d \in Nat
  BY SMT
<1> DEFINE u == (length + Page - 1) \div Page
           v == a \div Page
           k == ((8 * Slice) \div 3 + Page - 1) \div Page
<1>3. /\ u \in Nat /\ length + Page - 1 < Page * u + Page
      /\ v \in Nat /\ a < Page * v + Page /\ k \in Nat
  <2>1. length + Page - 1 \in Nat /\ (8 * Slice) \div 3 + Page - 1 \in Nat
    BY <1>1
  <2>2. u \in Nat /\ length + Page - 1 < Page * u + Page
    BY <1>1, <1>2, <2>1
  <2>3. v \in Nat /\ a < Page * v + Page
    BY <1>1, <1>2
  <2>4. k \in Nat
    BY <1>1, <1>2, <2>1
  <2> QED BY <2>2, <2>3, <2>4
<1>4. Up(length) = u * Page /\ Down(a) = v * Page /\ Start2a = k * Page
  BY DEF Up, Down, Start2a
<1> HIDE DEF u, v, k
<1>5. u # 0
  BY <1>1, <1>3
<1>6. u * Page \in Nat \ {0} /\ v * Page \in Nat
  BY <1>1, <1>3, <1>5, SMT
<1>7. ASSUME a >= k * Page PROVE v * Page >= k * Page
  <2>1. CASE v < k
    <3>1. Page * v + Page <= k * Page
      <4>1. \A x, y, d \in Nat : x + 1 <= y => d * x + d <= y * d
        BY SMT
      <4>2. v + 1 <= k
        BY <1>3, <2>1
      <4> QED BY <1>1, <1>3, <4>1, <4>2
    <3> QED BY <1>1, <1>3, <1>7, <3>1
  <2>2. CASE v >= k
    <3>1. \A x, y, d \in Nat : x >= y => x * d >= y * d
      BY SMT
    <3> QED BY <1>1, <1>3, <2>2, <3>1
  <2> QED BY <1>3, <2>1, <2>2
<1> QED BY <1>4, <1>6, <1>7

\* The bump pointer that is set is not null.
LEMMA Start2aPositive ==
  Start2a > 0 /\ Range7a.lo \in Nat
<1>1. PICK l, q \in Nat : Lengths3(l, q) /\ Ends(l)
  BY Measure
<1>2. Page \in Nat /\ Page >= 4
  BY <1>1 DEF Lengths3
<1> QED
  BY <1>1, <1>2, SMT DEF Ends, Start2a, Range7a, Bytes

\* What is taken has its ends in the address space.
LEMMA TakenNat ==
  ASSUME mem \subseteq Maps, NEW m \in Taken
  PROVE  m.lo \in Nat /\ m.hi \in Nat
<1>1. CASE m \in mem
  BY <1>1, MapsFacts
<1>2. CASE m \in Regions
  BY <1>2, RegionsIn
<1> QED
  BY <1>1, <1>2 DEF Taken

\* Numbers that have an upper bound have a greatest.
LEMMA Greatest ==
  ASSUME NEW H, H # {}, NEW n \in Nat, \A t \in H : t \in Nat /\ t <= n
  PROVE  Max(H) \in H /\ \A t \in H : t <= Max(H)
<1> DEFINE T == {n - t : t \in H}
<1>1. T \in SUBSET Nat /\ T # {}
  OBVIOUS
<1>2. PICK x \in T : \A y \in T : ~ (<<y, x>> \in OpToRel(<, Nat))
  BY <1>1, NatLessThanWellFounded, WFMin
<1>3. \A y \in T : x <= y
  <2>1. \A y \in T : ~ (y < x)
    BY <1>1, <1>2 DEF OpToRel
  <2>2. x \in Nat /\ \A y \in T : y \in Nat
    BY <1>1
  <2> HIDE DEF T
  <2> QED BY <2>1, <2>2
<1>4. PICK s \in H : x = n - s
  BY <1>2
<1>5. \A t \in H : s >= t
  <2>1. \A t \in H : n - t \in T
    OBVIOUS
  <2>2. \A t \in H : n - s <= n - t
    BY <1>3, <1>4, <2>1
  <2>3. s \in Nat /\ \A t \in H : t \in Nat
    BY <1>4
  <2> QED BY <2>2, <2>3
<1>6. \E z \in H : \A t \in H : z >= t
  BY <1>4, <1>5
<1>7. Max(H) \in H /\ \A t \in H : Max(H) >= t
  BY <1>6 DEF Max
<1> QED
  BY <1>7

\* The highest hole is a hole.
LEMMA TopHole ==
  ASSUME mem \subseteq Maps, NEW length \in Nat \ {0}, Holes(length) # {}
  PROVE  /\ Max(Holes(length)) \in Holes(length)
         /\ \A t \in Holes(length) : t \in Nat /\ t <= Max(Holes(length)) /\ t <= 8 * Slice
<1>1. ASSUME NEW t \in Holes(length)
      PROVE  t \in Nat /\ t <= 8 * Slice
  <2>1. t \in {m.lo : m \in Taken} \cup {8 * Slice} /\ Free(Bytes(t - length, t))
    BY DEF Holes
  <2>2. t \in Nat
    BY <2>1, TakenNat, SizesNat
  <2>3. t <= 8 * Slice
    BY <2>1 DEF Free, Bytes
  <2> QED
    BY <2>2, <2>3
<1>2. 8 * Slice \in Nat
  BY SizesNat
<1> QED
  BY <1>1, <1>2, Greatest

\* The kernel's mapping is one that was free.
LEMMA KernelPlace ==
  ASSUME mem \subseteq Maps, NEW addr \in Nat, NEW length \in Nat \ {0}, Holes(length) # {}
  PROVE  Kernel(addr, length) \in Maps /\ Free(Kernel(addr, length))
<1>1. CASE addr # 0 /\ Free(Bytes(addr, addr + length))
  <2>1. Kernel(addr, length) = Bytes(addr, addr + length)
    BY <1>1 DEF Kernel
  <2>2. Bytes(addr, addr + length) \in Maps
    BY <1>1 DEF Maps, Bytes, Free
  <2> QED
    BY <1>1, <2>1, <2>2
<1>2. CASE ~(addr # 0 /\ Free(Bytes(addr, addr + length)))
  <2> DEFINE top == Max(Holes(length))
  <2>1. Kernel(addr, length) = Bytes(top - length, top)
    BY <1>2 DEF Kernel
  <2>2. top \in Holes(length) /\ top \in Nat /\ top <= 8 * Slice
    BY TopHole
  <2> HIDE DEF top
  <2>3. top > length /\ Free(Bytes(top - length, top))
    BY <2>2 DEF Holes
  <2>4. Bytes(top - length, top) \in Maps
    BY <2>2, <2>3 DEF Maps, Bytes
  <2> QED
    BY <2>1, <2>3, <2>4
<1> QED
  BY <1>1, <1>2

\* A free mapping is clear of the regions, once they are there.
LEMMA FreeApart ==
  ASSUME started, NEW m \in Maps, Free(m), NEW r \in Regions
  PROVE  ~Overlap(m, r)
<1>1. ~Overlap(r, m)
  BY DEF Free, Taken
<1> QED
  BY <1>1 DEF Overlap
-----------------------------------------------------------------------------
(* The invariant *)

\* What an mmap that Wants describes got is shadowed, and since the regions are
\* there the bump pointer has not left the 2a range at its lower end.
LInv ==
  /\ mem \subseteq Maps /\ first_2a_free \in Nat /\ first_30_free \in Nat
  /\ \A m \in placed : Shadowable(m)
  /\ started => /\ first_2a_free >= Start2a
                /\ \A m \in mem, r \in Regions : ~Overlap(m, r)
                /\ \A m \in clobbered : In(m, Ours)

\* Nothing has been reserved or placed at first.
LEMMA LInvInit ==
  ASSUME Init
  PROVE  LInv
<1>1. mem \subseteq Maps
  <2>1. ASSUME NEW m \in mem PROVE m \in Maps
    <3>1. mem \in Initial
      BY DEF Init
    <3>2. m = Bytes(m.lo, m.hi) /\ m.lo \in Nat /\ m.hi \in Nat /\ m.lo < m.hi /\ m.hi <= 8 * Slice
      BY <3>1, <2>1, LayoutAssumption DEF LayoutAssumption
    <3>3. Bytes(m.lo, m.hi) \in Maps
      BY <3>2 DEF Maps, Bytes
    <3> QED BY <3>2, <3>3
  <2> QED BY <2>1
<1>2. first_2a_free \in Nat /\ first_30_free \in Nat
  BY SizesNat DEF Init
<1> QED
  BY <1>1, <1>2 DEF Init, LInv

\* init_shadow_space: what it accepts and a region overlaps is in the 3s or 4s.
LEMMA InitShadowSpaceInv ==
  ASSUME LInv, InitShadowSpace
  PROVE  LInv'
<1> DEFINE all == mem \cup {Kernel(0, Page)}
           ends == {m.hi : m \in {n \in all : In(n, Range2a)}}
<1>1. all \subseteq Maps
  <2>1. Kernel(0, Page) \in Maps
    BY KernelPlace, SizesNat DEF LInv, InitShadowSpace
  <2> QED BY <2>1 DEF LInv
<1>2. /\ first_30_free' = first_30_free /\ placed' = placed
      /\ first_30_free \in Nat /\ \A m \in placed : Shadowable(m)
  BY DEF LInv, InitShadowSpace
<1>3. CASE \E m \in all : ~Accepted(m)
  <2>1. started' = started /\ ~started /\ mem' = mem /\ first_2a_free' = first_2a_free
    BY <1>3 DEF InitShadowSpace
  <2> QED
    BY <1>2, <2>1 DEF LInv
<1>4. CASE ~\E m \in all : ~Accepted(m)
  <2>1. /\ mem' = UNION {Rest(m) : m \in all}
        /\ clobbered' = {m \in all : \E r \in Regions : Overlap(m, r)}
        /\ first_2a_free' = IF ends = {} THEN Start2a ELSE Max(ends)
    BY <1>4 DEF InitShadowSpace
  <2> HIDE DEF all
  <2>2. ASSUME NEW p \in mem'
        PROVE  p \in Maps /\ \A r \in Regions : ~Overlap(p, r)
    <3>1. PICK m \in all : p \in Rest(m)
      BY <2>1, <2>2
    <3>2. PICK lo \in {m.lo} \cup {r.hi : r \in Regions}, hi \in {m.hi} \cup {r.lo : r \in Regions} :
            p = Bytes(lo, hi) /\ p.lo < p.hi /\ In(p, m) /\ \A r \in Regions : ~Overlap(p, r)
      BY <3>1 DEF Rest
    <3>3. m.lo \in Nat /\ m.hi \in Nat /\ m.hi <= 8 * Slice
      BY <1>1, MapsFacts
    <3>4. lo \in Nat /\ hi \in Nat
      BY <3>2, <3>3, RegionsIn
    <3>5. p.lo = lo /\ p.hi = hi /\ hi <= m.hi
      BY <3>2 DEF Bytes, In
    <3>6. Bytes(lo, hi) \in Maps
      BY <3>2, <3>3, <3>4, <3>5, SizesNat DEF Maps, Bytes
    <3> QED
      BY <3>2, <3>6
  <2>3. ASSUME NEW m \in clobbered'
        PROVE  In(m, Ours)
    <3>1. m \in all /\ \E r \in Regions : Overlap(m, r)
      BY <2>1, <2>3
    <3>2. m = Bytes(m.lo, m.hi) /\ m.lo \in Nat /\ m.hi \in Nat /\ m.lo < m.hi
      BY <1>1, <3>1, MapsFacts
    <3>3. ~Shadowable(m)
      BY <3>1, <3>2, RegionsApart
    <3> QED
      BY <1>4, <3>1, <3>3 DEF Accepted
  <2>4. first_2a_free' \in Nat /\ first_2a_free' >= Start2a
    <3>1. CASE ends = {}
      BY <2>1, <3>1, SizesNat
    <3>2. CASE ends # {}
      <4>1. ASSUME NEW t \in ends
            PROVE  t \in Nat /\ t <= 8 * Slice /\ t >= Start2a
        <5>1. PICK m \in all : In(m, Range2a) /\ t = m.hi
          OBVIOUS
        <5>2. m.lo \in Nat /\ m.hi \in Nat /\ m.lo < m.hi /\ m.hi <= 8 * Slice
          BY <1>1, MapsFacts
        <5>3. Start2a <= m.lo
          BY <5>1 DEF In, Range2a, Bytes
        <5> QED
          BY <5>1, <5>2, <5>3, SizesNat
      <4> HIDE DEF ends
      <4>2. Max(ends) \in ends
        BY <3>2, <4>1, Greatest, SizesNat
      <4> QED
        BY <2>1, <3>2, <4>1, <4>2
    <3> QED BY <3>1, <3>2
  <2> QED
    BY <1>2, <2>2, <2>3, <2>4 DEF LInv
<1> QED
  BY <1>3, <1>4

\* An mmap: where the nudge points is in the 2a range, and where the kernel looks
\* when that is taken is no lower than a hole that there is in the 7a range.
LEMMA MMapInv ==
  ASSUME LInv, NEW addr \in Hints, NEW length \in Lengths, MMap(addr, length)
  PROVE  LInv'
<1> DEFINE n == Nudge(addr, length)
           to == Down(n.to)
           long == Up(length)
           new == KernelMMap(n.to, length)
<1>1. addr \in Nat /\ length \in Nat \ {0}
  BY LayoutAssumption DEF LayoutAssumption
<1>2. first_2a_free \in Nat /\ first_30_free \in Nat /\ mem \subseteq Maps /\ started
      /\ first_2a_free >= Start2a
  BY DEF LInv, MMap
<1>3. /\ n.to \in Nat /\ n.next2a \in Nat /\ n.next30 \in Nat /\ n.next2a >= first_2a_free
      /\ addr = 0 /\ length <= BiggestSane => n.to = first_2a_free
  <2>1. BiggestSane \in Nat
    BY LayoutAssumption DEF LayoutAssumption
  <2> QED
    BY <1>1, <1>2, <2>1 DEF Nudge
<1>4. /\ Holes(long) # {} /\ started' = started /\ clobbered' = clobbered
      /\ first_2a_free' = n.next2a /\ first_30_free' = n.next30
      /\ \/ mem' = mem \cup {new} /\ placed' = IF Wants(addr, length) THEN placed \cup {new} ELSE placed
         \/ mem' = mem /\ placed' = placed
  BY DEF MMap
<1> HIDE DEF n
<1>r. /\ to \in Nat /\ long \in Nat \ {0} /\ (n.to >= Start2a => to >= Start2a)
      /\ new = Kernel(to, long)
  BY <1>1, <1>3, PagesFacts DEF KernelMMap
<1> HIDE DEF to, long, new
<1>5. new \in Maps /\ Free(new)
  BY <1>2, <1>4, <1>r, KernelPlace
<1>6. \A r \in Regions : ~Overlap(new, r)
  BY <1>2, <1>5, FreeApart
<1>7. Wants(addr, length) => Shadowable(new)
  <2>1. SUFFICES ASSUME Wants(addr, length) PROVE Shadowable(new)
    OBVIOUS
  <2>0. addr = 0 /\ length <= BiggestSane
    BY <2>1 DEF Wants
  <2>3. n.to = first_2a_free
    BY <1>3, <2>0
  <2>2. /\ to + long <= Range2a.hi
        /\ \/ Free(Bytes(to, to + long))
           \/ \E t \in Holes(long) : In(Bytes(t - long, t), Range7a)
    BY <2>1, <2>3 DEF Wants, Rounded, Bytes, to, long
  <2>4. CASE to # 0 /\ Free(Bytes(to, to + long))
    <3>1. new = Bytes(to, to + long)
      BY <1>r, <2>4 DEF Kernel
    <3>2. In(Bytes(to, to + long), Range2a)
      BY <1>2, <1>r, <2>2, <2>3 DEF In, Range2a, Bytes
    <3> QED
      BY <3>1, <3>2 DEF Shadowable
  <2>5. CASE ~(to # 0 /\ Free(Bytes(to, to + long)))
    <3> DEFINE top == Max(Holes(long))
    <3>1. new = Bytes(top - long, top)
      BY <1>r, <2>5 DEF Kernel
    <3>2. top \in Holes(long) /\ top \in Nat /\ top <= 8 * Slice
      BY <1>r, <1>2, <1>4, TopHole
    <3>3. PICK t \in Holes(long) : In(Bytes(t - long, t), Range7a)
      <4>1. to # 0
        BY <1>2, <1>r, <2>3, Start2aPositive, SizesNat
      <4> QED BY <2>2, <2>3, <2>5, <4>1
    <3>4. t \in Nat /\ t <= top
      BY <1>r, <1>2, <1>4, <3>3, TopHole
    <3> HIDE DEF top
    <3>5. In(Bytes(top - long, top), Range7a)
      <4>1. Range7a.lo <= t - long /\ Range7a.hi = 8 * Slice /\ Range7a.lo \in Nat
        BY <3>3, Start2aPositive, SMT DEF In, Bytes, Range7a
      <4>2. Range7a.lo <= top - long
        BY <1>r, <3>2, <3>4, <4>1
      <4> QED
        BY <3>2, <4>1, <4>2 DEF In, Bytes
    <3> QED
      BY <3>1, <3>5 DEF Shadowable
  <2> QED BY <2>4, <2>5
<1>8. mem' \subseteq Maps /\ \A m \in mem', r \in Regions : ~Overlap(m, r)
  BY <1>2, <1>4, <1>5, <1>6 DEF LInv
<1>9. \A m \in placed' : Shadowable(m)
  BY <1>4, <1>7 DEF LInv
<1>10. first_2a_free' \in Nat /\ first_30_free' \in Nat /\ first_2a_free' >= Start2a
  BY <1>2, <1>3, <1>4, SizesNat
<1>11. \A m \in clobbered' : In(m, Ours)
  BY <1>2, <1>4 DEF LInv
<1> QED
  BY <1>8, <1>9, <1>10, <1>11 DEF LInv

\* MAP_FIXED moves the bump pointer up only.
LEMMA MMapFixedInv ==
  ASSUME LInv, NEW m \in mem, NEW length \in Lengths, MMapFixed(m, length)
  PROVE  LInv'
<1>1. /\ mem' = mem /\ started' = started /\ first_30_free' = first_30_free
      /\ placed' = placed /\ clobbered' = clobbered
  BY DEF MMapFixed
<1>2. m.lo \in Nat /\ length \in Nat
  BY MapsFacts, LayoutAssumption DEF LInv, LayoutAssumption
<1>3. first_2a_free' \in Nat /\ (first_2a_free' >= first_2a_free)
  BY <1>2 DEF MMapFixed, LInv
<1>4. started => first_2a_free' >= Start2a
  BY <1>3, SizesNat DEF LInv
<1> QED
  BY <1>1, <1>3, <1>4 DEF LInv

\* Before init_shadow_space, and unmapping.
LEMMA MMapEarlyInv ==
  ASSUME LInv, NEW length \in Lengths, MMapEarly(length)
  PROVE  LInv'
<1>1. length \in Nat \ {0}
  BY LayoutAssumption DEF LayoutAssumption
<1>2. KernelMMap(0, length) \in Maps
  <2>1. Up(length) \in Nat \ {0} /\ Down(0) \in Nat
    BY <1>1, PagesFacts
  <2> QED BY <2>1, KernelPlace DEF LInv, MMapEarly, KernelMMap
<1>3. /\ mem' = mem \cup {KernelMMap(0, length)} /\ started' = started /\ ~started
      /\ first_2a_free' = first_2a_free /\ first_30_free' = first_30_free /\ placed' = placed
  BY DEF MMapEarly, nudgeVars
<1> QED
  BY <1>2, <1>3 DEF LInv

\* Unmapping frees memory only.
LEMMA MUnmapInv ==
  ASSUME LInv, NEW m \in mem, MUnmap(m)
  PROVE  LInv'
<1>1. /\ mem' \subseteq mem /\ placed' \subseteq placed /\ started' = started
      /\ first_2a_free' = first_2a_free /\ first_30_free' = first_30_free /\ clobbered' = clobbered
  BY DEF MUnmap, nudgeVars
<1> QED
  BY <1>1 DEF LInv

\* Every step keeps the invariant.
LEMMA LInvNext ==
  ASSUME LInv, [Next]_vars
  PROVE  LInv'
<1>1. CASE InitShadowSpace
  BY <1>1, InitShadowSpaceInv
<1>2. ASSUME NEW length \in Lengths, MMapEarly(length) PROVE LInv'
  BY <1>2, MMapEarlyInv
<1>3. ASSUME NEW length \in Lengths, NEW addr \in Hints, MMap(addr, length) PROVE LInv'
  BY <1>3, MMapInv
<1>4. ASSUME NEW length \in Lengths, NEW m \in mem, MMapFixed(m, length) PROVE LInv'
  BY <1>4, MMapFixedInv
<1>5. ASSUME NEW m \in mem, MUnmap(m) PROVE LInv'
  BY <1>5, MUnmapInv
<1>6. CASE UNCHANGED vars
  BY <1>6 DEF LInv, vars, nudgeVars
<1>7. CASE Stopped
  BY <1>6, <1>7 DEF Stopped
<1> QED
  BY <1>1, <1>2, <1>3, <1>4, <1>5, <1>6, <1>7 DEF Next

\* The invariant gives the cells of every shadowed mapping.
LEMMA LInvShadowed ==
  ASSUME LInv
  PROVE  Shadowed
<1>1. SUFFICES ASSUME started PROVE
        \A m \in mem : Shadowable(m) =>
          /\ \A c \in BasesOf(m) : Reserved(c, BaseRegions)
          /\ \A a \in Words(m) : Reserved(SizeOf(a), SizeRegions)
                                 \/ \E f \in FirstPages : f.lo <= a /\ a < f.hi
  BY DEF Shadowed, LInv
<1>2. SUFFICES ASSUME NEW m \in mem, Shadowable(m) PROVE
          /\ \A c \in BasesOf(m) : Reserved(c, BaseRegions)
          /\ \A a \in Words(m) : Reserved(SizeOf(a), SizeRegions)
                                 \/ \E f \in FirstPages : f.lo <= a /\ a < f.hi
  OBVIOUS
<1>3. m = Bytes(m.lo, m.hi) /\ m.lo \in Nat /\ m.hi \in Nat
  BY MapsFacts DEF LInv
<1>4. Shadowable(Bytes(m.lo, m.hi))
  BY <1>2, <1>3
<1>5. \A a \in Words(m) : a \in Nat /\ m.lo <= a /\ a < m.hi /\ a % Word = 0
  BY <1>3, SMT DEF Words
<1>6. ASSUME NEW a \in Words(m)
      PROVE  /\ Reserved(Bytes(base_stored_loc(a), base_stored_loc(a) + Word), BaseRegions)
             /\ Reserved(SizeOf(a), SizeRegions) \/ \E f \in FirstPages : f.lo <= a /\ a < f.hi
  BY <1>3, <1>4, <1>5, BaseCell, SizeCell, Zenon
<1>7. \A c \in BasesOf(m) : Reserved(c, BaseRegions)
  BY <1>6 DEF BasesOf
<1> QED
  BY <1>6, <1>7

\* The shadow of pointers in memory is where it was reserved: for every layout at
\* start-up and all mmap calls, what the nudge places in time is in a shadowed
\* range, the cells of shadowed mappings (but for the sizes of two pages) lie in
\* regions of their kind, no mapping lies where a region is, and mapping the
\* regions destroyed nothing outside the 3s and 4s.
THEOREM ShadowReserved == Spec => []Shadowed
<1>1. Init => LInv
  BY LInvInit
<1>2. LInv /\ [Next]_vars => LInv'
  BY LInvNext
<1>3. LInv => Shadowed
  BY LInvShadowed
<1> QED
  BY <1>1, <1>2, <1>3, PTL DEF Spec
=============================================================================
