------------------------- MODULE FindToolbarProofs -------------------------
(***************************************************************************)
(* What the find toolbar of the history page reports, from the invariant   *)
(* of HistoryProofs: that binarySearch finds what a search through all     *)
(* rows would, and that the matches of the last find are complete.         *)
(***************************************************************************)
EXTENDS HistoryProofs, FiniteSetTheorems

-----------------------------------------------------------------------------
(***************************************************************************)
(* Searching the rows found.                                               *)
(***************************************************************************)
\* A nonempty set of numbers has a least one.
LEMMA Least ==
  ASSUME NEW S, S \subseteq Nat, S # {}
  PROVE  \E x \in S : \A y \in S : x <= y
<1>1. PICK x \in S : \A y \in S : ~(<<y, x>> \in OpToRel(<, Nat))
  BY NatLessThanWellFounded, WFMin, Zenon
<1>2. \A y \in S : ~(y < x)
  BY <1>1, Zenon DEF OpToRel
<1> QED
  BY <1>2

\* The calls of search in binarySearch, and what one of them returns if f is what the
\* others return.
Ranges(a) == (0 .. Len(a)) \X (-1 .. Len(a) - 1)

Search(a, key, f, range) ==
  LET lo == range[1]
      hi == range[2]
      mid == (lo + hi) \div 2
  IN IF lo > hi THEN -(lo + 1)
     ELSE IF a[mid + 1] < key THEN f[<<mid + 1, hi>>]
     ELSE IF a[mid + 1] > key THEN f[<<lo, mid - 1>>]
     ELSE mid

\* m is the insertion point of key among the elements lo to hi.
InsertionPoint(a, key, lo, hi, m) ==
  /\ m \in lo .. (hi + 1)
  /\ \A j \in lo .. (m - 1) : a[j + 1] < key
  /\ \A j \in m .. hi : a[j + 1] >= key

\* What a call returns.
Result(a, key, lo, hi) ==
  IF lo > hi THEN -(lo + 1)
  ELSE LET m == CHOOSE m \in lo .. (hi + 1) : InsertionPoint(a, key, lo, hi, m)
       IN IF m <= hi /\ a[m + 1] = key THEN m ELSE -(m + 1)

LEMMA InsertionPointExists ==
  ASSUME NEW a \in Seq(Int), Ascending(a), NEW key \in Int,
         NEW lo \in 0 .. Len(a), NEW hi \in -1 .. (Len(a) - 1), lo <= hi + 1
  PROVE  \E m \in lo .. (hi + 1) : InsertionPoint(a, key, lo, hi, m)
<1> DEFINE S == {m \in lo .. (hi + 1) : m = hi + 1 \/ a[m + 1] >= key}
<1>1. S \subseteq Nat /\ hi + 1 \in S
  OBVIOUS
<1>2. PICK m \in S : \A y \in S : m <= y
  BY <1>1, Least, Zenon
<1>3. \A j \in lo .. (m - 1) : a[j + 1] < key
  <2>1. SUFFICES ASSUME NEW j \in lo .. (m - 1) PROVE a[j + 1] < key
    OBVIOUS
  <2>2. j \notin S
    BY <1>2
  <2>3. a[j + 1] \in Int
    OBVIOUS
  <2> QED
    BY <2>2, <2>3
<1>4. \A j \in m .. hi : a[j + 1] >= key
  <2>1. SUFFICES ASSUME NEW j \in m .. hi PROVE a[j + 1] >= key
    OBVIOUS
  <2>2. a[m + 1] >= key /\ a[m + 1] \in Int /\ a[j + 1] \in Int
    OBVIOUS
  <2>3. j = m \/ a[m + 1] < a[j + 1]
    BY DEF Ascending
  <2> QED
    BY <2>2, <2>3
<1> QED
  BY <1>3, <1>4, Zenon DEF InsertionPoint

LEMMA InsertionPointUnique ==
  ASSUME NEW a \in Seq(Int), NEW key \in Int,
         NEW lo \in 0 .. Len(a), NEW hi \in -1 .. (Len(a) - 1),
         NEW m, InsertionPoint(a, key, lo, hi, m),
         NEW n, InsertionPoint(a, key, lo, hi, n)
  PROVE  m = n
<1>1. m \in lo .. (hi + 1) /\ n \in lo .. (hi + 1)
  BY DEF InsertionPoint
<1>2. ASSUME m < n PROVE FALSE
  <2>1. m \in lo .. (n - 1) /\ m \in m .. hi /\ a[m + 1] \in Int
    BY <1>1, <1>2
  <2> QED
    BY <2>1 DEF InsertionPoint
<1>3. ASSUME n < m PROVE FALSE
  <2>1. n \in lo .. (m - 1) /\ n \in n .. hi /\ a[n + 1] \in Int
    BY <1>1, <1>3
  <2> QED
    BY <2>1 DEF InsertionPoint
<1> QED
  BY <1>1, <1>2, <1>3

LEMMA ResultIs ==
  ASSUME NEW a \in Seq(Int), NEW key \in Int,
         NEW lo \in 0 .. Len(a), NEW hi \in -1 .. (Len(a) - 1),
         NEW m, InsertionPoint(a, key, lo, hi, m)
  PROVE  Result(a, key, lo, hi) = IF m <= hi /\ a[m + 1] = key THEN m ELSE -(m + 1)
<1> DEFINE c == CHOOSE n \in lo .. (hi + 1) : InsertionPoint(a, key, lo, hi, n)
<1>1. m \in lo .. (hi + 1)
  BY DEF InsertionPoint
<1>2. InsertionPoint(a, key, lo, hi, c)
  BY <1>1
<1>3. c = m
  BY <1>2, InsertionPointUnique
<1>4. CASE lo > hi
  BY <1>1, <1>4 DEF Result
<1>5. CASE ~(lo > hi)
  <2>1. Result(a, key, lo, hi) = IF c <= hi /\ a[c + 1] = key THEN c ELSE -(c + 1)
    BY <1>5, Zenon DEF Result
  <2> HIDE DEF c
  <2> QED
    BY <1>3, <2>1
<1> QED
  BY <1>4, <1>5

\* Result is what search returns.
LEMMA ResultStep ==
  ASSUME NEW a \in Seq(Int), Ascending(a), NEW key \in Int,
         NEW lo \in 0 .. Len(a), NEW hi \in -1 .. (Len(a) - 1), lo <= hi,
         NEW mid, mid = (lo + hi) \div 2
  PROVE  /\ mid \in lo .. hi
         /\ Result(a, key, lo, hi) = IF a[mid + 1] < key THEN Result(a, key, mid + 1, hi)
                                     ELSE IF a[mid + 1] > key THEN Result(a, key, lo, mid - 1)
                                     ELSE mid
<1>1. mid \in lo .. hi
  OBVIOUS
<1>2. /\ a[mid + 1] \in Int /\ mid + 1 \in 0 .. Len(a) /\ mid - 1 \in -1 .. (Len(a) - 1)
      /\ mid + 1 \in DOMAIN a
  BY <1>1
<1>3. \A j \in lo .. hi : /\ a[j + 1] \in Int
                          /\ j < mid => a[j + 1] < a[mid + 1]
                          /\ mid < j => a[mid + 1] < a[j + 1]
  BY <1>1, <1>2 DEF Ascending
<1>4. CASE a[mid + 1] < key
  <2>1. PICK up \in 0 .. Len(a) : up = mid + 1
    BY <1>2
  <2>2. PICK m \in up .. (hi + 1) : InsertionPoint(a, key, up, hi, m)
    BY <1>1, <2>1, InsertionPointExists
  <2>3. m \in lo .. (hi + 1) /\ \A j \in m .. hi : a[j + 1] >= key
    BY <1>1, <2>1, <2>2 DEF InsertionPoint
  <2>4. ASSUME NEW j \in lo .. (m - 1) PROVE a[j + 1] < key
    <3>1. j \in lo .. hi
      BY <2>3
    <3>2. CASE j <= mid
      BY <1>2, <1>3, <1>4, <3>1, <3>2
    <3>3. CASE j > mid
      BY <1>1, <2>1, <2>2, <3>1, <3>3 DEF InsertionPoint
    <3> QED
      BY <1>1, <3>2, <3>3
  <2>5. InsertionPoint(a, key, lo, hi, m)
    BY <2>3, <2>4 DEF InsertionPoint
  <2>6. Result(a, key, lo, hi) = IF m <= hi /\ a[m + 1] = key THEN m ELSE -(m + 1)
    BY <2>5, ResultIs
  <2>7. Result(a, key, up, hi) = IF m <= hi /\ a[m + 1] = key THEN m ELSE -(m + 1)
    BY <2>2, ResultIs
  <2> QED
    BY <1>1, <1>4, <2>1, <2>6, <2>7
<1>5. CASE a[mid + 1] > key
  <2>1. PICK down \in -1 .. (Len(a) - 1) : down = mid - 1
    BY <1>2
  <2>2. PICK m \in lo .. (down + 1) : InsertionPoint(a, key, lo, down, m)
    BY <1>1, <2>1, InsertionPointExists
  <2>3. m \in lo .. mid /\ \A j \in lo .. (m - 1) : a[j + 1] < key
    BY <1>1, <2>1, <2>2 DEF InsertionPoint
  <2>4. ASSUME NEW j \in m .. hi PROVE a[j + 1] >= key
    <3>1. j \in lo .. hi
      BY <2>3
    <3>2. CASE j >= mid
      <4>1. a[j + 1] \in Int /\ (j = mid \/ a[mid + 1] < a[j + 1])
        BY <1>1, <1>3, <3>1, <3>2
      <4> QED
        BY <1>2, <1>5, <4>1
    <3>3. CASE j < mid
      BY <1>1, <2>1, <2>2, <3>1, <3>3 DEF InsertionPoint
    <3> QED
      BY <1>1, <3>2, <3>3
  <2>5. InsertionPoint(a, key, lo, hi, m)
    BY <1>1, <2>3, <2>4 DEF InsertionPoint
  <2>6. Result(a, key, lo, hi) = IF m <= hi /\ a[m + 1] = key THEN m ELSE -(m + 1)
    BY <2>5, ResultIs
  <2>7. Result(a, key, lo, down) = IF m <= down /\ a[m + 1] = key THEN m ELSE -(m + 1)
    BY <2>2, ResultIs
  <2>8. (m <= hi /\ a[m + 1] = key) <=> (m <= down /\ a[m + 1] = key)
    BY <1>1, <1>2, <1>5, <2>1, <2>3
  <2> QED
    BY <1>1, <1>2, <1>5, <2>1, <2>6, <2>7, <2>8
<1>6. CASE a[mid + 1] = key
  <2>1. InsertionPoint(a, key, lo, hi, mid)
    BY <1>1, <1>2, <1>3, <1>6 DEF InsertionPoint
  <2>2. Result(a, key, lo, hi) = mid
    BY <1>1, <1>6, <2>1, ResultIs
  <2> QED
    BY <1>1, <1>6, <2>2
<1> QED
  BY <1>1, <1>2, <1>4, <1>5, <1>6

\* binarySearch is a function that satisfies the recursive definition, of which there
\* is one.
LEMMA BinarySearchRecurs ==
  ASSUME NEW a \in Seq(Int), Ascending(a), NEW key \in Int
  PROVE  \E f : /\ f = [range \in Ranges(a) |-> Search(a, key, f, range)]
                /\ binarySearch(a, key) = f[<<0, Len(a) - 1>>]
<1> DEFINE g == [range \in Ranges(a) |-> Result(a, key, range[1], range[2])]
           s == CHOOSE f : f = [range \in Ranges(a) |-> Search(a, key, f, range)]
<1>1. binarySearch(a, key) = s[<<0, Len(a) - 1>>]
  BY DEF binarySearch, Search, Ranges
<1>2. ASSUME NEW range \in Ranges(a)
      PROVE  Result(a, key, range[1], range[2]) = Search(a, key, g, range)
  <2>1. PICK lo \in 0 .. Len(a), hi \in -1 .. (Len(a) - 1) : range = <<lo, hi>>
    BY DEF Ranges
  <2>2. CASE lo > hi
    BY <2>1, <2>2 DEF Search, Result
  <2>3. CASE lo <= hi
    <3>1. PICK mid : mid = (lo + hi) \div 2
      OBVIOUS
    <3>2. mid \in lo .. hi
      BY <2>3, <3>1
    <3>3. <<mid + 1, hi>> \in Ranges(a) /\ <<lo, mid - 1>> \in Ranges(a)
      BY <3>2 DEF Ranges
    <3>4. /\ g[<<mid + 1, hi>>] = Result(a, key, mid + 1, hi)
          /\ g[<<lo, mid - 1>>] = Result(a, key, lo, mid - 1)
      BY <3>3
    <3>5. Search(a, key, g, range) = IF a[mid + 1] < key THEN g[<<mid + 1, hi>>]
                                     ELSE IF a[mid + 1] > key THEN g[<<lo, mid - 1>>]
                                     ELSE mid
      <4> HIDE DEF g
      <4> QED
        BY <2>1, <2>3, <3>1 DEF Search
    <3>6. Result(a, key, lo, hi) = IF a[mid + 1] < key THEN Result(a, key, mid + 1, hi)
                                   ELSE IF a[mid + 1] > key THEN Result(a, key, lo, mid - 1)
                                   ELSE mid
      BY <2>3, <3>1, ResultStep
    <3> HIDE DEF g
    <3> QED
      BY <2>1, <3>4, <3>5, <3>6
  <2> QED
    BY <2>2, <2>3
<1>3. g = [range \in Ranges(a) |-> Search(a, key, g, range)]
  BY <1>2
<1>4. s = [range \in Ranges(a) |-> Search(a, key, s, range)]
  BY <1>3
<1> QED
  BY <1>1, <1>4, Zenon

\* java.util.Arrays.binarySearch on an ascending array: the index of the key, or where
\* it would have to be inserted.
LEMMA BinarySearchFinds ==
  ASSUME NEW a \in Seq(Int), Ascending(a), NEW key \in Int
  PROVE  \E m \in 0 .. Len(a) :
           /\ \A j \in 1 .. m : a[j] < key
           /\ \A j \in (m + 1) .. Len(a) : a[j] >= key
           /\ binarySearch(a, key) = IF m < Len(a) /\ a[m + 1] = key THEN m ELSE -(m + 1)
<1>1. PICK f : /\ f = [range \in Ranges(a) |-> Search(a, key, f, range)]
               /\ binarySearch(a, key) = f[<<0, Len(a) - 1>>]
  BY BinarySearchRecurs
<1> DEFINE Wrong(n) == \E lo \in 0 .. Len(a), hi \in -1 .. (Len(a) - 1) :
                         n = hi - lo + 1 /\ f[<<lo, hi>>] # Result(a, key, lo, hi)
<1>2. ASSUME NEW lo \in 0 .. Len(a), NEW hi \in -1 .. (Len(a) - 1), lo > hi
      PROVE  f[<<lo, hi>>] = Result(a, key, lo, hi)
  <2>1. <<lo, hi>> \in Ranges(a)
    BY DEF Ranges
  <2>2. f[<<lo, hi>>] = Search(a, key, f, <<lo, hi>>)
    BY <1>1, <2>1
  <2> QED
    BY <1>2, <2>2 DEF Search, Result
<1>3. ASSUME NEW n \in Nat, Wrong(n) PROVE FALSE
  <2> DEFINE S == {k \in Nat : Wrong(k)}
  <2>1. PICK k \in Nat : Wrong(k) /\ \A y \in Nat : Wrong(y) => k <= y
    <3>1. S \subseteq Nat /\ S # {}
      BY <1>3, Zenon
    <3>2. \E x \in S : \A y \in S : x <= y
      <4> HIDE DEF S
      <4> QED
        BY <3>1, Least, Zenon
    <3> HIDE DEF Wrong
    <3> QED
      BY <3>2
  <2>2. PICK lo \in 0 .. Len(a), hi \in -1 .. (Len(a) - 1) :
          k = hi - lo + 1 /\ f[<<lo, hi>>] # Result(a, key, lo, hi)
    BY <2>1, Zenon
  <2>3. lo <= hi
    BY <1>2, <2>2
  <2>4. PICK mid : mid = (lo + hi) \div 2
    OBVIOUS
  <2>5. mid \in lo .. hi
    BY <2>3, <2>4
  <2>6. f[<<mid + 1, hi>>] = Result(a, key, mid + 1, hi)
    <3>1. mid + 1 \in 0 .. Len(a) /\ hi - (mid + 1) + 1 \in Nat /\ hi - (mid + 1) + 1 < k
      BY <2>2, <2>5
    <3>2. PICK y \in Nat : y = hi - (mid + 1) + 1
      BY <3>1
    <3>3. ~Wrong(y)
      <4> HIDE DEF Wrong
      <4> QED
        BY <2>1, <3>1, <3>2
    <3> QED
      BY <3>1, <3>2, <3>3, Zenon
  <2>7. f[<<lo, mid - 1>>] = Result(a, key, lo, mid - 1)
    <3>1. mid - 1 \in -1 .. (Len(a) - 1) /\ (mid - 1) - lo + 1 \in Nat /\ (mid - 1) - lo + 1 < k
      BY <2>2, <2>5
    <3>2. PICK y \in Nat : y = (mid - 1) - lo + 1
      BY <3>1
    <3>3. ~Wrong(y)
      <4> HIDE DEF Wrong
      <4> QED
        BY <2>1, <3>1, <3>2
    <3> QED
      BY <3>1, <3>2, <3>3, Zenon
  <2>8. f[<<lo, hi>>] = IF a[mid + 1] < key THEN f[<<mid + 1, hi>>]
                        ELSE IF a[mid + 1] > key THEN f[<<lo, mid - 1>>]
                        ELSE mid
    <3>1. <<lo, hi>> \in Ranges(a)
      BY DEF Ranges
    <3>2. f[<<lo, hi>>] = Search(a, key, f, <<lo, hi>>)
      BY <1>1, <3>1
    <3> QED
      BY <2>3, <2>4, <3>2 DEF Search
  <2>9. Result(a, key, lo, hi) = IF a[mid + 1] < key THEN Result(a, key, mid + 1, hi)
                                 ELSE IF a[mid + 1] > key THEN Result(a, key, lo, mid - 1)
                                 ELSE mid
    BY <2>3, <2>4, ResultStep
  <2> QED
    BY <2>2, <2>6, <2>7, <2>8, <2>9
<1>4. Len(a) \in Nat /\ 0 \in 0 .. Len(a) /\ Len(a) - 1 \in -1 .. (Len(a) - 1)
  OBVIOUS
<1>5. f[<<0, Len(a) - 1>>] = Result(a, key, 0, Len(a) - 1)
  <2>1. (Len(a) - 1) - 0 + 1 \in Nat
    BY <1>4
  <2> QED
    BY <1>3, <1>4, <2>1, Zenon
<1>6. PICK m \in 0 .. ((Len(a) - 1) + 1) : InsertionPoint(a, key, 0, Len(a) - 1, m)
  BY <1>4, InsertionPointExists
<1>7. Result(a, key, 0, Len(a) - 1) = IF m <= Len(a) - 1 /\ a[m + 1] = key THEN m ELSE -(m + 1)
  BY <1>4, <1>6, ResultIs
<1>8. (\A j \in 1 .. m : a[j] < key) /\ (\A j \in (m + 1) .. Len(a) : a[j] >= key)
  <2>1. ASSUME NEW j \in 1 .. m PROVE a[j] < key
    <3>1. j - 1 \in 0 .. (m - 1) /\ (j - 1) + 1 = j
      BY <1>4, <1>6
    <3>2. a[(j - 1) + 1] < key
      BY <1>6, <3>1, Zenon DEF InsertionPoint
    <3> QED
      BY <3>1, <3>2
  <2>2. ASSUME NEW j \in (m + 1) .. Len(a) PROVE a[j] >= key
    <3>1. j - 1 \in m .. (Len(a) - 1) /\ (j - 1) + 1 = j
      BY <1>4, <1>6
    <3>2. a[(j - 1) + 1] >= key
      BY <1>6, <3>1, Zenon DEF InsertionPoint
    <3> QED
      BY <3>1, <3>2
  <2> QED
    BY <2>1, <2>2
<1>9. m \in 0 .. Len(a) /\ (m <= Len(a) - 1 <=> m < Len(a))
  BY <1>4
<1>10. binarySearch(a, key) = IF m < Len(a) /\ a[m + 1] = key THEN m ELSE -(m + 1)
  BY <1>1, <1>5, <1>7, <1>9
<1> QED
  BY <1>8, <1>9, <1>10, Zenon

\* Max of a set that has a greatest number.
LEMMA MaxIs ==
  ASSUME NEW S, S \subseteq Int, NEW x \in S, \A y \in S : x >= y
  PROVE  Max(S) = x
<1>1. PICK m : m = Max(S)
  OBVIOUS
<1>2. m \in S /\ \A y \in S : m >= y
  BY <1>1, Zenon DEF Max
<1>3. m \in Int /\ x \in Int /\ m >= x /\ x >= m
  BY <1>2
<1> QED
  BY <1>1, <1>3

\* The first row after index is the one behind all that are not after it.
LEMMA RowAfter ==
  ASSUME NEW a \in Seq(Nat), Ascending(a), NEW index \in Int, NEW n \in 0 .. Len(a),
         \A j \in 1 .. n : a[j] <= index,
         \A j \in (n + 1) .. Len(a) : a[j] > index,
         NEW after, after = {r \in Range(a) : r > index}
  PROVE  (IF n < Len(a) THEN a[n + 1] ELSE -1) = IF after = {} THEN -1 ELSE Min(after)
<1>1. after = {r \in {a[j] : j \in 1 .. Len(a)} : r > index} /\ after \subseteq Int
  BY DEF Range
<1>2. CASE n = Len(a)
  <2>1. after = {}
    BY <1>1, <1>2
  <2> QED
    BY <1>2, <2>1
<1>3. CASE n < Len(a)
  <2>1. n + 1 \in 1 .. Len(a) /\ n + 1 \in (n + 1) .. Len(a) /\ a[n + 1] \in Nat
    BY <1>3
  <2>2. a[n + 1] \in after
    BY <1>1, <2>1
  <2>3. ASSUME NEW r \in after PROVE a[n + 1] <= r
    <3>1. PICK j \in 1 .. Len(a) : r = a[j] /\ a[j] > index
      BY <1>1
    <3>2. j > n /\ a[j] \in Nat
      BY <3>1
    <3>3. j = n + 1 \/ a[n + 1] < a[j]
      BY <2>1, <3>2 DEF Ascending
    <3> QED
      BY <2>1, <3>1, <3>2, <3>3
  <2>4. Min(after) = a[n + 1]
    BY <1>1, <2>2, <2>3, MinIs, Zenon
  <2> QED
    BY <1>3, <2>2, <2>4
<1> QED
  BY <1>2, <1>3

LEMMA RowBefore ==
  ASSUME NEW a \in Seq(Nat), Ascending(a), NEW index \in Int, NEW n \in 0 .. Len(a),
         \A j \in 1 .. n : a[j] < index,
         \A j \in (n + 1) .. Len(a) : a[j] >= index,
         NEW before, before = {r \in Range(a) : r < index}
  PROVE  (IF n > 0 THEN a[n] ELSE -1) = IF before = {} THEN -1 ELSE Max(before)
<1>1. before = {r \in {a[j] : j \in 1 .. Len(a)} : r < index} /\ before \subseteq Int
  BY DEF Range
<1>2. \A j \in 1 .. Len(a) : a[j] \in Nat /\ (a[j] < index => j <= n)
  OBVIOUS
<1>3. CASE n = 0
  <2>1. before = {}
    BY <1>1, <1>2, <1>3
  <2> QED
    BY <1>3, <2>1
<1>4. CASE n > 0
  <2>1. n \in 1 .. Len(a) /\ n \in 1 .. n /\ a[n] \in Nat
    BY <1>4
  <2>2. a[n] \in before
    BY <1>1, <2>1
  <2>3. ASSUME NEW r \in before PROVE a[n] >= r
    <3>1. PICK j \in 1 .. Len(a) : r = a[j] /\ a[j] < index
      BY <1>1
    <3>2. j <= n /\ a[j] \in Nat
      BY <1>2, <3>1
    <3>3. j = n \/ a[j] < a[n]
      BY <2>1, <3>2 DEF Ascending
    <3> QED
      BY <2>1, <3>1, <3>2, <3>3
  <2>4. Max(before) = a[n]
    BY <1>1, <2>2, <2>3, MaxIs, Zenon
  <2> QED
    BY <1>4, <2>2, <2>4
<1> QED
  BY <1>3, <1>4

\* The next and previous buttons, on rows that ascend.
LEMMA AscendingNavigates ==
  ASSUME NEW results, Keys(results) \in Seq(Nat), Ascending(Keys(results)), NEW index \in Int,
         NEW after, after = {r \in Range(Keys(results)) : r > index},
         NEW before, before = {r \in Range(Keys(results)) : r < index}
  PROVE  /\ getIndexAfter(results, index) = IF after = {} THEN -1 ELSE Min(after)
         /\ getIndexBefore(results, index) = IF before = {} THEN -1 ELSE Max(before)
<1>1. PICK a \in Seq(Nat) : a = Keys(results)
  OBVIOUS
<1>2. a \in Seq(Int) /\ Ascending(a) /\ Len(a) \in Nat
  BY <1>1
<1>3. PICK m \in 0 .. Len(a) :
        /\ \A j \in 1 .. m : a[j] < index
        /\ \A j \in (m + 1) .. Len(a) : a[j] >= index
        /\ binarySearch(a, index) = IF m < Len(a) /\ a[m + 1] = index THEN m ELSE -(m + 1)
  BY <1>2, BinarySearchFinds, Zenon
<1>4. PICK sres : sres = binarySearch(a, index)
  OBVIOUS
<1>5. getIndexBefore(results, index) = IF sres > 0 THEN a[sres]
                                       ELSE IF sres < -1 THEN a[-sres - 1] ELSE -1
  BY <1>1, <1>4 DEF getIndexBefore
<1>6. getIndexBefore(results, index) = IF m > 0 THEN a[m] ELSE -1
  <2>1. CASE m < Len(a) /\ a[m + 1] = index
    <3>1. sres = m
      BY <1>3, <1>4, <2>1
    <3> QED
      BY <1>5, <3>1
  <2>2. CASE ~(m < Len(a) /\ a[m + 1] = index)
    <3>1. sres = -(m + 1)
      BY <1>3, <1>4, <2>2
    <3>2. ~(sres > 0) /\ (sres < -1 <=> m > 0) /\ -sres - 1 = m
      BY <3>1
    <3> QED
      BY <1>5, <3>2
  <2> QED
    BY <2>1, <2>2
<1>7. PICK next : next = IF sres >= 0 THEN sres + 1 ELSE -sres - 1
  OBVIOUS
<1>8. getIndexAfter(results, index) = IF next < Len(a) THEN a[next + 1] ELSE -1
  BY <1>1, <1>4, <1>7 DEF getIndexAfter
<1>9. /\ next \in 0 .. Len(a)
      /\ \A j \in 1 .. next : a[j] <= index
      /\ \A j \in (next + 1) .. Len(a) : a[j] > index
  <2>1. \A j \in 1 .. Len(a) : a[j] \in Nat /\ (m + 1 < j => a[m + 1] < a[j])
    BY <1>2 DEF Ascending
  <2>2. CASE m < Len(a) /\ a[m + 1] = index
    <3>1. next = m + 1
      BY <1>3, <1>4, <1>7, <2>2
    <3> QED
      BY <1>3, <2>1, <2>2, <3>1
  <2>3. CASE ~(m < Len(a) /\ a[m + 1] = index)
    <3>1. next = m
      <4>1. sres = -(m + 1)
        BY <1>3, <1>4, <2>3
      <4> QED
        BY <1>7, <4>1
    <3>2. ASSUME NEW j \in (m + 1) .. Len(a) PROVE a[j] > index
      <4>1. m < Len(a) /\ m + 1 \in (m + 1) .. Len(a) /\ m + 1 \in 1 .. Len(a) /\ j \in 1 .. Len(a)
        OBVIOUS
      <4>2. a[m + 1] >= index /\ a[m + 1] # index /\ a[m + 1] \in Nat /\ a[j] \in Nat
        BY <1>3, <2>3, <4>1
      <4>3. j = m + 1 \/ a[m + 1] < a[j]
        BY <2>1, <4>1
      <4> QED
        BY <4>2, <4>3
    <3>3. \A j \in 1 .. m : a[j] \in Nat /\ a[j] < index
      BY <1>3
    <3> QED
      BY <3>1, <3>2, <3>3
  <2> QED
    BY <2>2, <2>3
<1>10. getIndexAfter(results, index) = IF after = {} THEN -1 ELSE Min(after)
  BY <1>1, <1>2, <1>8, <1>9, RowAfter, Zenon
<1>11. getIndexBefore(results, index) = IF before = {} THEN -1 ELSE Max(before)
  <2>1. (\A j \in 1 .. m : a[j] < index) /\ (\A j \in (m + 1) .. Len(a) : a[j] >= index)
    BY <1>3, Zenon
  <2>2. before = {r \in Range(a) : r < index}
    BY <1>1, Zenon
  <2>3. (IF m > 0 THEN a[m] ELSE -1) = IF before = {} THEN -1 ELSE Max(before)
    BY <1>2, <2>1, <2>2, RowBefore, Zenon
  <2> QED
    BY <1>6, <2>3, Zenon
<1> QED
  BY <1>10, <1>11

-----------------------------------------------------------------------------
(***************************************************************************)
(* What the toolbar shows.                                                 *)
(***************************************************************************)
\* FindResults.getIndexAfter and getIndexBefore answer for every row as a search through
\* all matches would: EXEC_LOCK keeps the keys that they search by halving in ascending
\* order, whatever finds overtake each other, and Arrays.binarySearch needs no more.
THEOREM NavigationFindsNearest == Spec => []NavigationRight
<1>1. IInv => NavigationRight
  <2>1. SUFFICES ASSUME IInv PROVE NavigationRight
    OBVIOUS
  <2>2. findResults \in Results /\ Ascending(Keys(findResults))
    BY <2>1 DEF IInv, ToolbarTypeOK, FindInv, RowsAscend
  <2>3. Keys(findResults) \in Seq(Nat)
    BY <2>2, KeysIs
  <2>4. ASSUME NEW index \in -1 .. Max(Range(Keys(findResults)) \cup {0}) + 1
        PROVE  index \in Int
    OBVIOUS
  <2>5. ASSUME NEW index \in Int,
               NEW after, after = {r \in Range(Keys(findResults)) : r > index},
               NEW before, before = {r \in Range(Keys(findResults)) : r < index}
        PROVE  /\ getIndexAfter(findResults, index) = IF after = {} THEN -1 ELSE Min(after)
               /\ getIndexBefore(findResults, index) = IF before = {} THEN -1 ELSE Max(before)
    BY <2>2, <2>3, <2>5, AscendingNavigates, Zenon
  <2> QED
    BY <2>4, <2>5, Zenon DEF NavigationRight
<1> QED
  BY <1>1, Invariance, PTL

\* Rows that ascend are as many as there are places.
LEMMA RowsCount ==
  ASSUME NEW a \in Seq(Nat), Ascending(a), NEW M, M \subseteq Nat, Range(a) = {r - 1 : r \in M}
  PROVE  IsFiniteSet(M) /\ Cardinality(M) = Len(a)
<1>1. PICK n \in Nat : n = Len(a) /\ DOMAIN a = 1 .. n
  OBVIOUS
<1>2. \A k \in 1 .. n : a[k] \in Nat
  BY <1>1
<1>3. \A k \in 1 .. n : a[k] + 1 \in M
  <2>1. ASSUME NEW k \in 1 .. n PROVE a[k] + 1 \in M
    <3>1. a[k] \in Range(a)
      BY <1>1, Zenon DEF Range
    <3>2. PICK r \in M : a[k] = r - 1
      BY <3>1, Zenon
    <3>3. a[k] + 1 = r
      BY <1>2, <3>2
    <3> QED
      BY <3>3
  <2> QED
    BY <2>1
<1>4. \A r \in M : \E k \in 1 .. n : a[k] + 1 = r
  <2>1. ASSUME NEW r \in M PROVE \E k \in 1 .. n : a[k] + 1 = r
    <3>1. r - 1 \in Range(a)
      BY Zenon
    <3>2. PICK k \in 1 .. n : a[k] = r - 1
      BY <1>1, <3>1 DEF Range
    <3>3. a[k] + 1 = r
      BY <3>2
    <3> QED
      BY <3>3
  <2> QED
    BY <2>1, Zenon
<1>5. \A j, k \in 1 .. n : a[j] + 1 = a[k] + 1 => j = k
  <2>1. ASSUME NEW j \in 1 .. n, NEW k \in 1 .. n, a[j] + 1 = a[k] + 1 PROVE j = k
    <3>1. a[j] = a[k]
      BY <1>2, <2>1
    <3>2. ~(j < k) /\ ~(k < j)
      BY <1>1, <1>2, <3>1 DEF Ascending
    <3> QED
      BY <3>2
  <2> QED
    BY <2>1
<1>6. PICK g : g = [k \in 1 .. n |-> a[k] + 1]
  BY Zenon
<1>7. g \in [1 .. n -> M] /\ DOMAIN g = 1 .. n /\ \A k \in 1 .. n : g[k] = a[k] + 1
  BY <1>3, <1>6
<1>8. g \in Bijection(1 .. n, M)
  BY <1>4, <1>5, <1>7, Zenon DEF Bijection, Injection, Surjection, IsInjective
<1>9. ExistsBijection(1 .. n, M)
  BY <1>8, Zenon DEF ExistsBijection
<1>10. IsFiniteSet(1 .. n) /\ Cardinality(1 .. n) = n
  BY FS_Interval
<1> QED
  BY <1>1, <1>9, <1>10, FS_Bijection, Zenon

\* The first rows up to the limit, as a finder's loop counts them and as they are meant.
LEMMA ExpectedIs ==
  ASSUME NEW finder \in Finders, Searches(finder), finder.i <= Len(finder.fileRevisions.commits),
         finder.totalMatches <= MAX_RESULTS,
         finder.i = Len(finder.fileRevisions.commits) \/ finder.totalMatches = MAX_RESULTS,
         Cardinality(MatchingUpTo(finder, finder.i)) = finder.totalMatches
  PROVE  Expected(finder) = {r - 1 : r \in MatchingUpTo(finder, finder.i)}
<1>1. /\ finder.i \in Nat /\ finder.totalMatches \in Nat /\ MAX_RESULTS \in Nat
      /\ finder.fileRevisions.commits \in Seq(Commits)
  BY FinderFields, FindToolbarAssumption
<1>2. PICK n \in Nat : n = Len(finder.fileRevisions.commits) /\ DOMAIN finder.fileRevisions.commits = 1 .. n
  BY <1>1
<1>3. PICK i \in 0 .. n : i = finder.i
  BY <1>1, <1>2
<1>4. \A r \in Nat : IsFiniteSet(MatchingUpTo(finder, r)) /\ Cardinality(MatchingUpTo(finder, r)) \in Nat
  <2>1. ASSUME NEW r \in Nat PROVE IsFiniteSet(MatchingUpTo(finder, r))
    <3>1. IsFiniteSet(1 .. r)
      BY FS_Interval
    <3> QED
      BY <3>1, FS_Subset DEF MatchingUpTo
  <2> QED
    BY <2>1, FS_CardinalityType
<1> DEFINE matching(r) == r \in DOMAIN finder.fileRevisions.commits /\ finder.fileRevisions.commits[r] \in finder.pattern
           rows == {r \in DOMAIN finder.fileRevisions.commits :
                      matching(r) /\ Cardinality({q \in 1 .. r : matching(q)}) <= MAX_RESULTS}
<1>5. Expected(finder) = {r - 1 : r \in rows}
  BY DEF Expected
<1>6. \A r \in 1 .. n : {q \in 1 .. r : matching(q)} = MatchingUpTo(finder, r)
  BY <1>2 DEF MatchingUpTo
<1>7. PICK total \in Nat : total = Cardinality(MatchingUpTo(finder, i)) /\ total = finder.totalMatches
  BY <1>1, <1>3, Zenon
<1>8. ASSUME NEW r \in MatchingUpTo(finder, i) PROVE r \in rows
  <2>1. r \in 1 .. i /\ finder.fileRevisions.commits[r] \in finder.pattern
    BY DEF MatchingUpTo
  <2>2. r \in 1 .. n /\ r \in Nat /\ i \in Nat
    BY <2>1
  <2>3. MatchingUpTo(finder, r) \in SUBSET MatchingUpTo(finder, i)
    BY <2>1, <2>2 DEF MatchingUpTo
  <2>4. Cardinality(MatchingUpTo(finder, r)) <= Cardinality(MatchingUpTo(finder, i))
    BY <1>4, <2>2, <2>3, FS_Subset
  <2>5. Cardinality(MatchingUpTo(finder, r)) <= MAX_RESULTS
    <3>1. PICK c \in Nat : c = Cardinality(MatchingUpTo(finder, r))
      BY <1>4, <2>2, Zenon
    <3>2. c <= total /\ total <= MAX_RESULTS
      BY <1>7, <2>4, <3>1, Zenon
    <3>3. c <= MAX_RESULTS
      BY <1>1, <3>2
    <3> QED
      BY <3>1, <3>3, Zenon
  <2> QED
    BY <1>2, <1>6, <2>1, <2>2, <2>5, Zenon
<1>9. ASSUME NEW r \in rows PROVE r \in MatchingUpTo(finder, i)
  <2>1. /\ r \in 1 .. n /\ finder.fileRevisions.commits[r] \in finder.pattern
        /\ Cardinality(MatchingUpTo(finder, r)) <= MAX_RESULTS
    BY <1>2, <1>6, <1>9, Zenon
  <2>2. CASE r <= i
    BY <2>1, <2>2 DEF MatchingUpTo
  <2>3. CASE r > i
    <3>1. finder.totalMatches = MAX_RESULTS /\ i \in Nat /\ r \in Nat
      BY <1>2, <1>3, <2>1, <2>3
    <3>2. MatchingUpTo(finder, i) \cup {r} \in SUBSET MatchingUpTo(finder, r) /\ r \notin MatchingUpTo(finder, i)
      BY <2>1, <2>3, <3>1 DEF MatchingUpTo
    <3>3. Cardinality(MatchingUpTo(finder, i) \cup {r}) = Cardinality(MatchingUpTo(finder, i)) + 1
      BY <1>4, <3>1, <3>2, FS_AddElement, Zenon
    <3>4. Cardinality(MatchingUpTo(finder, i) \cup {r}) <= Cardinality(MatchingUpTo(finder, r))
      BY <1>4, <3>1, <3>2, FS_Subset
    <3> QED
      BY <1>1, <1>4, <1>7, <2>1, <3>1, <3>3, <3>4
  <2> QED
    BY <2>1, <2>2, <2>3
<1>10. rows = MatchingUpTo(finder, i)
  BY <1>8, <1>9
<1> QED
  BY <1>3, <1>5, <1>10, Zenon

\* When the last find's findCompletionUpdate is due, FindResults holds the first
\* MAX_RESULTS rows that match, all of them and no others, numbered from 1: nothing is
\* left of a find that it overtook, and no finder that gave up adds to it.
THEOREM LastFindReportsAll == Spec => []LastFindExact
<1>1. IInv => LastFindExact
  <2>1. SUFFICES ASSUME IInv, NEW f \in DOMAIN finders,
                        f = globalThreadIx, finders[f].pc \in {"complete", "completed"},
                        finders[f].fileRevisions = fileRevisions, fileRevisions # NULL,
                        finders[f].pattern # NoPattern, ui.pc # "clear"
                 PROVE  /\ Range(Keys(findResults)) = Expected(finders[f])
                        /\ findResults.matchesCount = Len(findResults.matchesMap)
                        /\ \A k \in DOMAIN findResults.matchesMap : findResults.matchesMap[k].number = k
    BY Zenon DEF LastFindExact
  <2>2. Current(f) /\ Searches(finders[f])
    BY <2>1 DEF Current, Searches
  <2>3. finders[f] \in Finders
    BY <2>1, FinderIs DEF IInv
  <2>4. /\ Range(Keys(findResults)) = {r - 1 : r \in MatchingUpTo(finders[f], finders[f].i)}
        /\ findResults.matchesCount = finders[f].totalMatches
        /\ Len(findResults.matchesMap) = finders[f].totalMatches
        /\ \A k \in DOMAIN findResults.matchesMap : findResults.matchesMap[k].number = k
    BY <2>1, <2>2 DEF IInv, FindInv, ExactSoFar
  <2>5. Cardinality(MatchingUpTo(finders[f], finders[f].i)) = finders[f].totalMatches
    <3>1. PICK a \in Seq(Nat) : a = Keys(findResults) /\ Ascending(a) /\ Len(a) = Len(findResults.matchesMap)
      <4>1. findResults \in Results /\ Ascending(Keys(findResults))
        BY <2>1 DEF IInv, ToolbarTypeOK, FindInv, RowsAscend
      <4>2. findResults.matchesMap \in Seq(Matches)
        BY <4>1, ResultsFields
      <4>3. /\ Keys(findResults) \in Seq(Nat)
            /\ DOMAIN Keys(findResults) = DOMAIN findResults.matchesMap
        BY <4>1, KeysIs
      <4>4. Len(Keys(findResults)) = Len(findResults.matchesMap)
        BY <4>2, <4>3
      <4> QED
        BY <4>1, <4>3, <4>4
    <3>2. PICK M \in SUBSET Nat : M = MatchingUpTo(finders[f], finders[f].i)
      <4>1. MatchingUpTo(finders[f], finders[f].i) \subseteq Nat
        <5>1. finders[f].i \in Nat
          BY <2>3, FinderFields
        <5> QED
          BY <5>1 DEF MatchingUpTo
      <4> QED
        BY <4>1, Zenon
    <3>3. Cardinality(M) = Len(a)
      <4>1. Range(a) = {r - 1 : r \in M}
        BY <2>4, <3>1, <3>2, Zenon
      <4> QED
        BY <3>1, <4>1, RowsCount, Zenon
    <3> QED
      BY <2>4, <3>1, <3>2, <3>3
  <2>6. /\ finders[f].i <= Len(finders[f].fileRevisions.commits)
        /\ finders[f].totalMatches <= MAX_RESULTS
        /\ finders[f].i = Len(finders[f].fileRevisions.commits) \/ finders[f].totalMatches = MAX_RESULTS
    BY <2>1, <2>2 DEF IInv, FindInv, LoopOK
  <2>7. Expected(finders[f]) = {r - 1 : r \in MatchingUpTo(finders[f], finders[f].i)}
    BY <2>2, <2>3, <2>6, <2>5, ExpectedIs
  <2> QED
    BY <2>4, <2>7
<1> QED
  BY <1>1, Invariance, PTL
=============================================================================
