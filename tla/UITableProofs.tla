---------------------------- MODULE UITableProofs ----------------------------
(***************************************************************************)
(* Safety of UITable and of its PageList, for any beans, filters, pages    *)
(* and page sizes: the pages partition the list, the rows of the browser   *)
(* are a page of the list as it is, the popup keeps its bean, and an item  *)
(* that was removed does not come back.                                    *)
(***************************************************************************)
EXTENDS UITable, SequenceTheorems, FiniteSetTheorems, WellFoundedInduction, TLAPS

-----------------------------------------------------------------------------
(* The arithmetic of PageList                                              *)

\* The defining property of \div.
LEMMA DivBounds ==
  ASSUME NEW a \in Nat, NEW b \in Nat \ {0}
  PROVE  /\ a \div b \in Nat
         /\ (a \div b) * b <= a
         /\ a < (a \div b) * b + b
BY SMT

\* The quotient is the largest number with that property.
LEMMA DivLargest ==
  ASSUME NEW a \in Nat, NEW b \in Nat \ {0}, NEW q \in Nat, q * b <= a
  PROVE  q <= a \div b
BY SMT

\* There is always a page, and the list ends on the last one.
LEMMA AvailablePageBounds ==
  ASSUME NEW n \in Nat, NEW size \in Nat \ {0}
  PROVE  /\ AvailablePage(n, size) \in Nat \ {0}
         /\ n <= AvailablePage(n, size) * size
<1>1. CASE n = 0
  BY <1>1, SMT DEF AvailablePage
<1>2. CASE n # 0
  <2>1. n + size - 1 \in Nat
    BY <1>2
  <2>2. AvailablePage(n, size) = (n + size - 1) \div size
    BY <1>2 DEF AvailablePage
  <2>3. /\ (n + size - 1) \div size \in Nat
        /\ n + size - 1 < ((n + size - 1) \div size) * size + size
    BY <2>1, DivBounds
  <2>4. 1 * size <= n + size - 1
    BY <1>2
  <2>5. 1 <= (n + size - 1) \div size
    BY <2>1, <2>4, DivLargest
  <2>6. n <= ((n + size - 1) \div size) * size
    <3> DEFINE total == ((n + size - 1) \div size) * size
    <3>1. total \in Nat
      BY <2>3
    <3>2. n + size - 1 < total + size
      BY <2>3
    <3> QED BY <3>1, <3>2
  <2> QED BY <2>2, <2>3, <2>5, <2>6
<1> QED BY <1>1, <1>2

\* Every position of a list is on one of its pages: paging never hides an item,
\* whatever the length of the list and the page size.
THEOREM PagesCover ==
  ASSUME NEW n \in Nat, NEW size \in Nat \ {0}, NEW k \in 0 .. n - 1
  PROVE  \E page \in 1 .. AvailablePage(n, size) :
           k \in From(page, size) .. To(page, size, n) - 1
<1> DEFINE q == k \div size
<1>1. /\ q \in Nat
      /\ q * size <= k
      /\ k < q * size + size
  BY DivBounds
<1>2. (q + 1) * size = q * size + size
  BY <1>1
<1>3. From(q + 1, size) = q * size
  BY <1>1 DEF From
<1>4. k < To(q + 1, size, n)
  BY <1>1, <1>2 DEF To
<1>5. q + 1 <= AvailablePage(n, size)
  <2>1. n # 0
    OBVIOUS
  <2>2. n + size - 1 \in Nat
    OBVIOUS
  <2>3. (q + 1) * size <= n + size - 1
    <3> DEFINE low == q * size
    <3>1. low \in Nat /\ low <= k
      BY <1>1
    <3>2. low + size <= n + size - 1
      BY <3>1
    <3> QED BY <3>2, <1>2
  <2>4. q + 1 <= (n + size - 1) \div size
    BY <2>2, <2>3, <1>1, DivLargest
  <2> QED BY <2>1, <2>4 DEF AvailablePage
<1>6. To(q + 1, size, n) \in Nat
  BY <1>1, <1>2 DEF To
<1>7. q + 1 \in 1 .. AvailablePage(n, size)
  BY <1>1, <1>5, AvailablePageBounds
<1>8. k \in From(q + 1, size) .. To(q + 1, size, n) - 1
  BY <1>1, <1>3, <1>4, <1>6
<1> QED BY <1>7, <1>8

\* No position is on two pages: no item is shown twice while one pages through.
THEOREM PagesDisjoint ==
  ASSUME NEW n \in Nat, NEW size \in Nat \ {0}, NEW k \in Nat,
         NEW p \in Nat \ {0}, NEW q \in Nat \ {0},
         k \in From(p, size) .. To(p, size, n) - 1,
         k \in From(q, size) .. To(q, size, n) - 1
  PROVE  p = q
<1>1. ASSUME NEW a \in Nat \ {0}, NEW b \in Nat \ {0}, a < b
      PROVE  a * size <= (b - 1) * size
  <2>1. \E d \in Nat : b - 1 = a + d
    <3>1. b - 1 - a \in Nat /\ b - 1 = a + (b - 1 - a)
      BY <1>1
    <3> QED BY <3>1
  <2>2. PICK d \in Nat : b - 1 = a + d
    BY <2>1
  <2>3. (a + d) * size = a * size + d * size
    OBVIOUS
  <2>4. a * size \in Nat /\ d * size \in Nat
    OBVIOUS
  <2> QED BY <2>2, <2>3, <2>4
<1>2. /\ (p - 1) * size \in Int /\ p * size \in Int
      /\ (q - 1) * size \in Int /\ q * size \in Int
  OBVIOUS
<1>3. (p - 1) * size <= k /\ k < p * size
  BY <1>2 DEF From, To
<1>4. (q - 1) * size <= k /\ k < q * size
  BY <1>2 DEF From, To
<1>5. CASE p < q
  BY <1>1, <1>2, <1>3, <1>4, <1>5
<1>6. CASE q < p
  BY <1>1, <1>2, <1>3, <1>4, <1>6
<1> QED BY <1>5, <1>6

\* The range of pages that is offered around a page holds that page and only
\* pages that exist.
THEOREM SubRangeExists ==
  ASSUME NEW availablePage \in Nat \ {0}, NEW page \in 1 .. availablePage,
         NEW half \in Nat \ {0}
  PROVE  LET range == SubRange(page, 2 * half, availablePage)
         IN /\ range[1] \in 1 .. page
            /\ range[2] \in page .. availablePage
<1>1. (2 * half) \div 2 = half
  OBVIOUS
<1> QED BY <1>1 DEF SubRange

-----------------------------------------------------------------------------
(* The inductive invariant of the table                                    *)

\* A sequence that holds nothing twice.
NoRepeat(list) == \A a, b \in DOMAIN list : list[a] = list[b] => a = b

\* The items that were made and not removed, and a list of some of them.
Live == (1 .. last) \ removed

Clean(list, live) ==
  list \in Seq(Item) /\ NoRepeat(list) /\ Elements(list) \subseteq live

\* The table's own list and the one of the page list, which may be older.
ItemInv ==
  /\ last \in 0 .. MaxItem /\ removed \subseteq 1 .. last
  /\ aliased \in BOOLEAN /\ thrown \in BOOLEAN /\ pageSize \in PageSize
  /\ Clean(beans, Live) /\ Clean(List, Live)

PageListType ==
  [pageSize : PageSize, available : Nat, availablePage : Nat \ {0},
   currentPage : Nat \ {0}, populated : BOOLEAN, current : Seq(Item)]

\* The pages of p are pages of the list, and p is at one of them.
PagesOf(p, list) ==
  /\ p \in PageListType
  /\ p.available \in 0 .. Len(list)
  /\ p.availablePage = AvailablePage(p.available, p.pageSize)
  /\ p.currentPage \in 1 .. p.availablePage

\* The items of a page of the first n of a list.
Page(list, n, size, page) == SubSeq(list, From(page, size) + 1, To(page, size, n))

\* The page that was cut out last is the one p is at.
Shows(p, list) ==
  p.populated /\ p.current = Page(list, p.available, p.pageSize, p.currentPage)

\* The page list counts all of its list, but after an exception of _filter.
PageInv ==
  /\ PagesOf(pageList, List) /\ Shows(pageList, List)
  /\ shown = pageList.current
  /\ ~thrown => pageList.available = Len(List)

\* The next setBeans finds a page size.
SizeInv == configSize \in PageSize

IInv == ItemInv /\ PageInv /\ popup.row \in Int /\ PopupRowIsItsBean

-----------------------------------------------------------------------------
(* Lists                                                                   *)

\* Every set of positions can be enumerated in its order.
LEMMA OrderExists ==
  ASSUME NEW len \in Nat, NEW K \in SUBSET (1 .. len)
  PROVE  /\ Cardinality(K) \in Nat
         /\ \E f \in [1 .. Cardinality(K) -> K] :
              \A a, b \in 1 .. Cardinality(K) : a < b => f[a] < f[b]
<1> DEFINE Ordered(L) == \E f \in [1 .. Cardinality(L) -> L] :
                           \A a, b \in 1 .. Cardinality(L) : a < b => f[a] < f[b]
           Bad == {n \in Nat : \E L \in SUBSET (1 .. len) : Cardinality(L) = n /\ ~Ordered(L)}
           Less == OpToRel(<, Nat)
<1>1. ASSUME NEW L \in SUBSET (1 .. len)
      PROVE  IsFiniteSet(L) /\ Cardinality(L) \in Nat
  <2>1. IsFiniteSet(1 .. len)
    BY FS_Interval
  <2>2. IsFiniteSet(L)
    BY <2>1, FS_Subset
  <2> QED
    BY <2>2, FS_CardinalityType
<1>2. ASSUME NEW L \in SUBSET (1 .. len), L # {}
      PROVE  \E m \in L : \A k \in L : k <= m
  <2> DEFINE T == {len - k : k \in L}
  <2>1. \A k \in L : len - k \in Nat
    OBVIOUS
  <2>2. T \subseteq Nat /\ T # {}
    BY <1>2, <2>1
  <2> HIDE DEF T, Less
  <2>3. \E x \in T : \A y \in T : ~ (<<y, x>> \in Less)
    BY <2>2, WFMin, NatLessThanWellFounded DEF Less
  <2> USE DEF T
  <2>4. PICK m \in L : \A y \in T : ~ (<<y, len - m>> \in Less)
    BY <2>3
  <2>5. ASSUME NEW k \in L PROVE k <= m
    <3>1. ~ (<<len - k, len - m>> \in Less) /\ len - k \in Nat /\ len - m \in Nat
      BY <2>1, <2>4
    <3>2. ~ (len - k < len - m)
      BY <3>1 DEF Less, OpToRel
    <3>3. k \in Int /\ m \in Int
      OBVIOUS
    <3> QED
      BY <3>2, <3>3
  <2> QED
    BY <2>5
<1>3. Bad = {}
  <2> SUFFICES ASSUME Bad # {} PROVE FALSE
    OBVIOUS
  <2> HIDE DEF Less, Bad
  <2>1. Bad \subseteq Nat
    BY DEF Bad
  <2>2. PICK n \in Bad : \A m \in Bad : ~ (<<m, n>> \in Less)
    BY <2>1, WFMin, NatLessThanWellFounded DEF Less
  <2>3. \A m \in Bad : ~(m < n)
    BY <2>1, <2>2 DEF Less, OpToRel
  <2>4. PICK L \in SUBSET (1 .. len) : Cardinality(L) = n /\ ~Ordered(L)
    BY DEF Bad
  <2>5. L # {}
    <3> SUFFICES ASSUME L = {} PROVE FALSE
      OBVIOUS
    <3>1. Cardinality(L) = 0
      BY FS_EmptySet
    <3>2. [i \in {} |-> 0] \in [1 .. 0 -> L]
      OBVIOUS
    <3>3. \A a, b \in 1 .. 0 : FALSE
      OBVIOUS
    <3>4. Ordered(L)
      BY <3>1, <3>2, <3>3
    <3> QED
      BY <2>4, <3>4
  <2>6. PICK m \in L : \A k \in L : k <= m
    BY <1>2, <2>5
  <2>7. n \in Nat \ {0} /\ Cardinality(L \ {m}) = n - 1
    BY <1>1, <2>1, <2>4, <2>6, FS_RemoveElement, FS_EmptySet
  <2>8. Ordered(L \ {m})
    <3>1. L \ {m} \in SUBSET (1 .. len) /\ n - 1 \in Nat /\ n - 1 < n
      BY <2>7
    <3> HIDE DEF Ordered
    <3> QED
      BY <2>3, <2>7, <3>1 DEF Bad
  <2>9. PICK g \in [1 .. n - 1 -> L \ {m}] : \A a, b \in 1 .. n - 1 : a < b => g[a] < g[b]
    BY <2>7, <2>8
  <2> DEFINE f == [i \in 1 .. n |-> IF i = n THEN m ELSE g[i]]
  <2>10. \A i \in 1 .. n : i # n => i \in 1 .. n - 1
    BY <2>7
  <2>11. f \in [1 .. n -> L]
    BY <2>9, <2>10
  <2>12. \A k \in L \ {m} : k < m
    BY <2>6
  <2>13. ASSUME NEW a \in 1 .. n, NEW b \in 1 .. n, a < b PROVE f[a] < f[b]
    <3>1. a # n /\ a \in 1 .. n - 1
      BY <2>7, <2>10, <2>13
    <3>2. CASE b = n
      BY <2>9, <2>12, <3>1, <3>2
    <3>3. CASE b # n
      BY <2>9, <2>10, <2>13, <3>1, <3>3
    <3> QED
      BY <3>2, <3>3
  <2> HIDE DEF f
  <2>14. Ordered(L)
    BY <2>4, <2>11, <2>13
  <2> QED
    BY <2>4, <2>14
<1>4. Ordered(K)
  <2>1. Cardinality(K) \in Nat
    BY <1>1
  <2> HIDE DEF Ordered
  <2> QED
    BY <1>3, <2>1
<1> QED
  BY <1>1, <1>4

\* A selection from a list has some of its items, none of them twice.
LEMMA SelectionFacts ==
  ASSUME NEW S, NEW list \in Seq(S), NoRepeat(list), NEW K \in SUBSET DOMAIN list
  PROVE  /\ Selection(list, K) \in Seq(S)
         /\ NoRepeat(Selection(list, K))
         /\ Elements(Selection(list, K)) \subseteq {list[k] : k \in K}
<1> DEFINE n == Cardinality(K)
           Increasing(f) == \A a, b \in DOMAIN f : a < b => f[a] < f[b]
           place == CHOOSE f \in [1 .. n -> K] : Increasing(f)
<1>1. Len(list) \in Nat /\ DOMAIN list = 1 .. Len(list) /\ \A k \in 1 .. Len(list) : list[k] \in S
  OBVIOUS
<1>2. n \in Nat /\ \E f \in [1 .. n -> K] : \A a, b \in 1 .. n : a < b => f[a] < f[b]
  BY <1>1, OrderExists
<1>3. \E f \in [1 .. n -> K] : Increasing(f)
  BY <1>2
<1> HIDE DEF n
<1>4. place \in [1 .. n -> K] /\ Increasing(place)
  <2> HIDE DEF Increasing
  <2> QED
    BY <1>3
<1>5. Selection(list, K) = [k \in DOMAIN place |-> list[place[k]]]
  BY DEF Selection, n
<1> HIDE DEF place
<1>6. Selection(list, K) = [k \in 1 .. n |-> list[place[k]]]
  BY <1>4, <1>5
<1>7. \A k \in 1 .. n : place[k] \in K /\ place[k] \in 1 .. Len(list)
  BY <1>1, <1>4
<1>8. Selection(list, K) \in Seq(S)
  <2>1. Selection(list, K) \in [1 .. n -> S]
    BY <1>1, <1>6, <1>7
  <2> QED
    BY <1>2, <2>1, IsASeq
<1>9. NoRepeat(Selection(list, K))
  <2> SUFFICES ASSUME NEW a \in 1 .. n, NEW b \in 1 .. n, list[place[a]] = list[place[b]]
               PROVE  a = b
    BY <1>6 DEF NoRepeat
  <2>1. place[a] = place[b] /\ place[a] \in Nat
    BY <1>1, <1>7 DEF NoRepeat
  <2>2. a < b => place[a] < place[b]
    BY <1>4
  <2>3. b < a => place[b] < place[a]
    BY <1>4
  <2> QED
    BY <1>2, <2>1, <2>2, <2>3
<1>10. Elements(Selection(list, K)) \subseteq {list[k] : k \in K}
  BY <1>6, <1>7 DEF Elements
<1> QED
  BY <1>8, <1>9, <1>10

\* A list without the item at one position.
LEMMA WithoutFacts ==
  ASSUME NEW S, NEW list \in Seq(S), NoRepeat(list), NEW pos \in 0 .. Len(list) - 1
  PROVE  /\ Without(list, pos) \in Seq(S)
         /\ NoRepeat(Without(list, pos))
         /\ Elements(Without(list, pos)) \subseteq Elements(list) \ {list[pos + 1]}
<1> DEFINE low == SubSeq(list, 1, pos)
           high == SubSeq(list, pos + 2, Len(list))
           rest == Without(list, pos)
<1>0. Len(list) \in Nat /\ DOMAIN list = 1 .. Len(list) /\ \A k \in 1 .. Len(list) : list[k] \in S
  OBVIOUS
<1>1. /\ low \in Seq(S) /\ Len(low) = pos
      /\ \A i \in 1 .. pos : low[i] = list[i]
  <2>1. \A i \in 1 .. pos : list[i] \in S
    BY <1>0
  <2>2. /\ low \in Seq(S) /\ Len(low) = IF 1 <= pos THEN pos - 1 + 1 ELSE 0
        /\ \A i \in 1 .. pos - 1 + 1 : low[i] = list[1 + i - 1]
    BY <2>1, SubSeqProperties
  <2> QED
    BY <2>2
<1>2. /\ high \in Seq(S) /\ Len(high) = Len(list) - pos - 1
      /\ \A i \in 1 .. Len(list) - pos - 1 : high[i] = list[pos + 1 + i]
  <2>1. PICK n \in Nat : n = Len(list)
    BY <1>0
  <2>2. \A i \in pos + 2 .. n : list[i] \in S
    BY <1>0, <2>1
  <2>3. /\ high \in Seq(S)
        /\ Len(high) = IF pos + 2 <= n THEN n - (pos + 2) + 1 ELSE 0
        /\ \A i \in 1 .. n - (pos + 2) + 1 : high[i] = list[pos + 2 + i - 1]
    BY <2>1, <2>2, SubSeqProperties
  <2>4. pos \in 0 .. n - 1 /\ n - (pos + 2) + 1 = n - pos - 1
    BY <2>1
  <2>5. Len(high) = n - pos - 1
    BY <2>3, <2>4
  <2>6. \A i \in 1 .. n - pos - 1 : pos + 2 + i - 1 = pos + 1 + i
    BY <2>4
  <2>7. \A i \in 1 .. n - pos - 1 : high[i] = list[pos + 1 + i]
    BY <2>3, <2>4, <2>6
  <2> QED
    BY <2>1, <2>3, <2>5, <2>7
<1> HIDE DEF low, high
<1>3. rest = low \o high
  BY DEF Without, low, high
<1>4. /\ rest \in Seq(S) /\ Len(rest) = Len(list) - 1
      /\ \A i \in 1 .. Len(list) - 1 : rest[i] = IF i <= pos THEN low[i] ELSE high[i - pos]
  <2>1. /\ low \o high \in Seq(S) /\ Len(low \o high) = Len(low) + Len(high)
        /\ \A i \in 1 .. Len(low) + Len(high) :
             (low \o high)[i] = IF i <= Len(low) THEN low[i] ELSE high[i - Len(low)]
    BY <1>1, <1>2, ConcatProperties
  <2>2. Len(low) + Len(high) = Len(list) - 1
    BY <1>0, <1>1, <1>2
  <2> QED
    BY <1>1, <1>3, <2>1, <2>2
<1> HIDE DEF rest
<1>5. \A i \in 1 .. Len(list) - 1 : rest[i] = IF i <= pos THEN list[i] ELSE list[i + 1]
  <2> SUFFICES ASSUME NEW i \in 1 .. Len(list) - 1
               PROVE  rest[i] = IF i <= pos THEN list[i] ELSE list[i + 1]
    OBVIOUS
  <2>1. CASE i <= pos
    BY <1>1, <1>4, <2>1
  <2>2. CASE ~ (i <= pos)
    <3>1. i - pos \in 1 .. Len(list) - pos - 1 /\ pos + 1 + (i - pos) = i + 1
      BY <1>0, <2>2
    <3> QED
      BY <1>2, <1>4, <2>2, <3>1
  <2> QED
    BY <2>1, <2>2
<1>6. DOMAIN rest = 1 .. Len(list) - 1
  BY <1>4
<1>7. NoRepeat(rest)
  <2> SUFFICES ASSUME NEW a \in 1 .. Len(list) - 1, NEW b \in 1 .. Len(list) - 1,
                      rest[a] = rest[b]
               PROVE  a = b
    BY <1>6 DEF NoRepeat
  <2>1. PICK i \in 1 .. Len(list) : i = IF a <= pos THEN a ELSE a + 1
    BY <1>0
  <2>2. PICK j \in 1 .. Len(list) : j = IF b <= pos THEN b ELSE b + 1
    BY <1>0
  <2>3. list[i] = list[j]
    BY <1>5, <2>1, <2>2
  <2>4. i = j
    BY <1>0, <2>3 DEF NoRepeat
  <2> QED
    BY <2>1, <2>2, <2>4
<1>8. ASSUME NEW x \in Elements(rest) PROVE x \in Elements(list) \ {list[pos + 1]}
  <2>1. PICK a \in 1 .. Len(list) - 1 : rest[a] = x
    BY <1>6 DEF Elements
  <2>2. PICK i \in 1 .. Len(list) : i = IF a <= pos THEN a ELSE a + 1
    BY <1>0
  <2>3. x = list[i] /\ i # pos + 1 /\ pos + 1 \in 1 .. Len(list)
    BY <1>0, <1>5, <2>1, <2>2
  <2>4. x # list[pos + 1]
    BY <1>0, <2>3 DEF NoRepeat
  <2> QED
    BY <1>0, <2>3, <2>4 DEF Elements
<1> QED
  BY <1>4, <1>7, <1>8 DEF rest

\* A list with a new item at its end, of which the old one is the first part.
LEMMA AppendFacts ==
  ASSUME NEW S, NEW list \in Seq(S), NEW x \in S
  PROVE  /\ Append(list, x) \in Seq(S) /\ Len(Append(list, x)) = Len(list) + 1
         /\ \A k \in 1 .. Len(list) : Append(list, x)[k] = list[k]
         /\ NoRepeat(list) /\ x \notin Elements(list) => NoRepeat(Append(list, x))
         /\ Elements(Append(list, x)) = Elements(list) \cup {x}
<1>1. /\ Append(list, x) \in Seq(S) /\ Len(Append(list, x)) = Len(list) + 1
      /\ DOMAIN Append(list, x) = 1 .. Len(list) + 1 /\ DOMAIN list = 1 .. Len(list)
      /\ Len(list) \in Nat
      /\ \A k \in 1 .. Len(list) : Append(list, x)[k] = list[k]
      /\ Append(list, x)[Len(list) + 1] = x
  OBVIOUS
<1>2. NoRepeat(list) /\ x \notin Elements(list) => NoRepeat(Append(list, x))
  <2> SUFFICES ASSUME NoRepeat(list), x \notin Elements(list) PROVE NoRepeat(Append(list, x))
    OBVIOUS
  <2>1. \A k \in 1 .. Len(list) : list[k] # x
    BY <1>1 DEF Elements
  <2> QED
    BY <1>1, <2>1 DEF NoRepeat
<1>3. Elements(Append(list, x)) = Elements(list) \cup {x}
  <2>1. ASSUME NEW y \in Elements(Append(list, x)) PROVE y \in Elements(list) \cup {x}
    <3>1. PICK k \in 1 .. Len(list) + 1 : Append(list, x)[k] = y
      BY <1>1 DEF Elements
    <3> QED
      BY <1>1, <3>1 DEF Elements
  <2>2. ASSUME NEW y \in Elements(list) PROVE y \in Elements(Append(list, x))
    <3>1. PICK k \in 1 .. Len(list) : list[k] = y
      BY <1>1, <2>2 DEF Elements
    <3>2. k \in DOMAIN Append(list, x) /\ Append(list, x)[k] = y
      BY <1>1, <3>1
    <3> QED
      BY <3>2 DEF Elements
  <2>3. x \in Elements(Append(list, x))
    <3>1. Len(list) + 1 \in DOMAIN Append(list, x)
      BY <1>1
    <3> QED
      BY <1>1, <3>1 DEF Elements
  <2> QED
    BY <2>1, <2>2, <2>3
<1> QED
  BY <1>1, <1>2, <1>3

-----------------------------------------------------------------------------
(* Pages                                                                   *)

\* Where a page begins and ends; no page of a list with items is empty.
LEMMA PageBounds ==
  ASSUME NEW n \in Nat, NEW size \in Nat \ {0}, NEW page \in 1 .. AvailablePage(n, size)
  PROVE  /\ From(page, size) \in Nat /\ To(page, size, n) \in 0 .. n
         /\ n # 0 => From(page, size) < To(page, size, n)
<1>0. page \in Nat \ {0}
  BY AvailablePageBounds
<1>1. page * size \in Nat /\ (page - 1) * size \in Nat
  BY <1>0
<1>2. (page - 1) * size = page * size - size
  BY <1>0
<1>3. To(page, size, n) \in 0 .. n
  BY <1>1 DEF To
<1>4. ASSUME n # 0 PROVE page * size <= n + size - 1
  <2>1. n + size - 1 \in Nat /\ AvailablePage(n, size) = (n + size - 1) \div size
    BY <1>4 DEF AvailablePage
  <2>2. PICK q \in Nat : q = (n + size - 1) \div size /\ q * size <= n + size - 1
    BY <2>1, DivBounds
  <2>3. page <= q
    BY <2>1, <2>2
  <2>4. PICK d \in Nat : q = page + d
    <3>1. q - page \in Nat /\ q = page + (q - page)
      BY <1>0, <2>2, <2>3
    <3> QED
      BY <3>1
  <2>5. q * size = page * size + d * size /\ d * size \in Nat
    BY <1>0, <2>4
  <2>6. ASSUME NEW t \in Nat, NEW u \in Nat, NEW v \in Nat, t = u + v, t <= n + size - 1
        PROVE  u <= n + size - 1
    BY <2>6
  <2> QED
    BY <1>1, <2>2, <2>5, <2>6
<1>5. ASSUME n # 0 PROVE From(page, size) < To(page, size, n)
  <2>1. PICK t \in Nat : t = page * size
    BY <1>1
  <2>2. t <= n + size - 1 /\ From(page, size) = t - size
    BY <1>2, <1>4, <1>5, <2>1 DEF From
  <2>3. To(page, size, n) = IF t > n THEN n ELSE t
    BY <2>1 DEF To
  <2> QED
    BY <2>2, <2>3
<1> QED
  BY <1>1, <1>3, <1>5 DEF From

\* What is on a page.
LEMMA PageItems ==
  ASSUME NEW S, NEW list \in Seq(S), NEW n \in 0 .. Len(list),
         NEW size \in Nat \ {0}, NEW page \in 1 .. AvailablePage(n, size),
         NEW cut, cut = Page(list, n, size, page)
  PROVE  /\ cut \in Seq(S)
         /\ cut = <<>> <=> n = 0
         /\ \A k \in DOMAIN cut : /\ From(page, size) + k \in 1 .. n
                                  /\ cut[k] = list[From(page, size) + k]
         /\ Elements(cut) \subseteq Elements(list)
<1>0. n \in Nat /\ n <= Len(list) /\ Len(list) \in Nat
  OBVIOUS
<1>1. PICK low \in Nat : low = From(page, size)
  BY <1>0, PageBounds
<1>2. PICK high \in Nat : high = To(page, size, n) /\ high <= n
  <2>1. To(page, size, n) \in 0 .. n
    BY <1>0, PageBounds
  <2>2. \A x \in 0 .. n : x \in Nat /\ x <= n
    BY <1>0
  <2> QED
    BY <2>1, <2>2
<1>3. n # 0 => low < high
  BY <1>0, <1>1, <1>2, PageBounds
<1>4. DOMAIN list = 1 .. Len(list) /\ \A k \in 1 .. Len(list) : list[k] \in S
  OBVIOUS
<1>5. \A k \in low + 1 .. high : list[k] \in S
  BY <1>0, <1>2, <1>4
<1>6. /\ cut \in Seq(S)
      /\ Len(cut) = IF low + 1 <= high THEN high - (low + 1) + 1 ELSE 0
      /\ \A k \in 1 .. high - (low + 1) + 1 : cut[k] = list[low + 1 + k - 1]
  <2>1. cut = SubSeq(list, low + 1, high)
    BY <1>1, <1>2 DEF Page
  <2>2. low + 1 \in Int /\ high \in Int
    OBVIOUS
  <2>3. /\ SubSeq(list, low + 1, high) \in Seq(S)
        /\ Len(SubSeq(list, low + 1, high)) = IF low + 1 <= high THEN high - (low + 1) + 1 ELSE 0
        /\ \A k \in 1 .. high - (low + 1) + 1 :
             SubSeq(list, low + 1, high)[k] = list[low + 1 + k - 1]
    BY <1>5, <2>2, SubSeqProperties
  <2> QED
    BY <2>1, <2>3
<1>7. PICK len \in Nat : len = IF low < high THEN high - low ELSE 0
  <2>1. low < high => high - low \in Nat
    OBVIOUS
  <2> QED
    BY <2>1
<1>8. Len(cut) = len /\ DOMAIN cut = 1 .. len /\ (cut = <<>> <=> len = 0)
  <2>1. low < high <=> low + 1 <= high
    OBVIOUS
  <2>2. low < high => high - (low + 1) + 1 = high - low
    OBVIOUS
  <2>3. Len(cut) = len
    BY <1>6, <1>7, <2>1, <2>2
  <2>4. cut \in Seq(S)
    BY <1>6
  <2>5. DOMAIN cut = 1 .. Len(cut)
    BY <2>4, LenProperties
  <2>6. cut = <<>> <=> Len(cut) = 0
    BY <2>4, EmptySeq
  <2> QED
    BY <2>3, <2>5, <2>6
<1>9. \A k \in DOMAIN cut : low + k \in 1 .. n /\ cut[k] = list[low + k]
  <2> SUFFICES ASSUME NEW k \in DOMAIN cut
               PROVE  low + k \in 1 .. n /\ cut[k] = list[low + k]
    OBVIOUS
  <2>1. low < high /\ k \in 1 .. high - low
    <3>1. k \in 1 .. len
      BY <1>8
    <3> QED
      BY <1>7, <3>1
  <2>2. high - (low + 1) + 1 = high - low /\ low + 1 + k - 1 = low + k
    BY <2>1
  <2>3. low + k \in 1 .. n
    BY <1>0, <1>2, <2>1
  <2> QED
    BY <1>6, <2>1, <2>2, <2>3
<1>10. cut = <<>> <=> n = 0
  <2>1. low < high => n # 0
    BY <1>0, <1>2
  <2>2. len = 0 <=> n = 0
    BY <1>3, <1>7, <2>1
  <2> QED
    BY <1>8, <2>2
<1>11. Elements(cut) \subseteq Elements(list)
  <2>1. \A k \in DOMAIN cut : low + k \in DOMAIN list
    BY <1>0, <1>4, <1>9
  <2> QED
    BY <1>9, <2>1 DEF Elements
<1> QED
  BY <1>1, <1>6, <1>9, <1>10, <1>11

\* The size of a page is a positive number.
LEMMA SizeFacts == PageSize \subseteq Nat \ {0}
  BY TableAssumption

\* A page list that starts again with a number of items.
LEMMA SetAvailableFacts ==
  ASSUME NEW p \in PageListType, NEW list \in Seq(Item), NEW n \in 0 .. Len(list),
         NEW q, q = SetAvailablePage(p, n)
  PROVE  PagesOf(q, list) /\ q.available = n /\ ~q.populated
<1>1. PICK size \in Nat \ {0} : size = p.pageSize
  BY SizeFacts DEF PageListType
<1>2. AvailablePage(n, size) \in Nat \ {0}
  <2>1. Len(list) \in Nat /\ n \in Nat
    OBVIOUS
  <2> QED
    BY <2>1, AvailablePageBounds
<1>3. <<>> \in Seq(Item)
  OBVIOUS
<1>4. q = [p EXCEPT !.available = n, !.availablePage = AvailablePage(n, size),
                    !.currentPage = 1, !.populated = FALSE, !.current = <<>>]
  BY <1>1 DEF SetAvailablePage
<1>5. p.pageSize = size /\ size \in PageSize /\ n \in Nat
  <2>1. Len(list) \in Nat
    OBVIOUS
  <2> QED
    BY <1>1, <2>1 DEF PageListType
<1>6. /\ q.available = n /\ q.pageSize = size
      /\ q.availablePage = AvailablePage(n, size) /\ q.currentPage = 1
      /\ q.populated = FALSE /\ q.current = <<>>
  BY <1>4, <1>5 DEF PageListType
<1>7. q = [pageSize |-> size, available |-> n, availablePage |-> AvailablePage(n, size),
           currentPage |-> 1, populated |-> FALSE, current |-> <<>>]
  BY <1>4, <1>5 DEF PageListType
<1>8. q \in PageListType
  BY <1>2, <1>3, <1>5, <1>7 DEF PageListType
<1>9. 1 \in 1 .. AvailablePage(n, size)
  BY <1>2
<1> QED
  BY <1>6, <1>8, <1>9 DEF PagesOf

\* A page list that is turned to one of its pages.
LEMMA GetPageFacts ==
  ASSUME NEW list \in Seq(Item), NEW p, PagesOf(p, list), NEW page \in 1 .. p.availablePage,
         NEW q, q = GetPage(p, list, page)
  PROVE  PagesOf(q, list) /\ Shows(q, list) /\ q.available = p.available
<1>1. p \in PageListType /\ page \in Nat \ {0} /\ p.pageSize \in Nat \ {0}
  <2>1. p \in PageListType
    BY DEF PagesOf
  <2>2. p.availablePage \in Nat /\ p.pageSize \in PageSize
    BY <2>1 DEF PageListType
  <2>3. page \in Nat \ {0}
    BY <2>2
  <2> QED
    BY <2>1, <2>2, <2>3, SizeFacts
<1>2. PICK cut : cut = Page(list, p.available, p.pageSize, page)
  OBVIOUS
<1>3. cut \in Seq(Item)
  BY <1>1, <1>2, PageItems DEF PagesOf
<1>4. q = [p EXCEPT !.currentPage = page, !.populated = TRUE, !.current = cut]
  BY <1>2 DEF GetPage, Page
<1>5. /\ q \in PageListType /\ q.available = p.available /\ q.pageSize = p.pageSize
      /\ q.availablePage = p.availablePage /\ q.currentPage = page
      /\ q.populated /\ q.current = cut
  BY <1>1, <1>3, <1>4 DEF PageListType
<1> QED
  BY <1>2, <1>5 DEF PagesOf, Shows

\* The current page is cut out when it has not been.
LEMMA CurrentPageFacts ==
  ASSUME NEW list \in Seq(Item), NEW p, PagesOf(p, list), p.populated => Shows(p, list),
         NEW q, q = CurrentPageItems(p, list)
  PROVE  PagesOf(q, list) /\ Shows(q, list) /\ q.available = p.available
BY GetPageFacts DEF CurrentPageItems, PagesOf

\* A new page list is at the first page of its list.
LEMMA NewPageListFacts ==
  ASSUME NEW list \in Seq(Item), NEW size \in PageSize, NEW q, q = NewPageList(size, list)
  PROVE  PagesOf(q, list) /\ q.available = Len(list) /\ ~q.populated
<1>1. PICK p : p = [pageSize |-> size, available |-> 0, availablePage |-> 1,
                    currentPage |-> 1, populated |-> FALSE, current |-> <<>>]
  OBVIOUS
<1>2. <<>> \in Seq(Item) /\ Len(list) \in 0 .. Len(list)
  OBVIOUS
<1>3. p \in PageListType
  BY <1>1, <1>2 DEF PageListType
<1>4. q = SetAvailablePage(p, Len(list))
  BY <1>1 DEF NewPageList
<1> QED
  BY <1>2, <1>3, <1>4, SetAvailableFacts

\* The page of a list is not changed by an item that is added after it.
LEMMA AppendKeepsPage ==
  ASSUME NEW list \in Seq(Item), NEW x \in Item, NEW p, PagesOf(p, list), Shows(p, list)
  PROVE  PagesOf(p, Append(list, x)) /\ Shows(p, Append(list, x))
<1>1. PICK more \in Seq(Item) : more = Append(list, x)
  BY AppendFacts
<1>2. /\ Len(list) \in Nat /\ Len(more) = Len(list) + 1
      /\ \A k \in 1 .. Len(list) : more[k] = list[k]
  BY <1>1, AppendFacts
<1>3. p.available \in 0 .. Len(list)
  BY DEF PagesOf
<1>4. p.available \in 0 .. Len(more) /\ p.available \in Nat
  BY <1>2, <1>3
<1>5. PagesOf(p, more)
  BY <1>4 DEF PagesOf
<1>6. /\ p.pageSize \in Nat \ {0}
      /\ p.currentPage \in 1 .. AvailablePage(p.available, p.pageSize)
  BY SizeFacts DEF PagesOf, PageListType
<1>7. PICK low \in Nat : low = From(p.currentPage, p.pageSize)
  BY <1>4, <1>6, PageBounds
<1>8. PICK high \in Nat : high = To(p.currentPage, p.pageSize, p.available) /\ high <= Len(list)
  <2>1. To(p.currentPage, p.pageSize, p.available) \in 0 .. p.available
    BY <1>4, <1>6, PageBounds
  <2>2. \A y \in 0 .. p.available : y \in Nat /\ y <= Len(list)
    BY <1>2, <1>3, <1>4
  <2> QED
    BY <2>1, <2>2
<1>9. \A i \in low + 1 .. high : list[i] \in Item /\ more[i] = list[i]
  <2>1. \A i \in low + 1 .. high : i \in 1 .. Len(list)
    BY <1>2, <1>7, <1>8
  <2>2. \A i \in 1 .. Len(list) : list[i] \in Item
    BY ElementOfSeq
  <2> QED
    BY <1>2, <2>1, <2>2
<1>10. low + 1 \in Int /\ high \in Int
  BY <1>7, <1>8
<1>11. PICK a : a = SubSeq(list, low + 1, high)
  OBVIOUS
<1>12. PICK b : b = SubSeq(more, low + 1, high)
  OBVIOUS
<1>13. /\ a \in Seq(Item) /\ Len(a) = IF low + 1 <= high THEN high - (low + 1) + 1 ELSE 0
       /\ \A i \in 1 .. high - (low + 1) + 1 : a[i] = list[low + 1 + i - 1]
  BY <1>9, <1>10, <1>11, SubSeqProperties
<1>14. /\ b \in Seq(Item) /\ Len(b) = IF low + 1 <= high THEN high - (low + 1) + 1 ELSE 0
       /\ \A i \in 1 .. high - (low + 1) + 1 : b[i] = more[low + 1 + i - 1]
  BY <1>9, <1>10, <1>12, SubSeqProperties
<1>15. \A i \in 1 .. Len(a) : a[i] = b[i]
  <2> SUFFICES ASSUME NEW i \in 1 .. Len(a) PROVE a[i] = b[i]
    OBVIOUS
  <2>1. Len(a) \in Nat
    BY <1>13, LenProperties
  <2>2. low + 1 <= high /\ i \in 1 .. high - (low + 1) + 1
    BY <1>7, <1>8, <1>13, <2>1
  <2>3. low + 1 + i - 1 \in low + 1 .. high
    BY <1>7, <1>8, <2>2
  <2> QED
    BY <1>9, <1>13, <1>14, <2>2, <2>3
<1>16. a = b
  BY <1>13, <1>14, <1>15, SeqEqual
<1> QED
  BY <1>1, <1>5, <1>7, <1>8, <1>11, <1>12, <1>16 DEF Shows, Page

\* The row of the browser that is item number pos of the list.
LEMMA RowFacts ==
  ASSUME NEW list \in Seq(Item), NEW p, PagesOf(p, list), Shows(p, list),
         NEW row \in 0 .. Len(p.current) - 1,
         NEW pos, pos = From(p.currentPage, p.pageSize) + row
  PROVE  pos \in 0 .. Len(list) - 1 /\ p.current[row + 1] = list[pos + 1]
<1>1. /\ p.pageSize \in Nat \ {0} /\ p.available \in 0 .. Len(list)
      /\ p.currentPage \in 1 .. AvailablePage(p.available, p.pageSize)
  BY SizeFacts DEF PagesOf, PageListType
<1>2. PICK cut : cut = Page(list, p.available, p.pageSize, p.currentPage)
  OBVIOUS
<1>3. /\ cut \in Seq(Item)
      /\ \A k \in DOMAIN cut : /\ From(p.currentPage, p.pageSize) + k \in 1 .. p.available
                              /\ cut[k] = list[From(p.currentPage, p.pageSize) + k]
  <2>1. PICK n \in 0 .. Len(list), size \in Nat \ {0} : n = p.available /\ size = p.pageSize
    BY <1>1
  <2>2. PICK page \in 1 .. AvailablePage(n, size) : page = p.currentPage
    BY <1>1, <2>1
  <2>3. cut = Page(list, n, size, page)
    BY <1>2, <2>1, <2>2
  <2>4. cut \in Seq(Item)
    BY <2>3, PageItems
  <2>5. \A k \in DOMAIN cut : From(page, size) + k \in 1 .. n
    BY <2>3, PageItems
  <2>6. \A k \in DOMAIN cut : cut[k] = list[From(page, size) + k]
    BY <2>3, PageItems
  <2> QED
    BY <2>1, <2>2, <2>4, <2>5, <2>6
<1>4. row \in Nat /\ row + 1 \in DOMAIN cut /\ Len(list) \in Nat
  <2>1. cut = p.current
    BY <1>2 DEF Shows
  <2>2. PICK n \in Nat : n = Len(cut) /\ DOMAIN cut = 1 .. n
    BY <1>3, LenProperties
  <2>3. row \in 0 .. n - 1
    BY <2>1, <2>2
  <2>4. row \in Nat /\ row + 1 \in 1 .. n
    BY <2>3
  <2> QED
    BY <2>2, <2>4, LenProperties
<1>5. /\ From(p.currentPage, p.pageSize) + (row + 1) \in 1 .. p.available
      /\ cut[row + 1] = list[From(p.currentPage, p.pageSize) + (row + 1)]
  BY <1>3, <1>4
<1>6. PICK low \in Nat : low = From(p.currentPage, p.pageSize)
  <2>1. p.available \in Nat
    BY <1>1, <1>3
  <2> QED
    BY <1>1, <2>1, PageBounds
<1>7. low + (row + 1) = pos + 1 /\ pos \in Nat
  <2>1. pos = low + row
    BY <1>6
  <2> QED
    BY <1>4, <2>1
<1>8. pos + 1 \in 1 .. p.available
  BY <1>5, <1>6, <1>7
<1>9. pos \in 0 .. Len(list) - 1
  BY <1>1, <1>4, <1>7, <1>8
<1>10. cut = p.current
  BY <1>2 DEF Shows
<1> QED
  BY <1>5, <1>6, <1>7, <1>9, <1>10

-----------------------------------------------------------------------------
(* What the handlers share                                                 *)

\* renderRows shows the current page of the list that the page list has then.
LEMMA RenderRowsKeeps ==
  ASSUME NEW list \in Seq(Item), List' = list,
         NEW p, PagesOf(p, list), p.populated => Shows(p, list), RenderRows(p, list),
         ~thrown' => p.available = Len(list)
  PROVE  PageInv'
<1>1. PICK q : q = CurrentPageItems(p, list)
  OBVIOUS
<1>2. PagesOf(q, list) /\ Shows(q, list) /\ q.available = p.available
  BY <1>1, CurrentPageFacts
<1>3. pageList' = q /\ shown' = q.current
  BY <1>1 DEF RenderRows
<1>4. PagesOf(pageList', List') /\ Shows(pageList', List') /\ shown' = pageList'.current
  BY <1>2, <1>3
<1>5. ~thrown' => pageList'.available = Len(List')
  BY <1>2, <1>3
<1> QED
  BY <1>4, <1>5 DEF PageInv

\* _filter and renderRows show a page of a list of live items.
LEMMA FilterKeeps ==
  ASSUME NEW live, NEW list, Clean(list, live), beans' = list, NEW size \in PageSize,
         NEW f, NEW of, NEW fields, FilterAndRender(size, f, list, of, fields)
  PROVE  PageInv' /\ Clean(List', live) /\ aliased' \in BOOLEAN /\ thrown' \in BOOLEAN
<1>1. list \in Seq(Item) /\ NoRepeat(list) /\ Elements(list) \subseteq live
  BY DEF Clean
<1>2. PICK K : K = {k \in DOMAIN list : fields[of[list[k]]] = f}
  OBVIOUS
<1>3. /\ aliased' = (f = NoFilter)
      /\ held' = IF f = NoFilter THEN <<>> ELSE Selection(list, K)
      /\ RenderRows(NewPageList(size, IF aliased' THEN list ELSE held'),
                    IF aliased' THEN list ELSE held')
      /\ thrown' = FALSE
  BY <1>2 DEF FilterAndRender
<1>4. PICK view : view = IF f = NoFilter THEN list ELSE Selection(list, K)
  OBVIOUS
<1>5. (IF aliased' THEN list ELSE held') = view
  BY <1>3, <1>4
<1>6. List' = view
  BY <1>5 DEF List
<1>7. Clean(view, live)
  <2>1. CASE f = NoFilter
    BY <1>4, <2>1
  <2>2. CASE f # NoFilter
    <3>1. K \in SUBSET DOMAIN list
      BY <1>2
    <3>2. /\ Selection(list, K) \in Seq(Item) /\ NoRepeat(Selection(list, K))
          /\ Elements(Selection(list, K)) \subseteq {list[k] : k \in K}
      BY <1>1, <3>1, SelectionFacts
    <3>3. {list[k] : k \in K} \subseteq Elements(list)
      BY <3>1 DEF Elements
    <3> QED
      BY <1>1, <1>4, <2>2, <3>2, <3>3 DEF Clean
  <2> QED
    BY <2>1, <2>2
<1>8. view \in Seq(Item)
  BY <1>7 DEF Clean
<1>9. PICK p : p = NewPageList(size, view)
  OBVIOUS
<1>10. PagesOf(p, view) /\ p.available = Len(view) /\ ~p.populated
  BY <1>8, <1>9, NewPageListFacts
<1>11. RenderRows(p, view)
  BY <1>3, <1>5, <1>9
<1>12. PageInv'
  BY <1>6, <1>8, <1>10, <1>11, RenderRowsKeeps
<1> QED
  BY <1>3, <1>6, <1>7, <1>12

\* What a handler leaves alone that does not touch the list.
LEMMA SameItems ==
  ASSUME ItemInv, UNCHANGED <<beans, last, pageSize, held, aliased, removed>>,
         thrown' \in BOOLEAN
  PROVE  ItemInv' /\ List' = List
<1>1. List' = List
  BY DEF List
<1>2. Live' = Live
  BY DEF Live
<1> QED
  BY <1>1, <1>2 DEF ItemInv

\* Without a popup there is no row to keep.
LEMMA ClosedPopup ==
  ASSUME popup.row \in Int, Event, popup' = popup
  PROVE  popup'.row \in Int /\ PopupRowIsItsBean'
BY DEF Event, PopupRowIsItsBean

\* A handler that shows the page list as it is, or turned to another page.
LEMMA ShowAgain ==
  ASSUME ItemInv, UNCHANGED <<beans, last, pageSize, held, aliased, removed, thrown>>,
         NEW p, PagesOf(p, List), p.populated => Shows(p, List), RenderRows(p, List),
         ~thrown => p.available = Len(List)
  PROVE  ItemInv' /\ PageInv'
<1>1. PICK list : list = List
  OBVIOUS
<1>2. list \in Seq(Item)
  BY <1>1 DEF ItemInv, Clean
<1>3. ItemInv' /\ List' = list
  BY <1>1, SameItems DEF ItemInv
<1>4. PageInv'
  BY <1>1, <1>2, <1>3, RenderRowsKeeps
<1> QED
  BY <1>3, <1>4

\* A handler that leaves the rows alone.
LEMMA SameRows ==
  ASSUME ItemInv, PageInv,
         UNCHANGED <<beans, last, pageSize, held, aliased, removed, thrown, pageList, shown>>
  PROVE  ItemInv' /\ PageInv'
<1>1. ItemInv' /\ List' = List
  BY SameItems DEF ItemInv
<1>2. PageInv'
  BY <1>1 DEF PageInv
<1> QED
  BY <1>1, <1>2

-----------------------------------------------------------------------------
(* The steps                                                               *)

\* The table is rendered with the beans it gets first.
LEMMA InitInv == Init => IInv /\ SizeInv
<1> SUFFICES ASSUME Init PROVE IInv /\ SizeInv
  OBVIOUS
<1>1. PICK n \in 0 .. MaxBeans, fields \in [Item -> Value \cup {Undefined}] :
        /\ beans = [k \in 1 .. n |-> k]
        /\ last = n
        /\ pageSize \in PageSize /\ configSize = pageSize
        /\ pageList = CurrentPageItems(NewPageList(pageSize, beans), beans)
        /\ aliased = TRUE
        /\ shown = pageList.current
        /\ popup = NoPopup
        /\ removed = {} /\ thrown = FALSE
  BY DEF Init
<1>2. n \in Nat /\ n \in 0 .. MaxItem
  BY TableAssumption
<1>3. PICK list : list = [k \in 1 .. n |-> k]
  OBVIOUS
<1>4. list \in Seq(Item)
  <2>1. \A k \in 1 .. n : k \in Item
    BY <1>2, TableAssumption DEF Item
  <2>2. list \in [1 .. n -> Item]
    BY <1>3, <2>1
  <2> QED
    BY <1>2, <2>2
<1>5. Clean(list, 1 .. n)
  <2>1. NoRepeat(list) /\ Elements(list) \subseteq 1 .. n
    BY <1>3 DEF NoRepeat, Elements
  <2> QED
    BY <1>4, <2>1 DEF Clean
<1>6. beans = list /\ List = list /\ Live = 1 .. n
  BY <1>1, <1>3 DEF List, Live
<1>7. ItemInv
  BY <1>1, <1>2, <1>5, <1>6 DEF ItemInv
<1>8. PICK p : p = NewPageList(pageSize, list)
  OBVIOUS
<1>9. PagesOf(p, list) /\ p.available = Len(list) /\ ~p.populated
  BY <1>1, <1>4, <1>8, NewPageListFacts
<1>10. pageList = CurrentPageItems(p, list)
  BY <1>1, <1>6, <1>8
<1>11. PagesOf(pageList, list) /\ Shows(pageList, list) /\ pageList.available = Len(list)
  BY <1>4, <1>9, <1>10, CurrentPageFacts
<1>12. PageInv
  BY <1>1, <1>6, <1>11 DEF PageInv
<1>13. popup.row \in Int /\ PopupRowIsItsBean
  BY <1>1 DEF NoPopup, PopupRowIsItsBean
<1> QED
  BY <1>1, <1>7, <1>12, <1>13 DEF IInv, SizeInv

\* Other beans are set: their items are new.
LEMMA SetBeansInv == IInv /\ SizeInv /\ SetBeans => IInv'
<1> SUFFICES ASSUME IInv, SizeInv, SetBeans PROVE IInv'
  OBVIOUS
<1>1. Event /\ popup' = popup /\ removed' = removed /\ pageSize' = configSize
  BY DEF SetBeans
<1>2. ItemInv /\ PageInv /\ popup.row \in Int
  BY DEF IInv
<1>3. PICK n \in 0 .. MaxBeans :
        /\ last + n <= MaxItem
        /\ last' = last + n
        /\ beans' = [k \in 1 .. n |-> last + k]
        /\ IF Throws(input, beans', beanOf, field')
           THEN /\ held' = List /\ aliased' = FALSE /\ thrown' = TRUE
                /\ UNCHANGED <<input, pageList, shown>>
           ELSE FilterAndRender(configSize, input, beans', beanOf, field')
  BY DEF SetBeans
<1>4. last \in Nat /\ n \in Nat /\ last' \in 0 .. MaxItem
  BY <1>2, <1>3, TableAssumption DEF ItemInv
<1>5. removed \subseteq 1 .. last
  BY <1>2 DEF ItemInv
<1>6. Live \subseteq Live' /\ \A k \in 1 .. n : last + k \in Live'
  BY <1>1, <1>3, <1>4, <1>5 DEF Live
<1>7. Clean(beans', Live')
  <2>1. beans' \in Seq(Item)
    <3>1. MaxItem \in Nat
      BY TableAssumption
    <3>2. \A k \in 1 .. n : last + k \in 1 .. MaxItem
      BY <1>3, <1>4, <3>1
    <3>3. beans' \in [1 .. n -> Item]
      BY <1>3, <3>2 DEF Item
    <3> QED
      BY <1>4, <3>3
  <2>2. NoRepeat(beans')
    BY <1>3, <1>4 DEF NoRepeat
  <2>3. Elements(beans') \subseteq Live'
    BY <1>3, <1>6 DEF Elements
  <2> QED
    BY <2>1, <2>2, <2>3 DEF Clean
<1>8. Clean(List, Live')
  BY <1>2, <1>6 DEF ItemInv, Clean
<1>9. PageInv' /\ Clean(List', Live') /\ aliased' \in BOOLEAN /\ thrown' \in BOOLEAN
  <2>1. CASE Throws(input, beans', beanOf, field')
    <3>1. List' = List /\ thrown' = TRUE /\ aliased' = FALSE /\ pageList' = pageList /\ shown' = shown
      BY <1>3, <2>1 DEF List
    <3>2. PageInv'
      BY <1>2, <3>1 DEF PageInv
    <3> QED
      BY <1>8, <3>1, <3>2
  <2>2. CASE ~Throws(input, beans', beanOf, field')
    <3>1. PICK list : list = beans'
      OBVIOUS
    <3>2. PICK live : live = Live'
      OBVIOUS
    <3>3. Clean(list, live)
      BY <1>7, <3>1, <3>2
    <3>4. PICK fields : fields = field'
      OBVIOUS
    <3>5. FilterAndRender(configSize, input, list, beanOf, fields)
      BY <1>3, <2>2, <3>1, <3>4
    <3>6. configSize \in PageSize
      BY DEF SizeInv
    <3> QED
      BY <3>1, <3>2, <3>3, <3>5, <3>6, FilterKeeps
  <2> QED
    BY <2>1, <2>2
<1>10. ItemInv'
  <2>1. removed' \subseteq 1 .. last'
    BY <1>1, <1>3, <1>4, <1>5
  <2> QED
    BY <1>1, <1>2, <1>4, <1>7, <1>9, <2>1 DEF ItemInv, SizeInv
<1> QED
  BY <1>1, <1>2, <1>9, <1>10, ClosedPopup DEF IInv

\* The view is shown again.
LEMMA RenderInv == IInv /\ Render => IInv'
<1> SUFFICES ASSUME IInv, Render PROVE IInv'
  OBVIOUS
<1>1. ItemInv' /\ PageInv'
  BY ShowAgain DEF IInv, Render, PageInv, dataVars
<1>2. Event /\ popup' = popup
  BY DEF Render
<1> QED
  BY <1>1, <1>2, ClosedPopup DEF IInv

\* Another filter: the page list has a new list, or the old one after an
\* exception.
LEMMA OnDfltBeanFilterInv == IInv /\ OnDfltBeanFilter => IInv'
<1> SUFFICES ASSUME IInv, OnDfltBeanFilter PROVE IInv'
  OBVIOUS
<1>1. /\ Event /\ popup' = popup /\ pageSize' = pageSize /\ removed' = removed
      /\ beans' = beans /\ last' = last /\ ItemInv /\ PageInv
  BY DEF IInv, OnDfltBeanFilter, dataVars
<1>2. Live' = Live
  BY <1>1 DEF Live
<1>3. CASE Throws(input', beans, beanOf, field)
  <2>1. thrown' = TRUE /\ UNCHANGED <<pageList, held, aliased, shown>>
    BY <1>3 DEF OnDfltBeanFilter
  <2>2. ItemInv' /\ List' = List
    BY <1>1, <2>1, SameItems
  <2>3. PageInv'
    BY <1>1, <2>1, <2>2 DEF PageInv
  <2> QED
    BY <1>1, <2>2, <2>3, ClosedPopup DEF IInv
<1>4. CASE ~Throws(input', beans, beanOf, field)
  <2>1. PICK f : f = input'
    OBVIOUS
  <2>2. FilterAndRender(pageSize, f, beans, beanOf, field)
    BY <1>4, <2>1 DEF OnDfltBeanFilter
  <2>3. Clean(beans, Live) /\ pageSize \in PageSize
    BY <1>1 DEF ItemInv
  <2>4. PageInv' /\ Clean(List', Live) /\ aliased' \in BOOLEAN /\ thrown' \in BOOLEAN
    BY <1>1, <2>2, <2>3, FilterKeeps
  <2>5. ItemInv'
    BY <1>1, <1>2, <2>4 DEF ItemInv
  <2> QED
    BY <1>1, <2>4, <2>5, ClosedPopup DEF IInv
<1> QED
  BY <1>3, <1>4

\* Another page size: the page list starts again at its first page.
LEMMA OnSelectDisplayRowInv == IInv /\ OnSelectDisplayRow => IInv'
<1> SUFFICES ASSUME IInv, OnSelectDisplayRow PROVE IInv'
  OBVIOUS
<1>1. /\ Event /\ popup' = popup /\ ItemInv /\ PageInv
      /\ UNCHANGED <<beans, last, pageSize, held, aliased, removed, thrown>>
  BY DEF IInv, OnSelectDisplayRow, dataVars
<1>2. PICK size \in PageSize : size = configSize' /\ RenderRows(SetPageSize(pageList, size), List)
  BY DEF OnSelectDisplayRow
<1>3. PICK q : q = SetPageSize(pageList, size)
  OBVIOUS
<1>4. PICK p : p = [pageList EXCEPT !.pageSize = size]
  OBVIOUS
<1>5. pageList \in PageListType /\ pageList.available \in 0 .. Len(List)
  BY <1>1 DEF PageInv, PagesOf
<1>6. p \in PageListType
  BY <1>4, <1>5 DEF PageListType
<1>7. List \in Seq(Item)
  BY <1>1 DEF ItemInv, Clean
<1>8. q = SetAvailablePage(p, pageList.available)
  BY <1>3, <1>4 DEF SetPageSize
<1>9. PagesOf(q, List) /\ q.available = pageList.available /\ ~q.populated
  BY <1>5, <1>6, <1>7, <1>8, SetAvailableFacts
<1>10. ~thrown => q.available = Len(List)
  BY <1>1, <1>9 DEF PageInv
<1>11. ItemInv' /\ PageInv'
  BY <1>1, <1>2, <1>3, <1>9, <1>10, ShowAgain
<1> QED
  BY <1>1, <1>11, ClosedPopup DEF IInv

\* The size chosen in another table of the class.
LEMMA ElsewhereInv == IInv /\ SelectDisplayRowElsewhere => IInv'
<1> SUFFICES ASSUME IInv, SelectDisplayRowElsewhere PROVE IInv'
  OBVIOUS
<1>1. ItemInv' /\ PageInv'
  BY SameRows DEF IInv, SelectDisplayRowElsewhere, dataVars
<1> QED
  BY <1>1, ClosedPopup DEF IInv, SelectDisplayRowElsewhere

\* The page list is turned to a page it has.
LEMMA OnSelectPageInv == IInv /\ OnSelectPage => IInv'
<1> SUFFICES ASSUME IInv, OnSelectPage PROVE IInv'
  OBVIOUS
<1>1. /\ Event /\ popup' = popup /\ ItemInv /\ PageInv
      /\ UNCHANGED <<beans, last, pageSize, held, aliased, removed, thrown>>
  BY DEF IInv, OnSelectPage, dataVars
<1>2. PICK page \in OfferedPages : /\ page >= 1 /\ page <= pageList.availablePage
                                   /\ RenderRows(GetPage(pageList, List, page), List)
  BY DEF OnSelectPage
<1>3. PICK q : q = GetPage(pageList, List, page)
  OBVIOUS
<1>4. List \in Seq(Item) /\ PagesOf(pageList, List)
  BY <1>1 DEF ItemInv, Clean, PageInv
<1>5. page \in 1 .. pageList.availablePage
  <2>1. pageList.currentPage \in Int /\ pageList.availablePage \in Int
    BY <1>4 DEF PagesOf, PageListType
  <2>2. PrevPage(pageList) \in Int /\ NextPage(pageList) \in Int
    BY <2>1 DEF PrevPage, NextPage
  <2>3. PICK range : range = SubRange(pageList.currentPage, RangeSize, pageList.availablePage)
    OBVIOUS
  <2>4. range[1] .. range[2] \subseteq Int
    OBVIOUS
  <2>5. page \in range[1] .. range[2]
          \cup {PrevPage(pageList), NextPage(pageList)}
          \cup (IF range[1] > 1 THEN {1} ELSE {})
          \cup (IF range[2] < pageList.availablePage THEN {pageList.availablePage} ELSE {})
    BY <1>2, <2>3 DEF OfferedPages
  <2>6. page \in Int
    BY <2>1, <2>2, <2>4, <2>5
  <2> QED
    BY <1>2, <2>1, <2>6
<1>6. PagesOf(q, List) /\ Shows(q, List) /\ q.available = pageList.available
  BY <1>3, <1>4, <1>5, GetPageFacts
<1>7. ~thrown => q.available = Len(List)
  BY <1>1, <1>6 DEF PageInv
<1>8. ItemInv' /\ PageInv'
  BY <1>1, <1>2, <1>3, <1>6, <1>7, ShowAgain
<1> QED
  BY <1>1, <1>8, ClosedPopup DEF IInv

\* A bean is marked; the rows are shown again.
LEMMA MarkDeletedInv == IInv /\ MarkDeletedItemOnCurrentPage => IInv'
<1> SUFFICES ASSUME IInv, MarkDeletedItemOnCurrentPage PROVE IInv'
  OBVIOUS
<1>1. ItemInv' /\ PageInv'
  BY ShowAgain DEF IInv, MarkDeletedItemOnCurrentPage, PageInv
<1>2. Event /\ popup' = popup
  BY DEF MarkDeletedItemOnCurrentPage
<1> QED
  BY <1>1, <1>2, ClosedPopup DEF IInv

\* An item is taken out of both lists, and the page list stays in its range.
LEMMA RemoveItemInv == IInv /\ RemoveItemOnCurrentPage => IInv'
<1> SUFFICES ASSUME IInv, RemoveItemOnCurrentPage PROVE IInv'
  OBVIOUS
<1>1. /\ Event /\ popup' = popup /\ ItemInv /\ PageInv
      /\ UNCHANGED <<last, pageSize, aliased, thrown>>
  BY DEF IInv, RemoveItemOnCurrentPage
<1>2. PICK list : list = List
  OBVIOUS
<1>3. PICK row \in Rows :
        LET left == Without(list, From(pageList.currentPage, pageList.pageSize) + row)
        IN /\ removed' = removed \cup {ItemAt(row)}
           /\ pageList' = RemoveItem(pageList, list, row)
           /\ IF aliased THEN beans' = left /\ held' = held
              ELSE /\ beans' = Selection(beans, {k \in DOMAIN beans : beans[k] # ItemAt(row)})
                   /\ held' = left
  BY <1>2 DEF RemoveItemOnCurrentPage
<1>4. PICK pos : pos = From(pageList.currentPage, pageList.pageSize) + row
  OBVIOUS
<1>5. PICK rest : rest = Without(list, pos)
  OBVIOUS
<1>6. PICK item : item = ItemAt(row)
  OBVIOUS
<1>7. /\ removed' = removed \cup {item}
      /\ pageList' = RemoveItem(pageList, list, row)
      /\ IF aliased THEN beans' = rest /\ held' = held
         ELSE /\ beans' = Selection(beans, {k \in DOMAIN beans : beans[k] # item})
              /\ held' = rest
  BY <1>3, <1>4, <1>5, <1>6
<1>8. shown' = pageList'.current
  BY DEF RemoveItemOnCurrentPage
<1>9. /\ list \in Seq(Item) /\ NoRepeat(list) /\ Elements(list) \subseteq Live
      /\ beans \in Seq(Item) /\ NoRepeat(beans) /\ Elements(beans) \subseteq Live
  BY <1>1, <1>2 DEF ItemInv, Clean
<1>10. PagesOf(pageList, list) /\ Shows(pageList, list) /\ shown = pageList.current
  BY <1>1, <1>2 DEF PageInv
<1>11. pos \in 0 .. Len(list) - 1 /\ item = list[pos + 1]
  <2>1. row \in 0 .. Len(pageList.current) - 1
    BY <1>10 DEF Rows
  <2>2. item = pageList.current[row + 1]
    BY <1>6 DEF ItemAt
  <2> QED
    BY <1>4, <1>9, <1>10, <2>1, <2>2, RowFacts
<1>12. rest \in Seq(Item) /\ NoRepeat(rest) /\ Elements(rest) \subseteq Elements(list) \ {item}
  BY <1>5, <1>9, <1>11, WithoutFacts
<1>13. List' = rest
  BY <1>1, <1>7 DEF List
<1>14. Live' = Live \ {item}
  BY <1>1, <1>7 DEF Live
<1>15. Clean(rest, Live')
  BY <1>9, <1>12, <1>14 DEF Clean
<1>16. Clean(beans', Live')
  <2>1. CASE aliased
    BY <1>7, <1>15, <2>1
  <2>2. CASE ~aliased
    <3>1. PICK K \in SUBSET DOMAIN beans : K = {k \in DOMAIN beans : beans[k] # item}
      OBVIOUS
    <3>2. beans' = Selection(beans, K)
      BY <1>7, <2>2, <3>1
    <3>3. /\ Selection(beans, K) \in Seq(Item) /\ NoRepeat(Selection(beans, K))
          /\ Elements(Selection(beans, K)) \subseteq {beans[k] : k \in K}
      BY <1>9, SelectionFacts
    <3>4. {beans[k] : k \in K} \subseteq Elements(beans) \ {item}
      BY <3>1 DEF Elements
    <3> QED
      BY <1>9, <1>14, <3>2, <3>3, <3>4 DEF Clean
  <2> QED
    BY <2>1, <2>2
<1>17. ItemInv'
  <2>1. item \in Live
    <3>1. pos + 1 \in DOMAIN list
      BY <1>9, <1>11, LenProperties
    <3>2. item \in Elements(list)
      BY <1>11, <3>1 DEF Elements
    <3> QED
      BY <1>9, <3>2
  <2>2. removed' \subseteq 1 .. last
    BY <1>1, <1>7, <2>1 DEF ItemInv, Live
  <2> QED
    BY <1>1, <1>13, <1>15, <1>16, <2>2 DEF ItemInv
<1>18. PICK q : q = SetAvailablePage(pageList, Len(rest))
  OBVIOUS
<1>19. PagesOf(q, rest) /\ q.available = Len(rest)
  <2>1. Len(rest) \in 0 .. Len(rest)
    BY <1>12, LenProperties
  <2>2. pageList \in PageListType
    BY <1>10 DEF PagesOf
  <2> QED
    BY <1>12, <1>18, <2>1, <2>2, SetAvailableFacts
<1>20. PICK page : page = IF q.availablePage < pageList.currentPage
                          THEN q.availablePage ELSE pageList.currentPage
  OBVIOUS
<1>21. page \in 1 .. q.availablePage
  <2>1. pageList.currentPage \in Nat \ {0} /\ q.availablePage \in Nat \ {0}
    BY <1>10, <1>19 DEF PagesOf, PageListType
  <2> QED
    BY <1>20, <2>1
<1>22. pageList' = GetPage(q, rest, page)
  BY <1>4, <1>5, <1>7, <1>18, <1>20 DEF RemoveItem
<1>23. PagesOf(pageList', rest) /\ Shows(pageList', rest) /\ pageList'.available = Len(rest)
  <2>1. PICK turned : turned = GetPage(q, rest, page)
    OBVIOUS
  <2>2. PagesOf(turned, rest) /\ Shows(turned, rest) /\ turned.available = q.available
    BY <1>12, <1>19, <1>21, <2>1, GetPageFacts
  <2> QED
    BY <1>19, <1>22, <2>1, <2>2
<1>24. PageInv'
  BY <1>8, <1>13, <1>23 DEF PageInv
<1> QED
  BY <1>1, <1>17, <1>24, ClosedPopup DEF IInv

\* The popup opens for a bean without an item.
LEMMA OnAddBeanInv == IInv /\ OnAddBean => IInv'
<1> SUFFICES ASSUME IInv, OnAddBean PROVE IInv'
  OBVIOUS
<1>1. ItemInv' /\ PageInv'
  BY SameRows DEF IInv, OnAddBean, viewVars
<1>2. popup'.row \in Int /\ PopupRowIsItsBean'
  BY DEF OnAddBean, PopupRowIsItsBean
<1> QED
  BY <1>1, <1>2 DEF IInv

\* The popup opens for the bean of a row.
LEMMA OnEditBeanInv == IInv /\ OnEditBean => IInv'
<1> SUFFICES ASSUME IInv, OnEditBean PROVE IInv'
  OBVIOUS
<1>1. ItemInv' /\ PageInv'
  BY SameRows DEF IInv, OnEditBean, dataVars, viewVars
<1>2. PICK row \in Rows : popup' = [open |-> TRUE, bean |-> beanOf[ItemAt(row)], row |-> row]
  BY DEF OnEditBean
<1>3. Rows' = Rows /\ beanOf' = beanOf /\ pageList' = pageList
  BY DEF OnEditBean, dataVars, viewVars, Rows
<1>4. popup'.row = row /\ popup'.bean = beanOf[ItemAt(row)]
  BY <1>2
<1>5. row \in Int
  BY DEF Rows
<1>6. PopupRowIsItsBean'
  BY <1>3, <1>4 DEF PopupRowIsItsBean, ItemAt
<1> QED
  BY <1>1, <1>4, <1>5, <1>6 DEF IInv

\* The rows and the popup stay when a field is edited.
LEMMA EditInv == IInv /\ Edit => IInv'
<1> SUFFICES ASSUME IInv, Edit PROVE IInv'
  OBVIOUS
<1>1. ItemInv' /\ PageInv'
  BY SameRows DEF IInv, Edit, viewVars
<1>2. UNCHANGED <<popup, shown, pageList, beanOf>>
  BY DEF Edit, viewVars
<1>3. popup'.row \in Int /\ PopupRowIsItsBean'
  BY <1>2 DEF IInv, PopupRowIsItsBean, Rows, ItemAt
<1> QED
  BY <1>1, <1>3 DEF IInv

\* The current page is cut out already: saving an edited bean shows it again.
LEMMA SaveEditedInv == IInv /\ SaveEdited => IInv'
<1> SUFFICES ASSUME IInv, SaveEdited PROVE IInv'
  OBVIOUS
<1>1. UNCHANGED <<beans, last, pageSize, held, aliased, removed, thrown, popup, beanOf>>
  BY DEF SaveEdited
<1>2. pageList' = pageList /\ shown' = shown
  BY DEF SaveEdited, RenderRows, CurrentPageItems, IInv, PageInv, Shows
<1>3. ItemInv' /\ PageInv'
  BY <1>1, <1>2, SameRows DEF IInv
<1>4. popup'.row \in Int /\ PopupRowIsItsBean'
  BY <1>1, <1>2 DEF IInv, PopupRowIsItsBean, Rows, ItemAt
<1> QED
  BY <1>3, <1>4 DEF IInv

\* A new item ends the list; _filter may make another list or throw.
LEMMA SaveNewInv == IInv /\ SaveNew => IInv'
<1> SUFFICES ASSUME IInv, SaveNew PROVE IInv'
  OBVIOUS
<1>1. PICK item : item = last + 1
  OBVIOUS
<1>2. /\ popup.row < 0 /\ popup' = popup /\ ItemInv /\ PageInv /\ popup.row \in Int
      /\ last < MaxItem /\ last' = item /\ beans' = Append(beans, item)
      /\ removed' = removed /\ pageSize' = pageSize
  BY <1>1 DEF IInv, SaveNew
<1>3. popup'.row \in Int /\ PopupRowIsItsBean'
  BY <1>2 DEF PopupRowIsItsBean
<1>4. MaxItem \in Nat /\ last \in 0 .. MaxItem /\ removed \subseteq 1 .. last
  BY <1>2, TableAssumption DEF ItemInv
<1>5. item \in Item /\ last' \in 0 .. MaxItem /\ item \notin 1 .. last
  BY <1>1, <1>2, <1>4 DEF Item
<1>6. Live' = Live \cup {item} /\ item \notin Live
  <2>1. 1 .. last' = 1 .. last \cup {item}
    BY <1>1, <1>2, <1>4
  <2>2. item \notin removed
    BY <1>4, <1>5
  <2> QED
    BY <1>2, <1>5, <2>1, <2>2 DEF Live
<1>7. ASSUME NEW list, Clean(list, Live) PROVE Clean(Append(list, item), Live')
  <2>1. list \in Seq(Item) /\ NoRepeat(list) /\ item \notin Elements(list)
    BY <1>6, <1>7 DEF Clean
  <2>2. /\ Append(list, item) \in Seq(Item) /\ NoRepeat(Append(list, item))
        /\ Elements(Append(list, item)) = Elements(list) \cup {item}
    BY <1>5, <2>1, AppendFacts
  <2> QED
    BY <1>6, <1>7, <2>2 DEF Clean
<1>8. Clean(beans', Live')
  BY <1>2, <1>7 DEF ItemInv
<1>9. PageInv' /\ Clean(List', Live') /\ aliased' \in BOOLEAN /\ thrown' \in BOOLEAN
  <2>1. CASE Throws(input, beans', beanOf', field)
    <3>1. thrown' = TRUE /\ UNCHANGED <<pageList, held, aliased, shown>>
      BY <2>1 DEF SaveNew
    <3>2. PICK list \in Seq(Item) : list = List
      BY <1>2 DEF ItemInv, Clean
    <3>3. PagesOf(pageList, list) /\ Shows(pageList, list) /\ shown = pageList.current
      BY <1>2, <3>2 DEF PageInv
    <3>4. CASE aliased
      <4>1. list = beans /\ List' = Append(list, item)
        BY <1>2, <3>1, <3>2, <3>4 DEF List
      <4>2. PagesOf(pageList, Append(list, item)) /\ Shows(pageList, Append(list, item))
        BY <1>5, <3>3, AppendKeepsPage
      <4>3. PageInv'
        BY <3>1, <3>3, <4>1, <4>2 DEF PageInv
      <4>4. Clean(List', Live')
        BY <1>2, <1>8, <4>1
      <4> QED
        BY <1>2, <3>1, <4>3, <4>4 DEF ItemInv
    <3>5. CASE ~aliased
      <4>1. List' = list
        BY <3>1, <3>2, <3>5 DEF List
      <4>2. PageInv'
        BY <3>1, <3>3, <4>1 DEF PageInv
      <4>3. Clean(List', Live')
        BY <1>2, <1>6, <3>2, <4>1 DEF ItemInv, Clean
      <4> QED
        BY <1>2, <3>1, <4>2, <4>3 DEF ItemInv
    <3> QED
      BY <3>4, <3>5
  <2>2. CASE ~Throws(input, beans', beanOf', field)
    <3>1. PICK list : list = beans'
      OBVIOUS
    <3>2. PICK live : live = Live'
      OBVIOUS
    <3>3. PICK of : of = beanOf'
      OBVIOUS
    <3>4. Clean(list, live) /\ pageSize \in PageSize
      BY <1>2, <1>8, <3>1, <3>2 DEF ItemInv
    <3>5. FilterAndRender(pageSize, input, list, of, field)
      BY <2>2, <3>1, <3>3 DEF SaveNew
    <3> QED
      BY <3>1, <3>2, <3>4, <3>5, FilterKeeps
  <2> QED
    BY <2>1, <2>2
<1>10. ItemInv'
  <2>1. removed' \subseteq 1 .. last'
    BY <1>1, <1>2, <1>4
  <2> QED
    BY <1>2, <1>5, <1>8, <1>9, <2>1 DEF ItemInv
<1> QED
  BY <1>3, <1>9, <1>10 DEF IInv

\* The popup closes.
LEMMA ClosePopupInv == IInv /\ ClosePopup => IInv'
<1> SUFFICES ASSUME IInv, ClosePopup PROVE IInv'
  OBVIOUS
<1>1. ItemInv' /\ PageInv'
  BY SameRows DEF IInv, ClosePopup, dataVars, viewVars
<1>2. popup'.row \in Int /\ PopupRowIsItsBean'
  BY DEF ClosePopup, NoPopup, PopupRowIsItsBean
<1> QED
  BY <1>1, <1>2 DEF IInv

\* No handler breaks the invariant.
LEMMA NextInv == IInv /\ SizeInv /\ [Next]_vars => IInv'
<1> SUFFICES ASSUME IInv, SizeInv, [Next]_vars PROVE IInv'
  OBVIOUS
<1>1. CASE UNCHANGED vars
  <2>1. ItemInv' /\ PageInv'
    BY <1>1, SameRows DEF IInv, vars, dataVars, viewVars
  <2>2. UNCHANGED <<popup, shown, pageList, beanOf>>
    BY <1>1 DEF vars, dataVars, viewVars
  <2>3. popup'.row \in Int /\ PopupRowIsItsBean'
    BY <2>2 DEF IInv, PopupRowIsItsBean, Rows, ItemAt
  <2> QED
    BY <2>1, <2>3 DEF IInv
<1>2. CASE Next
  BY <1>2, SetBeansInv, RenderInv, OnDfltBeanFilterInv, OnSelectDisplayRowInv,
     ElsewhereInv, OnSelectPageInv, MarkDeletedInv, RemoveItemInv, OnAddBeanInv, OnEditBeanInv,
     EditInv, SaveEditedInv, SaveNewInv, ClosePopupInv DEF Next
<1> QED
  BY <1>1, <1>2

\* The invariant holds in every reachable state.
LEMMA SpecInv == Spec => []IInv
<1>1. SizeInv /\ [Next]_vars => SizeInv'
  <2> SUFFICES ASSUME configSize \in PageSize, [Next]_vars PROVE configSize' \in PageSize
    BY DEF SizeInv
  <2>1. CASE SetBeans \/ Render \/ OnDfltBeanFilter
    BY <2>1 DEF SetBeans, Render, OnDfltBeanFilter
  <2>2. CASE OnSelectDisplayRow \/ SelectDisplayRowElsewhere \/ OnSelectPage
    BY <2>2 DEF OnSelectDisplayRow, SelectDisplayRowElsewhere, OnSelectPage
  <2>3. CASE MarkDeletedItemOnCurrentPage \/ RemoveItemOnCurrentPage
    BY <2>3 DEF MarkDeletedItemOnCurrentPage, RemoveItemOnCurrentPage
  <2>4. CASE OnAddBean \/ OnEditBean \/ Edit \/ SaveEdited \/ SaveNew \/ ClosePopup
    BY <2>4 DEF OnAddBean, OnEditBean, Edit, SaveEdited, SaveNew, ClosePopup, viewVars
  <2>5. CASE UNCHANGED vars
    BY <2>5 DEF vars, viewVars
  <2> QED
    BY <2>1, <2>2, <2>3, <2>4, <2>5 DEF Next
<1> QED
  BY <1>1, InitInv, NextInv, PTL DEF Spec

-----------------------------------------------------------------------------
(* The properties                                                          *)

\* The rows of the browser are the current page of the list as it is now,
\* whatever was filtered, paged, removed, added or thrown before.
THEOREM RowsAreCurrent == Spec => []ShownIsCurrent
<1>1. IInv => ShownIsCurrent
  <2> SUFFICES ASSUME IInv PROVE ShownIsCurrent
    OBVIOUS
  <2>1. /\ PagesOf(pageList, List) /\ Shows(pageList, List) /\ shown = pageList.current
        /\ ~thrown => pageList.available = Len(List)
    BY DEF IInv, PageInv
  <2>2. List \in Seq(Item)
    BY DEF IInv, ItemInv, Clean
  <2>3. /\ pageList.availablePage \in Nat /\ pageList.pageSize \in Nat \ {0}
        /\ pageList.available \in 0 .. Len(List)
        /\ pageList.currentPage \in 1 .. AvailablePage(pageList.available, pageList.pageSize)
        /\ pageList.currentPage \in 1 .. pageList.availablePage
    BY <2>1, SizeFacts DEF PagesOf, PageListType
  <2>4. pageList.currentPage <= pageList.availablePage
    BY <2>3
  <2>5. shown = Page(List, pageList.available, pageList.pageSize, pageList.currentPage)
    BY <2>1 DEF Shows
  <2>6. shown = <<>> => pageList.available = 0
    <3>1. PICK n \in 0 .. Len(List), size \in Nat \ {0} :
            n = pageList.available /\ size = pageList.pageSize
      BY <2>3
    <3>2. PICK page \in 1 .. AvailablePage(n, size) : page = pageList.currentPage
      BY <2>3, <3>1
    <3>3. shown = Page(List, n, size, page)
      BY <2>5, <3>1, <3>2
    <3>4. shown = <<>> <=> n = 0
      BY <2>2, <3>3, PageItems
    <3> QED
      BY <3>1, <3>4
  <2>7. shown = <<>> /\ ~thrown => List = <<>>
    <3>1. shown = <<>> /\ ~thrown => Len(List) = 0
      BY <2>1, <2>6
    <3> QED
      BY <2>2, <3>1, EmptySeq
  <2>8. shown = <<>> => List = <<>> \/ thrown
    BY <2>7
  <2>9. shown = SubSeq(List, From(pageList.currentPage, pageList.pageSize) + 1,
                       To(pageList.currentPage, pageList.pageSize, pageList.available))
    BY <2>5 DEF Page
  <2>10. pageList.populated
    BY <2>1 DEF Shows
  <2> QED
    BY <2>1, <2>4, <2>8, <2>9, <2>10 DEF ShownIsCurrent
<1> QED
  BY <1>1, SpecInv, PTL

\* The popup's row is the row of its bean for as long as the popup is open.
THEOREM PopupKeepsItsBean == Spec => []PopupRowIsItsBean
<1>1. IInv => PopupRowIsItsBean
  BY DEF IInv
<1> QED
  BY <1>1, SpecInv, PTL

\* PagesCoverList: every item the page list counts is on one of its pages, for
\* every length of the list and every page size, and it counts all of its list,
\* unless an exception of _filter has kept the old pages.
THEOREM EveryItemHasAPage == Spec => []PagesCoverList
<1>1. IInv => PagesCoverList
  <2> SUFFICES ASSUME IInv PROVE PagesCoverList
    OBVIOUS
  <2>1. PagesOf(pageList, List) /\ (~thrown => pageList.available = Len(List))
    BY DEF IInv, PageInv
  <2>2. List \in Seq(Item)
    BY DEF IInv, ItemInv, Clean
  <2>3. PICK n \in Nat : n = pageList.available /\ n <= Len(List)
    BY <2>1, <2>2 DEF PagesOf
  <2>4. PICK size \in Nat \ {0} : size = pageList.pageSize
    BY <2>1, SizeFacts DEF PagesOf, PageListType
  <2>5. pageList.availablePage = AvailablePage(n, size)
    BY <2>1, <2>3, <2>4 DEF PagesOf
  <2>6. ASSUME NEW k \in 1 .. n
        PROVE  \E page \in 1 .. AvailablePage(n, size) :
                 k - 1 \in From(page, size) .. To(page, size, n) - 1
    <3>1. PICK j \in 0 .. n - 1 : j = k - 1
      OBVIOUS
    <3>2. \E page \in 1 .. AvailablePage(n, size) : j \in From(page, size) .. To(page, size, n) - 1
      BY PagesCover
    <3> QED
      BY <3>1, <3>2
  <2> QED
    BY <2>1, <2>3, <2>4, <2>5, <2>6 DEF PagesCoverList
<1> QED
  BY <1>1, SpecInv, PTL

\* An item that was removed is in no list and in no row again.
THEOREM RemovedStaysAway == Spec => []NoGhostRows
<1>1. IInv => NoGhostRows
  <2> SUFFICES ASSUME IInv PROVE NoGhostRows
    OBVIOUS
  <2>1. PagesOf(pageList, List) /\ Shows(pageList, List) /\ shown = pageList.current
    BY DEF IInv, PageInv
  <2>2. /\ List \in Seq(Item) /\ Elements(List) \subseteq Live
        /\ Elements(beans) \subseteq Live
    BY DEF IInv, ItemInv, Clean
  <2>3. /\ pageList.pageSize \in Nat \ {0} /\ pageList.available \in 0 .. Len(List)
        /\ pageList.currentPage \in 1 .. AvailablePage(pageList.available, pageList.pageSize)
    BY <2>1, SizeFacts DEF PagesOf, PageListType
  <2>4. shown = Page(List, pageList.available, pageList.pageSize, pageList.currentPage)
    BY <2>1 DEF Shows
  <2>5. Elements(shown) \subseteq Elements(List)
    BY <2>2, <2>3, <2>4, PageItems
  <2>6. removed \cap Live = {}
    BY DEF Live
  <2> QED
    BY <2>2, <2>5, <2>6 DEF NoGhostRows
<1> QED
  BY <1>1, SpecInv, PTL

=============================================================================
