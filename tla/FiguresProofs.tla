---------------------------- MODULE FiguresProofs ----------------------------
(***************************************************************************)
(* What the windows, pages and percentiles of Figures are for every list,    *)
(* limit and offset, of which the runs of Metrics check a few.               *)
(***************************************************************************)
EXTENDS Figures, SequenceTheorems, FiniteSetTheorems, WellFoundedInduction, TLAPS

\* Rounding up (percentile, metrics.go): the least c with b * c >= a.
LEMMA CeilingIsLeast ==
    ASSUME NEW a \in Nat, NEW b \in Nat \ {0}
    PROVE  /\ Ceiling(a, b) \in Nat
           /\ a <= b * Ceiling(a, b)
           /\ b * (Ceiling(a, b) - 1) < a
<1> DEFINE c == a + b - 1
           q == c \div b
           r == c % b
<1>1. c \in Nat
  OBVIOUS
<1>2. q \in Nat /\ r \in 0..(b - 1) /\ c = b * q + r
  BY <1>1, Z3
<1>3. b * (q - 1) = b * q - b
  BY <1>2, Z3
<1> QED
  BY <1>1, <1>2, <1>3, SMT DEF Ceiling

\* percentile (metrics.go) takes a rank within the list, the least one that has
\* at least the asked share of the values at or below it.
THEOREM RankIsNearest ==
    ASSUME NEW n \in Nat \ {0}, NEW den \in Nat \ {0}, NEW num \in 0..den
    PROVE  /\ Rank(n, num, den) \in 1..n
           /\ num * n <= den * Rank(n, num, den)
           /\ Rank(n, num, den) > 1 => den * (Rank(n, num, den) - 1) < num * n
<1> DEFINE c == Ceiling(num * n, den)
<1>1. num * n \in Nat /\ num * n <= den * n
  BY SMT
<1>2. c \in Nat /\ num * n <= den * c /\ den * (c - 1) < num * n
  BY <1>1, CeilingIsLeast
<1>3. c <= n
  <2> SUFFICES ASSUME n <= c - 1 PROVE FALSE
    BY <1>2
  <2>1. den * n <= den * (c - 1)
    BY <1>2, SMT
  <2> QED
    BY <1>1, <1>2, <2>1
<1>4. Rank(n, num, den) = IF c >= 1 THEN c ELSE 1
  BY <1>2, <1>3 DEF Rank, Least, Most
<1>5. den * 1 >= num * n \/ c >= 1
  BY <1>2
<1> QED
  BY <1>1, <1>2, <1>3, <1>4

\* The page cut by the store's queries (ListRuns: one row too many) is the page
\* paginate cuts from the whole list, and both say the same of what follows.
THEOREM QueryPageIsPaginate ==
    ASSUME NEW S, NEW list \in Seq(S), NEW limit \in Nat \ {0}, NEW offset \in Nat
    PROVE  QueryPage(list, limit, offset) = Paginate(list, limit, offset)
<1> DEFINE len     == Len(list)
           last    == Least(offset + limit + 1, len)
           fetched == SubSeq(list, offset + 1, last)
           rows    == IF offset + 1 <= last THEN last - offset ELSE 0
           size    == Least(limit, rows)
           from    == Least(offset, len)
           end     == Least(from + limit, len)
           page    == SubSeq(fetched, 1, size)
           cut     == SubSeq(list, from + 1, end)
<1>1. len \in Nat /\ \A i \in 1..len : list[i] \in S
  BY LenProperties
<1> HIDE DEF len
<1>2. last \in 0..len /\ rows \in Nat /\ offset + rows <= len + offset
  BY <1>1 DEF Least
<1>3. /\ from \in 0..len /\ end \in from..len /\ size \in 0..rows
      /\ size = end - from
      /\ size > 0 => from = offset
      /\ rows > limit <=> len > end
  BY <1>1 DEF Least
<1> HIDE DEF last, rows, size, from, end
<1>4. /\ Len(fetched) = rows
      /\ \A i \in 1..rows : fetched[i] \in S /\ fetched[i] = list[offset + i]
  <2>1. offset + 1 \in Int /\ last \in Int /\ \A i \in (offset + 1)..last : list[i] \in S
    BY <1>1, <1>2
  <2>2. /\ Len(fetched) = IF offset + 1 <= last THEN last - (offset + 1) + 1 ELSE 0
        /\ \A i \in 1..(last - (offset + 1) + 1) : fetched[i] = list[offset + 1 + i - 1]
    BY <2>1, SubSeqProperties
  <2> HIDE DEF fetched
  <2> QED
    BY <1>1, <1>2, <2>1, <2>2 DEF rows
<1>5. /\ cut \in Seq(S) /\ Len(cut) = size
      /\ \A i \in 1..size : cut[i] = list[from + i]
  <2>1. from + 1 \in Int /\ end \in Int /\ \A i \in (from + 1)..end : list[i] \in S
    BY <1>1, <1>3
  <2>2. /\ cut \in Seq(S)
        /\ Len(cut) = IF from + 1 <= end THEN end - (from + 1) + 1 ELSE 0
        /\ \A i \in 1..(end - (from + 1) + 1) : cut[i] = list[from + 1 + i - 1]
    BY <2>1, SubSeqProperties
  <2> HIDE DEF cut
  <2> QED
    BY <1>1, <1>3, <2>1, <2>2
<1>6. /\ page \in Seq(S) /\ Len(page) = size
      /\ \A i \in 1..size : page[i] = fetched[i]
  <2> HIDE DEF fetched
  <2>1. size \in Int /\ \A i \in 1..size : fetched[i] \in S
    BY <1>2, <1>3, <1>4
  <2>2. /\ page \in Seq(S)
        /\ Len(page) = IF 1 <= size THEN size - 1 + 1 ELSE 0
        /\ \A i \in 1..(size - 1 + 1) : page[i] = fetched[1 + i - 1]
    BY <2>1, SubSeqProperties
  <2> HIDE DEF page
  <2> QED
    BY <1>2, <1>3, <2>1, <2>2
<1> HIDE DEF fetched, page, cut
<1>7. \A i \in 1..size : page[i] = cut[i]
  <2> TAKE i \in 1..size
  <2>1. i \in 1..rows /\ from = offset
    BY <1>2, <1>3
  <2>2. page[i] = fetched[i] /\ fetched[i] = list[offset + i] /\ cut[i] = list[from + i]
    BY <1>4, <1>5, <1>6, <2>1
  <2> QED
    BY <2>1, <2>2
<1>8. page = cut
  BY <1>5, <1>6, <1>7, SeqEqual
<1>9. Most(offset, 0) = offset
  BY DEF Most
<1>10. QueryPage(list, limit, offset) = [items |-> page, more |-> rows > limit]
  BY <1>4, Zenon DEF QueryPage, page, fetched, size, last, len
<1>11. Paginate(list, limit, offset) = [items |-> cut, more |-> len > end]
  BY <1>9, Zenon DEF Paginate, cut, from, end, len
<1> QED
  BY <1>3, <1>8, <1>10, <1>11

\* A page and the page after it are together the page of both (paginate), and
\* "more" is said exactly when the page after it has an entry: reading on from the
\* first page shows every entry once.
THEOREM PagesMeet ==
    ASSUME NEW S, NEW list \in Seq(S), NEW offset \in Nat,
           NEW limit \in Nat \ {0}, NEW next \in Nat \ {0}
    PROVE  /\ Paginate(list, limit, offset).items \o Paginate(list, next, offset + limit).items
                = Paginate(list, limit + next, offset).items
           /\ Paginate(list, limit, offset).more
                <=> Paginate(list, next, offset + limit).items # <<>>
<1> DEFINE len   == Len(list)
           from  == Least(offset, len)
           mid   == Least(from + limit, len)
           end   == Least(mid + next, len)
<1>1. len \in Nat /\ \A i \in 1..len : list[i] \in S
  BY LenProperties
<1> HIDE DEF len
<1>2. from \in 0..len /\ mid \in from..len /\ end \in mid..len /\ (len > mid <=> end > mid)
  BY <1>1 DEF Least
<1>3. /\ Least(offset + limit, len) = mid
      /\ Least(from + (limit + next), len) = end
  BY <1>1 DEF Least
<1>4. Most(offset, 0) = offset /\ Most(offset + limit, 0) = offset + limit
  BY DEF Most
<1>5. /\ Paginate(list, limit, offset) = [items |-> SubSeq(list, from + 1, mid), more |-> len > mid]
      /\ Paginate(list, next, offset + limit) = [items |-> SubSeq(list, mid + 1, end), more |-> len > end]
      /\ Paginate(list, limit + next, offset) = [items |-> SubSeq(list, from + 1, end), more |-> len > end]
  BY <1>3, <1>4, Zenon DEF Paginate, len
<1> HIDE DEF from, mid, end
<1>6. SubSeq(list, from + 1, mid) \o SubSeq(list, mid + 1, end) = SubSeq(list, from + 1, end)
  <2> DEFINE m == from + 1
  <2>1. m \in 1..(len + 1) /\ mid \in (m - 1)..len /\ end \in mid..len
    BY <1>1, <1>2
  <2> HIDE DEF m
  <2>2. SubSeq(list, m, mid) \o SubSeq(list, mid + 1, end) = SubSeq(list, m, end)
    BY <2>1, ConcatAdjacentSubSeq DEF len
  <2> QED
    BY <2>2 DEF m
<1>7. SubSeq(list, mid + 1, end) # <<>> <=> end > mid
  <2>1. CASE end > mid
    <3>1. mid + 1 \in Int /\ end \in Int /\ \A i \in (mid + 1)..end : list[i] \in S
      BY <1>1, <1>2
    <3>2. Len(SubSeq(list, mid + 1, end)) = IF mid + 1 <= end THEN end - (mid + 1) + 1 ELSE 0
      BY <3>1, SubSeqProperties
    <3>3. Len(SubSeq(list, mid + 1, end)) # 0
      BY <1>1, <1>2, <2>1, <3>2
    <3> QED
      BY <2>1, <3>3, EmptySeq
  <2>2. CASE ~(end > mid)
    <3>1. mid + 1 \in Int /\ end \in Int /\ end < mid + 1
      BY <1>1, <1>2, <2>2
    <3> QED
      BY <2>2, <3>1, SubSeqEmpty
  <2> QED
    BY <2>1, <2>2
<1>8. /\ Paginate(list, limit, offset).items = SubSeq(list, from + 1, mid)
      /\ Paginate(list, next, offset + limit).items = SubSeq(list, mid + 1, end)
      /\ Paginate(list, limit + next, offset).items = SubSeq(list, from + 1, end)
  <2> DEFINE record(i, m) == [items |-> i, more |-> m]
  <2>1. \A i, m : record(i, m).items = i
    OBVIOUS
  <2>2. /\ Paginate(list, limit, offset) = record(SubSeq(list, from + 1, mid), len > mid)
        /\ Paginate(list, next, offset + limit) = record(SubSeq(list, mid + 1, end), len > end)
        /\ Paginate(list, limit + next, offset) = record(SubSeq(list, from + 1, end), len > end)
    BY <1>5
  <2> HIDE DEF record
  <2> QED
    BY <2>1, <2>2, Zenon
<1>9. Paginate(list, limit, offset).more = (len > mid)
  BY <1>5
<1>10. Paginate(list, limit, offset).items \o Paginate(list, next, offset + limit).items
         = Paginate(list, limit + next, offset).items
  BY <1>6, <1>8, Zenon
<1>11. Paginate(list, limit, offset).more <=> Paginate(list, next, offset + limit).items # <<>>
  <2>1. len > mid <=> SubSeq(list, mid + 1, end) # <<>>
    BY <1>2, <1>7, Zenon
  <2> QED
    BY <2>1, <1>8, <1>9, Zenon
<1> QED
  BY <1>10, <1>11

\* splitWindow (metrics.go): the current window and the one before it are
\* together the most recent runs, twice a window of them, and each run is in one.
THEOREM WindowsMeet ==
    ASSUME NEW S, NEW seq \in Seq(S), NEW n \in Nat \ {0}
    PROVE  SplitWindow(seq, n).current \o SplitWindow(seq, n).prior
             = SubSeq(seq, 1, Least(2 * n, Len(seq)))
<1>1. Len(seq) \in Nat
  BY LenProperties
<1>2. CASE n <= Len(seq)
  <2>1. Least(n, Len(seq)) = n /\ Least(2 * n, Len(seq)) \in n..Len(seq)
    BY <1>1, <1>2 DEF Least
  <2>2. SubSeq(seq, 1, n) \o SubSeq(seq, n + 1, Least(2 * n, Len(seq)))
          = SubSeq(seq, 1, Least(2 * n, Len(seq)))
    <3> DEFINE last == Least(2 * n, Len(seq))
    <3>1. 1 \in 1..Len(seq) + 1 /\ n \in 1 - 1..Len(seq) /\ last \in n..Len(seq)
      BY <1>1, <1>2, <2>1
    <3> HIDE DEF last
    <3>2. SubSeq(seq, 1, n) \o SubSeq(seq, n + 1, last) = SubSeq(seq, 1, last)
      BY <3>1, ConcatAdjacentSubSeq
    <3> QED
      BY <3>2 DEF last
  <2>3. /\ SplitWindow(seq, n).current = SubSeq(seq, 1, n)
        /\ SplitWindow(seq, n).prior = SubSeq(seq, n + 1, Least(2 * n, Len(seq)))
    BY <2>1 DEF SplitWindow
  <2> QED
    BY <2>2, <2>3
<1>3. CASE n > Len(seq)
  <2>1. Least(n, Len(seq)) = Len(seq) /\ Least(2 * n, Len(seq)) = Len(seq)
    BY <1>1, <1>3 DEF Least
  <2>2. SubSeq(seq, 1, Len(seq)) = seq /\ SubSeq(seq, n + 1, Len(seq)) = <<>>
    BY <1>1, <1>3, SubSeqFull, SubSeqEmpty
  <2>3. seq \o <<>> = seq
    BY ConcatEmptySeq
  <2> QED
    BY <2>1, <2>2, <2>3 DEF SplitWindow
<1>4. n <= Len(seq) \/ n > Len(seq)
  BY <1>1
<1> QED
  BY <1>2, <1>3, <1>4

-----------------------------------------------------------------------------
(* Sorting *)

\* A relation that sorts a set: of any two elements one comes before the other.
Sorts(before, S) ==
    /\ \A x \in S : <<x, x>> \notin before
    /\ \A x, y \in S : x # y => <<x, y>> \in before \/ <<y, x>> \in before
    /\ \A x, y, z \in S : <<x, y>> \in before /\ <<y, z>> \in before => <<x, z>> \in before

\* The places of a finite set's elements in a sorted order exist: an element's is the
\* number of those up to it.
LEMMA OrderExists ==
    ASSUME NEW S, IsFiniteSet(S), NEW before, Sorts(before, S)
    PROVE  \E f \in [1..Cardinality(S) -> S] :
              \A j, k \in 1..Cardinality(S) : j < k => <<f[j], f[k]>> \in before
<1> DEFINE n       == Cardinality(S)
           upTo(x) == {y \in S : y = x \/ <<y, x>> \in before}
           rank    == [x \in S |-> Cardinality(upTo(x))]
<1>1. n \in Nat /\ IsFiniteSet(1..n) /\ Cardinality(1..n) = n
  BY FS_CardinalityType, FS_Interval
<1>2. ASSUME NEW x \in S
      PROVE  IsFiniteSet(upTo(x)) /\ rank[x] \in 1..n
  <2>1. upTo(x) \in SUBSET S /\ x \in upTo(x)
    OBVIOUS
  <2> DEFINE T == upTo(x)
  <2> HIDE DEF T
  <2>2. IsFiniteSet(T) /\ Cardinality(T) <= n /\ Cardinality(T) \in Nat
    BY <2>1, FS_Subset, FS_CardinalityType DEF T
  <2>3. Cardinality(T) # 0
    BY <2>1, <2>2, FS_EmptySet DEF T
  <2> QED
    BY <1>1, <2>2, <2>3 DEF T
<1>3. ASSUME NEW x \in S, NEW y \in S, <<x, y>> \in before
      PROVE  rank[x] < rank[y]
  <2> DEFINE T == upTo(x)
             U == upTo(y)
  <2>1. T \in SUBSET U /\ y \in U /\ y \notin T
    BY <1>3 DEF Sorts
  <2>2. IsFiniteSet(T) /\ IsFiniteSet(U) /\ rank[x] = Cardinality(T) /\ rank[y] = Cardinality(U)
        /\ rank[x] \in Nat /\ rank[y] \in Nat
    BY <1>2
  <2> HIDE DEF T, U
  <2>3. Cardinality(T) <= Cardinality(U) /\ Cardinality(U) # Cardinality(T)
    BY <2>1, <2>2, FS_Subset
  <2> HIDE DEF rank
  <2> QED
    BY <2>2, <2>3
<1>4. \A x, y \in S : rank[x] = rank[y] => x = y
  <2> SUFFICES ASSUME NEW x \in S, NEW y \in S, x # y PROVE rank[x] # rank[y]
    OBVIOUS
  <2> HIDE DEF rank, upTo
  <2>1. rank[x] \in Nat /\ rank[y] \in Nat
    BY <1>1, <1>2
  <2>2. rank[x] < rank[y] \/ rank[y] < rank[x]
    BY <1>3 DEF Sorts
  <2> QED
    BY <2>1, <2>2
<1>5. rank \in Injection(S, 1..n)
  <2>1. rank \in [S -> 1..n]
    BY <1>2
  <2> HIDE DEF rank
  <2> QED
    BY <1>4, <2>1 DEF Injection, IsInjective
<1> HIDE DEF n, rank, upTo
<1>6. rank \in Surjection(S, 1..n)
  BY <1>1, <1>5, FS_Injection DEF n
<1> DEFINE f == [k \in 1..n |-> CHOOSE x \in S : rank[x] = k]
<1>7. \A k \in 1..n : f[k] \in S /\ rank[f[k]] = k
  BY <1>6 DEF Surjection
<1>8. ASSUME NEW j \in 1..n, NEW k \in 1..n, j < k PROVE <<f[j], f[k]>> \in before
  <2> HIDE DEF f
  <2>1. f[j] \in S /\ f[k] \in S /\ rank[f[j]] = j /\ rank[f[k]] = k
    BY <1>7
  <2>2. f[j] # f[k]
    BY <1>1, <1>8, <2>1
  <2>3. <<f[k], f[j]>> \notin before
    BY <1>1, <1>3, <1>8, <2>1
  <2> QED
    BY <2>1, <2>2, <2>3 DEF Sorts
<1>9. f \in [1..n -> S]
  BY <1>7
<1> HIDE DEF f
<1> QED
  BY <1>8, <1>9 DEF n

\* InOrder lists every element of a finite set once, each before those it precedes:
\* what slices.SortFunc and ORDER BY give of rows no two of which are equal.
LEMMA InOrderSorts ==
    ASSUME NEW S, IsFiniteSet(S), NEW before, Sorts(before, S)
    PROVE  /\ InOrder(S, before) \in [1..Cardinality(S) -> S]
           /\ Cardinality(S) \in Nat
           /\ \A j, k \in 1..Cardinality(S) : j < k => <<InOrder(S, before)[j], InOrder(S, before)[k]>> \in before
           /\ \A j, k \in 1..Cardinality(S) : InOrder(S, before)[j] = InOrder(S, before)[k] => j = k
           /\ \A x \in S : \E k \in 1..Cardinality(S) : InOrder(S, before)[k] = x
<1> DEFINE n == Cardinality(S)
           f == InOrder(S, before)
<1>1. n \in Nat /\ IsFiniteSet(1..n) /\ Cardinality(1..n) = n
  BY FS_CardinalityType, FS_Interval
<1>2. f \in [1..n -> S] /\ \A j, k \in 1..n : j < k => <<f[j], f[k]>> \in before
  BY OrderExists DEF InOrder
<1> HIDE DEF f, n
<1>3. \A j, k \in 1..n : f[j] = f[k] => j = k
  <2> SUFFICES ASSUME NEW j \in 1..n, NEW k \in 1..n, f[j] = f[k], j # k PROVE FALSE
    OBVIOUS
  <2>1. f[j] \in S /\ f[k] \in S
    BY <1>2
  <2>2. <<f[j], f[k]>> \in before \/ <<f[k], f[j]>> \in before
    BY <1>1, <1>2
  <2> QED
    BY <2>1, <2>2 DEF Sorts
<1>4. f \in Injection(1..n, S)
  BY <1>2, <1>3 DEF Injection, IsInjective
<1>5. f \in Surjection(1..n, S)
  BY <1>1, <1>4, FS_Injection DEF n
<1>6. \A x \in S : \E k \in 1..n : f[k] = x
  BY <1>5 DEF Surjection
<1> QED
  BY <1>1, <1>2, <1>3, <1>6 DEF f, n

\* percentile (metrics.go) of sorted values is the nearest rank: one of them, that at
\* least the asked share do not exceed, as no lower one does.
THEOREM PercentileIsNearest ==
    ASSUME NEW d \in Seq(Int), d # <<>>, NEW den \in Nat \ {0}, NEW num \in 0..den,
           \A j, k \in 1..Len(d) : j < k => d[j] <= d[k]
    PROVE  LET v      == Percentile(d, num, den)
               upTo(w) == Cardinality({k \in 1..Len(d) : d[k] <= w})
           IN  /\ \E k \in 1..Len(d) : d[k] = v
               /\ den * upTo(v) >= num * Len(d)
               /\ \A k \in 1..Len(d) : d[k] < v => den * upTo(d[k]) < num * Len(d)
<1> DEFINE n       == Len(d)
           r       == Rank(n, num, den)
           below(w) == {k \in 1..n : d[k] <= w}
<1>1. n \in Nat \ {0} /\ \A k \in 1..n : d[k] \in Int
  BY EmptySeq, LenProperties
<1>2. /\ r \in 1..n /\ num * n <= den * r
      /\ r > 1 => den * (r - 1) < num * n
  BY <1>1, RankIsNearest
<1>3. Percentile(d, num, den) = d[r]
  BY DEF Percentile
<1> HIDE DEF n, r
<1>4. IsFiniteSet(1..n) /\ \A m \in 0..n : IsFiniteSet(1..m) /\ Cardinality(1..m) = m
  BY <1>1, FS_Interval
<1>5. \A w : IsFiniteSet(below(w)) /\ Cardinality(below(w)) \in Nat
  <2> TAKE w
  <2>1. below(w) \in SUBSET (1..n)
    OBVIOUS
  <2> HIDE DEF below
  <2> QED
    BY <1>4, <2>1, FS_Subset, FS_CardinalityType
<1>6. den * Cardinality(below(d[r])) >= num * n
  <2>1. 1..r \in SUBSET below(d[r])
    BY <1>1, <1>2 DEF n
  <2>2. r <= Cardinality(below(d[r]))
    <3>1. Cardinality(1..r) = r
      BY <1>1, <1>2, <1>4
    <3> DEFINE B == below(d[r])
               I == 1..r
    <3>2. IsFiniteSet(B) /\ I \in SUBSET B
      BY <1>5, <2>1
    <3> HIDE DEF B, I
    <3>3. r <= Cardinality(B)
      <4>1. Cardinality(I) = r /\ Cardinality(I) <= Cardinality(B)
        BY <3>1, <3>2, FS_Subset DEF I
      <4> QED
        BY <4>1
    <3> QED
      BY <3>3 DEF B
  <2> DEFINE c == Cardinality(below(d[r]))
  <2>3. c \in Nat
    BY <1>5
  <2> HIDE DEF c
  <2>4. den * r <= den * c
    BY <1>2, <2>2, <2>3, SMT DEF c
  <2>5. den * r \in Int /\ den * c \in Int /\ num * n \in Int
    BY <1>1, <1>2, <2>3
  <2> QED
    BY <1>2, <2>4, <2>5 DEF c
<1>7. ASSUME NEW k \in 1..n, d[k] < d[r] PROVE den * Cardinality(below(d[k])) < num * n
  <2>1. r > 1 /\ k < r
    <3>1. k < r
      <4> SUFFICES ASSUME r <= k PROVE FALSE
        BY <1>1, <1>2
      <4>1. d[r] <= d[k]
        BY <1>1, <1>2, <1>7 DEF n
      <4> QED
        BY <1>1, <1>2, <1>7, <4>1
    <3> QED
      BY <1>1, <1>2, <3>1
  <2>2. below(d[k]) \in SUBSET (1..(r - 1))
    <3> SUFFICES ASSUME NEW j \in 1..n, d[j] <= d[k], r <= j PROVE FALSE
      BY <1>1, <1>2
    <3>1. d[r] <= d[j]
      BY <1>1, <1>2 DEF n
    <3> QED
      BY <1>1, <1>2, <1>7, <3>1
  <2>3. Cardinality(below(d[k])) <= r - 1
    <3>1. r - 1 \in 0..n
      BY <1>1, <1>2
    <3>2. IsFiniteSet(1..(r - 1)) /\ Cardinality(1..(r - 1)) = r - 1
      BY <1>4, <3>1
    <3> HIDE DEF below
    <3> QED
      BY <2>2, <3>2, FS_Subset
  <2> DEFINE c == Cardinality(below(d[k]))
             e == r - 1
  <2>4. c \in Nat /\ e \in Nat /\ c <= e
    <3>1. c \in Nat /\ c <= e
      BY <1>5, <2>3
    <3>2. e \in Nat
      BY <1>2
    <3> QED
      BY <3>1, <3>2
  <2> HIDE DEF c, e
  <2>5. den * c <= den * e
    BY <2>4, SMT
  <2>6. den * c \in Int /\ den * e \in Int /\ num * n \in Int
    BY <1>1, <1>2, <2>4
  <2>7. den * e < num * n
    BY <1>2, <2>1 DEF e
  <2> QED
    BY <2>5, <2>6, <2>7 DEF c
<1> QED
  BY <1>2, <1>3, <1>6, <1>7 DEF n

-----------------------------------------------------------------------------
(* Recursive functions *)

\* Of some numbers one is the least: their initial segments are finite sets.
LEMMA LeastNumber == ASSUME NEW T \in SUBSET Nat, T # {} PROVE \E i \in T : \A j \in T : i <= j
<1> DEFINE Segments == {0..i : i \in T}
<1>1. \A i \in T : 0..i \subseteq Nat /\ IsFiniteSet(0..i) /\ i \in Nat
  BY FS_Interval
<1>2. Segments \subseteq FiniteSubsetsOf(Nat) /\ Segments # {}
  BY <1>1 DEF FiniteSubsetsOf
<1>3. PICK m \in Segments : \A n \in Segments : <<n, m>> \notin StrictSubsetOrdering(Nat)
  <2> HIDE DEF Segments
  <2> QED
    BY <1>2, FS_StrictSubsetOrderingWellFounded, WFMin
<1>4. PICK i \in T : m = 0..i
  OBVIOUS
<1>5. ASSUME NEW j \in T, j < i PROVE FALSE
  <2>1. 0..j \subseteq 0..i /\ i \in 0..i /\ i \notin 0..j
    BY <1>1, <1>5
  <2>2. <<0..j, 0..i>> \in StrictSubsetOrdering(Nat)
    BY <1>1, <2>1 DEF StrictSubsetOrdering
  <2> QED
    BY <1>3, <1>4, <2>2
<1> QED
  BY <1>1, <1>5

\* From a to n, two functions that begin with the same value and go on alike are the same.
Alike(f, g, a, n) ==
    f[a] = g[a] /\ \A i \in a..n : i # a /\ f[i - 1] = g[i - 1] => f[i] = g[i]
LEMMA SameIteration ==
    ASSUME NEW n \in Nat, NEW a \in Nat, NEW f, NEW g, Alike(f, g, a, n)
    PROVE  \A i \in a..n : f[i] = g[i]
<1> DEFINE Bad == {i \in a..n : f[i] # g[i]}
<1> SUFFICES ASSUME Bad # {} PROVE FALSE
  OBVIOUS
<1>2. Bad \in SUBSET Nat
  OBVIOUS
<1> HIDE DEF Bad
<1>3. PICK m \in Bad : \A k \in Bad : m <= k
  BY <1>2, LeastNumber
<1>4. m # a /\ m \in a..n
  BY DEF Bad, Alike
<1>5. m - 1 \in a..n
  BY <1>4
<1>6. m - 1 \notin Bad
  BY <1>3, <1>4, <1>5
<1> QED
  BY <1>3, <1>4, <1>5, <1>6 DEF Bad, Alike

\* The sum of a sequence, by its partial sums.
LEMMA TotalIs ==
    ASSUME NEW seq \in Seq(Int), NEW part, part = [k \in 0..Len(seq) |-> part[k]], part[0] = 0,
           \A k \in 1..Len(seq) : part[k] = part[k - 1] + seq[k]
    PROVE  Total(seq) = part[Len(seq)]
<1> DEFINE n       == Len(seq)
           Next(f) == [k \in 0..n |-> IF k = 0 THEN 0 ELSE f[k - 1] + seq[k]]
           sum     == CHOOSE f : f = Next(f)
<1>1. n \in Nat
  BY LenProperties
<1>2. part = Next(part)
  <2> DEFINE g == Next(part)
  <2>1. \A k \in 0..n : g[k] = IF k = 0 THEN 0 ELSE part[k - 1] + seq[k]
    OBVIOUS
  <2>3. g = [k \in 0..n |-> g[k]]
    OBVIOUS
  <2> HIDE DEF g
  <2>2. ASSUME NEW k \in 0..n PROVE g[k] = part[k]
    <3>1. CASE k = 0
      BY <2>1, <3>1
    <3>2. CASE k # 0
      <4>1. k \in 1..n
        BY <1>1, <3>2
      <4> QED
        BY <2>1, <3>2, <4>1
    <3> QED
      BY <3>1, <3>2
  <2> HIDE DEF n
  <2>4. [k \in 0..n |-> part[k]] = [k \in 0..n |-> g[k]]
    BY <2>2
  <2> QED
    BY <2>3, <2>4 DEF g, n
<1>3. sum = Next(sum)
  <2> HIDE DEF Next
  <2> QED
    BY <1>2
<1>4. sum[0] = 0 /\ \A k \in 1..n : sum[k] = sum[k - 1] + seq[k]
  <2> DEFINE g == Next(sum)
  <2>1. \A k \in 0..n : g[k] = IF k = 0 THEN 0 ELSE sum[k - 1] + seq[k]
    OBVIOUS
  <2> HIDE DEF g, sum, n
  <2>2. sum = g
    BY <1>3 DEF g
  <2>3. 0 \in 0..n /\ \A k \in 1..n : k \in 0..n /\ k # 0
    BY <1>1
  <2>4. g[0] = 0
    BY <2>1, <2>3
  <2>5. \A k \in 1..n : g[k] = sum[k - 1] + seq[k]
    BY <2>1, <2>3
  <2> QED
    BY <2>2, <2>4, <2>5
<1>5. Total(seq) = sum[n]
  BY DEF Total
<1> HIDE DEF sum, n, Next
<1>6. \A k \in 0..n : k # 0 /\ sum[k - 1] = part[k - 1] => sum[k] = part[k]
  <2>1. \A k \in 0..n : k # 0 => k \in 1..n
    BY <1>1
  <2> QED
    BY <1>4, <2>1 DEF n
<1>7. Alike(sum, part, 0, n)
  BY <1>4, <1>6 DEF Alike
<1>8. \A k \in 0..n : sum[k] = part[k]
  BY <1>1, <1>7, SameIteration
<1> QED
  BY <1>1, <1>5, <1>8 DEF n

\* Steps 1 to n from x, each of which may depend on its number, lead somewhere.
Iterates(X, x, n, step) ==
    \E f \in [0..n -> X] : f[0] = x /\ \A k \in 1..n : f[k] = step[k][f[k - 1]]

\* They always do: otherwise take the first that leads nowhere.
LEMMA IterationExists ==
    ASSUME NEW X, NEW x \in X, NEW n \in Nat, NEW step \in [1..n -> [X -> X]]
    PROVE  Iterates(X, x, n, step)
<1> DEFINE Reached(m) == Iterates(X, x, m, step)
           Bad == {m \in 0..n : ~Reached(m)}
<1> SUFFICES ASSUME ~Reached(n) PROVE FALSE
  OBVIOUS
<1>1. Bad # {} /\ \A m \in 0..n : m \in Bad <=> ~Reached(m)
  OBVIOUS
<1>2. Bad \in SUBSET Nat /\ Bad \in SUBSET (0..n)
  OBVIOUS
<1> HIDE DEF Bad
<1>3. PICK m \in Bad : \A k \in Bad : m <= k
  BY <1>1, <1>2, LeastNumber
<1>4. m \in 0..n /\ m \in Nat
  BY <1>2
<1>5. CASE m = 0
  <2> DEFINE f == [k \in 0..0 |-> x]
  <2>1. f \in [0..0 -> X] /\ f[0] = x /\ \A k \in 1..0 : f[k] = step[k][f[k - 1]]
    OBVIOUS
  <2> HIDE DEF f
  <2>2. Reached(0)
    BY <2>1 DEF Iterates
  <2> QED
    BY <1>1, <1>3, <1>4, <1>5, <2>2
<1>6. CASE m # 0
  <2>1. m - 1 \in 0..n /\ m - 1 \notin Bad /\ m \in 1..n
    BY <1>3, <1>4, <1>6
  <2>2. PICK f \in [0..(m - 1) -> X] : f[0] = x /\ \A k \in 1..(m - 1) : f[k] = step[k][f[k - 1]]
    BY <1>1, <2>1 DEF Iterates
  <2> DEFINE y == step[m][f[m - 1]]
             g == [k \in 0..m |-> IF k < m THEN f[k] ELSE y]
  <2>3. f[m - 1] \in X /\ \A a \in X : step[m][a] \in X
    BY <2>1, <2>2
  <2>4. y \in X
    BY <2>3
  <2> HIDE DEF y
  <2>5. \A k \in 0..m : k < m => k \in 0..(m - 1)
    BY <1>4
  <2>6. g \in [0..m -> X]
    BY <2>2, <2>4, <2>5
  <2>7. g[0] = x
    BY <1>4, <1>6, <2>2
  <2>8. \A k \in 1..m : g[k] = step[k][g[k - 1]]
    <3>1. \A k \in 1..m : /\ k \in 0..m /\ k - 1 \in 0..m /\ k - 1 < m
                          /\ k < m => k \in 1..(m - 1)
                          /\ ~(k < m) => k = m
      BY <1>4
    <3>2. \A k \in 1..m : g[k - 1] = f[k - 1]
      BY <3>1
    <3>3. \A k \in 1..m : k < m => g[k] = step[k][f[k - 1]]
      BY <2>2, <3>1
    <3>4. \A k \in 1..m : ~(k < m) => g[k] = step[k][f[k - 1]]
      BY <3>1 DEF y
    <3> HIDE DEF g
    <3> QED
      BY <3>2, <3>3, <3>4
  <2> HIDE DEF g
  <2>9. Reached(m)
    BY <2>6, <2>7, <2>8 DEF Iterates
  <2> QED
    BY <1>1, <1>3, <1>4, <2>9
<1> QED
  BY <1>5, <1>6

\* A sequence of numbers has its partial sums.
LEMMA TotalParts ==
    ASSUME NEW seq \in Seq(Int)
    PROVE  \E part \in [0..Len(seq) -> Int] :
             /\ part[0] = 0
             /\ \A k \in 1..Len(seq) : part[k] = part[k - 1] + seq[k]
             /\ Total(seq) = part[Len(seq)]
<1> DEFINE n    == Len(seq)
           step == [k \in 1..n |-> [a \in Int |-> a + seq[k]]]
<1>1. n \in Nat /\ \A k \in 1..n : seq[k] \in Int
  BY LenProperties, ElementOfSeq
<1> HIDE DEF n
<1>2. \A k \in 1..n, a \in Int : step[k][a] = a + seq[k]
  OBVIOUS
<1>3. step \in [1..n -> [Int -> Int]]
  BY <1>1
<1> HIDE DEF step
<1>4. PICK part \in [0..n -> Int] : part[0] = 0 /\ \A k \in 1..n : part[k] = step[k][part[k - 1]]
  <2> DEFINE I == Int
  <2>2. 0 \in I /\ n \in Nat /\ step \in [1..n -> [I -> I]]
    BY <1>1, <1>3
  <2> HIDE DEF I
  <2>3. Iterates(I, 0, n, step)
    BY <2>2, IterationExists
  <2>1. Iterates(Int, 0, n, step)
    BY <2>3 DEF I
  <2> QED
    BY <2>1 DEF Iterates
<1>5. \A k \in 1..n : part[k - 1] \in Int
  BY <1>1
<1>6. \A k \in 1..n : part[k] = part[k - 1] + seq[k]
  BY <1>2, <1>4, <1>5
<1>7. part = [k \in 0..n |-> part[k]]
  OBVIOUS
<1>8. Total(seq) = part[n]
  BY <1>4, <1>6, <1>7, TotalIs DEF n
<1> QED
  BY <1>4, <1>6, <1>8 DEF n

\* Sums of what is not negative only grow.
LEMMA PartsGrow ==
    ASSUME NEW n \in Nat, NEW part \in [0..n -> Int], \A k \in 1..n : part[k - 1] <= part[k],
           NEW k \in 0..n
    PROVE  part[k] <= part[n]
<1> DEFINE Below == {j \in k..n : part[j] < part[k]}
<1> SUFFICES ASSUME part[n] < part[k] PROVE FALSE
  <2>1. part[n] \in Int /\ part[k] \in Int
    OBVIOUS
  <2> QED
    BY <2>1
<1>1. Below \in SUBSET Nat /\ n \in Below /\ \A j : j \in Below <=> j \in k..n /\ part[j] < part[k]
  OBVIOUS
<1> HIDE DEF Below
<1>2. PICK j \in Below : \A i \in Below : j <= i
  BY <1>1, LeastNumber
<1>3. j \in k..n /\ part[j] < part[k] /\ part[k] \in Int /\ part[j] \in Int
  BY <1>1, <1>2
<1>4. j # k
  BY <1>3
<1>5. j \in 1..n /\ j - 1 \in k..n /\ j - 1 \in 0..n /\ ~(j <= j - 1)
  BY <1>3, <1>4
<1>6. part[j - 1] <= part[j] /\ part[j - 1] \in Int
  BY <1>5
<1>7. part[j - 1] < part[k]
  BY <1>3, <1>6
<1> QED
  BY <1>1, <1>2, <1>5, <1>7

\* Two sequences as long that differ in one place at most.
DifferAt(seq, other, d) ==
    Len(other) = Len(seq) /\ \A k \in 1..Len(seq) : k # d => other[k] = seq[k]

\* Changing one number of a sequence changes its sum as much.
LEMMA TotalChanged ==
    ASSUME NEW seq \in Seq(Int), NEW other \in Seq(Int),
           NEW d \in 1..Len(seq), DifferAt(seq, other, d)
    PROVE  Total(other) = Total(seq) + other[d] - seq[d]
<1> DEFINE n == Len(seq)
<1>1. /\ n \in Nat /\ d \in 1..n /\ Len(other) = n
      /\ \A k \in 1..n : seq[k] \in Int /\ other[k] \in Int /\ (k # d => other[k] = seq[k])
  BY LenProperties, ElementOfSeq DEF DifferAt
<1>2. PICK part \in [0..n -> Int] : /\ part[0] = 0
                                    /\ \A k \in 1..n : part[k] = part[k - 1] + seq[k]
                                    /\ Total(seq) = part[n]
  BY TotalParts
<1> HIDE DEF n
<1> DEFINE x    == other[d] - seq[d]
           sums == [k \in 0..n |-> IF k < d THEN part[k] ELSE part[k] + x]
<1>3. x \in Int /\ other[d] = seq[d] + x
  BY <1>1
<1> HIDE DEF x
<1>4. \A k \in 0..n : sums[k] = IF k < d THEN part[k] ELSE part[k] + x
  OBVIOUS
<1>5. sums = [k \in 0..n |-> sums[k]]
  OBVIOUS
<1> HIDE DEF sums
<1>6. sums[0] = 0 /\ sums[n] = part[n] + x
  BY <1>1, <1>2, <1>4
<1>7. ASSUME NEW k \in 1..n PROVE sums[k] = sums[k - 1] + other[k]
  <2>1. k \in 0..n /\ k - 1 \in 0..n /\ part[k - 1] \in Int /\ part[k] = part[k - 1] + seq[k]
    BY <1>1, <1>2
  <2>2. k \in Int /\ d \in Int /\ seq[k] \in Int /\ other[k] \in Int
    BY <1>1
  <2> DEFINE a == part[k - 1]
             b == part[k]
             c == sums[k - 1]
             e == sums[k]
  <2>6. /\ a \in Int /\ b = a + seq[k]
        /\ c = IF k - 1 < d THEN a ELSE a + x
        /\ e = IF k < d THEN b ELSE b + x
    BY <1>4, <2>1
  <2> HIDE DEF a, b, c, e
  <2>7. e = c + other[k]
    <3>1. CASE k < d
      BY <1>1, <2>2, <2>6, <3>1, SMTT(60)
    <3>2. CASE k = d
      BY <1>3, <2>2, <2>6, <3>2
    <3>3. CASE k > d
      <4>1. other[k] = seq[k]
        BY <1>1, <2>2, <3>3
      <4> QED
        BY <1>3, <2>2, <2>6, <3>3, <4>1
    <3> QED
      BY <2>2, <3>1, <3>2, <3>3
  <2> QED
    BY <2>7 DEF c, e
<1>8. Total(other) = sums[n]
  BY <1>1, <1>5, <1>6, <1>7, TotalIs
<1>9. part[n] \in Int
  BY <1>1, <1>2
<1> QED
  BY <1>1, <1>2, <1>3, <1>6, <1>8, <1>9 DEF x

\* The sum of zeros is zero.
LEMMA TotalOfZeros ==
    ASSUME NEW seq \in Seq(Int), \A k \in 1..Len(seq) : seq[k] = 0
    PROVE  Total(seq) = 0
<1> DEFINE n    == Len(seq)
           part == [k \in 0..n |-> 0]
<1>1. n \in Nat
  BY LenProperties
<1>2. /\ part[0] = 0 /\ part[n] = 0 /\ part = [k \in 0..n |-> part[k]]
      /\ \A k \in 1..n : part[k] = part[k - 1] + seq[k]
  BY <1>1
<1> HIDE DEF part
<1>3. Total(seq) = part[n]
  BY <1>2, TotalIs
<1> QED
  BY <1>2, <1>3

\* The sum of numbers is one.
LEMMA TotalIsNumber == ASSUME NEW seq \in Seq(Int) PROVE Total(seq) \in Int
<1>1. PICK part \in [0..Len(seq) -> Int] : Total(seq) = part[Len(seq)]
  BY TotalParts
<1> QED
  BY <1>1, LenProperties

\* Numbers sort in ascending order.
LEMMA AscendingSorts ==
    ASSUME NEW S \in SUBSET Int
    PROVE  Sorts(Ascending(S), S)
<1>1. \A x, y \in S : <<x, y>> \in Ascending(S) <=> x < y
  BY DEF Ascending
<1> QED
  BY <1>1 DEF Sorts

-----------------------------------------------------------------------------
(* Buckets *)

\* A list cut into q consecutive buckets of at most size: every place of it is in one.
Before(b, size) == (b - 1) * size
CutUp(buckets, q, S, seq, size) ==
    /\ q \in Nat /\ DOMAIN buckets = 1..q
    /\ \A b \in 1..q :
         /\ Before(b, size) \in Nat /\ buckets[b] \in Seq(S)
         /\ Before(b, size) + Len(buckets[b]) <= Len(seq)
         /\ Len(buckets[b]) \in 1..size
         /\ \A i \in 1..Len(buckets[b]) : buckets[b][i] = seq[Before(b, size) + i]
    /\ \A b, c \in 1..q : b < c => Before(b, size) + Len(buckets[b]) <= Before(c, size)
    /\ \A i \in 1..Len(seq) : \E b \in 1..q : \E j \in 1..Len(buckets[b]) : i = Before(b, size) + j

\* BucketRuns cuts its list so.
LEMMA BucketPlaces ==
    ASSUME NEW S, NEW seq \in Seq(S), NEW size \in Nat \ {0}
    PROVE  CutUp(BucketRuns(seq, size), Ceiling(Len(seq), size), S, seq, size)
<1> DEFINE n        == Len(seq)
           q        == Ceiling(n, size)
           buckets  == BucketRuns(seq, size)
           first(b) == (b - 1) * size
           last(b)  == Least(b * size, n)
<1>1. n \in Nat /\ \A i \in 1..n : seq[i] \in S
  BY LenProperties, ElementOfSeq
<1>2. q \in Nat /\ n <= size * q /\ size * (q - 1) < n
  <2> HIDE DEF n
  <2> QED
    BY <1>1, CeilingIsLeast
<1>3. DOMAIN buckets = 1..q /\ \A b \in 1..q : buckets[b] = SubSeq(seq, first(b) + 1, last(b))
  BY DEF BucketRuns
<1> HIDE DEF n, q, buckets
<1>4. ASSUME NEW b \in 1..q
      PROVE  first(b) \in Nat /\ first(b) < n /\ last(b) \in first(b)..n /\ last(b) <= first(b) + size
             /\ last(b) > first(b) /\ (last(b) = first(b) + size \/ last(b) = n)
  <2>1. b \in Nat /\ b - 1 \in Nat /\ b - 1 <= q - 1
    BY <1>2
  <2>2. first(b) \in Nat /\ b * size = first(b) + size
    BY <2>1, SMT
  <2>3. (b - 1) * size <= size * (q - 1) /\ size * (q - 1) \in Int
    BY <1>2, <2>1, SMT
  <2> DEFINE f == first(b)
             m == size * (q - 1)
  <2>4. f \in Nat /\ m \in Int /\ f <= m /\ m < n /\ last(b) = Least(f + size, n)
    BY <1>2, <2>2, <2>3
  <2> HIDE DEF f, m, last
  <2>5. f < n /\ last(b) \in f..n /\ last(b) <= f + size /\ last(b) > f
        /\ (last(b) = f + size \/ last(b) = n)
    BY <1>1, <2>4 DEF Least
  <2> QED
    BY <2>4, <2>5 DEF f
<1>5. ASSUME NEW b \in 1..q
      PROVE  /\ first(b) \in Nat /\ buckets[b] \in Seq(S)
             /\ Len(buckets[b]) = last(b) - first(b)
             /\ first(b) + Len(buckets[b]) <= n
             /\ Len(buckets[b]) \in 1..size
             /\ \A i \in 1..Len(buckets[b]) : buckets[b][i] = seq[first(b) + i]
  <2> DEFINE f == first(b)
             l == last(b)
             bucket == buckets[b]
  <2>1. f \in Nat /\ l \in f..n /\ l <= f + size /\ l > f /\ bucket = SubSeq(seq, f + 1, l)
    BY <1>3, <1>4
  <2> HIDE DEF f, l, bucket
  <2>2. f + 1 \in Int /\ l \in Int /\ \A i \in (f + 1)..l : seq[i] \in S
    BY <1>1, <2>1
  <2> DEFINE m == f + 1
  <2>3. m \in Int /\ \A i \in m..l : seq[i] \in S
    BY <2>2
  <2> HIDE DEF m
  <2>4. /\ SubSeq(seq, m, l) \in Seq(S)
        /\ Len(SubSeq(seq, m, l)) = IF m <= l THEN l - m + 1 ELSE 0
        /\ \A i \in 1..(l - m + 1) : SubSeq(seq, m, l)[i] = seq[m + i - 1]
    BY <2>2, <2>3, SubSeqProperties
  <2>5. /\ bucket \in Seq(S) /\ Len(bucket) = l - f
        /\ \A i \in 1..(l - f) : bucket[i] = seq[f + i]
    <3>1. m <= l /\ l - m + 1 = l - f /\ \A i \in 1..(l - f) : m + i - 1 = f + i
      BY <2>1 DEF m
    <3> QED
      BY <2>1, <2>4, <3>1 DEF m
  <2>6. f \in Nat /\ f + Len(bucket) <= n /\ Len(bucket) \in 1..size
        /\ \A i \in 1..Len(bucket) : bucket[i] = seq[f + i]
    BY <1>1, <2>1, <2>5
  <2> QED
    BY <2>5, <2>6 DEF f, l, bucket
<1>6. ASSUME NEW b \in 1..q, NEW c \in 1..q, b < c PROVE first(b) + Len(buckets[b]) <= first(c)
  <2>1. b * size <= (c - 1) * size
    BY <1>2, <1>6, SMT
  <2>2. b * size = first(b) + size /\ b * size \in Nat
    BY <1>2, SMT
  <2> DEFINE f == first(b)
             g == first(c)
             l == Len(buckets[b])
             m == b * size
  <2>3. f \in Nat /\ g \in Nat /\ l \in 1..size /\ m <= g /\ m = f + size
    BY <1>5, <2>1, <2>2
  <2> HIDE DEF f, g, l, m
  <2>4. f + l <= g
    BY <2>3
  <2> QED
    BY <2>4 DEF f, g, l
<1>7. ASSUME NEW i \in 1..n PROVE \E b \in 1..q : \E j \in 1..Len(buckets[b]) : i = first(b) + j
  <2> DEFINE b == Ceiling(i, size)
  <2>1. i \in Nat /\ i > 0 /\ i <= n
    BY <1>1
  <2>2. b \in Nat /\ i <= size * b /\ size * (b - 1) < i
    BY <2>1, CeilingIsLeast
  <2> HIDE DEF b
  <2>3. b \in 1..q
    <3>1. b # 0
      BY <2>1, <2>2, SMT
    <3>2. b <= q
      <4> SUFFICES ASSUME q <= b - 1 PROVE FALSE
        BY <1>2, <2>2
      <4>1. size * q <= size * (b - 1)
        BY <1>2, <2>2, SMT
      <4>2. size * q \in Int /\ size * (b - 1) \in Int
        BY <1>2, <2>2, SMT
      <4> QED
        BY <1>1, <1>2, <2>1, <2>2, <4>1, <4>2
    <3> QED
      BY <1>2, <2>2, <3>1, <3>2
  <2>4. size * b = first(b) + size /\ size * (b - 1) = first(b)
    BY <2>2, SMT
  <2> DEFINE f == first(b)
             l == last(b)
  <2>5. f \in Nat /\ l \in f..n /\ (l = f + size \/ l = n) /\ Len(buckets[b]) = l - f /\ f < i /\ i <= f + size
    BY <1>4, <1>5, <2>2, <2>3, <2>4
  <2> HIDE DEF f, l
  <2>6. i - f \in 1..Len(buckets[b]) /\ i = f + (i - f)
    BY <1>1, <2>1, <2>5
  <2> QED
    BY <2>3, <2>6 DEF f
<1> QED
  BY <1>2, <1>3, <1>5, <1>6, <1>7 DEF n, q, buckets, CutUp, Before
=============================================================================
