------------------------------- MODULE Figures -------------------------------
(***************************************************************************)
(* The arithmetic under the metrics (metrics/metrics.go,                    *)
(* metrics/pipelinelist.go): windows, buckets, nearest-rank percentiles and  *)
(* pages of a list.  A rate is the pair of its counts, so nothing is rounded.*)
(***************************************************************************)
EXTENDS Integers, Sequences, FiniteSets

Least(a, b) == IF a <= b THEN a ELSE b
Most(a, b) == IF a >= b THEN a ELSE b
Ceiling(a, b) == (a + b - 1) \div b

\* The elements of a finite set, sorted by a strict total order given as the set of
\* its pairs <<earlier, later>>.
InOrder(S, before) ==
    CHOOSE f \in [1..Cardinality(S) -> S] :
        \A j, k \in 1..Cardinality(S) : j < k => <<f[j], f[k]>> \in before
Ascending(S) == {e \in S \X S : e[1] < e[2]}

\* The sum of a sequence of numbers.
Total(seq) ==
    LET sum[k \in 0..Len(seq)] == IF k = 0 THEN 0 ELSE sum[k - 1] + seq[k]
    IN  sum[Len(seq)]

\* The rank-th smallest of n values, 1 <= rank <= n, that is percentile num/den.
\* A defect: the rank is rounded down.
Rank_Floor(n, num, den) == Least(Most((num * n) \div den, 1), n)
Rank(n, num, den) == Least(Most(Ceiling(num * n, den), 1), n)

\* The num/den percentile of values sorted in ascending order; 0 of none.
Percentile(sorted, num, den) ==
    IF sorted = <<>> THEN 0 ELSE sorted[Rank(Len(sorted), num, den)]

\* A window of n runs and the n before it, of runs listed most recent first.
SplitWindow(seq, n) ==
    [current |-> SubSeq(seq, 1, Least(n, Len(seq))),
     prior   |-> SubSeq(seq, n + 1, Least(2 * n, Len(seq)))]

\* Consecutive buckets of size runs.  A defect: what does not fill a bucket is left out.
BucketRuns_FullOnly(seq, size) ==
    [b \in 1..(Len(seq) \div size) |-> SubSeq(seq, (b - 1) * size + 1, b * size)]
BucketRuns(seq, size) ==
    [b \in 1..Ceiling(Len(seq), size) |->
        SubSeq(seq, (b - 1) * size + 1, Least(b * size, Len(seq)))]

\* paginate: the page at an offset, and whether anything follows it.
Paginate(list, limit, offset) ==
    LET from == Least(Most(offset, 0), Len(list))
        end  == Least(from + limit, Len(list))
    IN  [items |-> SubSeq(list, from + 1, end), more |-> Len(list) > end]

\* The same page by the store's queries: LIMIT limit + 1 OFFSET offset, and the
\* row too many, when there is one, says that more follows.  A defect: LIMIT limit.
QueryPage_NoExtraRow(list, limit, offset) ==
    LET fetched == SubSeq(list, offset + 1, Least(offset + limit, Len(list)))
    IN  [items |-> fetched, more |-> Len(fetched) > limit]
QueryPage(list, limit, offset) ==
    LET fetched == SubSeq(list, offset + 1, Least(offset + limit + 1, Len(list)))
    IN  [items |-> SubSeq(fetched, 1, Least(limit, Len(fetched))),
         more  |-> Len(fetched) > limit]
=============================================================================
