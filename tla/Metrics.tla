------------------------------- MODULE Metrics -------------------------------
(***************************************************************************)
(* The functions of src/utils/analytics-helpers.ts on lists of numbers and *)
(* records, as operators.  Fractions stay fractions: an average is the     *)
(* pair of a sum and a count.  Nothing in src calls the exported           *)
(* instances; they are a library to its users.                             *)
(***************************************************************************)
EXTENDS Integers, Sequences, FiniteSets, SequencesExt, FiniteSetsExt

Total(values) == FoldSeq(LAMBDA v, sum : v + sum, 0, values)
Average(values) == <<Total(values), Len(values)>>
LessEq(x, y) == x[1] * y[2] <= y[1] * x[2]

(* Math.round(x) and Math.round(x * 100) / 100, the latter in hundredths.  *)
Round(num, den) == (2 * num + den) \div (2 * den)
Cents(num, den) == Round(100 * num, den)

-----------------------------------------------------------------------------
(* DataAggregator.  The functions that give an item its keys and its value *)
(* have been applied: keys, rows, cols and values are those of the items.  *)

ValuesOf(keys, values, key) ==
    LET at == SetToSortSeq({n \in DOMAIN keys : keys[n] = key}, <)
    IN  [i \in DOMAIN at |-> values[at[i]]]

Aggregate(keys, values) ==
    [key \in Range(keys) |->
        LET of == ValuesOf(keys, values, key)
        IN  [count |-> Len(of), sum |-> Total(of), avg |-> Average(of),
             min |-> Min(Range(of)), max |-> Max(Range(of))]]

Pivot(rows, cols, values, aggregateFn) ==
    [row \in Range(rows) |->
        LET ofCols == ValuesOf(rows, cols, row)
            ofValues == ValuesOf(rows, values, row)
        IN  [col \in Range(ofCols) |->
                LET of == ValuesOf(ofCols, ofValues, col)
                IN  IF aggregateFn = "count" THEN Len(of)
                    ELSE IF aggregateFn = "sum" THEN Total(of)
                    ELSE Average(of)]]

RunningTotal(values) == [n \in DOMAIN values |-> Total(SubSeq(values, 1, n))]

MovingAverage(values, windowSize) ==
    [n \in DOMAIN values |-> Average(SubSeq(values, Max({1, n - windowSize + 1}), n))]

PercentileIndex(p, n) == Max({0, (p * n + 99) \div 100 - 1})
Percentile(values, p) ==
    IF values = <<>> THEN 0
    ELSE SortSeq(values, <)[PercentileIndex(p, Len(values)) + 1]

(* The variance, under the root of standardDeviation().                    *)
Variance(values) ==
    LET n == Len(values)
        squares == Total([k \in DOMAIN values |-> values[k] * values[k]])
    IN  IF n = 0 THEN <<0, 1>>
        ELSE <<n * squares - Total(values) * Total(values), n * n>>

=============================================================================
