------------------------------ MODULE Analytics ------------------------------
(***************************************************************************)
(* The arithmetic of the analytics engine: from the NAV history of one     *)
(* scheme to the metrics of each rolling window (computeAllOnce).  It runs *)
(* in one goroutine on a history that is read once; a step is one turn of  *)
(* a loop.  Reading and writing the tables are in SyncPipeline.            *)
(*                                                                         *)
(* Numbers are exact: a change is an integer, Scale of which make 100 %,   *)
(* and Scale is a multiple of every denominator that occurs.  The rounding *)
(* of the code's floats is not modelled.  math.Pow and math.Sqrt have no   *)
(* such form: an annualised return is kept as the period it belongs to and *)
(* compared exactly, the standard deviation as the sum under its root.     *)
(* Powers and sums are recursive functions, which can be proved about.     *)
(*                                                                         *)
(* As in SyncPipeline, a definition may be preceded by a variant of it     *)
(* with a mistake in it (PeakLast, FirstEndLate), used nowhere.            *)
(***************************************************************************)
EXTENDS Integers, Sequences, FiniteSets, Functions

CONSTANTS
  WindowDays,  \* the length of each window in rows, in the order they are computed
  Values,      \* NAV values; 0 stands for one that is stored as 0.00000
  Gaps,        \* calendar days from a row to the next
  MaxRows,     \* bound: rows in the history
  Scale        \* units in 100 %

ASSUME WindowsAssumption == WindowDays \in Seq(Nat \ {0})
ASSUME ValuesAssumption ==
  /\ Values \subseteq Nat /\ Gaps \subseteq Nat \ {0} /\ MaxRows \in Nat \ {0}
  /\ Scale \in Nat \ {0} /\ \A v \in Values \ {0} : (Scale \div v) * v = Scale
(* The mean of up to MaxRows - 1 returns is a whole number of units. *)
ASSUME MeansAssumption ==
  \A v \in Values \ {0}, n \in 1 .. MaxRows - 1 : (Scale \div v) % n = 0

VARIABLES
  history,  \* the rows of nav_data, oldest first
  navs,     \* those of them with a positive NAV
  pc,       \* the loop the computation is in
  i,        \* its index
  peak,     \* computeMaxDrawdown: the highest NAV so far
  maxDD,    \* computeMaxDrawdown: the worst decline so far
  returns,  \* computeRollingStats: the total return of each period
  cagrs,    \* computeRollingStats: the periods that have an annualised one
  mean,     \* stdDev
  m2,       \* stdDev
  results   \* the records handed to UpsertAnalytics, one per window

loop == <<peak, maxDD>>
rolling == <<returns, cagrs>>
welford == <<mean, m2>>
vars == <<history, navs, pc, i, peak, maxDD, returns, cagrs, mean, m2, results>>

Rows == 1 .. Len(navs)
Finished == Len(results) = Len(WindowDays)
Window == WindowDays[Len(results) + 1]

(* The percentage from one NAV to another. *)
Change(from, to) == (Scale \div from) * (to - from)

-----------------------------------------------------------------------------
Init ==
  /\ history = <<>> /\ navs = <<>>
  /\ pc = "load" /\ i = 1
  /\ peak = 0 /\ maxDD = 0
  /\ returns = <<>> /\ cagrs = <<>>
  /\ mean = 0 /\ m2 = 0
  /\ results = <<>>

(* What is stored when the history is read: a row per date.                  *)
AddRow ==
  /\ pc = "load" /\ Len(history) < MaxRows
  /\ \E v \in Values, g \in Gaps :
       LET n == Len(history) IN
       history' = Append(history, [nav |-> v, day |-> IF n = 0 THEN 0 ELSE history[n].day + g])
  /\ UNCHANGED <<navs, pc, i, loop, rolling, welford, results>>

(* computeAllOnce, its first test. *)
Load ==
  /\ pc = "load"
  /\ pc' = IF Len(history) < 2 THEN "done" ELSE "filter"
  /\ UNCHANGED <<history, navs, i, loop, rolling, welford, results>>

(* filterValidNAVs, then the start of computeMaxDrawdown.  computeWindow     *)
(* goes on to read navs[0]: some NAV is not zero.                            *)
NotNegative(r) == r.nav >= 0
Valid(r) == r.nav > 0
FilterValidNAVs ==
  /\ pc = "filter"
  /\ \/ /\ i <= Len(history)
        /\ navs' = IF Valid(history[i]) THEN Append(navs, history[i]) ELSE navs
        /\ i' = i + 1
        /\ UNCHANGED <<pc, loop>>
     \/ /\ i > Len(history) /\ navs # <<>>
        /\ peak' = navs[1].nav /\ maxDD' = 0
        /\ i' = 1 /\ pc' = "drawdown"
        /\ UNCHANGED navs
  /\ UNCHANGED <<history, rolling, welford, results>>

-----------------------------------------------------------------------------
(* computeMaxDrawdown: the peak first, then the decline from it.             *)
PeakFirst(p, v) == p
PeakLast(p, v) == v
NewPeak(p, v) == IF v > p THEN v ELSE p
Drawdown ==
  /\ pc = "drawdown"
  /\ \/ /\ i \in Rows
        /\ peak' = NewPeak(peak, navs[i].nav)
        /\ LET dd == Change(peak', navs[i].nav) IN maxDD' = IF dd < maxDD THEN dd ELSE maxDD
        /\ i' = i + 1 /\ pc' = pc
     \/ i \notin Rows /\ pc' = "window" /\ UNCHANGED <<i, loop>>
  /\ UNCHANGED <<history, navs, rolling, welford, results>>

-----------------------------------------------------------------------------
(* computeWindow. *)

Insufficient == [points |-> Len(navs), dd |-> maxDD, periods |-> 0]

(* The loop of computeRollingStats starts at the first row that has one      *)
(* w rows before it.                                                         *)
FirstEndLate(w) == w + 2
FirstEnd(w) == w + 1
StartWindow ==
  /\ pc = "window"
  /\ \/ Finished /\ pc' = "done" /\ UNCHANGED <<i, results>>
     \/ /\ ~Finished /\ Len(navs) < Window
        /\ results' = Append(results, Insufficient) /\ UNCHANGED <<pc, i>>
     \/ ~Finished /\ Len(navs) >= Window /\ pc' = "rolling" /\ i' = FirstEnd(Window) /\ UNCHANGED results
  /\ returns' = <<>> /\ cagrs' = <<>>
  /\ UNCHANGED <<history, navs, loop, welford>>

Slide ==
  /\ pc = "rolling" /\ i \in Rows
  /\ LET start == navs[i - Window]
         end == navs[i]
         calDays == end.day - start.day
     IN
     /\ returns' = Append(returns, Change(start.nav, end.nav))
     /\ cagrs' = IF calDays > 0
                 THEN Append(cagrs, [from |-> start.nav, to |-> end.nav, days |-> calDays])
                 ELSE cagrs
  /\ i' = i + 1
  /\ UNCHANGED <<history, navs, pc, loop, welford, results>>

(* Of two periods, which has the lower annualised return:                    *)
(* a^(365.25/m) < b^(365.25/n) just when a^n < b^m.                          *)
Power(b, n) == LET power[k \in Nat] == IF k = 0 THEN 1 ELSE b * power[k - 1] IN power[n]
SlowerTotal(p, q) == p.to < q.to
Slower(p, q) ==
  Power(p.to, q.days) * Power(q.from, p.days) < Power(q.to, p.days) * Power(p.from, q.days)

(* sort.Float64s: the elements in another order, none before a lower one; of *)
(* two that compare equal, either may come first.                            *)
Rearranged(s) == {[k \in DOMAIN s |-> s[p[k]]] : p \in Bijection(DOMAIN s, DOMAIN s)}
LeftUnsorted(s) == {s}
SortedReturns(s) == {t \in Rearranged(s) : \A j, k \in DOMAIN t : j < k => t[j] <= t[k]}
SortedCagrs(s) == {t \in Rearranged(s) : \A j, k \in DOMAIN t : j < k => ~Slower(t[k], t[j])}
Sort ==
  /\ pc = "rolling" /\ i \notin Rows
  /\ IF returns = <<>>
     THEN /\ results' = Append(results, Insufficient)
          /\ pc' = "window"
          /\ UNCHANGED <<i, rolling, welford>>
     ELSE /\ returns' \in SortedReturns(returns)
          /\ cagrs' \in SortedCagrs(cagrs)
          /\ mean' = 0 /\ m2' = 0
          /\ i' = 1 /\ pc' = "stddev"
          /\ UNCHANGED results
  /\ UNCHANGED <<history, navs, loop>>

(* stdDev: Welford's update, the second factor with the new mean.            *)
SquareOld(m2Old, v, meanOld, meanNew) == m2Old + (v - meanOld) * (v - meanOld)
SquareUpdate(m2Old, v, meanOld, meanNew) == m2Old + (v - meanOld) * (v - meanNew)
Welford ==
  /\ pc = "stddev" /\ i <= Len(returns)
  /\ mean' = mean + (returns[i] - mean) \div i
  /\ m2' = SquareUpdate(m2, returns[i], mean, mean')
  /\ i' = i + 1
  /\ UNCHANGED <<history, navs, pc, loop, rolling, results>>

(* percentile: linear interpolation between the two ranks next to p per cent *)
(* of the way from the first to the last.                                    *)
percentile(sorted, p) ==
  LET lower == (p * (Len(sorted) - 1)) \div 100
      frac == (p * (Len(sorted) - 1)) % 100
  IN IF frac = 0 THEN sorted[lower + 1]
     ELSE (sorted[lower + 1] * (100 - frac) + sorted[lower + 2] * frac) \div 100

StoreWindow ==
  /\ pc = "stddev" /\ i > Len(returns)
  /\ results' = Append(results,
       [points |-> Len(navs), dd |-> maxDD, periods |-> Len(returns),
        min |-> returns[1], p25 |-> percentile(returns, 25), median |-> percentile(returns, 50),
        p75 |-> percentile(returns, 75), max |-> returns[Len(returns)], squares |-> m2,
        cagrMin |-> cagrs[1], cagrMax |-> cagrs[Len(cagrs)]])
  /\ pc' = "window"
  /\ UNCHANGED <<history, navs, i, loop, rolling, welford>>

Next ==
  \/ AddRow \/ Load \/ FilterValidNAVs \/ Drawdown
  \/ StartWindow \/ Slide \/ Sort \/ Welford \/ StoreWindow
Spec == Init /\ [][Next]_vars

-----------------------------------------------------------------------------
(* Properties.                                                               *)

RowType == [nav : Values, day : Nat]
PeriodType == [from : Values \ {0}, to : Values \ {0}, days : Nat \ {0}]

(* The type invariant; every NAV that is divided by is positive.             *)
TypeOK ==
  /\ history \in Seq(RowType)
  /\ navs \in Seq([nav : Values \ {0}, day : Nat])
  /\ pc \in {"load", "filter", "drawdown", "window", "rolling", "stddev", "done"}
  /\ i \in Nat \ {0} /\ peak \in Values \cup {0} /\ maxDD \in Int
  /\ returns \in Seq(Int) /\ cagrs \in Seq(PeriodType)
  /\ mean \in Int /\ m2 \in Nat
  /\ Len(results) <= Len(WindowDays)

(* What the drawdown is by definition: the worst change from any row to the  *)
(* same or a later one, among the rows seen (computeMaxDrawdown keeps only a *)
(* running peak).                                                            *)
Seen == IF pc = "drawdown" THEN 1 .. i - 1 ELSE IF pc = "filter" THEN {} ELSE Rows
Declines == {Change(navs[p[1]].nav, navs[p[2]].nav) : p \in {q \in Seen \X Seen : q[1] <= q[2]}}
DrawdownIsWorst ==
  IF Seen = {} THEN maxDD = 0
  ELSE maxDD \in Declines /\ \A d \in Declines : maxDD <= d

Complete(k) == results[k].periods > 0
Stored == {k \in 1 .. Len(results) : Complete(k)}

(* No window reports a return worse than the drawdown it is stored with: the *)
(* drawdown is computed once, over all rows, and shared by the windows       *)
(* (computeAllOnce).                                                         *)
LossWithinDrawdown == \A k \in Stored : results[k].min >= results[k].dd

(* By definition, the returns over w rows, one for each row they end at.     *)
Ends(w) == {e \in Rows : e > w}
ReturnTo(e, w) == Change(navs[e - w].nav, navs[e].nav)

(* A window has metrics just when a row lies a whole window after another,   *)
(* and then every such pair is one period, counted once (computeWindow,      *)
(* computeRollingStats: n = windowDays is not enough).                       *)
PeriodsCounted ==
  \A k \in 1 .. Len(results) : results[k].periods = Cardinality(Ends(WindowDays[k]))

(* The statistics are in order, and half of the periods are on each side of  *)
(* the median, whatever order they came in (sort, percentile).               *)
MedianSplits ==
  \A k \in Stored :
    LET r == results[k]
        w == WindowDays[k]
    IN /\ r.min <= r.p25 /\ r.p25 <= r.median /\ r.median <= r.p75 /\ r.p75 <= r.max
       /\ 2 * Cardinality({e \in Ends(w) : ReturnTo(e, w) <= r.median}) >= r.periods
       /\ 2 * Cardinality({e \in Ends(w) : ReturnTo(e, w) >= r.median}) >= r.periods

(* The annualised returns and the total ones agree on whether the worst and  *)
(* the best period lost or gained, although they are sorted separately.      *)
CagrAgrees ==
  \A k \in Stored :
    LET r == results[k] IN
    /\ r.cagrMin.to < r.cagrMin.from <=> r.min < 0
    /\ r.cagrMax.to > r.cagrMax.from <=> r.max > 0

(* The single pass of stdDev gives the sum of squared deviations from the    *)
(* mean of all returns: n * m2 = n * sum of x^2 - (sum of x)^2.              *)
Sums(s) == LET sum[k \in 0 .. Len(s)] == IF k = 0 THEN 0 ELSE sum[k - 1] + s[k] IN sum
Total(s) == Sums(s)[Len(s)]
Squares(s) == [k \in 1 .. Len(s) |-> s[k] * s[k]]
SampleVariance ==
  pc = "window" /\ Len(results) \in Stored =>
    LET n == Len(returns) IN
    n * results[Len(results)].squares = n * Total(Squares(returns)) - Total(returns) * Total(returns)
=============================================================================
