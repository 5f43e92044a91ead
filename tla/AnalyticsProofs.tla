--------------------------- MODULE AnalyticsProofs ---------------------------
(***************************************************************************)
(* The metrics of Analytics, for every history, every set of windows and   *)
(* all NAVs that Scale is a multiple of: types, the drawdown, the number   *)
(* of periods, the order of the statistics, the median, the signs of the   *)
(* annualised returns and, where means are whole numbers of units, the     *)
(* variance.                                                               *)
(***************************************************************************)
EXTENDS Analytics, FiniteSetTheorems, WellFoundedInduction, TLAPS

(* What is left to see of the state while the drawdown is computed: the peak *)
(* is the NAV of some row seen, and the highest.                             *)
PeakInv ==
  IF i = 1 THEN peak = navs[1].nav
  ELSE \E j \in 1 .. i - 1 : peak = navs[j].nav /\ \A k \in 1 .. i - 1 : navs[k].nav <= peak

ValidRow == [nav : Values \ {0}, day : Nat]

DrawdownInv ==
  /\ history \in Seq(RowType)
  /\ navs \in Seq(ValidRow)
  /\ pc \in {"load", "filter", "drawdown"} => i \in Nat \ {0}
  /\ pc = "load" => navs = <<>> /\ i = 1
  /\ pc \in {"load", "filter"} => maxDD = 0
  /\ pc = "drawdown" => navs # <<>> /\ i - 1 <= Len(navs) /\ PeakInv
  /\ maxDD \in Int
  /\ DrawdownIsWorst

-----------------------------------------------------------------------------
LEMMA ElementOfSeq ==
  ASSUME NEW S, NEW s \in Seq(S), NEW k \in 1 .. Len(s)
  PROVE  s[k] \in S
OBVIOUS

LEMMA AppendToSeq ==
  ASSUME NEW S, NEW s \in Seq(S), NEW e \in S
  PROVE  Append(s, e) \in Seq(S)
OBVIOUS

LEMMA ValidRows ==
  ASSUME DrawdownInv
  PROVE  /\ Len(navs) \in Nat
         /\ \A k \in 1 .. Len(navs) : navs[k].nav \in Values \ {0} /\ navs[k].nav \in Nat
<1>1. navs \in Seq(ValidRow)
  BY DEF DrawdownInv
<1>2. \A k \in 1 .. Len(navs) : navs[k] \in ValidRow
  BY <1>1, ElementOfSeq
<1>3. \A e \in ValidRow : e.nav \in Values \ {0} /\ e.nav \in Nat
  BY ValuesAssumption DEF ValidRow
<1> QED
  BY <1>1, <1>2, <1>3

(* The larger of two numbers with the same product goes with the smaller.    *)
LEMMA SmallerQuotient ==
  ASSUME NEW a \in Nat \ {0}, NEW b \in Nat \ {0}, NEW x \in Int, NEW y \in Int,
         x * a = y * b, x * a >= 0, a <= b
  PROVE  x >= y
<1>1. SUFFICES ASSUME y > x PROVE FALSE
  OBVIOUS
<1>2. y >= 0
  OBVIOUS
<1>3. y * a <= y * b
  BY <1>2
<1>4. x * a < y * a
  BY <1>1
<1> QED
  BY <1>3, <1>4

(* A change is a whole number of units. *)
LEMMA ChangeIsInt ==
  ASSUME NEW a \in Values \ {0}, NEW v \in Values
  PROVE  /\ Scale \div a \in Int /\ Change(a, v) \in Int
         /\ Change(a, a) = 0
         /\ Change(a, v) = (Scale \div a) * v - Scale
<1>1. a \in Nat \ {0} /\ v \in Nat /\ Scale \in Nat /\ (Scale \div a) * a = Scale
  BY ValuesAssumption
<1>2. Scale \div a \in Int
  BY <1>1
<1>3. \A x \in Int : x * (v - a) = x * v - x * a /\ x * (v - a) \in Int /\ x * (a - a) = 0
  BY <1>1
<1> QED
  BY <1>1, <1>2, <1>3 DEF Change

(* The higher the NAV a decline is counted from, the deeper it is. *)
LEMMA ChangeAntitone ==
  ASSUME NEW a \in Values \ {0}, NEW b \in Values \ {0}, NEW v \in Values, a <= b
  PROVE  Change(b, v) <= Change(a, v)
<1> DEFINE x == Scale \div a
           y == Scale \div b
<1>1. a \in Nat \ {0} /\ b \in Nat \ {0} /\ v \in Nat /\ Scale \in Nat
  BY ValuesAssumption
<1>2. x \in Int /\ y \in Int /\ x * a = Scale /\ y * b = Scale
  BY ValuesAssumption, ChangeIsInt
<1>3. Change(a, v) = x * v - Scale /\ Change(b, v) = y * v - Scale
  BY ChangeIsInt
<1> HIDE DEF x, y
<1>4. x >= y
  BY <1>1, <1>2, SmallerQuotient
<1>5. x * v >= y * v
  BY <1>1, <1>2, <1>4
<1> QED
  BY <1>1, <1>2, <1>3, <1>5

-----------------------------------------------------------------------------
LEMMA InitDrawdown == Init => DrawdownInv
<1> SUFFICES ASSUME Init PROVE DrawdownInv
  OBVIOUS
<1>1. Seen = {}
  BY DEF Init, Seen, Rows
<1> QED
  BY <1>1 DEF Init, DrawdownInv, DrawdownIsWorst, RowType

(* Steps that leave the rows seen and the decline alone. *)
LEMMA SeenKept ==
  ASSUME DrawdownInv, navs' = navs, maxDD' = maxDD, Seen' = Seen
  PROVE  DrawdownIsWorst'
BY DEF DrawdownInv, DrawdownIsWorst, Declines, Change

(* The first turn of the loop. *)
LEMMA FirstTurn ==
  ASSUME DrawdownInv, pc = "drawdown", i = 1, Drawdown, i \in Rows
  PROVE  maxDD' = 0 /\ PeakInv' /\ DrawdownIsWorst'
<1> DEFINE v == navs[1].nav
<1>1. v \in Values \ {0} /\ v \in Nat /\ peak = v /\ maxDD = 0
  <2>1. v \in Values \ {0} /\ v \in Nat
    BY ValidRows DEF Rows
  <2>2. Seen = {}
    BY DEF Seen
  <2> QED
    BY <2>1, <2>2 DEF DrawdownInv, DrawdownIsWorst, PeakInv
<1>2. i' = 2 /\ pc' = "drawdown" /\ navs' = navs /\ Seen' = {1} /\ peak' = v
  BY <1>1 DEF Drawdown, Seen, NewPeak, Rows, DrawdownInv
<1>3. Change(v, v) = 0
  BY <1>1, ChangeIsInt
<1>4. maxDD' = 0
  BY <1>1, <1>2, <1>3 DEF Drawdown
<1>5. Declines' = {0}
  <2>1. \A p \in {q \in {1} \X {1} : q[1] <= q[2]} : p[1] = 1 /\ p[2] = 1
    OBVIOUS
  <2>2. <<1, 1>> \in {q \in {1} \X {1} : q[1] <= q[2]}
    OBVIOUS
  <2> QED
    BY <2>1, <2>2, <1>2, <1>3 DEF Declines, Change
<1>6. PeakInv'
  BY <1>1, <1>2 DEF PeakInv
<1> QED
  BY <1>2, <1>4, <1>5, <1>6 DEF DrawdownIsWorst

(* Every further turn: a decline that ends at the new row is no worse than   *)
(* the one from the peak, which starts at a row that was seen.               *)
LEMMA FurtherTurn ==
  ASSUME DrawdownInv, pc = "drawdown", i # 1, Drawdown, i \in Rows
  PROVE  maxDD' \in Int /\ PeakInv' /\ DrawdownIsWorst'
<1> DEFINE v == navs[i].nav
           dd == Change(peak', v)
<1>1. Len(navs) \in Nat /\ i \in 2 .. Len(navs)
  BY ValidRows DEF DrawdownInv, Rows
<1>2. \A k \in 1 .. i : navs[k].nav \in Values \ {0} /\ navs[k].nav \in Nat
  BY <1>1, ValidRows
<1>3. /\ i' = i + 1 /\ pc' = "drawdown" /\ navs' = navs
      /\ peak' = IF v > peak THEN v ELSE peak
      /\ maxDD' = IF dd < maxDD THEN dd ELSE maxDD
  BY DEF Drawdown, NewPeak
<1>4. PICK j \in 1 .. i - 1 : peak = navs[j].nav /\ \A k \in 1 .. i - 1 : navs[k].nav <= peak
  BY DEF DrawdownInv, PeakInv
<1>5. PICK h \in 1 .. i : peak' = navs[h].nav
  BY <1>1, <1>3, <1>4
<1>6. \A k \in 1 .. i : navs[k].nav <= peak'
  <2>1. v \in Nat /\ peak \in Nat /\ peak' \in Nat
    BY <1>1, <1>2, <1>4, <1>5
  <2>2. \A k \in 1 .. i : k \in 1 .. i - 1 \/ k = i
    BY <1>1
  <2>3. \A k \in 1 .. i - 1 : navs[k].nav \in Nat
    BY <1>1, <1>2
  <2> QED
    BY <2>1, <2>2, <2>3, <1>3, <1>4
<1>7. PeakInv'
  <2>1. i' # 1 /\ 1 .. i' - 1 = 1 .. i
    BY <1>1, <1>3
  <2> QED
    BY <2>1, <1>3, <1>5, <1>6 DEF PeakInv
<1>8. Seen = 1 .. i - 1 /\ Seen' = 1 .. i /\ Seen # {} /\ Seen' # {}
  <2>1. Seen = 1 .. i - 1 /\ Seen' = 1 .. i
    BY <1>1, <1>3 DEF Seen
  <2>2. 1 \in 1 .. i - 1 /\ 1 \in 1 .. i
    BY <1>1
  <2> QED
    BY <2>1, <2>2
<1>9. maxDD \in Int /\ maxDD \in Declines /\ \A d \in Declines : maxDD <= d
  BY <1>8 DEF DrawdownInv, DrawdownIsWorst
<1>10. dd \in Int /\ maxDD' \in Int /\ maxDD' <= maxDD /\ maxDD' <= dd
  <2>1. peak' \in Values \ {0} /\ v \in Values
    BY <1>1, <1>2, <1>5
  <2>2. dd \in Int
    BY <2>1, ChangeIsInt
  <2> HIDE DEF dd
  <2> QED
    BY <2>2, <1>3, <1>9
<1>11. Declines' = {Change(navs[p[1]].nav, navs[p[2]].nav) :
                      p \in {q \in (1 .. i) \X (1 .. i) : q[1] <= q[2]}}
  BY <1>3, <1>8 DEF Declines, Change
<1>12. maxDD' \in Declines'
  <2>1. Declines \subseteq Declines'
    <3>1. Declines = {Change(navs[p[1]].nav, navs[p[2]].nav) :
                        p \in {q \in (1 .. i - 1) \X (1 .. i - 1) : q[1] <= q[2]}}
      BY <1>8 DEF Declines
    <3>2. 1 .. i - 1 \subseteq 1 .. i
      BY <1>1
    <3> HIDE DEF v, dd
    <3> QED
      BY <3>1, <3>2, <1>11
  <2>2. dd \in Declines'
    <3>1. <<h, i>> \in {q \in (1 .. i) \X (1 .. i) : q[1] <= q[2]}
      BY <1>1
    <3>2. dd = Change(navs[h].nav, navs[i].nav)
      BY <1>5
    <3> QED
      BY <3>1, <3>2, <1>11
  <2> HIDE DEF dd
  <2> QED
    BY <2>1, <2>2, <1>3, <1>9
<1>13. ASSUME NEW d \in Declines' PROVE maxDD' <= d
  <2>1. PICK p \in (1 .. i) \X (1 .. i) :
          p[1] <= p[2] /\ d = Change(navs[p[1]].nav, navs[p[2]].nav)
    BY <1>11, <1>13
  <2>2. p[1] \in 1 .. i /\ p[2] \in 1 .. i
    OBVIOUS
  <2>3. /\ navs[p[1]].nav \in Values \ {0} /\ navs[p[2]].nav \in Values
        /\ peak' \in Values \ {0}
    BY <2>2, <1>2, <1>5
  <2>4. d \in Int
    BY <2>1, <2>3, ChangeIsInt
  <2>5. CASE p[2] = i
    <3>1. dd <= d
      BY <2>1, <2>2, <2>3, <2>5, <1>6, ChangeAntitone
    <3> HIDE DEF dd
    <3> QED
      BY <3>1, <2>4, <1>10
  <2>6. CASE p[2] # i
    <3>1. p \in {q \in (1 .. i - 1) \X (1 .. i - 1) : q[1] <= q[2]}
      BY <2>1, <2>2, <2>6, <1>1
    <3>2. d \in Declines
      BY <3>1, <2>1, <1>8 DEF Declines
    <3> HIDE DEF dd
    <3> QED
      BY <3>2, <2>4, <1>9, <1>10
  <2> QED
    BY <2>5, <2>6
<1> QED
  BY <1>7, <1>8, <1>10, <1>12, <1>13 DEF DrawdownIsWorst

-----------------------------------------------------------------------------
LEMMA NextDrawdown == DrawdownInv /\ [Next]_vars => DrawdownInv'
<1> SUFFICES ASSUME DrawdownInv, [Next]_vars PROVE DrawdownInv'
  OBVIOUS
<1> DEFINE Same == UNCHANGED <<history, navs, maxDD>>
<1>1. CASE AddRow
  <2>1. pc = "load" /\ pc' = "load" /\ i' = i /\ navs' = navs /\ maxDD' = maxDD
    BY <1>1 DEF AddRow, loop
  <2>2. history' \in Seq(RowType)
    <3>1. PICK v \in Values, g \in Gaps :
            history' = Append(history, [nav |-> v, day |-> IF Len(history) = 0 THEN 0
                                                           ELSE history[Len(history)].day + g])
      BY <1>1 DEF AddRow
    <3>2. history \in Seq(RowType) /\ g \in Nat
      BY ValuesAssumption DEF DrawdownInv
    <3>3. Len(history) # 0 => history[Len(history)].day \in Nat
      <4>1. Len(history) # 0 => Len(history) \in 1 .. Len(history)
        BY <3>2
      <4>2. Len(history) # 0 => history[Len(history)] \in RowType
        BY <3>2, <4>1, ElementOfSeq
      <4> QED
        BY <4>2 DEF RowType
    <3>4. [nav |-> v, day |-> IF Len(history) = 0 THEN 0
                              ELSE history[Len(history)].day + g] \in RowType
      BY <3>2, <3>3 DEF RowType
    <3> QED
      BY <3>1, <3>2, <3>4
  <2>3. Seen' = Seen
    BY <2>1 DEF Seen, Rows
  <2> QED
    BY <2>1, <2>2, <2>3, SeenKept DEF DrawdownInv
<1>2. CASE Load
  <2>1. /\ pc = "load" /\ pc' \in {"done", "filter"} /\ i' = i
        /\ navs = <<>> /\ navs' = <<>> /\ history' = history /\ maxDD = 0 /\ maxDD' = 0
    BY <1>2 DEF Load, loop, DrawdownInv
  <2>2. Seen = {} /\ Seen' = {}
    BY <2>1 DEF Seen, Rows
  <2>3. DrawdownIsWorst'
    BY <2>1, <2>2 DEF DrawdownIsWorst
  <2> QED
    BY <2>1, <2>3 DEF DrawdownInv
<1>3. CASE FilterValidNAVs
  <2>1. pc = "filter" /\ maxDD = 0 /\ history' = history /\ i \in Nat \ {0}
    BY <1>3 DEF FilterValidNAVs, DrawdownInv
  <2>2. CASE i <= Len(history) /\ pc' = pc /\ maxDD' = maxDD /\ i' = i + 1
             /\ navs' = IF Valid(history[i]) THEN Append(navs, history[i]) ELSE navs
    <3>1. history[i] \in RowType
      <4>1. history \in Seq(RowType) /\ i \in 1 .. Len(history)
        BY <2>1, <2>2 DEF DrawdownInv
      <4> QED
        BY <4>1, ElementOfSeq
    <3>2. Valid(history[i]) => history[i] \in ValidRow
      BY <3>1, ValuesAssumption DEF Valid, RowType, ValidRow
    <3>3. navs' \in Seq(ValidRow)
      BY <2>2, <3>2, AppendToSeq DEF DrawdownInv
    <3>4. Seen' = {}
      BY <2>1, <2>2 DEF Seen
    <3>5. DrawdownIsWorst'
      BY <2>1, <2>2, <3>4 DEF DrawdownIsWorst
    <3> QED
      BY <2>1, <2>2, <3>3, <3>5 DEF DrawdownInv
  <2>3. CASE navs # <<>> /\ navs' = navs /\ peak' = navs[1].nav /\ maxDD' = 0
             /\ i' = 1 /\ pc' = "drawdown"
    <3>1. Seen' = {}
      BY <2>3 DEF Seen
    <3>2. DrawdownIsWorst'
      BY <2>3, <3>1 DEF DrawdownIsWorst
    <3>3. PeakInv'
      BY <2>3 DEF PeakInv
    <3>4. i' - 1 <= Len(navs')
      BY <2>3 DEF DrawdownInv
    <3> QED
      BY <2>1, <2>3, <3>2, <3>3, <3>4 DEF DrawdownInv
  <2> QED
    BY <1>3, <2>2, <2>3 DEF FilterValidNAVs, loop
<1>4. CASE Drawdown
  <2>1. pc = "drawdown" /\ history' = history /\ navs' = navs
    BY <1>4 DEF Drawdown
  <2>2. CASE i \in Rows
    <3>1. maxDD' \in Int /\ PeakInv' /\ DrawdownIsWorst'
      BY <1>4, <2>1, <2>2, FirstTurn, FurtherTurn
    <3>2. i' = i + 1 /\ pc' = "drawdown" /\ i \in Nat \ {0} /\ i <= Len(navs)
      BY <1>4, <2>1, <2>2 DEF Drawdown, Rows, DrawdownInv
    <3> QED
      BY <2>1, <3>1, <3>2 DEF DrawdownInv
  <2>3. CASE i \notin Rows
    <3>1. pc' = "window" /\ i' = i /\ maxDD' = maxDD
      BY <1>4, <2>3 DEF Drawdown, loop
    <3>2. Seen = Rows /\ Seen' = Rows
      BY <2>1, <2>3, <3>1 DEF Seen, Rows, DrawdownInv
    <3> QED
      BY <2>1, <3>1, <3>2, SeenKept DEF DrawdownInv
  <2> QED
    BY <2>2, <2>3
<1>5. ASSUME pc \in {"window", "rolling", "stddev"}, pc' \in {"window", "rolling", "stddev", "done"},
             Same
      PROVE  DrawdownInv'
  <2>1. Seen' = Seen
    BY <1>5 DEF Seen, Rows
  <2> QED
    BY <1>5, <2>1, SeenKept DEF DrawdownInv
<1>6. CASE StartWindow
  BY <1>5, <1>6 DEF StartWindow, loop
<1>7. CASE Slide
  BY <1>5, <1>7 DEF Slide, loop
<1>8. CASE Sort
  BY <1>5, <1>8 DEF Sort, loop
<1>9. CASE Welford
  BY <1>5, <1>9 DEF Welford, loop
<1>10. CASE StoreWindow
  BY <1>5, <1>10 DEF StoreWindow, loop
<1>11. CASE UNCHANGED vars
  <2>1. Seen' = Seen
    BY <1>11 DEF vars, loop, Seen, Rows
  <2> QED
    BY <1>11, <2>1, SeenKept DEF vars, loop, DrawdownInv, PeakInv
<1> QED
  BY <1>1, <1>2, <1>3, <1>4, <1>6, <1>7, <1>8, <1>9, <1>10, <1>11 DEF Next

(* The drawdown stored with every window is the worst decline from any row   *)
(* of the history to a later one, for every history and every set of NAVs    *)
(* (computeMaxDrawdown).                                                     *)
THEOREM DrawdownCorrect == Spec => []DrawdownIsWorst
<1>1. DrawdownInv => DrawdownIsWorst
  BY DEF DrawdownInv
<1> QED
  BY <1>1, InitDrawdown, NextDrawdown, PTL DEF Spec

LEMMA DrawdownAlways == Spec => []DrawdownInv
BY InitDrawdown, NextDrawdown, PTL DEF Spec

-----------------------------------------------------------------------------
(* The periods of a window.                                                  *)

Started == pc \in {"rolling", "stddev"}

(* Each return is that of a period of its own. *)
Paired(s) ==
  \E g \in Injection(1 .. Len(s), Ends(Window)) :
    \A k \in 1 .. Len(s) : s[k] = ReturnTo(g[k], Window)
SortedUp(s) == \A j, k \in DOMAIN s : j < k => s[j] <= s[k]

PeriodsInv ==
  /\ Len(results) <= Len(WindowDays)
  /\ Started => ~Finished /\ Window <= Len(navs)
  /\ pc = "rolling" =>
       /\ i - 1 <= Len(navs) /\ Len(returns) = i - 1 - Window
       /\ \A k \in 1 .. Len(returns) : returns[k] = ReturnTo(k + Window, Window)
  /\ pc = "stddev" =>
       /\ returns # <<>> /\ Len(returns) = Len(navs) - Window
       /\ SortedUp(returns) /\ Paired(returns)

ResultsAreSeq == \E S : results \in Seq(S)
TypedInv == TypeOK /\ ResultsAreSeq /\ PeriodsInv

LEMMA AppendAny ==
  ASSUME NEW s, NEW e, NEW S, s \in Seq(S)
  PROVE  /\ \E T : Append(s, e) \in Seq(T)
         /\ Len(s) \in Nat /\ Len(Append(s, e)) = Len(s) + 1
         /\ \A k \in 1 .. Len(s) : Append(s, e)[k] = s[k]
         /\ Append(s, e)[Len(s) + 1] = e
<1>1. s \in Seq(S \cup {e})
  OBVIOUS
<1>2. Append(s, e) \in Seq(S \cup {e})
  BY <1>1, AppendToSeq
<1> QED
  BY <1>1, <1>2

LEMMA AppendResult ==
  ASSUME ResultsAreSeq, NEW r, results' = Append(results, r)
  PROVE  /\ ResultsAreSeq'
         /\ Len(results) \in Nat /\ Len(results') = Len(results) + 1
         /\ \A k \in 1 .. Len(results) : results'[k] = results[k]
         /\ results'[Len(results) + 1] = r
BY AppendAny DEF ResultsAreSeq

LEMMA WindowTyped ==
  ASSUME ResultsAreSeq, Len(results) <= Len(WindowDays)
  PROVE  /\ Len(results) \in Nat /\ Len(WindowDays) \in Nat
         /\ ~Finished => Window \in Nat \ {0} /\ Len(results) + 1 <= Len(WindowDays)
<1>1. Len(results) \in Nat /\ WindowDays \in Seq(Nat \ {0}) /\ Len(WindowDays) \in Nat
  BY WindowsAssumption DEF ResultsAreSeq
<1>2. ~Finished => Len(results) + 1 \in 1 .. Len(WindowDays)
  BY <1>1 DEF Finished
<1> QED
  BY <1>1, <1>2, ElementOfSeq DEF Window

LEMMA RearrangedSeq ==
  ASSUME NEW S, NEW s \in Seq(S), NEW t \in Rearranged(s)
  PROVE  /\ t \in Seq(S) /\ Len(t) = Len(s) /\ DOMAIN t = 1 .. Len(s)
         /\ \E p \in Injection(1 .. Len(s), 1 .. Len(s)) : \A k \in 1 .. Len(s) : t[k] = s[p[k]]
<1>1. DOMAIN s = 1 .. Len(s) /\ Len(s) \in Nat
  OBVIOUS
<1>2. PICK p \in Bijection(1 .. Len(s), 1 .. Len(s)) : t = [k \in 1 .. Len(s) |-> s[p[k]]]
  BY <1>1 DEF Rearranged
<1>3. p \in Injection(1 .. Len(s), 1 .. Len(s)) /\ p \in [1 .. Len(s) -> 1 .. Len(s)]
  BY DEF Bijection, Injection
<1>4. \A k \in 1 .. Len(s) : s[p[k]] \in S
  BY <1>3
<1>5. t \in Seq(S) /\ Len(t) = Len(s)
  BY <1>1, <1>2, <1>4
<1> QED
  BY <1>2, <1>3, <1>5

LEMMA TimesMonotone == \A n \in Nat, x, y \in Int : x <= y => n * x <= n * y
OBVIOUS

LEMMA TimesLess == \A n, x \in Int : n * (x - 1) = n * x - n /\ n * x \in Int
OBVIOUS

LEMMA TimesAtLeast == \A n \in Nat \ {0}, x \in Int : x <= 0 => n * (-x) >= -x /\ n * (-x) = -(n * x)
OBVIOUS

LEMMA TimesSigns == \A x, y \in Int : x * y = (-x) * (-y) /\ (x >= 0 /\ y >= 0 => x * y \in Nat)
OBVIOUS

(* Welford's update: the old mean, the new one and the value lie in order,   *)
(* so that what is added to the sum of squares is never negative.            *)
LEMMA QuotientBetween ==
  ASSUME NEW d \in Int, NEW n \in Nat \ {0}
  PROVE  /\ d \div n \in Int
         /\ d >= 0 => 0 <= d \div n /\ d \div n <= d
         /\ d <= 0 => d <= d \div n /\ d \div n <= 0
<1>1. d \div n \in Int /\ n * (d \div n) <= d /\ d < n * (d \div n) + n
  OBVIOUS
<1> DEFINE q == d \div n
<1>2. CASE d >= 0
  <2>1. q >= 0
    <3>1. SUFFICES ASSUME q <= -1 PROVE FALSE
      BY <1>1
    <3>2. n * q <= -n
      BY <1>1, <3>1
    <3> QED
      BY <1>1, <1>2, <3>2
  <2>2. q <= n * q
    BY <1>1, <2>1
  <2> QED
    BY <1>1, <1>2, <2>1, <2>2
<1>3. CASE d <= 0
  <2>1. q <= 0
    <3>1. SUFFICES ASSUME q >= 1 PROVE FALSE
      BY <1>1
    <3>2. n * q >= n
      BY <1>1, <3>1
    <3> QED
      BY <1>1, <1>3, <3>2
  <2>2. q >= d
    <3>1. SUFFICES ASSUME q <= d - 1 PROVE FALSE
      BY <1>1
    <3>2. n * q <= n * (d - 1)
      BY <1>1, <3>1, TimesMonotone
    <3>3. n * (d - 1) = n * d - n /\ n * d \in Int
      BY TimesLess
    <3>4. n * d <= d
      <4>1. n * (-d) >= -d /\ n * (-d) = -(n * d)
        BY <1>3, TimesAtLeast
      <4> QED
        BY <3>3, <4>1
    <3> QED
      BY <1>1, <3>2, <3>3, <3>4
  <2> QED
    BY <1>1, <1>3, <2>1, <2>2
<1> QED
  BY <1>1, <1>2, <1>3

LEMMA WelfordTyped ==
  ASSUME NEW m \in Int, NEW s \in Nat, NEW v \in Int, NEW n \in Nat \ {0}
  PROVE  /\ m + (v - m) \div n \in Int
         /\ SquareUpdate(s, v, m, m + (v - m) \div n) \in Nat
<1> DEFINE d == v - m
           q == d \div n
<1>1. /\ d \in Int /\ q \in Int
      /\ d >= 0 => (0 <= q /\ q <= d)
      /\ d <= 0 => (d <= q /\ q <= 0)
  BY QuotientBetween
<1> HIDE DEF q, d
<1>2. d * (d - q) \in Nat
  <2>1. CASE d >= 0
    <3>1. d - q \in Int /\ d - q >= 0
      BY <1>1, <2>1
    <3> QED
      BY <1>1, <2>1, <3>1, TimesSigns
  <2>2. CASE d <= 0
    <3>1. -d \in Int /\ -d >= 0 /\ q - d \in Int /\ q - d >= 0 /\ -(d - q) = q - d /\ d - q \in Int
      BY <1>1, <2>2
    <3>2. d * (d - q) = (-d) * (q - d)
      BY <1>1, <3>1, TimesSigns
    <3>3. (-d) * (q - d) \in Nat
      BY <3>1, TimesSigns
    <3> QED
      BY <3>2, <3>3
  <2> QED
    BY <1>1, <2>1, <2>2
<1>3. SquareUpdate(s, v, m, m + q) = s + d * (d - q)
  <2>1. v - (m + q) = d - q
    BY <1>1 DEF d
  <2> QED
    BY <2>1 DEF SquareUpdate, d
<1> QED
  BY <1>1, <1>2, <1>3 DEF q, d

-----------------------------------------------------------------------------
(* Type correctness, with the periods.                                       *)

LEMMA InitTyped == Init => TypedInv
<1> SUFFICES ASSUME Init PROVE TypedInv
  OBVIOUS
<1>1. TypeOK
  BY WindowsAssumption DEF Init, TypeOK, RowType, PeriodType
<1>2. ResultsAreSeq
  <2>1. results \in Seq({})
    BY DEF Init
  <2> QED
    BY <2>1 DEF ResultsAreSeq
<1>3. PeriodsInv
  BY WindowsAssumption DEF Init, PeriodsInv, Started
<1> QED
  BY <1>1, <1>2, <1>3 DEF TypedInv

(* A step that is no part of the work on a window. *)
LEMMA OutsideWindows ==
  ASSUME TypedInv, UNCHANGED <<rolling, welford, results>>, pc' \notin {"rolling", "stddev"},
         pc' \in {"load", "filter", "drawdown", "window", "done"},
         i' \in Nat \ {0}, peak' \in Values \cup {0}, maxDD' \in Int,
         history' \in Seq(RowType), navs' \in Seq(ValidRow)
  PROVE  TypedInv'
<1>1. TypeOK'
  BY DEF TypedInv, TypeOK, rolling, welford, ValidRow
<1>2. ResultsAreSeq'
  BY DEF TypedInv, ResultsAreSeq
<1>3. PeriodsInv'
  BY DEF TypedInv, PeriodsInv, Started
<1> QED
  BY <1>1, <1>2, <1>3 DEF TypedInv

LEMMA LoadTyped ==
  ASSUME DrawdownInv, DrawdownInv', TypedInv, AddRow \/ Load \/ FilterValidNAVs \/ Drawdown
  PROVE  TypedInv'
<1>1. /\ history' \in Seq(RowType) /\ navs' \in Seq(ValidRow) /\ maxDD' \in Int
      /\ i \in Nat \ {0} /\ peak \in Values \cup {0}
  BY DEF DrawdownInv, TypedInv, TypeOK
<1>2. CASE AddRow
  <2>1. UNCHANGED <<rolling, welford, results>> /\ pc' = "load" /\ i' = i /\ peak' = peak
    BY <1>2 DEF AddRow, loop
  <2> QED
    BY <1>1, <2>1, OutsideWindows
<1>3. CASE Load
  <2>1. UNCHANGED <<rolling, welford, results>> /\ pc' \in {"done", "filter"} /\ i' = i /\ peak' = peak
    BY <1>3 DEF Load, loop
  <2> QED
    BY <1>1, <2>1, OutsideWindows
<1>4. CASE FilterValidNAVs
  <2>1. UNCHANGED <<rolling, welford, results>> /\ pc' \in {"filter", "drawdown"} /\ i' \in Nat \ {0}
    BY <1>1, <1>4 DEF FilterValidNAVs
  <2>2. peak' \in Values \cup {0}
    <3>1. CASE navs # <<>> /\ peak' = navs[1].nav
      <4>1. 1 \in 1 .. Len(navs)
        BY <3>1 DEF DrawdownInv
      <4> QED
        BY <3>1, <4>1, ValidRows
    <3>2. CASE peak' = peak
      BY <1>1, <3>2
    <3> QED
      BY <1>4, <3>1, <3>2 DEF FilterValidNAVs, loop
  <2> QED
    BY <1>1, <2>1, <2>2, OutsideWindows
<1>5. CASE Drawdown
  <2>1. UNCHANGED <<rolling, welford, results>> /\ pc' \in {"drawdown", "window"} /\ i' \in Nat \ {0}
    BY <1>1, <1>5 DEF Drawdown
  <2>2. peak' \in Values \cup {0}
    <3>1. CASE i \in Rows /\ peak' \in {peak, navs[i].nav}
      BY <1>1, <3>1, ValidRows DEF Rows
    <3>2. CASE peak' = peak
      BY <1>1, <3>2
    <3> QED
      BY <1>5, <3>1, <3>2 DEF Drawdown, NewPeak, loop
  <2> QED
    BY <1>1, <2>1, <2>2, OutsideWindows
<1> QED
  BY <1>2, <1>3, <1>4, <1>5

LEMMA NavsTyped ==
  ASSUME DrawdownInv, TypedInv
  PROVE  /\ Len(navs) \in Nat /\ Len(results) \in Nat /\ Len(WindowDays) \in Nat
         /\ Started => Window \in Nat \ {0} /\ ~Finished
         /\ i \in Nat \ {0} /\ Len(returns) \in Nat
         /\ \A k \in 1 .. Len(returns) : returns[k] \in Int
         /\ DOMAIN returns = 1 .. Len(returns)
<1>1. Len(navs) \in Nat
  BY ValidRows
<1>2. returns \in Seq(Int) /\ i \in Nat \ {0}
  BY DEF TypedInv, TypeOK
<1>3. Len(returns) \in Nat /\ DOMAIN returns = 1 .. Len(returns) /\ \A k \in 1 .. Len(returns) : returns[k] \in Int
  BY <1>2, ElementOfSeq
<1> QED
  BY <1>1, <1>2, <1>3, WindowTyped DEF TypedInv, PeriodsInv

(* The steps of a window leave the rows alone. *)
LEMMA WindowSteps ==
  ASSUME StartWindow \/ Slide \/ Sort \/ Welford \/ StoreWindow
  PROVE  history' = history /\ navs' = navs /\ peak' = peak /\ maxDD' = maxDD
BY DEF StartWindow, Slide, Sort, Welford, StoreWindow, loop

LEMMA StoredTyped ==
  ASSUME DrawdownInv, TypedInv, NEW r, results' = Append(results, r), ~Finished,
         pc' = "window", i' = i, navs' = navs, history' = history, peak' = peak, maxDD' = maxDD,
         returns' \in Seq(Int), cagrs' \in Seq(PeriodType), UNCHANGED welford
  PROVE  TypedInv'
<1>1. ResultsAreSeq' /\ Len(results') = Len(results) + 1
  BY AppendResult DEF TypedInv
<1>2. Len(results) + 1 <= Len(WindowDays)
  BY WindowTyped DEF TypedInv, PeriodsInv
<1>3. TypeOK'
  BY <1>1, <1>2 DEF TypedInv, TypeOK, welford
<1>4. PeriodsInv'
  BY <1>1, <1>2 DEF PeriodsInv, Started
<1> QED
  BY <1>1, <1>3, <1>4 DEF TypedInv

LEMMA StartTyped ==
  ASSUME DrawdownInv, TypedInv, StartWindow PROVE TypedInv'
<1>1. /\ history' = history /\ navs' = navs /\ peak' = peak /\ maxDD' = maxDD /\ UNCHANGED welford
      /\ returns' = <<>> /\ cagrs' = <<>>
  BY DEF StartWindow, loop
<1>2. returns' \in Seq(Int) /\ cagrs' \in Seq(PeriodType)
  BY <1>1
<1>3. CASE Finished /\ pc' = "done" /\ i' = i /\ results' = results
  <2>1. TypeOK'
    BY <1>1, <1>2, <1>3 DEF TypedInv, TypeOK, welford
  <2>2. ResultsAreSeq' /\ PeriodsInv'
    BY <1>3 DEF TypedInv, ResultsAreSeq, PeriodsInv, Started
  <2> QED
    BY <2>1, <2>2 DEF TypedInv
<1>4. CASE ~Finished /\ results' = Append(results, Insufficient) /\ pc' = "window" /\ i' = i
  BY <1>1, <1>2, <1>4, StoredTyped
<1>5. CASE ~Finished /\ Len(navs) >= Window /\ pc' = "rolling" /\ i' = Window + 1 /\ results' = results
  <2>1. Window \in Nat \ {0} /\ Window' = Window /\ ~Finished'
    BY <1>5, WindowTyped DEF TypedInv, PeriodsInv, Window, Finished
  <2>2. TypeOK'
    BY <1>1, <1>2, <1>5, <2>1 DEF TypedInv, TypeOK, welford
  <2>3. Len(returns') = 0
    BY <1>1
  <2>4. PeriodsInv'
    BY <1>1, <1>5, <2>1, <2>3, NavsTyped DEF TypedInv, PeriodsInv, Started
  <2>5. ResultsAreSeq'
    BY <1>5 DEF TypedInv, ResultsAreSeq
  <2> QED
    BY <2>2, <2>4, <2>5 DEF TypedInv
<1> QED
  BY <1>3, <1>4, <1>5 DEF StartWindow, FirstEnd

LEMMA SlideTyped ==
  ASSUME DrawdownInv, TypedInv, Slide PROVE TypedInv'
<1> DEFINE w == Window
           s == navs[i - w]
           e == navs[i]
<1>1. /\ pc = "rolling" /\ pc' = "rolling" /\ i \in 1 .. Len(navs) /\ i' = i + 1
      /\ navs' = navs /\ history' = history /\ results' = results /\ UNCHANGED welford
      /\ peak' = peak /\ maxDD' = maxDD
      /\ returns' = Append(returns, Change(s.nav, e.nav))
  BY DEF Slide, Rows, loop
<1>2. /\ w \in Nat \ {0} /\ ~Finished /\ w <= Len(navs) /\ Len(navs) \in Nat /\ i \in Nat \ {0}
      /\ Len(returns) \in Nat /\ Len(returns) = i - 1 - w
      /\ \A k \in 1 .. Len(returns) : returns[k] = ReturnTo(k + w, w)
  BY <1>1, NavsTyped DEF TypedInv, PeriodsInv, Started
<1>3. i - w \in 1 .. Len(navs) /\ s \in ValidRow /\ e \in ValidRow
  <2>1. i - w \in 1 .. Len(navs)
    BY <1>1, <1>2
  <2>2. navs \in Seq(ValidRow)
    BY DEF DrawdownInv
  <2> QED
    BY <1>1, <2>1, <2>2, ElementOfSeq
<1>4. s.nav \in Values \ {0} /\ e.nav \in Values \ {0} /\ s.day \in Nat /\ e.day \in Nat
  BY <1>3 DEF ValidRow
<1>5. Change(s.nav, e.nav) \in Int
  BY <1>4, ChangeIsInt
<1>6. returns' \in Seq(Int)
  BY <1>1, <1>5, AppendToSeq DEF TypedInv, TypeOK
<1>7. cagrs' \in Seq(PeriodType)
  <2> DEFINE p == [from |-> s.nav, to |-> e.nav, days |-> e.day - s.day]
  <2>1. CASE e.day - s.day > 0 /\ cagrs' = Append(cagrs, p)
    <3>1. p \in PeriodType
      BY <1>4, <2>1 DEF PeriodType
    <3> HIDE DEF p
    <3> QED
      BY <2>1, <3>1, AppendToSeq DEF TypedInv, TypeOK
  <2>2. CASE cagrs' = cagrs
    BY <2>2 DEF TypedInv, TypeOK
  <2> QED
    BY <2>1, <2>2 DEF Slide
<1>8. TypeOK'
  BY <1>1, <1>2, <1>6, <1>7 DEF TypedInv, TypeOK, welford
<1>9. ResultsAreSeq'
  BY <1>1 DEF TypedInv, ResultsAreSeq
<1>10. w = Window' /\ (Finished' <=> Finished)
  BY <1>1 DEF Window, Finished
<1>11. /\ Len(returns') = Len(returns) + 1 /\ returns'[Len(returns) + 1] = Change(s.nav, e.nav)
       /\ \A k \in 1 .. Len(returns) : returns'[k] = returns[k]
  BY <1>1, <1>5 DEF TypedInv, TypeOK
<1>12. \A k \in 1 .. Len(returns') : returns'[k] = ReturnTo(k + w, w)
  <2> SUFFICES ASSUME NEW k \in 1 .. Len(returns') PROVE returns'[k] = ReturnTo(k + w, w)
    OBVIOUS
  <2>1. CASE k \in 1 .. Len(returns)
    BY <1>2, <1>11, <2>1
  <2>2. CASE k = Len(returns) + 1
    <3>1. k + w = i
      BY <1>2, <2>2
    <3> QED
      BY <1>11, <2>2, <3>1 DEF ReturnTo
  <2> QED
    BY <1>2, <1>11, <2>1, <2>2
<1>13. \A k \in 1 .. Len(returns') : ReturnTo(k + w, w) = ReturnTo(k + Window, Window)'
  BY <1>1, <1>10 DEF ReturnTo, Change
<1>14. i' - 1 <= Len(navs') /\ Len(returns') = i' - 1 - w
  BY <1>1, <1>2, <1>11
<1>15. PeriodsInv'
  <2> HIDE DEF w, s, e
  <2> QED
    BY <1>1, <1>2, <1>10, <1>12, <1>13, <1>14 DEF TypedInv, PeriodsInv, Started
<1> QED
  BY <1>8, <1>9, <1>15 DEF TypedInv

LEMMA EndsInterval ==
  ASSUME NEW w \in Nat \ {0}, Len(navs) \in Nat
  PROVE  /\ Ends(w) = w + 1 .. Len(navs) /\ IsFiniteSet(Ends(w))
         /\ Cardinality(Ends(w)) = IF w >= Len(navs) THEN 0 ELSE Len(navs) - w
<1>1. Ends(w) = w + 1 .. Len(navs)
  BY DEF Ends, Rows
<1> DEFINE n == Len(navs)
           a == w + 1
<1>2. a \in Int /\ n \in Int
  OBVIOUS
<1>3. IsFiniteSet(a .. n) /\ Cardinality(a .. n) = IF a > n THEN 0 ELSE n - a + 1
  <2> HIDE DEF a, n
  <2> QED
    BY <1>2, FS_Interval
<1>4. (IF a > n THEN 0 ELSE n - a + 1) = IF w >= n THEN 0 ELSE n - w
  OBVIOUS
<1> QED
  BY <1>1, <1>3, <1>4

(* Sorting keeps each return with a period of its own. *)
LEMMA SortedPaired ==
  ASSUME DrawdownInv, TypedInv, pc = "rolling", NEW t \in SortedReturns(returns)
  PROVE  /\ t \in Seq(Int) /\ Len(t) = Len(returns) /\ SortedUp(t) /\ Paired(t)
<1> DEFINE n == Len(returns)
           w == Window
<1>1. returns \in Seq(Int) /\ t \in Rearranged(returns) /\ SortedUp(t)
  BY DEF TypedInv, TypeOK, SortedReturns, SortedUp
<1>2. t \in Seq(Int) /\ Len(t) = n
  BY <1>1, RearrangedSeq
<1>3. PICK p \in Injection(1 .. n, 1 .. n) : \A k \in 1 .. n : t[k] = returns[p[k]]
  BY <1>1, RearrangedSeq
<1>4. p \in [1 .. n -> 1 .. n] /\ \A j, k \in 1 .. n : p[j] = p[k] => j = k
  BY <1>3 DEF Injection, IsInjective
<1>5. /\ w \in Nat \ {0} /\ n \in Nat /\ Len(navs) \in Nat /\ i - 1 <= Len(navs)
      /\ n = i - 1 - w /\ i \in Nat
      /\ \A k \in 1 .. n : returns[k] = ReturnTo(k + w, w)
  BY NavsTyped DEF TypedInv, PeriodsInv, Started
<1> DEFINE g == [k \in 1 .. n |-> p[k] + w]
<1>6. \A k \in 1 .. n : p[k] + w \in Ends(w)
  BY <1>4, <1>5, EndsInterval
<1>7. g \in Injection(1 .. n, Ends(w))
  <2>1. g \in [1 .. n -> Ends(w)]
    BY <1>6
  <2>2. \A j, k \in 1 .. n : g[j] = g[k] => j = k
    BY <1>4, <1>5
  <2> QED
    BY <2>1, <2>2 DEF Injection, IsInjective
<1>8. \A k \in 1 .. n : t[k] = ReturnTo(g[k], w)
  BY <1>3, <1>4, <1>5
<1>9. Paired(t)
  <2> HIDE DEF g
  <2> QED
    BY <1>2, <1>7, <1>8 DEF Paired
<1> QED
  BY <1>1, <1>2, <1>9

LEMMA SortTyped ==
  ASSUME DrawdownInv, TypedInv, Sort PROVE TypedInv'
<1>1. /\ pc = "rolling" /\ i \notin Rows /\ navs' = navs /\ history' = history
      /\ peak' = peak /\ maxDD' = maxDD
  BY DEF Sort, loop
<1>2. ~Finished /\ Window \in Nat \ {0} /\ Window <= Len(navs)
  BY <1>1, NavsTyped DEF Started, TypedInv, PeriodsInv
<1>3. CASE returns = <<>>
  <2>1. /\ results' = Append(results, Insufficient) /\ pc' = "window" /\ i' = i
        /\ returns' \in Seq(Int) /\ cagrs' \in Seq(PeriodType) /\ UNCHANGED welford
    BY <1>3 DEF Sort, rolling, TypedInv, TypeOK
  <2> QED
    BY <1>1, <1>2, <2>1, StoredTyped
<1>4. CASE returns # <<>>
  <2>1. /\ returns' \in SortedReturns(returns) /\ cagrs' \in SortedCagrs(cagrs)
        /\ mean' = 0 /\ m2' = 0 /\ i' = 1 /\ pc' = "stddev" /\ results' = results
    BY <1>4 DEF Sort
  <2>2. /\ returns' \in Seq(Int) /\ Len(returns') = Len(returns)
        /\ SortedUp(returns') /\ Paired(returns')
    BY <1>1, <2>1, SortedPaired
  <2>3. cagrs' \in Seq(PeriodType)
    <3>1. cagrs \in Seq(PeriodType) /\ cagrs' \in Rearranged(cagrs)
      BY <2>1 DEF SortedCagrs, TypedInv, TypeOK
    <3> QED
      BY <3>1, RearrangedSeq
  <2>4. TypeOK'
    BY <1>1, <2>1, <2>2, <2>3 DEF TypedInv, TypeOK
  <2>5. Len(returns) = Len(navs) - Window /\ Len(returns) \in Nat \ {0}
    <3>1. Len(navs) \in Nat /\ i \in Nat \ {0} /\ i > Len(navs) /\ i - 1 <= Len(navs)
      BY <1>1, NavsTyped DEF Rows, TypedInv, PeriodsInv
    <3>2. Len(returns) \in Nat \ {0}
      BY <1>4 DEF TypedInv, TypeOK
    <3> QED
      BY <1>1, <1>2, <3>1, <3>2 DEF TypedInv, PeriodsInv
  <2>6. /\ Window' = Window /\ (Finished' <=> Finished)
        /\ SortedUp(returns)' /\ Paired(returns)' /\ returns' # <<>>
    <3>1. Window' = Window /\ (Finished' <=> Finished)
      BY <2>1 DEF Window, Finished
    <3>2. SortedUp(returns)'
      BY <2>2 DEF SortedUp
    <3>3. Paired(returns)'
      BY <1>1, <2>2, <3>1 DEF Paired, Ends, ReturnTo, Change, Rows
    <3>4. returns' # <<>>
      BY <2>2, <2>5
    <3> QED
      BY <3>1, <3>2, <3>3, <3>4
  <2>7. PeriodsInv'
    BY <1>1, <1>2, <2>1, <2>2, <2>5, <2>6 DEF TypedInv, PeriodsInv, Started
  <2>8. ResultsAreSeq'
    BY <2>1 DEF TypedInv, ResultsAreSeq
  <2> QED
    BY <2>4, <2>7, <2>8 DEF TypedInv
<1> QED
  BY <1>3, <1>4

LEMMA WelfordStepTyped ==
  ASSUME DrawdownInv, TypedInv, Welford PROVE TypedInv'
<1>1. /\ pc = "stddev" /\ pc' = pc /\ i <= Len(returns) /\ i' = i + 1 /\ navs' = navs
      /\ history' = history /\ peak' = peak /\ maxDD' = maxDD
      /\ returns' = returns /\ cagrs' = cagrs /\ results' = results
      /\ mean' = mean + (returns[i] - mean) \div i
      /\ m2' = SquareUpdate(m2, returns[i], mean, mean')
  BY DEF Welford, loop, rolling
<1>2. mean \in Int /\ m2 \in Nat /\ i \in Nat \ {0} /\ returns[i] \in Int
  BY <1>1, NavsTyped DEF TypedInv, TypeOK
<1>3. mean' \in Int /\ m2' \in Nat
  BY <1>1, <1>2, WelfordTyped
<1>4. TypeOK'
  BY <1>1, <1>2, <1>3 DEF TypedInv, TypeOK
<1>5. ResultsAreSeq'
  BY <1>1 DEF TypedInv, ResultsAreSeq
<1>6. Window' = Window /\ (Finished' <=> Finished)
  BY <1>1 DEF Window, Finished
<1>7. SortedUp(returns)' /\ Paired(returns)'
  BY <1>1, <1>6 DEF TypedInv, PeriodsInv, SortedUp, Paired, Ends, ReturnTo, Change, Rows
<1>8. PeriodsInv'
  BY <1>1, <1>6, <1>7 DEF TypedInv, PeriodsInv, Started
<1> QED
  BY <1>4, <1>5, <1>8 DEF TypedInv

LEMMA StoreTyped ==
  ASSUME DrawdownInv, TypedInv, StoreWindow PROVE TypedInv'
<1>1. /\ pc = "stddev" /\ pc' = "window" /\ i' = i /\ navs' = navs
      /\ history' = history /\ peak' = peak /\ maxDD' = maxDD
      /\ returns' = returns /\ cagrs' = cagrs /\ UNCHANGED welford
  BY DEF StoreWindow, loop, rolling
<1>2. \E r : results' = Append(results, r)
  BY Zenon DEF StoreWindow
<1>3. ~Finished
  BY <1>1, NavsTyped DEF Started
<1>4. returns' \in Seq(Int) /\ cagrs' \in Seq(PeriodType)
  BY <1>1 DEF TypedInv, TypeOK
<1> QED
  BY <1>1, <1>2, <1>3, <1>4, StoredTyped

LEMMA NextTypedInv == DrawdownInv /\ TypedInv /\ [Next]_vars => TypedInv'
<1> SUFFICES ASSUME DrawdownInv, TypedInv, [Next]_vars PROVE TypedInv'
  OBVIOUS
<1>1. DrawdownInv'
  BY NextDrawdown
<1>2. CASE UNCHANGED vars
  <2>1. UNCHANGED <<history, navs, pc, i, peak, maxDD, returns, cagrs, mean, m2, results>>
    BY <1>2 DEF vars
  <2>2. Window' = Window /\ (Finished' <=> Finished)
    BY <2>1 DEF Window, Finished
  <2>3. TypeOK' /\ ResultsAreSeq'
    BY <2>1 DEF TypedInv, TypeOK, ResultsAreSeq
  <2>4. PeriodsInv'
    BY <2>1, <2>2 DEF TypedInv, PeriodsInv, Started, SortedUp, Paired, Ends, ReturnTo, Change, Rows
  <2> QED
    BY <2>3, <2>4 DEF TypedInv
<1> QED
  BY <1>1, <1>2, LoadTyped, StartTyped, SlideTyped, SortTyped, WelfordStepTyped, StoreTyped DEF Next

LEMMA TypedAlways == Spec => []TypedInv
BY InitTyped, NextTypedInv, DrawdownAlways, PTL DEF Spec

(* The engine keeps its types: in particular it divides by positive NAVs and *)
(* day counts only, and the sum of squares under the root of the standard    *)
(* deviation is never negative (filterValidNAVs, computeRollingStats,        *)
(* stdDev).                                                                  *)
THEOREM EngineTypeCorrect == Spec => []TypeOK
<1>1. TypedInv => TypeOK
  BY DEF TypedInv
<1> QED
  BY <1>1, TypedAlways, PTL

-----------------------------------------------------------------------------
(* percentile: what it returns lies between the ranks next to it, and grows  *)
(* with the rank.                                                            *)

Between(a, b, f) == (a * (100 - f) + b * f) \div 100

LEMMA BetweenBounds ==
  ASSUME NEW a \in Int, NEW b \in Int, a <= b, NEW f \in 0 .. 99
  PROVE  Between(a, b, f) \in Int /\ a <= Between(a, b, f) /\ Between(a, b, f) <= b
<1> DEFINE x == a * (100 - f) + b * f
<1>1. x = a * 100 + (b - a) * f /\ x = b * 100 - (b - a) * (100 - f) /\ x \in Int
  OBVIOUS
<1>2. (b - a) * f >= 0 /\ (b - a) * (100 - f) >= 0
  <2>1. b - a \in Int /\ b - a >= 0 /\ f \in Int /\ f >= 0 /\ 100 - f \in Int /\ 100 - f >= 0
    OBVIOUS
  <2>2. (b - a) * f \in Nat /\ (b - a) * (100 - f) \in Nat
    BY <2>1, TimesSigns
  <2> QED
    BY <2>2
<1>3. (b - a) * f \in Int /\ (b - a) * (100 - f) \in Int
  OBVIOUS
<1>4. a * 100 <= x /\ x <= b * 100
  BY <1>1, <1>2, <1>3
<1> HIDE DEF x
<1>5. x \div 100 \in Int /\ a <= x \div 100 /\ x \div 100 <= b
  BY <1>1, <1>4
<1> QED
  BY <1>5 DEF Between, x

LEMMA BetweenGrows ==
  ASSUME NEW a \in Int, NEW b \in Int, a <= b, NEW f \in 0 .. 99, NEW h \in 0 .. 99, f <= h
  PROVE  Between(a, b, f) <= Between(a, b, h)
<1> DEFINE x == a * (100 - f) + b * f
           y == a * (100 - h) + b * h
<1>1. y = x + (b - a) * (h - f) /\ x \in Int /\ y \in Int
  OBVIOUS
<1>2. (b - a) * (h - f) \in Nat
  <2>1. b - a \in Int /\ b - a >= 0 /\ h - f \in Int /\ h - f >= 0
    OBVIOUS
  <2> QED
    BY <2>1, TimesSigns
<1>3. x <= y
  BY <1>1, <1>2
<1> HIDE DEF x, y
<1>4. x \div 100 <= y \div 100
  BY <1>1, <1>3
<1> QED
  BY <1>4 DEF Between, x, y

(* The rank below p per cent of the way, and what is left. *)
Below(n, p) == (p * (n - 1)) \div 100
Rest(n, p) == (p * (n - 1)) % 100

RankFacts(n, p) ==
  /\ Below(n, p) \in Nat /\ Rest(n, p) \in 0 .. 99
  /\ Below(n, p) + 1 \in 1 .. n
  /\ (Rest(n, p) # 0 => Below(n, p) + 2 \in 1 .. n)
  /\ 100 * Below(n, p) + Rest(n, p) = p * (n - 1)

LEMMA Ranks == \A n \in Nat \ {0} : \A p \in {25, 50, 75} : RankFacts(n, p)
<1> SUFFICES ASSUME NEW n \in Nat \ {0}, NEW p \in {25, 50, 75} PROVE RankFacts(n, p)
  OBVIOUS
<1>1. CASE p = 25
  BY <1>1 DEF Below, Rest, RankFacts
<1>2. CASE p = 50
  BY <1>2 DEF Below, Rest, RankFacts
<1>3. CASE p = 75
  BY <1>3 DEF Below, Rest, RankFacts
<1> QED
  BY <1>1, <1>2, <1>3

(* What percentile returns, by the two ranks next to it. *)
PercentileFacts(s, p) ==
  LET n == Len(s)
      l == Below(n, p)
      f == Rest(n, p)
      x == percentile(s, p)
  IN /\ x \in Int
     /\ \A k \in 1 .. n : k <= l + 1 => s[k] <= x
     /\ \A k \in 1 .. n : k >= l + 2 => x <= s[k]
     /\ (f = 0 => x = s[l + 1])
     /\ (f # 0 => x = Between(s[l + 1], s[l + 2], f))

LEMMA PercentileBetween ==
  ASSUME NEW s \in Seq(Int), Len(s) \in Nat \ {0}, SortedUp(s), NEW p \in {25, 50, 75}
  PROVE  PercentileFacts(s, p)
<1> DEFINE n == Len(s)
           l == Below(n, p)
           f == Rest(n, p)
           x == percentile(s, p)
<1>1. l \in Nat /\ f \in 0 .. 99 /\ l + 1 \in 1 .. n /\ (f # 0 => l + 2 \in 1 .. n) /\ n \in Nat
  <2>1. RankFacts(n, p)
    BY Ranks
  <2> QED
    BY <2>1 DEF RankFacts
<1>2. \A k \in 1 .. n : s[k] \in Int
  OBVIOUS
<1>3. \A j, k \in 1 .. n : j <= k => s[j] <= s[k]
  <2>1. DOMAIN s = 1 .. n
    OBVIOUS
  <2> QED
    BY <1>2, <2>1 DEF SortedUp
<1>4. x = IF f = 0 THEN s[l + 1] ELSE Between(s[l + 1], s[l + 2], f)
  BY DEF percentile, Between, Below, Rest
<1> HIDE DEF n, l, f, x
<1>5. f = 0 => x = s[l + 1]
  BY <1>4
<1>6. ASSUME f # 0
      PROVE  /\ x = Between(s[l + 1], s[l + 2], f) /\ x \in Int
             /\ s[l + 1] <= x /\ x <= s[l + 2]
  <2>1. s[l + 1] \in Int /\ s[l + 2] \in Int /\ s[l + 1] <= s[l + 2]
    BY <1>1, <1>2, <1>3, <1>6
  <2>2. x = Between(s[l + 1], s[l + 2], f)
    BY <1>4, <1>6
  <2>3. \A a, b \in Int : a <= b =>
          /\ Between(a, b, f) \in Int /\ a <= Between(a, b, f) /\ Between(a, b, f) <= b
    BY <1>1, BetweenBounds
  <2> QED
    BY <2>1, <2>2, <2>3
<1>7. x \in Int /\ s[l + 1] <= x /\ s[l + 1] \in Int
  <2>1. CASE f = 0
    BY <1>1, <1>2, <1>5, <2>1
  <2>2. CASE f # 0
    BY <1>1, <1>2, <1>6, <2>2
  <2> QED
    BY <2>1, <2>2
<1>8. \A k \in 1 .. n : k <= l + 1 => s[k] <= x
  BY <1>1, <1>2, <1>3, <1>7
<1>9. \A k \in 1 .. n : k >= l + 2 => x <= s[k]
  <2> SUFFICES ASSUME NEW k \in 1 .. n, k >= l + 2 PROVE x <= s[k]
    OBVIOUS
  <2>1. CASE f = 0
    BY <1>1, <1>2, <1>3, <1>5, <2>1
  <2>2. CASE f # 0
    <3>1. s[l + 2] <= s[k] /\ s[l + 2] \in Int /\ s[k] \in Int
      BY <1>1, <1>2, <1>3, <2>2
    <3> QED
      BY <1>6, <1>7, <2>2, <3>1
  <2> QED
    BY <2>1, <2>2
<1> QED
  BY <1>5, <1>6, <1>7, <1>8, <1>9 DEF PercentileFacts, n, l, f, x

LEMMA PercentileGrows ==
  ASSUME NEW s \in Seq(Int), Len(s) \in Nat \ {0}, SortedUp(s),
         NEW p \in {25, 50, 75}, NEW q \in {25, 50, 75}, p <= q
  PROVE  percentile(s, p) <= percentile(s, q)
<1> DEFINE n == Len(s)
           x == percentile(s, p)
           y == percentile(s, q)
           l == Below(n, p)
           m == Below(n, q)
           f == Rest(n, p)
           h == Rest(n, q)
<1>a. RankFacts(n, p) /\ RankFacts(n, q)
  BY Ranks
<1>1. /\ l \in Nat /\ m \in Nat /\ f \in 0 .. 99 /\ h \in 0 .. 99 /\ n \in Nat
      /\ l + 1 \in 1 .. n /\ m + 1 \in 1 .. n
      /\ (f # 0 => l + 2 \in 1 .. n) /\ (h # 0 => m + 2 \in 1 .. n)
  BY <1>a DEF RankFacts
<1>2. 100 * l + f <= 100 * m + h
  <2>1. 100 * l + f = p * (n - 1) /\ 100 * m + h = q * (n - 1)
    BY <1>a DEF RankFacts
  <2>2. p * (n - 1) <= q * (n - 1)
    OBVIOUS
  <2>3. p * (n - 1) \in Int /\ q * (n - 1) \in Int
    OBVIOUS
  <2> HIDE DEF n, l, m, f, h
  <2> QED
    BY <2>1, <2>2, <2>3
<1>b. PercentileFacts(s, p) /\ PercentileFacts(s, q)
  BY PercentileBetween
<1>3. /\ x \in Int /\ y \in Int
      /\ \A k \in 1 .. n : s[k] \in Int
      /\ \A k \in 1 .. n : k >= l + 2 => x <= s[k]
      /\ \A k \in 1 .. n : k <= m + 1 => s[k] <= y
      /\ (f = 0 => x = s[l + 1])
      /\ (f # 0 => x = Between(s[l + 1], s[l + 2], f))
      /\ (h # 0 => y = Between(s[m + 1], s[m + 2], h))
  BY <1>b DEF PercentileFacts
<1>4. \A j, k \in 1 .. n : j < k => s[j] <= s[k]
  <2>1. DOMAIN s = 1 .. n
    OBVIOUS
  <2> QED
    BY <2>1 DEF SortedUp
<1> HIDE DEF n, x, y, l, m, f, h
<1> SUFFICES x <= y
  BY DEF x, y
<1>5. CASE l < m
  <2>1. m + 1 >= l + 2 /\ m + 1 <= m + 1
    BY <1>1, <1>5
  <2>2. x <= s[m + 1] /\ s[m + 1] <= y /\ s[m + 1] \in Int
    BY <1>1, <1>3, <2>1
  <2> QED
    BY <1>3, <2>2
<1>6. CASE l = m /\ f = 0
  <2>1. s[m + 1] <= y
    BY <1>1, <1>3
  <2> QED
    BY <1>3, <1>6, <2>1
<1>7. CASE l = m /\ f # 0
  <2>1. f <= h /\ h # 0 /\ l + 1 \in 1 .. n /\ l + 2 \in 1 .. n /\ l + 1 < l + 2
    BY <1>1, <1>2, <1>7
  <2>2. s[l + 1] \in Int /\ s[l + 2] \in Int /\ s[l + 1] <= s[l + 2]
    BY <1>3, <1>4, <2>1
  <2>3. \A a, b \in Int : a <= b => Between(a, b, f) <= Between(a, b, h)
    BY <1>1, <2>1, BetweenGrows
  <2> QED
    BY <1>3, <1>7, <2>1, <2>2, <2>3
<1>8. ~(l > m)
  BY <1>1, <1>2
<1> QED
  BY <1>1, <1>5, <1>6, <1>7, <1>8

-----------------------------------------------------------------------------
(* The records: what is stored of a window agrees with the rows.             *)

NoneAbove(w, x) == {e \in Ends(w) : ReturnTo(e, w) <= x}
NoneBelow(w, x) == {e \in Ends(w) : ReturnTo(e, w) >= x}
QuartilesOrdered(r) == r.min <= r.p25 /\ r.p25 <= r.median /\ r.median <= r.p75 /\ r.p75 <= r.max

GoodRecord(r, w) ==
  /\ r.periods = Cardinality(Ends(w))
  /\ r.periods > 0 =>
       /\ r.min >= r.dd
       /\ QuartilesOrdered(r)
       /\ 2 * Cardinality(NoneAbove(w, r.median)) >= r.periods
       /\ 2 * Cardinality(NoneBelow(w, r.median)) >= r.periods

RecordsInv ==
  /\ pc \in {"load", "filter", "drawdown"} => results = <<>>
  /\ \A k \in 1 .. Len(results) : GoodRecord(results[k], WindowDays[k])

(* As many distinct ends in a set as ranks whose period belongs to it. *)
LEMMA CountRanks ==
  ASSUME NEW T, IsFiniteSet(T), NEW n \in Nat, NEW g \in Injection(1 .. n, T),
         NEW B, B \subseteq T, NEW a \in 1 .. n, NEW b \in 1 .. n, a <= b,
         \A k \in a .. b : g[k] \in B
  PROVE  Cardinality(B) \in Nat /\ Cardinality(B) >= b - a + 1
<1> DEFINE h == [k \in a .. b |-> g[k]]
<1>1. IsFiniteSet(B) /\ Cardinality(B) \in Nat
  BY FS_Subset, FS_CardinalityType
<1>2. h \in Injection(a .. b, B)
  BY DEF Injection, IsInjective
<1>3. Cardinality(a .. b) <= Cardinality(B)
  <2> HIDE DEF h
  <2> QED
    BY <1>1, <1>2, FS_Injection
<1>4. Cardinality(a .. b) = b - a + 1
  BY FS_Interval
<1> QED
  BY <1>1, <1>3, <1>4

(* A return over a window is a change from a row to a later one. *)
LEMMA PeriodDeclines ==
  ASSUME DrawdownInv, pc = "stddev", NEW w \in Nat \ {0}, NEW e \in Ends(w)
  PROVE  ReturnTo(e, w) \in Declines /\ maxDD <= ReturnTo(e, w)
<1>1. Len(navs) \in Nat /\ Seen = 1 .. Len(navs) /\ DrawdownIsWorst
  BY DEF DrawdownInv, Seen, Rows
<1>2. e \in 1 .. Len(navs) /\ e > w
  BY DEF Ends, Rows
<1>3. e - w \in Seen /\ e \in Seen /\ e - w <= e
  BY <1>1, <1>2
<1> DEFINE q == <<e - w, e>>
<1>4. q \in Seen \X Seen /\ q[1] = e - w /\ q[2] = e
  BY <1>3
<1>5. ReturnTo(e, w) = Change(navs[q[1]].nav, navs[q[2]].nav)
  BY <1>4 DEF ReturnTo
<1>6. ReturnTo(e, w) \in Declines
  <2> HIDE DEF q
  <2> QED
    BY <1>3, <1>4, <1>5 DEF Declines
<1> QED
  BY <1>1, <1>3, <1>6 DEF DrawdownIsWorst

(* Half of the periods are on each side of the middle rank. *)
LEMMA MedianHalves ==
  ASSUME NEW n \in Nat \ {0}
  PROVE  LET l == Below(n, 50)
             f == Rest(n, 50)
         IN /\ 2 * (l + 1) >= n
            /\ (f = 0 => 2 * (n - l) >= n)
            /\ (f # 0 => 2 * (n - l - 1) >= n)
<1> DEFINE l == Below(n, 50)
           f == Rest(n, 50)
<1>1. l \in Nat /\ f \in 0 .. 99 /\ 100 * l + f = 50 * (n - 1)
  <2>1. RankFacts(n, 50)
    BY Ranks
  <2> QED
    BY <2>1 DEF RankFacts
<1> HIDE DEF l, f
<1>2. 2 * (l + 1) >= n
  BY <1>1
<1>3. f = 0 => 2 * (n - l) >= n
  BY <1>1
<1>4. f # 0 => 2 * (n - l - 1) >= n
  BY <1>1
<1> QED
  BY <1>2, <1>3, <1>4 DEF l, f

(* The record of a window whose returns are sorted. *)
LEMMA StoredGood ==
  ASSUME DrawdownInv, TypedInv, pc = "stddev", NEW r,
         r.dd = maxDD, r.periods = Len(returns), r.min = returns[1],
         r.p25 = percentile(returns, 25), r.median = percentile(returns, 50),
         r.p75 = percentile(returns, 75), r.max = returns[Len(returns)]
  PROVE  GoodRecord(r, Window)
<1> DEFINE s == returns
           n == Len(returns)
           w == Window
           x == percentile(returns, 50)
           l == Below(n, 50)
           f == Rest(n, 50)
<1>1. /\ w \in Nat \ {0} /\ Len(navs) \in Nat /\ n = Len(navs) - w /\ n \in Nat \ {0}
      /\ s \in Seq(Int) /\ SortedUp(s) /\ Paired(s)
  <2>1. s \in Seq(Int) /\ s # <<>>
    BY DEF TypedInv, TypeOK, PeriodsInv
  <2>2. n \in Nat \ {0}
    BY <2>1
  <2> QED
    BY <2>1, <2>2, NavsTyped DEF TypedInv, PeriodsInv, Started
<1>2. IsFiniteSet(Ends(w)) /\ Cardinality(Ends(w)) = n
  <2>1. /\ IsFiniteSet(Ends(w))
        /\ Cardinality(Ends(w)) = IF w >= Len(navs) THEN 0 ELSE Len(navs) - w
    BY <1>1, EndsInterval
  <2>2. ~(w >= Len(navs))
    BY <1>1
  <2> QED
    BY <1>1, <2>1, <2>2
<1>3. PICK g \in Injection(1 .. n, Ends(w)) : \A k \in 1 .. n : s[k] = ReturnTo(g[k], w)
  BY <1>1 DEF Paired
<1>4. \A k \in 1 .. n : g[k] \in Ends(w)
  BY <1>3 DEF Injection
<1>5. 1 \in 1 .. n /\ n \in 1 .. n /\ \A k \in 1 .. n : s[k] \in Int
  BY <1>1
<1>6. r.min >= r.dd
  <2>1. maxDD <= s[1]
    BY <1>1, <1>3, <1>4, <1>5, PeriodDeclines
  <2>2. maxDD \in Int /\ s[1] \in Int
    BY <1>5 DEF DrawdownInv
  <2> QED
    BY <2>1, <2>2
<1>7. PercentileFacts(s, 25) /\ PercentileFacts(s, 50) /\ PercentileFacts(s, 75)
  BY <1>1, PercentileBetween
<1>8. QuartilesOrdered(r)
  <2>1. RankFacts(n, 25) /\ RankFacts(n, 75)
    BY <1>1, Ranks
  <2>2. s[1] <= percentile(s, 25)
    <3>1. 1 <= Below(n, 25) + 1
      BY <2>1 DEF RankFacts
    <3> QED
      BY <1>5, <1>7, <3>1 DEF PercentileFacts
  <2>3. percentile(s, 75) <= s[n]
    <3>1. CASE n >= Below(n, 75) + 2
      BY <1>5, <1>7, <3>1 DEF PercentileFacts
    <3>2. CASE n < Below(n, 75) + 2
      <4>a. /\ Below(n, 75) \in Nat /\ Below(n, 75) + 1 \in 1 .. n /\ n \in Nat
            /\ (Rest(n, 75) # 0 => Below(n, 75) + 2 \in 1 .. n)
        BY <1>1, <2>1 DEF RankFacts
      <4>1. n = Below(n, 75) + 1 /\ Rest(n, 75) = 0
        <5> HIDE DEF n
        <5> QED
          BY <3>2, <4>a
      <4>2. percentile(s, 75) = s[n]
        BY <1>7, <4>1 DEF PercentileFacts
      <4> QED
        BY <1>5, <4>2
    <3>3. n \in Nat /\ Below(n, 75) \in Nat
      BY <1>1, <2>1 DEF RankFacts
    <3> QED
      BY <3>1, <3>2, <3>3
  <2>4. percentile(s, 25) <= percentile(s, 50) /\ percentile(s, 50) <= percentile(s, 75)
    BY <1>1, PercentileGrows
  <2> QED
    BY <2>2, <2>3, <2>4 DEF QuartilesOrdered
<1>9. l \in Nat /\ l + 1 \in 1 .. n /\ (f # 0 => l + 2 \in 1 .. n)
  <2>1. RankFacts(n, 50)
    BY <1>1, Ranks
  <2> QED
    BY <2>1 DEF RankFacts
<1>10. /\ x \in Int
       /\ \A k \in 1 .. n : k <= l + 1 => s[k] <= x
       /\ \A k \in 1 .. n : k >= l + 2 => x <= s[k]
       /\ (f = 0 => x = s[l + 1])
  BY <1>7 DEF PercentileFacts
<1>11. /\ 2 * (l + 1) >= n
       /\ (f = 0 => 2 * (n - l) >= n)
       /\ (f # 0 => 2 * (n - l - 1) >= n)
  BY <1>1, MedianHalves
<1> HIDE DEF s, n, x, l, f
<1>12. 2 * Cardinality(NoneAbove(w, x)) >= n
  <2>1. \A k \in 1 .. l + 1 : g[k] \in NoneAbove(w, x)
    <3> SUFFICES ASSUME NEW k \in 1 .. l + 1 PROVE g[k] \in NoneAbove(w, x)
      OBVIOUS
    <3>1. k \in 1 .. n /\ k <= l + 1
      BY <1>1, <1>9
    <3> QED
      BY <1>3, <1>4, <1>10, <3>1 DEF NoneAbove
  <2>2. Cardinality(NoneAbove(w, x)) \in Nat /\ Cardinality(NoneAbove(w, x)) >= l + 1
    <3>1. NoneAbove(w, x) \subseteq Ends(w) /\ 1 <= l + 1 /\ n \in Nat
      BY <1>1, <1>9 DEF NoneAbove
    <3>2. /\ Cardinality(NoneAbove(w, x)) \in Nat
          /\ Cardinality(NoneAbove(w, x)) >= (l + 1) - 1 + 1
      BY <1>2, <1>3, <1>5, <1>9, <2>1, <3>1, CountRanks
    <3> QED
      BY <1>9, <3>2
  <2> QED
    BY <1>1, <1>9, <1>11, <2>2
<1>13. 2 * Cardinality(NoneBelow(w, x)) >= n
  <2>1. ASSUME NEW a \in 1 .. n, \A k \in a .. n : x <= s[k]
        PROVE  Cardinality(NoneBelow(w, x)) \in Nat /\ Cardinality(NoneBelow(w, x)) >= n - a + 1
    <3>1. \A k \in a .. n : g[k] \in NoneBelow(w, x)
      <4> SUFFICES ASSUME NEW k \in a .. n PROVE g[k] \in NoneBelow(w, x)
        OBVIOUS
      <4>1. k \in 1 .. n /\ s[k] \in Int
        BY <1>1, <1>5
      <4>2. s[k] >= x
        BY <1>10, <2>1, <4>1
      <4> QED
        BY <1>3, <1>4, <4>1, <4>2 DEF NoneBelow
    <3>2. NoneBelow(w, x) \subseteq Ends(w) /\ a <= n /\ n \in Nat
      BY <1>1 DEF NoneBelow
    <3> QED
      BY <1>2, <1>3, <1>5, <3>1, <3>2, CountRanks
  <2>2. CASE f = 0
    <3>1. \A k \in l + 1 .. n : x <= s[k]
      <4> SUFFICES ASSUME NEW k \in l + 1 .. n PROVE x <= s[k]
        OBVIOUS
      <4>1. k \in 1 .. n /\ (k = l + 1 \/ k >= l + 2)
        BY <1>1, <1>9
      <4> QED
        BY <1>5, <1>10, <2>2, <4>1
    <3>2. Cardinality(NoneBelow(w, x)) \in Nat /\ Cardinality(NoneBelow(w, x)) >= n - (l + 1) + 1
      BY <1>9, <2>1, <3>1
    <3> QED
      BY <1>1, <1>9, <1>11, <2>2, <3>2
  <2>3. CASE f # 0
    <3>1. \A k \in l + 2 .. n : x <= s[k]
      <4> SUFFICES ASSUME NEW k \in l + 2 .. n PROVE x <= s[k]
        OBVIOUS
      <4>1. k \in 1 .. n /\ k >= l + 2
        BY <1>1, <1>9
      <4> QED
        BY <1>10, <4>1
    <3>2. Cardinality(NoneBelow(w, x)) \in Nat /\ Cardinality(NoneBelow(w, x)) >= n - (l + 2) + 1
      BY <1>9, <2>1, <2>3, <3>1
    <3> QED
      BY <1>1, <1>9, <1>11, <2>3, <3>2
  <2> QED
    BY <2>2, <2>3
<1>14. r.periods = n /\ r.median = x
  BY DEF n, x
<1> QED
  BY <1>2, <1>6, <1>8, <1>12, <1>13, <1>14 DEF GoodRecord

(* The record of a window that no row ends. *)
LEMMA InsufficientGood ==
  ASSUME NEW w \in Nat \ {0}, Len(navs) \in Nat, Len(navs) <= w
  PROVE  GoodRecord(Insufficient, w)
<1>1. Cardinality(Ends(w)) = 0
  BY EndsInterval
<1> QED
  BY <1>1 DEF GoodRecord, Insufficient

(* A window's record is added to those that are right already. *)
LEMMA RecordAdded ==
  ASSUME TypedInv, RecordsInv, navs' = navs, pc' = "window",
         NEW r, results' = Append(results, r), GoodRecord(r, Window)
  PROVE  RecordsInv'
<1>1. /\ Len(results) \in Nat /\ Len(results') = Len(results) + 1
      /\ \A k \in 1 .. Len(results) : results'[k] = results[k]
      /\ results'[Len(results) + 1] = r
  BY AppendResult DEF TypedInv
<1>2. \A k \in 1 .. Len(results') : GoodRecord(results'[k], WindowDays[k])
  <2> SUFFICES ASSUME NEW k \in 1 .. Len(results') PROVE GoodRecord(results'[k], WindowDays[k])
    OBVIOUS
  <2>1. CASE k \in 1 .. Len(results)
    BY <1>1, <2>1 DEF RecordsInv
  <2>2. CASE k = Len(results) + 1
    BY <1>1, <2>2 DEF Window
  <2> QED
    BY <1>1, <2>1, <2>2
<1>3. \A k \in 1 .. Len(results') : GoodRecord(results[k], WindowDays[k])'
  BY <1>2 DEF GoodRecord, NoneAbove, NoneBelow, QuartilesOrdered, Ends, ReturnTo, Change, Rows
<1> QED
  BY <1>3 DEF RecordsInv

LEMMA NextRecords == DrawdownInv /\ TypedInv /\ RecordsInv /\ [Next]_vars => RecordsInv'
<1> SUFFICES ASSUME DrawdownInv, TypedInv, RecordsInv, [Next]_vars PROVE RecordsInv'
  OBVIOUS
<1>1. ASSUME pc \in {"load", "filter", "drawdown"}, results' = results PROVE RecordsInv'
  <2>1. results' = <<>> /\ Len(results') = 0
    BY <1>1 DEF RecordsInv
  <2> QED
    BY <2>1 DEF RecordsInv
<1>2. ASSUME navs' = navs, results' = results, pc' \notin {"load", "filter", "drawdown"} PROVE RecordsInv'
  BY <1>2 DEF RecordsInv, GoodRecord, NoneAbove, NoneBelow, QuartilesOrdered, Ends, ReturnTo, Change, Rows
<1>3. CASE AddRow \/ Load \/ FilterValidNAVs \/ Drawdown
  BY <1>1, <1>3 DEF AddRow, Load, FilterValidNAVs, Drawdown
<1>4. CASE StartWindow
  <2>1. navs' = navs
    BY <1>4, WindowSteps
  <2>2. CASE results' = results /\ pc' \in {"done", "rolling"}
    BY <1>2, <2>1, <2>2
  <2>3. CASE ~Finished /\ Len(navs) < Window /\ results' = Append(results, Insufficient) /\ pc' = "window"
    <3>1. Window \in Nat \ {0} /\ Len(navs) \in Nat
      BY <2>3, WindowTyped DEF TypedInv, PeriodsInv, DrawdownInv
    <3>2. GoodRecord(Insufficient, Window)
      BY <2>3, <3>1, InsufficientGood
    <3> QED
      BY <2>1, <2>3, <3>2, RecordAdded
  <2> QED
    BY <1>4, <2>2, <2>3 DEF StartWindow
<1>5. CASE Slide \/ Welford
  BY <1>2, <1>5, WindowSteps DEF Slide, Welford
<1>6. CASE Sort
  <2>1. navs' = navs /\ pc = "rolling" /\ i \notin Rows
    BY <1>6 DEF Sort
  <2>2. CASE results' = results /\ pc' = "stddev"
    BY <1>2, <2>1, <2>2
  <2>3. CASE returns = <<>> /\ results' = Append(results, Insufficient) /\ pc' = "window"
    <3>1. /\ Window \in Nat \ {0} /\ Len(navs) \in Nat /\ i \in Nat \ {0}
          /\ i - 1 <= Len(navs) /\ Len(returns) = i - 1 - Window
      BY <2>1, NavsTyped DEF TypedInv, TypeOK, PeriodsInv, Started
    <3>2. Len(navs) <= Window
      <4>1. i > Len(navs) /\ Len(returns) = 0
        BY <2>1, <2>3, <3>1 DEF Rows
      <4> QED
        BY <3>1, <4>1
    <3>3. GoodRecord(Insufficient, Window)
      BY <3>1, <3>2, InsufficientGood
    <3> QED
      BY <2>1, <2>3, <3>3, RecordAdded
  <2> QED
    BY <1>6, <2>2, <2>3 DEF Sort
<1>7. CASE StoreWindow
  <2> DEFINE r == [points |-> Len(navs), dd |-> maxDD, periods |-> Len(returns),
                   min |-> returns[1], p25 |-> percentile(returns, 25), median |-> percentile(returns, 50),
                   p75 |-> percentile(returns, 75), max |-> returns[Len(returns)], squares |-> m2,
                   cagrMin |-> cagrs[1], cagrMax |-> cagrs[Len(cagrs)]]
  <2>1. navs' = navs /\ pc = "stddev" /\ pc' = "window" /\ results' = Append(results, r)
    BY <1>7 DEF StoreWindow
  <2>2. GoodRecord(r, Window)
    <3>1. /\ r.dd = maxDD /\ r.periods = Len(returns) /\ r.min = returns[1]
          /\ r.p25 = percentile(returns, 25) /\ r.median = percentile(returns, 50)
          /\ r.p75 = percentile(returns, 75) /\ r.max = returns[Len(returns)]
      OBVIOUS
    <3> HIDE DEF r
    <3> QED
      BY <2>1, <3>1, StoredGood
  <2> HIDE DEF r
  <2> QED
    BY <2>1, <2>2, RecordAdded
<1>8. CASE UNCHANGED vars
  BY <1>8 DEF vars, RecordsInv, GoodRecord, NoneAbove, NoneBelow, QuartilesOrdered, Ends, ReturnTo, Change, Rows
<1> QED
  BY <1>3, <1>4, <1>5, <1>6, <1>7, <1>8 DEF Next

LEMMA RecordsAlways == Spec => []RecordsInv
<1>1. Init => RecordsInv
  BY DEF Init, RecordsInv
<1> QED
  BY <1>1, NextRecords, DrawdownAlways, TypedAlways, PTL DEF Spec

(* A window has metrics just when a row lies a whole window after another,   *)
(* and every such pair is then one period, counted once, whatever the        *)
(* history and the windows (computeWindow, computeRollingStats).             *)
THEOREM PeriodsCountedCorrect == Spec => []PeriodsCounted
<1>1. RecordsInv => PeriodsCounted
  BY DEF RecordsInv, GoodRecord, PeriodsCounted
<1> QED
  BY <1>1, RecordsAlways, PTL

(* No window reports a return worse than the drawdown stored with it: every  *)
(* return of a window is one of the declines that computeMaxDrawdown takes   *)
(* the worst of.                                                             *)
THEOREM LossWithinDrawdownCorrect == Spec => []LossWithinDrawdown
<1>1. RecordsInv => LossWithinDrawdown
  BY DEF RecordsInv, GoodRecord, LossWithinDrawdown, Stored, Complete
<1> QED
  BY <1>1, RecordsAlways, PTL

(* The quartiles of a window are in order between its worst and its best     *)
(* return, and at least half of its periods are on each side of the median,  *)
(* whatever order the returns came in (sort.Float64s, percentile).           *)
THEOREM MedianSplitsCorrect == Spec => []MedianSplits
<1>1. RecordsInv => MedianSplits
  BY DEF RecordsInv, GoodRecord, MedianSplits, Stored, Complete, QuartilesOrdered, NoneAbove, NoneBelow
<1> QED
  BY <1>1, RecordsAlways, PTL

-----------------------------------------------------------------------------
(* Induction over the numbers, for a set: the library's rule takes a         *)
(* predicate.  Then recursion, for a step that is a function.                *)

LEMMA SetInduction ==
  ASSUME NEW T, 0 \in T, \A n \in Nat : n \in T => n + 1 \in T
  PROVE  \A n \in Nat : n \in T
<1> DEFINE Missing == {n \in Nat : n \notin T}
           R == OpToRel(<, Nat)
<1> SUFFICES ASSUME Missing # {} PROVE FALSE
  OBVIOUS
<1>1. \E m \in Missing : \A k \in Missing : <<k, m>> \notin R
  <2>1. IsWellFoundedOn(R, Nat)
    BY NatLessThanWellFounded
  <2>2. Missing \subseteq Nat
    OBVIOUS
  <2> HIDE DEF Missing, R
  <2> QED
    BY <2>1, <2>2, WFMin
<1>2. PICK m \in Missing : \A k \in Missing : ~(k < m)
  BY <1>1 DEF OpToRel
<1>3. m - 1 \in Nat /\ m - 1 < m /\ (m - 1) + 1 = m
  OBVIOUS
<1>4. m - 1 \in T
  BY <1>2, <1>3
<1> QED
  BY <1>3, <1>4

Follows(f, c, step) == f[0] = c /\ \A n \in Nat : f[n + 1] = step[<<n, f[n]>>]

LEMMA RecursionExists ==
  ASSUME NEW S, NEW c \in S, NEW step \in [Nat \X S -> S]
  PROVE  \E f \in [Nat -> S] : Follows(f, c, step)
<1> DEFINE Start(n) == {f \in [0 .. n -> S] : f[0] = c /\ \A k \in 0 .. n - 1 : f[k + 1] = step[<<k, f[k]>>]}
           T == {n \in Nat : Start(n) # {}}
<1>1. \A n \in Nat : n \in T
  <2>1. 0 \in T
    <3>1. [k \in 0 .. 0 |-> c] \in Start(0)
      OBVIOUS
    <3> QED
      BY <3>1
  <2>2. ASSUME NEW n \in Nat, n \in T PROVE n + 1 \in T
    <3>1. PICK f \in Start(n) : TRUE
      BY <2>2
    <3> DEFINE g == [k \in 0 .. n + 1 |-> IF k <= n THEN f[k] ELSE step[<<n, f[n]>>]]
    <3>2. f \in [0 .. n -> S] /\ f[0] = c /\ \A k \in 0 .. n - 1 : f[k + 1] = step[<<k, f[k]>>]
      OBVIOUS
    <3>3. f[n] \in S /\ step[<<n, f[n]>>] \in S
      BY <3>2
    <3>4. g \in [0 .. n + 1 -> S]
      BY <3>2, <3>3
    <3>5. \A k \in 0 .. n : g[k] = f[k]
      OBVIOUS
    <3>6. g[n + 1] = step[<<n, f[n]>>]
      OBVIOUS
    <3> HIDE DEF g
    <3>7. \A k \in 0 .. (n + 1) - 1 : g[k + 1] = step[<<k, g[k]>>]
      <4> SUFFICES ASSUME NEW k \in 0 .. (n + 1) - 1 PROVE g[k + 1] = step[<<k, g[k]>>]
        OBVIOUS
      <4>1. CASE k = n
        BY <3>5, <3>6, <4>1
      <4>2. CASE k \in 0 .. n - 1
        BY <3>2, <3>5, <4>2
      <4> QED
        BY <4>1, <4>2
    <3>8. g[0] = c
      BY <3>2, <3>5
    <3>9. g \in Start(n + 1)
      BY <3>4, <3>7, <3>8
    <3> QED
      BY <3>9
  <2> HIDE DEF T
  <2> QED
    BY <2>1, <2>2, SetInduction
<1>2. ASSUME NEW n \in Nat, NEW f \in Start(n), NEW g \in Start(n + 1)
      PROVE  f[n] = g[n]
  <2> DEFINE Agree == {k \in Nat : k <= n => f[k] = g[k]}
  <2>1. 0 \in Agree
    OBVIOUS
  <2>2. ASSUME NEW k \in Nat, k \in Agree PROVE k + 1 \in Agree
    <3>1. \A j \in 0 .. n - 1 : f[j + 1] = step[<<j, f[j]>>]
      OBVIOUS
    <3>2. \A j \in 0 .. (n + 1) - 1 : g[j + 1] = step[<<j, g[j]>>]
      OBVIOUS
    <3>3. k + 1 <= n => k \in 0 .. n - 1 /\ k \in 0 .. (n + 1) - 1 /\ k <= n
      OBVIOUS
    <3>4. ASSUME k + 1 <= n PROVE f[k + 1] = g[k + 1]
      <4>1. k \in 0 .. n - 1 /\ k \in 0 .. (n + 1) - 1 /\ f[k] = g[k]
        BY <2>2, <3>3, <3>4
      <4>2. f[k + 1] = step[<<k, f[k]>>]
        BY <3>1, <4>1
      <4>3. g[k + 1] = step[<<k, g[k]>>]
        BY <3>2, <4>1
      <4> QED
        BY <4>1, <4>2, <4>3
    <3> QED
      BY <3>4
  <2>3. \A k \in Nat : k \in Agree
    <3> HIDE DEF Agree
    <3> QED
      BY <2>1, <2>2, SetInduction
  <2> QED
    BY <2>3
<1> DEFINE F == [n \in Nat |-> CHOOSE x \in S : \E f \in Start(n) : x = f[n]]
<1>3. \A n \in Nat : F[n] \in S /\ \E f \in Start(n) : F[n] = f[n]
  <2> SUFFICES ASSUME NEW n \in Nat PROVE F[n] \in S /\ \E f \in Start(n) : F[n] = f[n]
    OBVIOUS
  <2>1. PICK f \in Start(n) : TRUE
    BY <1>1
  <2>2. f[n] \in S
    BY <2>1
  <2> HIDE DEF Start
  <2> QED
    BY <2>2
<1>4. F \in [Nat -> S]
  <2>1. F = [n \in Nat |-> F[n]]
    OBVIOUS
  <2> HIDE DEF F
  <2> QED
    BY <1>3, <2>1
<1> HIDE DEF F
<1>5. F[0] = c
  BY <1>3
<1>6. \A n \in Nat : F[n + 1] = step[<<n, F[n]>>]
  <2> SUFFICES ASSUME NEW n \in Nat PROVE F[n + 1] = step[<<n, F[n]>>]
    OBVIOUS
  <2>1. PICK f \in Start(n) : F[n] = f[n]
    BY <1>3
  <2>2. PICK g \in Start(n + 1) : F[n + 1] = g[n + 1]
    <3>1. n + 1 \in Nat
      OBVIOUS
    <3> HIDE DEF Start
    <3> QED
      BY <1>3, <3>1
  <2>3. f[n] = g[n]
    BY <1>2
  <2>4. g[n + 1] = step[<<n, g[n]>>]
    BY <2>2
  <2> QED
    BY <2>1, <2>2, <2>3, <2>4
<1> QED
  BY <1>4, <1>5, <1>6 DEF Follows

(* The recursion of Power and that of Sums have a solution, so the           *)
(* definitions mean what they say.                                           *)
LEMMA PowerSteps ==
  ASSUME NEW b \in Nat
  PROVE  /\ Power(b, 0) = 1
         /\ \A n \in Nat : Power(b, n) \in Nat /\ Power(b, n + 1) = b * Power(b, n)
<1> DEFINE step == [q \in Nat \X Nat |-> b * q[2]]
<1>1. step \in [Nat \X Nat -> Nat] /\ \A n, x \in Nat : step[<<n, x>>] = b * x
  OBVIOUS
<1>2. PICK f \in [Nat -> Nat] : Follows(f, 1, step)
  <2> HIDE DEF step
  <2> QED
    BY <1>1, RecursionExists
<1>3. f[0] = 1 /\ \A n \in Nat : f[n + 1] = b * f[n]
  BY <1>1, <1>2 DEF Follows
<1> DEFINE Solves(g) == g = [k \in Nat |-> IF k = 0 THEN 1 ELSE b * g[k - 1]]
<1>4. Solves(f)
  <2>1. \A k \in Nat : f[k] = IF k = 0 THEN 1 ELSE b * f[k - 1]
    <3> SUFFICES ASSUME NEW k \in Nat PROVE f[k] = IF k = 0 THEN 1 ELSE b * f[k - 1]
      OBVIOUS
    <3>1. CASE k = 0
      BY <1>3, <3>1
    <3>2. CASE k # 0
      <4>1. k - 1 \in Nat /\ (k - 1) + 1 = k
        BY <3>2
      <4> QED
        BY <1>3, <3>2, <4>1
    <3> QED
      BY <3>1, <3>2
  <2> QED
    BY <1>2, <2>1
<1> DEFINE g == CHOOSE g : Solves(g)
<1>5. Solves(g)
  <2> HIDE DEF Solves
  <2> QED
    BY <1>4
<1>6. \A n : Power(b, n) = g[n]
  BY DEF Power
<1> HIDE DEF g
<1>7. g[0] = 1 /\ \A n \in Nat : g[n + 1] = b * g[n]
  <2>1. \A k \in Nat : g[k] = IF k = 0 THEN 1 ELSE b * g[k - 1]
    BY <1>5
  <2>2. \A n \in Nat : n + 1 \in Nat /\ n + 1 # 0 /\ (n + 1) - 1 = n
    OBVIOUS
  <2> HIDE DEF Solves
  <2> QED
    BY <2>1, <2>2
<1>8. \A n \in Nat : g[n] \in Nat
  <2> DEFINE T == {n \in Nat : g[n] \in Nat}
  <2>1. 0 \in T
    BY <1>7
  <2>2. \A n \in Nat : n \in T => n + 1 \in T
    BY <1>7
  <2>3. \A n \in Nat : n \in T
    <3> HIDE DEF T
    <3> QED
      BY <2>1, <2>2, SetInduction
  <2> QED
    BY <2>3
<1> QED
  BY <1>6, <1>7, <1>8

-----------------------------------------------------------------------------
(* Powers are ordered as their bases are.                                    *)

LEMMA ProductOrder ==
  /\ \A a, b, x, y \in Nat : a <= b /\ x <= y => a * x <= b * y
  /\ \A a, b, x, y \in Nat \ {0} : a < b /\ x <= y => a * x < b * y
<1>1. ASSUME NEW a \in Nat, NEW b \in Nat, NEW x \in Nat, NEW y \in Nat, a <= b, x <= y
      PROVE  a * x <= b * y
  <2>1. a * x <= a * y /\ a * y <= b * y
    BY <1>1
  <2>2. a * x \in Int /\ a * y \in Int /\ b * y \in Int
    OBVIOUS
  <2> QED
    BY <2>1, <2>2
<1>2. ASSUME NEW a \in Nat \ {0}, NEW b \in Nat \ {0}, NEW x \in Nat \ {0}, NEW y \in Nat \ {0}, a < b, x <= y
      PROVE  a * x < b * y
  <2>1. a * x <= a * y /\ a * y < b * y
    BY <1>2
  <2>2. a * x \in Int /\ a * y \in Int /\ b * y \in Int
    OBVIOUS
  <2> QED
    BY <2>1, <2>2
<1> QED
  BY <1>1, <1>2

LEMMA PowerPositive ==
  ASSUME NEW b \in Nat \ {0}
  PROVE  \A n \in Nat : Power(b, n) \in Nat \ {0}
<1> DEFINE T == {n \in Nat : Power(b, n) \in Nat \ {0}}
<1>1. Power(b, 0) = 1 /\ \A n \in Nat : Power(b, n) \in Nat /\ Power(b, n + 1) = b * Power(b, n)
  BY PowerSteps
<1>2. \A x \in Nat \ {0} : b * x \in Nat \ {0}
  OBVIOUS
<1>3. 0 \in T /\ \A n \in Nat : n \in T => n + 1 \in T
  BY <1>1, <1>2
<1>4. \A n \in Nat : n \in T
  <2> HIDE DEF T
  <2> QED
    BY <1>3, SetInduction
<1> QED
  BY <1>4

LEMMA PowerGrows ==
  ASSUME NEW a \in Nat \ {0}, NEW b \in Nat \ {0}, a <= b
  PROVE  \A n \in Nat : Power(a, n) <= Power(b, n)
<1> DEFINE T == {n \in Nat : Power(a, n) <= Power(b, n)}
<1>1. Power(a, 0) = 1 /\ \A n \in Nat : Power(a, n) \in Nat /\ Power(a, n + 1) = a * Power(a, n)
  BY PowerSteps
<1>2. Power(b, 0) = 1 /\ \A n \in Nat : Power(b, n) \in Nat /\ Power(b, n + 1) = b * Power(b, n)
  BY PowerSteps
<1>3. \A x, y \in Nat : x <= y => a * x <= b * y
  BY ProductOrder
<1>4. 0 \in T
  BY <1>1, <1>2
<1>5. ASSUME NEW n \in Nat, n \in T PROVE n + 1 \in T
  <2>1. a * Power(a, n) <= b * Power(b, n)
    BY <1>1, <1>2, <1>3, <1>5
  <2> QED
    BY <1>1, <1>2, <2>1
<1>6. \A n \in Nat : n \in T
  <2> HIDE DEF T
  <2> QED
    BY <1>4, <1>5, SetInduction
<1> QED
  BY <1>6

LEMMA PowerLess ==
  ASSUME NEW a \in Nat \ {0}, NEW b \in Nat \ {0}, a < b, NEW n \in Nat \ {0}
  PROVE  Power(a, n) < Power(b, n)
<1> DEFINE m == n - 1
<1>1. m \in Nat /\ m + 1 = n
  OBVIOUS
<1> HIDE DEF m
<1>2. Power(a, n) = a * Power(a, m) /\ Power(b, n) = b * Power(b, m)
  BY <1>1, PowerSteps
<1>3. Power(a, m) \in Nat \ {0} /\ Power(b, m) \in Nat \ {0}
  BY <1>1, PowerPositive
<1>4. Power(a, m) <= Power(b, m)
  BY <1>1, PowerGrows
<1> QED
  BY <1>2, <1>3, <1>4, ProductOrder

(* A period that lost is slower than one that did not, and one that gained   *)
(* is faster than one that did not, whatever the number of days.             *)
LEMMA SlowerBySign ==
  ASSUME NEW p \in PeriodType, NEW q \in PeriodType,
         \/ p.to < p.from /\ q.from <= q.to
         \/ p.to <= p.from /\ q.from < q.to
  PROVE  Slower(p, q)
<1>1. /\ p.to \in Nat \ {0} /\ p.from \in Nat \ {0} /\ p.days \in Nat \ {0}
      /\ q.to \in Nat \ {0} /\ q.from \in Nat \ {0} /\ q.days \in Nat \ {0}
  BY ValuesAssumption DEF PeriodType
<1> DEFINE a == Power(p.to, q.days)
           b == Power(p.from, q.days)
           x == Power(q.from, p.days)
           y == Power(q.to, p.days)
<1>2. a \in Nat \ {0} /\ b \in Nat \ {0} /\ x \in Nat \ {0} /\ y \in Nat \ {0}
  BY <1>1, PowerPositive
<1>3. CASE p.to < p.from /\ q.from <= q.to
  <2>1. a < b /\ x <= y
    BY <1>1, <1>3, PowerLess, PowerGrows
  <2>2. a * x < b * y /\ b * y = y * b
    <3> HIDE DEF a, b, x, y
    <3> QED
      BY <1>2, <2>1, ProductOrder
  <2> QED
    BY <2>2 DEF Slower
<1>4. CASE p.to <= p.from /\ q.from < q.to
  <2>1. a <= b /\ x < y
    BY <1>1, <1>4, PowerLess, PowerGrows
  <2>2. x * a < y * b /\ x * a = a * x
    <3> HIDE DEF a, b, x, y
    <3> QED
      BY <1>2, <2>1, ProductOrder
  <2> QED
    BY <2>2 DEF Slower
<1> QED
  BY <1>3, <1>4

-----------------------------------------------------------------------------
(* The rows are at most MaxRows and in the order of their dates, and         *)
(* filterValidNAVs keeps that order.                                         *)

Ascending(s) == \A j, k \in 1 .. Len(s) : j < k => s[j].day < s[k].day

DatesInv ==
  /\ Len(history) <= MaxRows /\ Len(navs) <= Len(history)
  /\ Ascending(history) /\ Ascending(navs)
  /\ pc = "filter" =>
       /\ Len(navs) < i
       /\ \A j \in 1 .. Len(navs), k \in i .. Len(history) : navs[j].day < history[k].day

LEMMA AppendLater ==
  ASSUME NEW S, NEW s \in Seq(S), NEW e, Ascending(s), \A j \in 1 .. Len(s) : s[j].day < e.day
  PROVE  Ascending(Append(s, e))
<1> DEFINE t == Append(s, e)
<1>1. /\ Len(s) \in Nat /\ Len(t) = Len(s) + 1 /\ t[Len(s) + 1] = e
      /\ \A k \in 1 .. Len(s) : t[k] = s[k]
  BY AppendAny
<1> HIDE DEF t
<1>2. ASSUME NEW j \in 1 .. Len(t), NEW k \in 1 .. Len(t), j < k PROVE t[j].day < t[k].day
  <2>1. j \in 1 .. Len(s) /\ t[j] = s[j]
    BY <1>1, <1>2
  <2>2. CASE k \in 1 .. Len(s)
    BY <1>1, <1>2, <2>1, <2>2 DEF Ascending
  <2>3. CASE k = Len(s) + 1
    BY <1>1, <2>1, <2>3
  <2> QED
    BY <1>1, <2>2, <2>3
<1>3. Ascending(t)
  BY <1>2 DEF Ascending
<1> QED
  BY <1>3 DEF t

LEMMA InitDates == Init => DatesInv
BY ValuesAssumption DEF Init, DatesInv, Ascending

LEMMA NextDates == DrawdownInv /\ DatesInv /\ [Next]_vars => DatesInv'
<1> SUFFICES ASSUME DrawdownInv, DatesInv, [Next]_vars PROVE DatesInv'
  OBVIOUS
<1>1. /\ history \in Seq(RowType) /\ navs \in Seq(ValidRow)
      /\ Len(history) \in Nat /\ Len(navs) \in Nat /\ MaxRows \in Nat
      /\ \A k \in 1 .. Len(history) : history[k].day \in Nat
  <2>1. history \in Seq(RowType) /\ navs \in Seq(ValidRow)
    BY DEF DrawdownInv
  <2>2. \A k \in 1 .. Len(history) : history[k] \in RowType
    BY <2>1, ElementOfSeq
  <2>3. \A r \in RowType : r.day \in Nat
    BY DEF RowType
  <2> QED
    BY <2>1, <2>2, <2>3, ValuesAssumption
<1>2. CASE AddRow
  <2>1. PICK v \in Values, g \in Gaps :
          history' = Append(history, [nav |-> v, day |-> IF Len(history) = 0 THEN 0
                                                         ELSE history[Len(history)].day + g])
    BY <1>2 DEF AddRow
  <2> DEFINE e == [nav |-> v, day |-> IF Len(history) = 0 THEN 0 ELSE history[Len(history)].day + g]
  <2>2. /\ pc' = "load" /\ navs' = <<>> /\ Len(history) < MaxRows /\ history' = Append(history, e)
        /\ g \in Nat \ {0}
    BY <1>2, <2>1, ValuesAssumption DEF AddRow, DrawdownInv
  <2>3. \A j \in 1 .. Len(history) : history[j].day < e.day
    <3> SUFFICES ASSUME NEW j \in 1 .. Len(history) PROVE history[j].day < e.day
      OBVIOUS
    <3> DEFINE n == Len(history)
    <3>1. n # 0 /\ n \in 1 .. n /\ e.day = history[n].day + g
      BY <1>1
    <3>2. j = n \/ history[j].day < history[n].day
      BY <1>1, <3>1 DEF DatesInv, Ascending
    <3>3. history[j].day \in Nat /\ history[n].day \in Nat
      BY <1>1, <3>1
    <3> HIDE DEF e, n
    <3> QED
      BY <2>2, <3>1, <3>2, <3>3
  <2>4. Ascending(history')
    <3> HIDE DEF e
    <3> QED
      BY <1>1, <2>2, <2>3, AppendLater DEF DatesInv
  <2>5. Len(history') = Len(history) + 1
    <3> HIDE DEF e
    <3> QED
      BY <1>1, <2>2, AppendAny
  <2>6. Ascending(navs') /\ Len(navs') = 0
    BY <2>2 DEF Ascending
  <2>7. Len(history') <= MaxRows /\ Len(navs') <= Len(history')
    BY <1>1, <2>2, <2>5, <2>6
  <2>8. pc' # "filter"
    BY <2>2
  <2> QED
    BY <2>4, <2>6, <2>7, <2>8 DEF DatesInv, Ascending
<1>3. CASE Load
  <2>1. navs = <<>> /\ navs' = <<>> /\ history' = history /\ i' = 1
    BY <1>3 DEF Load, DrawdownInv
  <2> QED
    BY <1>1, <2>1 DEF DatesInv, Ascending
<1>4. CASE FilterValidNAVs
  <2>1. /\ pc = "filter" /\ history' = history /\ i \in Nat \ {0} /\ Len(navs) < i
        /\ \A j \in 1 .. Len(navs), k \in i .. Len(history) : navs[j].day < history[k].day
    BY <1>4 DEF FilterValidNAVs, DrawdownInv, DatesInv
  <2>2. CASE i <= Len(history) /\ i' = i + 1 /\ navs' = Append(navs, history[i])
    <3>1. Len(navs') = Len(navs) + 1 /\ navs'[Len(navs) + 1] = history[i] /\ \A k \in 1 .. Len(navs) : navs'[k] = navs[k]
      BY <1>1, <2>2, AppendAny
    <3>2. i \in i .. Len(history) /\ i \in 1 .. Len(history)
      BY <1>1, <2>1, <2>2
    <3>3. Ascending(navs')
      BY <1>1, <2>1, <2>2, <3>2, AppendLater DEF DatesInv
    <3>4. ASSUME NEW j \in 1 .. Len(navs'), NEW k \in i' .. Len(history')
          PROVE  navs'[j].day < history'[k].day
      <4>1. k \in i .. Len(history) /\ k \in 1 .. Len(history) /\ i < k /\ history' = history
        BY <1>1, <2>1, <2>2, <3>4
      <4>2. CASE j \in 1 .. Len(navs)
        BY <2>1, <3>1, <4>1, <4>2
      <4>3. CASE j = Len(navs) + 1
        BY <3>1, <3>2, <4>1, <4>3 DEF DatesInv, Ascending
      <4> QED
        BY <1>1, <3>1, <4>2, <4>3
    <3>5. Len(navs') < i' /\ Len(navs') <= Len(history')
      BY <1>1, <2>1, <2>2, <3>1
    <3> QED
      BY <2>1, <3>3, <3>4, <3>5 DEF DatesInv, Ascending
  <2>3. CASE i <= Len(history) /\ i' = i + 1 /\ navs' = navs
    <3>1. \A j \in 1 .. Len(navs'), k \in i' .. Len(history') : navs'[j].day < history'[k].day
      <4>1. \A k \in i' .. Len(history') : k \in i .. Len(history)
        BY <1>1, <2>1, <2>3
      <4> QED
        BY <2>1, <2>3, <4>1
    <3>2. Len(navs') < i'
      BY <1>1, <2>1, <2>3
    <3> QED
      BY <2>1, <2>3, <3>1, <3>2 DEF DatesInv, Ascending
  <2>4. CASE navs' = navs /\ pc' = "drawdown"
    BY <2>1, <2>4 DEF DatesInv, Ascending
  <2> QED
    BY <1>4, <2>2, <2>3, <2>4 DEF FilterValidNAVs
<1>5. ASSUME history' = history, navs' = navs, pc' # "filter" PROVE DatesInv'
  BY <1>5 DEF DatesInv, Ascending
<1>6. CASE Drawdown
  BY <1>5, <1>6 DEF Drawdown
<1>7. CASE StartWindow \/ Slide \/ Sort \/ Welford \/ StoreWindow
  <2>1. pc' # "filter"
    BY <1>7 DEF StartWindow, Slide, Sort, Welford, StoreWindow
  <2> QED
    BY <1>5, <1>7, <2>1, WindowSteps
<1>8. CASE UNCHANGED vars
  BY <1>8 DEF vars, DatesInv, Ascending
<1> QED
  BY <1>2, <1>3, <1>4, <1>6, <1>7, <1>8 DEF Next

LEMMA DatesAlways == Spec => []DatesInv
BY InitDates, NextDates, DrawdownAlways, PTL DEF Spec

-----------------------------------------------------------------------------
(* The annualised returns of a window: those of the same periods as the      *)
(* total ones, as no two rows have the same date; then in their own order.   *)

PeriodTo(e, w) ==
  [from |-> navs[e - w].nav, to |-> navs[e].nav, days |-> navs[e].day - navs[e - w].day]

SpeedsUp(s) == \A j, k \in 1 .. Len(s) : j < k => ~Slower(s[k], s[j])
PeriodsOf(s, w) ==
  /\ \A k \in 1 .. Len(s) : \E e \in Ends(w) : s[k] = PeriodTo(e, w)
  /\ \A e \in Ends(w) : \E k \in 1 .. Len(s) : s[k] = PeriodTo(e, w)
ReturnsOf(s, w) ==
  /\ \A k \in 1 .. Len(s) : \E e \in Ends(w) : s[k] = ReturnTo(e, w)
  /\ \A e \in Ends(w) : \E k \in 1 .. Len(s) : s[k] = ReturnTo(e, w)

CagrsInv ==
  /\ pc = "rolling" =>
       Len(cagrs) = Len(returns) /\ \A k \in 1 .. Len(cagrs) : cagrs[k] = PeriodTo(k + Window, Window)
  /\ pc = "stddev" =>
       /\ Len(cagrs) = Len(returns) /\ SpeedsUp(cagrs)
       /\ PeriodsOf(cagrs, Window) /\ ReturnsOf(returns, Window)

(* Sorting loses nothing. *)
LEMMA RearrangedAll ==
  ASSUME NEW S, NEW s \in Seq(S), NEW t \in Rearranged(s)
  PROVE  /\ Len(t) = Len(s)
         /\ \A k \in 1 .. Len(s) : \E j \in 1 .. Len(s) : t[k] = s[j]
         /\ \A j \in 1 .. Len(s) : \E k \in 1 .. Len(s) : t[k] = s[j]
<1>1. DOMAIN s = 1 .. Len(s) /\ Len(s) \in Nat
  OBVIOUS
<1>2. PICK p \in Bijection(1 .. Len(s), 1 .. Len(s)) : t = [k \in 1 .. Len(s) |-> s[p[k]]]
  BY <1>1 DEF Rearranged
<1>3. /\ p \in [1 .. Len(s) -> 1 .. Len(s)]
      /\ \A j \in 1 .. Len(s) : \E k \in 1 .. Len(s) : p[k] = j
  BY DEF Bijection, Surjection
<1>4. Len(t) = Len(s)
  BY RearrangedSeq
<1>5. \A k \in 1 .. Len(s) : t[k] = s[p[k]] /\ p[k] \in 1 .. Len(s)
  BY <1>2, <1>3
<1> QED
  BY <1>3, <1>4, <1>5

LEMMA SlideCagrs ==
  ASSUME DrawdownInv, TypedInv, DatesInv, CagrsInv, Slide
  PROVE  CagrsInv'
<1> DEFINE w == Window
           p == [from |-> navs[i - w].nav, to |-> navs[i].nav, days |-> navs[i].day - navs[i - w].day]
           r == Change(navs[i - w].nav, navs[i].nav)
<1>1. /\ pc = "rolling" /\ pc' = "rolling" /\ i \in 1 .. Len(navs) /\ navs' = navs /\ results' = results
      /\ returns' = Append(returns, r)
      /\ cagrs' = IF navs[i].day - navs[i - w].day > 0 THEN Append(cagrs, p) ELSE cagrs
  BY DEF Slide, Rows
<1>2. /\ w \in Nat \ {0} /\ w <= Len(navs) /\ Len(navs) \in Nat /\ i \in Nat \ {0}
      /\ Len(returns) \in Nat /\ Len(returns) = i - 1 - w
      /\ Len(cagrs) = Len(returns)
      /\ \A k \in 1 .. Len(cagrs) : cagrs[k] = PeriodTo(k + w, w)
  BY <1>1, NavsTyped DEF TypedInv, PeriodsInv, Started, CagrsInv
<1>3. i - w \in 1 .. Len(navs) /\ i - w < i
  BY <1>1, <1>2
<1>4. navs[i].day - navs[i - w].day > 0
  <2>1. navs[i - w].day < navs[i].day
    BY <1>1, <1>3 DEF DatesInv, Ascending
  <2>2. navs[i] \in ValidRow /\ navs[i - w] \in ValidRow
    BY <1>1, <1>3, ElementOfSeq DEF DrawdownInv
  <2>3. navs[i].day \in Nat /\ navs[i - w].day \in Nat
    BY <2>2 DEF ValidRow
  <2> QED
    BY <2>1, <2>3
<1>5. Window' = w
  BY <1>1 DEF Window
<1>6. /\ Len(cagrs') = Len(cagrs) + 1 /\ cagrs'[Len(cagrs) + 1] = p
      /\ \A k \in 1 .. Len(cagrs) : cagrs'[k] = cagrs[k]
  <2>1. cagrs' = Append(cagrs, p) /\ cagrs \in Seq(PeriodType)
    BY <1>1, <1>4 DEF TypedInv, TypeOK
  <2> HIDE DEF p
  <2> QED
    BY <2>1, AppendAny
<1>7. Len(returns') = Len(returns) + 1
  <2>1. returns \in Seq(Int)
    BY DEF TypedInv, TypeOK
  <2> HIDE DEF r
  <2> QED
    BY <1>1, <2>1, AppendAny
<1>8. p = PeriodTo(i, w)
  BY DEF PeriodTo
<1>9. \A k \in 1 .. Len(cagrs') : cagrs'[k] = PeriodTo(k + w, w)
  <2> SUFFICES ASSUME NEW k \in 1 .. Len(cagrs') PROVE cagrs'[k] = PeriodTo(k + w, w)
    OBVIOUS
  <2>1. CASE k \in 1 .. Len(cagrs)
    BY <1>2, <1>6, <2>1
  <2>2. CASE k = Len(cagrs) + 1
    <3>1. k + w = i
      BY <1>2, <2>2
    <3> QED
      BY <1>6, <1>8, <2>2, <3>1
  <2> QED
    BY <1>2, <1>6, <2>1, <2>2
<1>10. \A k \in 1 .. Len(cagrs') : PeriodTo(k + w, w) = PeriodTo(k + Window, Window)'
  BY <1>1, <1>5 DEF PeriodTo
<1> HIDE DEF w, p, r
<1> QED
  BY <1>1, <1>2, <1>6, <1>7, <1>9, <1>10 DEF CagrsInv

LEMMA SortCagrs ==
  ASSUME DrawdownInv, TypedInv, CagrsInv, Sort, pc' = "stddev"
  PROVE  CagrsInv'
<1> DEFINE w == Window
           n == Len(returns)
<1>1. /\ pc = "rolling" /\ i \notin Rows /\ navs' = navs /\ results' = results
      /\ returns' \in SortedReturns(returns) /\ cagrs' \in SortedCagrs(cagrs)
  BY DEF Sort
<1>2. /\ w \in Nat \ {0} /\ Len(navs) \in Nat /\ i \in Nat \ {0} /\ i - 1 <= Len(navs) /\ w <= Len(navs)
      /\ n \in Nat /\ n = i - 1 - w /\ Len(cagrs) = n
      /\ \A k \in 1 .. n : returns[k] = ReturnTo(k + w, w)
      /\ \A k \in 1 .. n : cagrs[k] = PeriodTo(k + w, w)
  BY <1>1, NavsTyped DEF TypedInv, PeriodsInv, Started, CagrsInv
<1> HIDE DEF n, w
<1>3. n = Len(navs) - w /\ Ends(w) = w + 1 .. Len(navs)
  <2>1. Ends(w) = w + 1 .. Len(navs)
    BY <1>2, EndsInterval
  <2>2. i = Len(navs) + 1
    BY <1>1, <1>2 DEF Rows
  <2> QED
    BY <1>2, <2>1, <2>2
<1>4. /\ \A k \in 1 .. n : k + w \in Ends(w)
      /\ \A e \in Ends(w) : e - w \in 1 .. n /\ (e - w) + w = e
  BY <1>2, <1>3
<1>5. /\ Len(returns') = n
      /\ \A k \in 1 .. n : \E j \in 1 .. n : returns'[k] = returns[j]
      /\ \A j \in 1 .. n : \E k \in 1 .. n : returns'[k] = returns[j]
  <2>1. returns \in Seq(Int) /\ returns' \in Rearranged(returns)
    BY <1>1 DEF SortedReturns, TypedInv, TypeOK
  <2> QED
    BY <2>1, RearrangedAll DEF n
<1>6. /\ Len(cagrs') = n /\ DOMAIN cagrs' = 1 .. n
      /\ \A k \in 1 .. n : \E j \in 1 .. n : cagrs'[k] = cagrs[j]
      /\ \A j \in 1 .. n : \E k \in 1 .. n : cagrs'[k] = cagrs[j]
  <2>1. cagrs \in Seq(PeriodType) /\ cagrs' \in Rearranged(cagrs)
    BY <1>1 DEF SortedCagrs, TypedInv, TypeOK
  <2> DEFINE m == Len(cagrs)
  <2>2. DOMAIN cagrs' = 1 .. m
    BY <2>1, RearrangedSeq
  <2>3. /\ Len(cagrs') = m
        /\ \A k \in 1 .. m : \E j \in 1 .. m : cagrs'[k] = cagrs[j]
        /\ \A j \in 1 .. m : \E k \in 1 .. m : cagrs'[k] = cagrs[j]
    BY <2>1, RearrangedAll
  <2>4. m = n
    BY <1>2
  <2> HIDE DEF m
  <2> QED
    BY <2>2, <2>3, <2>4
<1>7. /\ \A k \in 1 .. n : \E e \in Ends(w) : returns'[k] = ReturnTo(e, w)
      /\ \A e \in Ends(w) : \E k \in 1 .. n : returns'[k] = ReturnTo(e, w)
  <2>1. \A k \in 1 .. n : \E e \in Ends(w) : returns'[k] = ReturnTo(e, w)
    BY <1>2, <1>4, <1>5
  <2>2. \A e \in Ends(w) : returns[e - w] = ReturnTo(e, w)
    BY <1>2, <1>4
  <2>3. \A e \in Ends(w) : \E k \in 1 .. n : returns'[k] = returns[e - w]
    BY <1>4, <1>5
  <2> QED
    BY <2>1, <2>2, <2>3
<1>8. /\ \A k \in 1 .. n : \E e \in Ends(w) : cagrs'[k] = PeriodTo(e, w)
      /\ \A e \in Ends(w) : \E k \in 1 .. n : cagrs'[k] = PeriodTo(e, w)
  <2>1. \A k \in 1 .. n : \E e \in Ends(w) : cagrs'[k] = PeriodTo(e, w)
    BY <1>2, <1>4, <1>6
  <2>2. \A e \in Ends(w) : cagrs[e - w] = PeriodTo(e, w)
    BY <1>2, <1>4
  <2>3. \A e \in Ends(w) : \E k \in 1 .. n : cagrs'[k] = cagrs[e - w]
    BY <1>4, <1>6
  <2> QED
    BY <2>1, <2>2, <2>3
<1>9. SpeedsUp(cagrs)'
  <2>1. \A j, k \in 1 .. n : j < k => ~Slower(cagrs'[k], cagrs'[j])
    BY <1>1, <1>6 DEF SortedCagrs
  <2> QED
    BY <1>6, <2>1 DEF SpeedsUp
<1>10. Window' = w /\ (Ends(Window))' = Ends(w)
  BY <1>1 DEF Window, Ends, Rows, w
<1>11. PeriodsOf(cagrs, Window)'
  BY <1>1, <1>6, <1>8, <1>10 DEF PeriodsOf, PeriodTo
<1>12. ReturnsOf(returns, Window)'
  BY <1>1, <1>5, <1>7, <1>10 DEF ReturnsOf, ReturnTo, Change
<1> QED
  BY <1>5, <1>6, <1>9, <1>11, <1>12 DEF CagrsInv

LEMMA NextCagrs == DrawdownInv /\ TypedInv /\ DatesInv /\ CagrsInv /\ [Next]_vars => CagrsInv'
<1> SUFFICES ASSUME DrawdownInv, TypedInv, DatesInv, CagrsInv, [Next]_vars PROVE CagrsInv'
  OBVIOUS
<1>1. CASE AddRow \/ Load \/ FilterValidNAVs \/ Drawdown
  <2>1. pc' \notin {"rolling", "stddev"}
    BY <1>1 DEF AddRow, Load, FilterValidNAVs, Drawdown
  <2> QED
    BY <2>1 DEF CagrsInv
<1>2. CASE StartWindow
  <2>1. pc' # "stddev" /\ returns' = <<>> /\ cagrs' = <<>>
    BY <1>2 DEF StartWindow
  <2>2. Len(cagrs') = 0 /\ Len(returns') = 0 /\ 1 .. 0 = {}
    BY <2>1
  <2> QED
    BY <2>1, <2>2 DEF CagrsInv
<1>3. CASE Sort
  <2>1. pc' \in {"window", "stddev"}
    BY <1>3 DEF Sort
  <2>2. CASE pc' = "window"
    BY <2>2 DEF CagrsInv
  <2> QED
    BY <1>3, <2>1, <2>2, SortCagrs
<1>4. CASE StoreWindow
  <2>1. pc' = "window"
    BY <1>4 DEF StoreWindow
  <2> QED
    BY <2>1 DEF CagrsInv
<1>5. CASE Welford \/ UNCHANGED vars
  <2>1. navs' = navs /\ pc' = pc /\ returns' = returns /\ cagrs' = cagrs /\ results' = results
    BY <1>5 DEF Welford, rolling, vars
  <2>2. Window' = Window
    BY <2>1 DEF Window
  <2>3. ASSUME pc = "rolling" PROVE CagrsInv'
    BY <2>1, <2>2, <2>3 DEF CagrsInv, PeriodTo
  <2>4. ASSUME pc = "stddev" PROVE CagrsInv'
    <3>1. SpeedsUp(cagrs) /\ PeriodsOf(cagrs, Window) /\ ReturnsOf(returns, Window) /\ Len(cagrs) = Len(returns)
      BY <2>4 DEF CagrsInv
    <3>2. SpeedsUp(cagrs)'
      BY <2>1, <3>1 DEF SpeedsUp
    <3>3. PeriodsOf(cagrs, Window)'
      BY <2>1, <2>2, <3>1 DEF PeriodsOf, PeriodTo, Ends, Rows
    <3>4. ReturnsOf(returns, Window)'
      BY <2>1, <2>2, <3>1 DEF ReturnsOf, ReturnTo, Change, Ends, Rows
    <3> QED
      BY <2>1, <2>4, <3>1, <3>2, <3>3, <3>4 DEF CagrsInv
  <2>5. ASSUME pc \notin {"rolling", "stddev"} PROVE CagrsInv'
    BY <2>1, <2>5 DEF CagrsInv
  <2> QED
    BY <2>3, <2>4, <2>5
<1> QED
  BY <1>1, <1>2, <1>3, <1>4, <1>5, SlideCagrs DEF Next

LEMMA CagrsAlways == Spec => []CagrsInv
<1>1. Init => CagrsInv
  BY DEF Init, CagrsInv
<1> QED
  BY <1>1, NextCagrs, DrawdownAlways, TypedAlways, DatesAlways, PTL DEF Spec

LEMMA ChangeSign ==
  ASSUME NEW a \in Values \ {0}, NEW v \in Values \ {0}
  PROVE  /\ Change(a, v) \in Int /\ a \in Nat /\ v \in Nat
         /\ Change(a, v) < 0 <=> v < a
         /\ Change(a, v) > 0 <=> v > a
<1>1. a \in Nat \ {0} /\ v \in Nat /\ Scale \in Nat \ {0} /\ (Scale \div a) * a = Scale
  BY ValuesAssumption
<1>2. Scale \div a \in Int /\ Change(a, v) \in Int
  BY <1>1, ChangeIsInt
<1>3. \A x \in Int : x * a = Scale => x > 0
  BY <1>1
<1>4. Scale \div a > 0
  BY <1>1, <1>2, <1>3
<1>5. \A x, d \in Int : x > 0 => (x * d < 0 <=> d < 0) /\ (x * d > 0 <=> d > 0)
  OBVIOUS
<1>6. v - a \in Int /\ (v - a < 0 <=> v < a) /\ (v - a > 0 <=> v > a)
  BY <1>1
<1>7. (Change(a, v) < 0 <=> v - a < 0) /\ (Change(a, v) > 0 <=> v - a > 0)
  BY <1>2, <1>4, <1>5, <1>6 DEF Change
<1> QED
  BY <1>1, <1>2, <1>6, <1>7

(* A period and its total return. *)
LEMMA PeriodSign ==
  ASSUME DrawdownInv, NEW w \in Nat \ {0}, NEW e \in Ends(w)
  PROVE  LET p == PeriodTo(e, w) IN
         /\ ReturnTo(e, w) \in Int /\ p.to \in Nat /\ p.from \in Nat
         /\ ReturnTo(e, w) < 0 <=> p.to < p.from
         /\ ReturnTo(e, w) > 0 <=> p.to > p.from
<1>1. e \in 1 .. Len(navs) /\ e - w \in 1 .. Len(navs)
  BY ValidRows DEF Ends, Rows
<1>2. navs[e].nav \in Values \ {0} /\ navs[e - w].nav \in Values \ {0}
  BY <1>1, ValidRows
<1>3. PeriodTo(e, w).to = navs[e].nav /\ PeriodTo(e, w).from = navs[e - w].nav
  BY DEF PeriodTo
<1> QED
  BY <1>2, <1>3, ChangeSign DEF ReturnTo

(* The first of the sorted total returns and the first of the sorted         *)
(* annualised ones belong to periods that both lost or both did not; the     *)
(* last ones to periods that both gained or both did not.                    *)
LEMMA EndsAgree ==
  ASSUME DrawdownInv, TypedInv, CagrsInv, pc = "stddev"
  PROVE  /\ cagrs[1].to < cagrs[1].from <=> returns[1] < 0
         /\ cagrs[Len(cagrs)].to > cagrs[Len(cagrs)].from <=> returns[Len(returns)] > 0
<1> DEFINE w == Window
           n == Len(returns)
<1>1. /\ w \in Nat \ {0} /\ n \in Nat \ {0} /\ Len(cagrs) = n
      /\ \A j, k \in 1 .. n : j < k => returns[j] <= returns[k]
      /\ \A j, k \in 1 .. n : j < k => ~Slower(cagrs[k], cagrs[j])
      /\ \A k \in 1 .. n : returns[k] \in Int /\ cagrs[k] \in PeriodType
  <2>1. returns \in Seq(Int) /\ cagrs \in Seq(PeriodType) /\ returns # <<>> /\ Len(cagrs) = n
    BY DEF TypedInv, TypeOK, PeriodsInv, CagrsInv
  <2>2. n \in Nat \ {0} /\ DOMAIN returns = 1 .. n
    BY <2>1
  <2>3. \A k \in 1 .. n : returns[k] \in Int /\ cagrs[k] \in PeriodType
    BY <2>1, ElementOfSeq
  <2>4. \A j, k \in 1 .. n : j < k => returns[j] <= returns[k]
    BY <2>2 DEF TypedInv, PeriodsInv, SortedUp
  <2>5. \A j, k \in 1 .. n : j < k => ~Slower(cagrs[k], cagrs[j])
    BY <2>1 DEF CagrsInv, SpeedsUp
  <2> QED
    BY <2>1, <2>2, <2>3, <2>4, <2>5, NavsTyped DEF Started
<1>2. /\ \A k \in 1 .. n : \E e \in Ends(w) : cagrs[k] = PeriodTo(e, w)
      /\ \A e \in Ends(w) : \E k \in 1 .. n : cagrs[k] = PeriodTo(e, w)
      /\ \A k \in 1 .. n : \E e \in Ends(w) : returns[k] = ReturnTo(e, w)
      /\ \A e \in Ends(w) : \E k \in 1 .. n : returns[k] = ReturnTo(e, w)
  BY <1>1 DEF CagrsInv, PeriodsOf, ReturnsOf
<1> DEFINE Lost(p) == p.to < p.from
           Gained(p) == p.to > p.from
<1>3. \A e \in Ends(w) :
        /\ ReturnTo(e, w) < 0 <=> Lost(PeriodTo(e, w))
        /\ ReturnTo(e, w) > 0 <=> Gained(PeriodTo(e, w))
  BY <1>1, PeriodSign
<1>4. \A p, q \in PeriodType : Lost(p) /\ ~Lost(q) => Slower(p, q)
  <2> SUFFICES ASSUME NEW p \in PeriodType, NEW q \in PeriodType, Lost(p), ~Lost(q) PROVE Slower(p, q)
    OBVIOUS
  <2>1. q.to \in Nat /\ q.from \in Nat
    BY ValuesAssumption DEF PeriodType
  <2> QED
    BY <2>1, SlowerBySign
<1>5. \A p, q \in PeriodType : ~Gained(p) /\ Gained(q) => Slower(p, q)
  <2> SUFFICES ASSUME NEW p \in PeriodType, NEW q \in PeriodType, ~Gained(p), Gained(q) PROVE Slower(p, q)
    OBVIOUS
  <2>1. p.to \in Nat /\ p.from \in Nat
    BY ValuesAssumption DEF PeriodType
  <2> QED
    BY <2>1, SlowerBySign
<1> HIDE DEF w, n, Lost, Gained
<1>6. 1 \in 1 .. n /\ n \in 1 .. n /\ \A k \in 1 .. n : (k = 1 \/ 1 < k) /\ (k = n \/ k < n)
  BY <1>1
<1>7. Lost(cagrs[1]) => returns[1] < 0
  <2> SUFFICES ASSUME Lost(cagrs[1]) PROVE returns[1] < 0
    OBVIOUS
  <2>1. PICK e \in Ends(w) : cagrs[1] = PeriodTo(e, w)
    BY <1>2, <1>6
  <2>2. PICK k \in 1 .. n : returns[k] = ReturnTo(e, w)
    BY <1>2
  <2>3. returns[k] < 0 /\ returns[k] \in Int /\ returns[1] \in Int
    BY <1>1, <1>3, <1>6, <2>1, <2>2
  <2>4. returns[1] <= returns[k]
    BY <1>1, <1>6, <2>3
  <2> QED
    BY <2>3, <2>4
<1>8. returns[1] < 0 => Lost(cagrs[1])
  <2> SUFFICES ASSUME returns[1] < 0 PROVE Lost(cagrs[1])
    OBVIOUS
  <2>1. PICK e \in Ends(w) : returns[1] = ReturnTo(e, w)
    BY <1>2, <1>6
  <2>2. PICK k \in 1 .. n : cagrs[k] = PeriodTo(e, w)
    BY <1>2
  <2>3. Lost(cagrs[k])
    BY <1>3, <2>1, <2>2
  <2>4. k = 1 \/ ~Slower(cagrs[k], cagrs[1])
    BY <1>1, <1>6
  <2> QED
    BY <1>1, <1>4, <1>6, <2>3, <2>4
<1>9. Gained(cagrs[n]) => returns[n] > 0
  <2> SUFFICES ASSUME Gained(cagrs[n]) PROVE returns[n] > 0
    OBVIOUS
  <2>1. PICK e \in Ends(w) : cagrs[n] = PeriodTo(e, w)
    BY <1>2, <1>6
  <2>2. PICK k \in 1 .. n : returns[k] = ReturnTo(e, w)
    BY <1>2
  <2>3. returns[k] > 0 /\ returns[k] \in Int /\ returns[n] \in Int
    BY <1>1, <1>3, <1>6, <2>1, <2>2
  <2>4. returns[k] <= returns[n]
    BY <1>1, <1>6, <2>3
  <2> QED
    BY <2>3, <2>4
<1>10. returns[n] > 0 => Gained(cagrs[n])
  <2> SUFFICES ASSUME returns[n] > 0 PROVE Gained(cagrs[n])
    OBVIOUS
  <2>1. PICK e \in Ends(w) : returns[n] = ReturnTo(e, w)
    BY <1>2, <1>6
  <2>2. PICK k \in 1 .. n : cagrs[k] = PeriodTo(e, w)
    BY <1>2
  <2>3. Gained(cagrs[k])
    BY <1>3, <2>1, <2>2
  <2>4. k = n \/ ~Slower(cagrs[n], cagrs[k])
    BY <1>1, <1>6
  <2> QED
    BY <1>1, <1>5, <1>6, <2>3, <2>4
<1> QED
  BY <1>1, <1>7, <1>8, <1>9, <1>10 DEF Lost, Gained, n

AgreesRecord(r) ==
  r.periods > 0 =>
    /\ r.cagrMin.to < r.cagrMin.from <=> r.min < 0
    /\ r.cagrMax.to > r.cagrMax.from <=> r.max > 0
AgreesInv == \A k \in 1 .. Len(results) : AgreesRecord(results[k])

LEMMA AgreesAdded ==
  ASSUME ResultsAreSeq, AgreesInv, NEW r, results' = Append(results, r), AgreesRecord(r)
  PROVE  AgreesInv'
<1>1. /\ Len(results) \in Nat /\ Len(results') = Len(results) + 1
      /\ \A k \in 1 .. Len(results) : results'[k] = results[k]
      /\ results'[Len(results) + 1] = r
  BY AppendResult
<1>2. \A k \in 1 .. Len(results') : AgreesRecord(results'[k])
  <2> SUFFICES ASSUME NEW k \in 1 .. Len(results') PROVE AgreesRecord(results'[k])
    OBVIOUS
  <2>1. CASE k \in 1 .. Len(results)
    BY <1>1, <2>1 DEF AgreesInv
  <2>2. CASE k = Len(results) + 1
    BY <1>1, <2>2
  <2> QED
    BY <1>1, <2>1, <2>2
<1> QED
  BY <1>2 DEF AgreesInv, AgreesRecord

LEMMA NextAgrees == DrawdownInv /\ TypedInv /\ CagrsInv /\ AgreesInv /\ [Next]_vars => AgreesInv'
<1> SUFFICES ASSUME DrawdownInv, TypedInv, CagrsInv, AgreesInv, [Next]_vars PROVE AgreesInv'
  OBVIOUS
<1>1. CASE results' = results
  BY <1>1 DEF AgreesInv, AgreesRecord
<1>2. CASE results' = Append(results, Insufficient)
  <2>1. AgreesRecord(Insufficient)
    BY DEF AgreesRecord, Insufficient
  <2> QED
    BY <1>2, <2>1, AgreesAdded DEF TypedInv
<1>3. CASE AddRow \/ Load \/ FilterValidNAVs \/ Drawdown \/ Slide \/ Welford \/ UNCHANGED vars
  <2>1. results' = results
    BY <1>3 DEF AddRow, Load, FilterValidNAVs, Drawdown, Slide, Welford, vars
  <2> QED
    BY <1>1, <2>1
<1>4. CASE StartWindow
  BY <1>1, <1>2, <1>4 DEF StartWindow
<1>5. CASE Sort
  BY <1>1, <1>2, <1>5 DEF Sort
<1>6. CASE StoreWindow
  <2> DEFINE r == [points |-> Len(navs), dd |-> maxDD, periods |-> Len(returns),
                   min |-> returns[1], p25 |-> percentile(returns, 25), median |-> percentile(returns, 50),
                   p75 |-> percentile(returns, 75), max |-> returns[Len(returns)], squares |-> m2,
                   cagrMin |-> cagrs[1], cagrMax |-> cagrs[Len(cagrs)]]
  <2>1. pc = "stddev" /\ results' = Append(results, r)
    BY <1>6 DEF StoreWindow
  <2>2. /\ r.min = returns[1] /\ r.max = returns[Len(returns)]
        /\ r.cagrMin = cagrs[1] /\ r.cagrMax = cagrs[Len(cagrs)]
    OBVIOUS
  <2> HIDE DEF r
  <2>3. AgreesRecord(r)
    BY <2>1, <2>2, EndsAgree DEF AgreesRecord
  <2> QED
    BY <2>1, <2>3, AgreesAdded DEF TypedInv
<1> QED
  BY <1>3, <1>4, <1>5, <1>6 DEF Next

(* The worst annualised return of a window is a loss just when its worst     *)
(* total return is, and the best is a gain just when the best total one is,  *)
(* for all NAVs, dates and windows, although the two lists are sorted apart  *)
(* and by different keys (computeRollingStats, computeWindow).               *)
THEOREM CagrAgreesCorrect == Spec => []CagrAgrees
<1>1. Init => AgreesInv
  BY DEF Init, AgreesInv
<1>2. AgreesInv => CagrAgrees
  BY DEF AgreesInv, AgreesRecord, CagrAgrees, Stored, Complete
<1> QED
  BY <1>1, <1>2, NextAgrees, DrawdownAlways, TypedAlways, CagrsAlways, PTL DEF Spec

-----------------------------------------------------------------------------
(* The variance: the mean is exact after every turn, and the sum of squares  *)
(* is that of the deviations from it.                                        *)

LEMMA SumsSteps ==
  ASSUME NEW s \in Seq(Int)
  PROVE  /\ Sums(s)[0] = 0
         /\ \A n \in 0 .. Len(s) : Sums(s)[n] \in Int
         /\ \A n \in 0 .. Len(s) - 1 : Sums(s)[n + 1] = Sums(s)[n] + s[n + 1]
<1> DEFINE m == Len(s)
           step == [q \in Nat \X Int |-> IF q[1] < m THEN q[2] + s[q[1] + 1] ELSE 0]
<1>1. m \in Nat /\ \A k \in 1 .. m : s[k] \in Int
  BY ElementOfSeq
<1>2. \A n \in Nat, x \in Int : n < m => x + s[n + 1] \in Int
  BY <1>1
<1> HIDE DEF m
<1>3. /\ step \in [Nat \X Int -> Int]
      /\ \A n \in Nat, x \in Int : n < m => step[<<n, x>>] = x + s[n + 1]
  <2>1. \A q \in Nat \X Int : (IF q[1] < m THEN q[2] + s[q[1] + 1] ELSE 0) \in Int
    <3> SUFFICES ASSUME NEW q \in Nat \X Int, q[1] < m PROVE q[2] + s[q[1] + 1] \in Int
      OBVIOUS
    <3>1. q[1] \in Nat /\ q[2] \in Int
      OBVIOUS
    <3> QED
      BY <1>2, <3>1
  <2>2. \A n \in Nat, x \in Int : <<n, x>> \in Nat \X Int /\ <<n, x>>[1] = n /\ <<n, x>>[2] = x
    OBVIOUS
  <2>3. \A n \in Nat, x \in Int : step[<<n, x>>] = IF n < m THEN x + s[n + 1] ELSE 0
    BY <2>2
  <2>4. step \in [Nat \X Int -> Int]
    BY <2>1
  <2> HIDE DEF step
  <2> QED
    BY <2>3, <2>4
<1>4. PICK F \in [Nat -> Int] : Follows(F, 0, step)
  <2>1. 0 \in Int
    OBVIOUS
  <2> HIDE DEF step
  <2> QED
    BY <1>3, <2>1, RecursionExists
<1>5. F[0] = 0 /\ \A n \in Nat : n < m => F[n + 1] = F[n] + s[n + 1]
  <2> HIDE DEF step
  <2> QED
    BY <1>3, <1>4 DEF Follows
<1> DEFINE Solves(g) == g = [k \in 0 .. m |-> IF k = 0 THEN 0 ELSE g[k - 1] + s[k]]
           h == [k \in 0 .. m |-> F[k]]
<1>6. Solves(h)
  <2>1. \A k \in 0 .. m : h[k] = IF k = 0 THEN 0 ELSE h[k - 1] + s[k]
    <3> SUFFICES ASSUME NEW k \in 0 .. m PROVE h[k] = IF k = 0 THEN 0 ELSE h[k - 1] + s[k]
      OBVIOUS
    <3>1. CASE k = 0
      BY <1>5, <3>1
    <3>2. CASE k # 0
      <4>1. k - 1 \in Nat /\ (k - 1) + 1 = k /\ k - 1 < m /\ k - 1 \in 0 .. m
        BY <1>1, <3>2
      <4>2. F[k] = F[k - 1] + s[k]
        BY <1>5, <4>1
      <4> QED
        BY <3>2, <4>1, <4>2
    <3> QED
      BY <3>1, <3>2
  <2>2. h = [k \in 0 .. m |-> h[k]]
    OBVIOUS
  <2> HIDE DEF h
  <2> QED
    BY <2>1, <2>2
<1> DEFINE g == CHOOSE g : Solves(g)
<1>7. Solves(g)
  <2> HIDE DEF Solves
  <2> QED
    BY <1>6
<1>8. Sums(s) = g
  BY DEF Sums, m
<1> HIDE DEF g, h, step
<1>9. \A k \in 0 .. m : g[k] = IF k = 0 THEN 0 ELSE g[k - 1] + s[k]
  BY <1>7
<1>10. g[0] = 0 /\ \A n \in 0 .. m - 1 : g[n + 1] = g[n] + s[n + 1]
  <2>1. 0 \in 0 .. m
    BY <1>1
  <2>2. \A n \in 0 .. m - 1 : n + 1 \in 0 .. m /\ n + 1 # 0 /\ (n + 1) - 1 = n
    BY <1>1
  <2> HIDE DEF Solves
  <2> QED
    BY <1>9, <2>1, <2>2
<1>11. \A n \in 0 .. m : g[n] \in Int
  <2> DEFINE T == {n \in Nat : n <= m => g[n] \in Int}
  <2>1. 0 \in T
    BY <1>10
  <2>2. ASSUME NEW n \in Nat, n \in T PROVE n + 1 \in T
    <3>1. ASSUME n + 1 <= m PROVE g[n + 1] \in Int
      <4>1. n \in 0 .. m - 1 /\ n <= m /\ n + 1 \in 1 .. m
        BY <1>1, <3>1
      <4>2. g[n] \in Int /\ s[n + 1] \in Int
        BY <1>1, <2>2, <4>1
      <4>3. g[n + 1] = g[n] + s[n + 1]
        BY <1>10, <4>1
      <4> QED
        BY <4>2, <4>3
    <3> QED
      BY <3>1
  <2>3. \A n \in Nat : n \in T
    <3> HIDE DEF T
    <3> QED
      BY <2>1, <2>2, SetInduction
  <2> QED
    BY <1>1, <2>3
<1> QED
  BY <1>8, <1>10, <1>11 DEF m

(* What every element is a multiple of, their sums are. *)
LEMMA SumsDivisible ==
  ASSUME NEW s \in Seq(Int), NEW d \in Nat, \A k \in 1 .. Len(s) : \E q \in Int : s[k] = d * q
  PROVE  \A n \in 0 .. Len(s) : \E q \in Int : Sums(s)[n] = d * q
<1> DEFINE m == Len(s)
           T == {n \in Nat : n <= m => \E q \in Int : Sums(s)[n] = d * q}
<1>1. m \in Nat
  OBVIOUS
<1>2. 0 \in T
  <2>1. Sums(s)[0] = 0 /\ d * 0 = 0 /\ 0 \in Int
    BY SumsSteps
  <2>2. \E q \in Int : Sums(s)[0] = d * q
    BY <2>1
  <2> QED
    BY <2>2
<1>3. ASSUME NEW n \in Nat, n \in T PROVE n + 1 \in T
  <2> SUFFICES ASSUME n + 1 <= m PROVE \E q \in Int : Sums(s)[n + 1] = d * q
    OBVIOUS
  <2>1. n <= m /\ n \in 0 .. m - 1 /\ n + 1 \in 1 .. m
    BY <1>1
  <2>2. PICK q \in Int : Sums(s)[n] = d * q
    BY <1>3, <2>1
  <2>3. PICK r \in Int : s[n + 1] = d * r
    BY <2>1
  <2>4. Sums(s)[n + 1] = d * q + d * r
    BY <2>1, <2>2, <2>3, SumsSteps
  <2>5. d * q + d * r = d * (q + r) /\ q + r \in Int
    OBVIOUS
  <2> QED
    BY <2>4, <2>5
<1>4. \A n \in Nat : n \in T
  <2> HIDE DEF T
  <2> QED
    BY <1>2, <1>3, SetInduction
<1>5. \A n \in Nat : n <= m => \E q \in Int : Sums(s)[n] = d * q
  BY <1>4
<1>6. \A n \in 0 .. m : n \in Nat /\ n <= m
  BY <1>1
<1> HIDE DEF T
<1> QED
  BY <1>5, <1>6

LEMMA QuotientExact == \A d \in Nat \ {0}, e \in Int : (d * e) \div d = e
OBVIOUS

(* One turn of Welford's loop, when the mean of n + 1 values is a whole      *)
(* number c: from n values with the sum S, the mean m and the sum of squares *)
(* Q to n + 1.                                                               *)
ExactTurn(n, m, x, Q, c) ==
  /\ m + (x - m) \div (n + 1) = c
  /\ SquareUpdate(Q - n * (m * m), x, m, c) = (Q + x * x) - (n + 1) * (c * c)

LEMMA WelfordExact ==
  ASSUME NEW n \in Nat, NEW m \in Int, NEW x \in Int, NEW Q \in Int, NEW c \in Int,
         n * m + x = (n + 1) * c
  PROVE  ExactTurn(n, m, x, Q, c)
<1>1. x - m = (n + 1) * (c - m) /\ c - m \in Int /\ n + 1 \in Nat \ {0}
  <2>1. (n + 1) * (c - m) = (n + 1) * c - (n + 1) * m /\ (n + 1) * m = n * m + m
    OBVIOUS
  <2>2. n * m \in Int /\ (n + 1) * c \in Int
    OBVIOUS
  <2> QED
    BY <2>1, <2>2
<1>2. (x - m) \div (n + 1) = c - m
  BY <1>1, QuotientExact
<1>3. (x - m) * (x - c) - n * (m * m) = x * x - (n + 1) * (c * c)
  <2>1. \A k, a, b \in Int :
          LET y == (k + 1) * b - k * a IN
          (y - a) * (y - b) - k * (a * a) = y * y - (k + 1) * (b * b)
    OBVIOUS
  <2>2. x = (n + 1) * c - n * m
    <3>1. n * m \in Int /\ (n + 1) * c \in Int
      OBVIOUS
    <3> QED
      BY <3>1
  <2> QED
    BY <2>1, <2>2
<1>4. /\ (x - m) * (x - c) \in Int /\ n * (m * m) \in Int /\ x * x \in Int
      /\ (n + 1) * (c * c) \in Int
  OBVIOUS
<1>5. SquareUpdate(Q - n * (m * m), x, m, c) = Q - n * (m * m) + (x - m) * (x - c)
  BY DEF SquareUpdate
<1>6. m + (x - m) \div (n + 1) = c
  BY <1>2
<1> DEFINE u == (x - m) * (x - c)
           v == n * (m * m)
           y == x * x
           z == (n + 1) * (c * c)
<1>7. u \in Int /\ v \in Int /\ y \in Int /\ z \in Int /\ u - v = y - z
  BY <1>3, <1>4
<1>8. Q - v + u = (Q + y) - z
  <2> HIDE DEF u, v, y, z
  <2> QED
    BY <1>7
<1> QED
  BY <1>5, <1>6, <1>8 DEF ExactTurn

LEMMA SquaresTyped ==
  ASSUME NEW s \in Seq(Int)
  PROVE  /\ Squares(s) \in Seq(Int) /\ Len(Squares(s)) = Len(s)
         /\ \A k \in 1 .. Len(s) : Squares(s)[k] = s[k] * s[k]
<1>1. Len(s) \in Nat /\ \A k \in 1 .. Len(s) : s[k] \in Int
  BY ElementOfSeq
<1>2. \A k \in 1 .. Len(s) : s[k] * s[k] \in Int
  BY <1>1
<1> QED
  BY <1>1, <1>2 DEF Squares

(* Every return is a multiple of any number of periods there can be. *)
LEMMA ReturnsDivisible ==
  ASSUME DrawdownInv, TypedInv, DatesInv, CagrsInv, pc = "stddev"
  PROVE  /\ returns \in Seq(Int) /\ Len(returns) \in Nat \ {0} /\ Len(returns) <= MaxRows - 1
         /\ \A d \in 1 .. Len(returns), k \in 1 .. Len(returns) : \E q \in Int : returns[k] = d * q
<1> DEFINE n == Len(returns)
           w == Window
<1>1. /\ returns \in Seq(Int) /\ returns # <<>> /\ n \in Nat \ {0} /\ w \in Nat \ {0}
      /\ n = Len(navs) - w /\ Len(navs) \in Nat
  <2>1. returns \in Seq(Int) /\ returns # <<>> /\ n = Len(navs) - w
    BY DEF TypedInv, TypeOK, PeriodsInv
  <2> QED
    BY <2>1, NavsTyped DEF Started
<1>2. MaxRows \in Nat /\ Len(history) \in Nat /\ Len(navs) <= MaxRows
  <2>1. Len(history) \in Nat /\ Len(history) <= MaxRows /\ Len(navs) <= Len(history)
    BY DEF DrawdownInv, DatesInv
  <2> QED
    BY <1>1, <2>1, ValuesAssumption
<1>3. n <= MaxRows - 1
  <2> HIDE DEF n, w
  <2> QED
    BY <1>1, <1>2
<1>4. ASSUME NEW d \in 1 .. n, NEW k \in 1 .. n PROVE \E q \in Int : returns[k] = d * q
  <2>1. PICK e \in Ends(w) : returns[k] = ReturnTo(e, w)
    BY DEF CagrsInv, ReturnsOf
  <2>2. e \in 1 .. Len(navs) /\ e - w \in 1 .. Len(navs)
    BY <1>1 DEF Ends, Rows
  <2> DEFINE a == navs[e - w].nav
             v == navs[e].nav
             x == Scale \div a
  <2>3. a \in Values \ {0} /\ v \in Nat /\ a \in Nat
    BY <2>2, ValidRows
  <2>4. x \in Int /\ d \in 1 .. MaxRows - 1 /\ d \in Nat \ {0} /\ x % d = 0
    <3>1. x \in Int
      BY <2>3, ChangeIsInt, ValuesAssumption
    <3>2. d \in 1 .. MaxRows - 1 /\ d \in Nat \ {0}
      BY <1>1, <1>2, <1>3
    <3> QED
      BY <2>3, <3>1, <3>2, MeansAssumption
  <2>5. returns[k] = x * (v - a) /\ v - a \in Int
    BY <2>1, <2>3 DEF ReturnTo, Change
  <2> HIDE DEF x, v, a
  <2>6. PICK c \in Int : x = d * c
    <3>1. /\ x \div d \in Int /\ d * (x \div d) \in Int
          /\ x = d * (x \div d) + (x % d)
      BY <2>4
    <3>2. x = d * (x \div d)
      BY <2>4, <3>1
    <3> QED
      BY <3>1, <3>2
  <2>7. \A f \in Int : (d * c) * f = d * (c * f) /\ c * f \in Int
    BY <2>4
  <2> QED
    BY <2>5, <2>6, <2>7
<1> QED
  BY <1>1, <1>3, <1>4

VarianceInv ==
  /\ pc = "stddev" =>
       /\ i - 1 <= Len(returns)
       /\ (i - 1) * mean = Sums(returns)[i - 1]
       /\ m2 = Sums(Squares(returns))[i - 1] - (i - 1) * (mean * mean)
  /\ SampleVariance

LEMMA WelfordTurn ==
  ASSUME DrawdownInv, TypedInv, DatesInv, CagrsInv, VarianceInv, Welford
  PROVE  VarianceInv'
<1> DEFINE n == i - 1
           x == returns[i]
           S == Sums(returns)
           Q == Sums(Squares(returns))
<1>1. /\ pc = "stddev" /\ pc' = "stddev" /\ i <= Len(returns) /\ i' = i + 1 /\ returns' = returns
      /\ mean' = mean + (x - mean) \div i /\ m2' = SquareUpdate(m2, x, mean, mean')
  BY DEF Welford, rolling
<1>2. /\ returns \in Seq(Int) /\ Len(returns) \in Nat \ {0} /\ i \in Nat \ {0} /\ mean \in Int
      /\ \A k \in 1 .. Len(returns) : \E q \in Int : returns[k] = i * q
  <2>1. i \in Nat \ {0} /\ mean \in Int /\ i \in 1 .. Len(returns)
    BY <1>1, ReturnsDivisible DEF TypedInv, TypeOK
  <2> QED
    BY <1>1, <2>1, ReturnsDivisible
<1>3. n \in Nat /\ n + 1 = i /\ i' - 1 = i /\ n \in 0 .. Len(returns) - 1 /\ n \in 0 .. Len(returns)
      /\ i \in 0 .. Len(returns) /\ i \in 1 .. Len(returns)
  BY <1>1, <1>2
<1> HIDE DEF n
<1>4. x \in Int /\ S[n] \in Int /\ S[i] = S[n] + x
  <2>1. S[n] \in Int /\ S[n + 1] = S[n] + returns[n + 1]
    BY <1>2, <1>3, SumsSteps
  <2> QED
    BY <1>2, <1>3, <2>1, ElementOfSeq
<1>5. Q[n] \in Int /\ Q[i] = Q[n] + x * x
  <2>1. Squares(returns) \in Seq(Int) /\ Len(Squares(returns)) = Len(returns)
        /\ Squares(returns)[i] = x * x
    BY <1>2, <1>3, SquaresTyped
  <2>2. n \in 0 .. Len(Squares(returns)) /\ n \in 0 .. Len(Squares(returns)) - 1
    BY <1>3, <2>1
  <2>3. Q[n] \in Int /\ Q[n + 1] = Q[n] + Squares(returns)[n + 1]
    BY <2>1, <2>2, SumsSteps
  <2> QED
    BY <1>3, <2>1, <2>3
<1>6. n * mean = S[n] /\ m2 = Q[n] - n * (mean * mean)
  BY <1>1 DEF VarianceInv, n
<1>7. PICK c \in Int : S[i] = i * c
  BY <1>2, <1>3, SumsDivisible
<1> HIDE DEF S, Q, x
<1>8. n * mean + x = (n + 1) * c
  BY <1>3, <1>4, <1>6, <1>7
<1>a. ExactTurn(n, mean, x, Q[n], c)
  BY <1>2, <1>3, <1>4, <1>5, <1>8, WelfordExact
<1>9. mean' = c
  BY <1>1, <1>3, <1>a DEF ExactTurn
<1>10. m2' = Q[i] - i * (c * c)
  <2>1. SquareUpdate(Q[n] - n * (mean * mean), x, mean, c) = (Q[n] + x * x) - (n + 1) * (c * c)
    BY <1>a DEF ExactTurn
  <2> QED
    BY <1>1, <1>3, <1>5, <1>6, <1>9, <2>1
<1>11. i' - 1 <= Len(returns') /\ (i' - 1) * mean' = S[i] /\ m2' = Q[i] - (i' - 1) * (mean' * mean')
  BY <1>1, <1>3, <1>7, <1>9, <1>10
<1>12. S[i] = Sums(returns')[i' - 1] /\ Q[i] = Sums(Squares(returns'))[i' - 1]
  BY <1>1, <1>3 DEF S, Q
<1>13. SampleVariance'
  BY <1>1 DEF SampleVariance
<1> QED
  BY <1>11, <1>12, <1>13 DEF VarianceInv

LEMMA ScaledVariance ==
  \A n \in Nat, m, q \in Int : n * (q - n * (m * m)) = n * q - (n * m) * (n * m)
OBVIOUS

(* The record that is stored holds the sum of squared deviations. *)
LEMMA StoreVariance ==
  ASSUME DrawdownInv, TypedInv, DatesInv, CagrsInv, VarianceInv, StoreWindow
  PROVE  VarianceInv'
<1> DEFINE n == Len(returns)
           T == Total(returns)
           U == Total(Squares(returns))
           r == [points |-> Len(navs), dd |-> maxDD, periods |-> Len(returns),
                 min |-> returns[1], p25 |-> percentile(returns, 25), median |-> percentile(returns, 50),
                 p75 |-> percentile(returns, 75), max |-> returns[Len(returns)], squares |-> m2,
                 cagrMin |-> cagrs[1], cagrMax |-> cagrs[Len(cagrs)]]
<1>1. /\ pc = "stddev" /\ pc' = "window" /\ i > n /\ returns' = returns /\ results' = Append(results, r)
  BY DEF StoreWindow, rolling
<1>2. r.squares = m2
  OBVIOUS
<1> HIDE DEF r
<1>3. returns \in Seq(Int) /\ n \in Nat /\ i \in Nat \ {0} /\ mean \in Int
  BY <1>1, ReturnsDivisible DEF TypedInv, TypeOK
<1>4. i - 1 = n
  BY <1>1, <1>3 DEF VarianceInv
<1>5. n * mean = T /\ m2 = U - n * (mean * mean)
  <2>1. Len(Squares(returns)) = n
    BY <1>3, SquaresTyped
  <2> QED
    BY <1>1, <1>4, <2>1 DEF VarianceInv, Total
<1>6. U \in Int
  <2>1. Squares(returns) \in Seq(Int) /\ Len(Squares(returns)) \in Nat
    BY <1>3, SquaresTyped
  <2>2. Len(Squares(returns)) \in 0 .. Len(Squares(returns))
    BY <2>1
  <2> QED
    BY <2>1, <2>2, SumsSteps DEF Total
<1>7. results'[Len(results')].squares = m2
  BY <1>1, <1>2, AppendResult DEF TypedInv
<1> HIDE DEF T, U, n
<1>8. n * m2 = n * U - T * T
  BY <1>3, <1>5, <1>6, ScaledVariance
<1>9. SampleVariance'
  BY <1>1, <1>7, <1>8 DEF SampleVariance, T, U, n
<1> QED
  BY <1>1, <1>9 DEF VarianceInv

LEMMA SortVariance ==
  ASSUME DrawdownInv, TypedInv, Sort, pc' = "stddev"
  PROVE  VarianceInv'
<1>1. returns' \in Seq(Int) /\ i' = 1 /\ mean' = 0 /\ m2' = 0
  <2>1. pc = "rolling" /\ returns' \in SortedReturns(returns) /\ i' = 1 /\ mean' = 0 /\ m2' = 0
    BY DEF Sort
  <2> QED
    BY <2>1, SortedPaired
<1>2. Len(returns') \in Nat /\ Sums(returns')[0] = 0
  BY <1>1, SumsSteps
<1>3. Sums(Squares(returns'))[0] = 0
  BY <1>1, SquaresTyped, SumsSteps
<1>4. i' - 1 = 0 /\ 0 * mean' = 0 /\ 0 * (mean' * mean') = 0
  BY <1>1
<1>5. m2' = Sums(Squares(returns'))[i' - 1] - (i' - 1) * (mean' * mean')
  BY <1>1, <1>3, <1>4
<1>6. i' - 1 <= Len(returns') /\ (i' - 1) * mean' = Sums(returns')[i' - 1]
  BY <1>1, <1>2, <1>4
<1>7. SampleVariance'
  BY DEF SampleVariance
<1> QED
  BY <1>5, <1>6, <1>7 DEF VarianceInv

LEMMA NextVariance ==
  DrawdownInv /\ TypedInv /\ DatesInv /\ CagrsInv /\ RecordsInv /\ VarianceInv /\ [Next]_vars => VarianceInv'
<1> SUFFICES ASSUME DrawdownInv, TypedInv, DatesInv, CagrsInv, RecordsInv, VarianceInv, [Next]_vars
             PROVE  VarianceInv'
  OBVIOUS
<1>1. ASSUME pc' \notin {"stddev", "window"} PROVE VarianceInv'
  BY <1>1 DEF VarianceInv, SampleVariance
<1>2. CASE AddRow \/ Load \/ FilterValidNAVs
  <2>1. pc' \notin {"stddev", "window"}
    BY <1>2 DEF AddRow, Load, FilterValidNAVs
  <2> QED
    BY <1>1, <2>1
<1>3. CASE Drawdown
  <2>1. pc' # "stddev" /\ results' = <<>> /\ Len(results') = 0
    BY <1>3 DEF Drawdown, RecordsInv
  <2>2. Stored' = {}
    BY <2>1 DEF Stored
  <2> QED
    BY <2>1, <2>2 DEF VarianceInv, SampleVariance
<1>4. ASSUME results' = Append(results, Insufficient), pc' = "window" PROVE VarianceInv'
  <2>1. results'[Len(results')] = Insufficient
    BY <1>4, AppendResult DEF TypedInv
  <2>2. Len(results') \notin Stored'
    BY <2>1 DEF Stored, Complete, Insufficient
  <2> QED
    BY <1>4, <2>2 DEF VarianceInv, SampleVariance
<1>5. CASE StartWindow
  <2>1. CASE pc' \in {"done", "rolling"}
    BY <1>1, <2>1
  <2>2. CASE results' = Append(results, Insufficient) /\ pc' = "window"
    BY <1>4, <2>2
  <2> QED
    BY <1>5, <2>1, <2>2, Zenon DEF StartWindow
<1>6. CASE Slide
  BY <1>1, <1>6 DEF Slide
<1>7. CASE Sort
  <2>1. pc' = "stddev" \/ (results' = Append(results, Insufficient) /\ pc' = "window")
    BY <1>7 DEF Sort
  <2> QED
    BY <1>4, <1>7, <2>1, SortVariance
<1>8. CASE UNCHANGED vars
  <2>1. pc' = pc /\ i' = i /\ mean' = mean /\ m2' = m2 /\ returns' = returns /\ results' = results
    BY <1>8 DEF vars
  <2>2. Stored' = Stored
    BY <2>1 DEF Stored, Complete
  <2>3. SampleVariance'
    BY <2>1, <2>2 DEF VarianceInv, SampleVariance
  <2> QED
    BY <2>1, <2>3 DEF VarianceInv
<1> QED
  BY <1>2, <1>3, <1>5, <1>6, <1>7, <1>8, WelfordTurn, StoreVariance DEF Next

(* The single pass of stdDev gives n times the variance of all the returns   *)
(* of a window, for every history, as long as the means are whole numbers of *)
(* units: what remains is the rounding of floats (stdDev).                   *)
THEOREM SampleVarianceCorrect == Spec => []SampleVariance
<1>1. Init => VarianceInv
  BY DEF Init, VarianceInv, SampleVariance
<1>2. VarianceInv => SampleVariance
  BY DEF VarianceInv
<1> QED
  BY <1>1, <1>2, NextVariance, DrawdownAlways, TypedAlways, DatesAlways, CagrsAlways, RecordsAlways, PTL DEF Spec
=============================================================================
