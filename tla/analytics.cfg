SPECIFICATION Spec
CONSTANTS
  WindowDays <- MCWindowDays
  Values <- MCValues
  Gaps <- MCGaps
  MaxRows = 5
  Scale = 72
CHECK_DEADLOCK FALSE
INVARIANTS TypeOK DrawdownIsWorst LossWithinDrawdown PeriodsCounted MedianSplits CagrAgrees SampleVariance
