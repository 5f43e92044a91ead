----------------------------- MODULE MCAnalytics -----------------------------
(* An instance of Analytics for TLC: windows of one and three rows, at most  *)
(* five rows, so up to four periods.  Scale is a multiple of every NAV, then *)
(* of 12 for the means of up to four returns, and of 4 for the quartiles.    *)
EXTENDS Analytics

MCWindowDays == <<1, 3>>
MCValues == 0 .. 3
MCGaps == {1, 3}
=============================================================================
