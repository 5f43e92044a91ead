------------------------------ MODULE FundsApi ------------------------------
(***************************************************************************)
(* The read side of the HTTP API, over the tables that the workers of      *)
(* SyncPipeline are writing.                                               *)
(*                                                                         *)
(* A handler makes one or two statements, each a read of what is committed *)
(* at that moment, without a transaction around the two; then it answers.  *)
(* A step here is one statement, and the last one is also the answer.  The *)
(* operators named after a handler give the answers it may send now, so    *)
(* that a property can speak of every answer without any being kept.       *)
(*                                                                         *)
(* Of an answer the model keeps what its reader can compare: which funds   *)
(* it shows, whether with a name, up to which date, and of how many days   *)
(* the metrics are.  Every scheme is of one category.                      *)
(***************************************************************************)
EXTENDS SyncPipeline, Sequences

CONSTANTS
  Clients,     \* clients of the HTTP API, one request each at a time
  WindowDays,  \* the days of each window (models.WindowTradingDays)
  Score,       \* the metric of each scheme, by the name ?sort_by has for it
  Limits       \* the values of ?limit that are tried

SortBys == {"median_return", "max_drawdown"}

ASSUME ApiAssumption ==
  /\ Clients \cap Workers = {}
  /\ WindowDays \in [Windows -> Nat \ {0}]
  /\ \A i, j \in Windows : i < j => WindowDays[i] < WindowDays[j]
  /\ Score \in [SortBys -> [Schemes -> Int]]
  /\ Limits \subseteq Nat \ {0}

VARIABLES
  req,   \* what the handler of each client's request has read so far
  seen   \* what each client was last shown of the fund and window it watches

allVars == <<row, nav, named, analytics, published, now, up, cancelled, pc, job, spent, floor, base,
             req, seen>>

NoRequest == [kind |-> "none", code |-> NoScheme, win |-> 0, names |-> {}]

(* An answer, and a fund in it.  A fund whose sync state is not known has no *)
(* date; points and usable are for analytics, ranking for a rank list.       *)
Answer(funds) == [code |-> NoScheme, win |-> 0, points |-> 0, usable |-> {}, ranking |-> <<>>, funds |-> funds]
Fund(s, name, state) == [code |-> s, named |-> name, known |-> state.known, last |-> state.last]
Error == Answer({})

ApiInit ==
  /\ Init
  /\ req = [c \in Clients |-> NoRequest]
  /\ seen \in [Clients -> [code : Schemes, win : Windows, date : {NoDay}, points : {0}]]

-----------------------------------------------------------------------------
(* The reads. *)

(* GetAllSyncStates: a scheme without a row is not in it.  The handlers that *)
(* enrich schemes with their states log a failure, and go on without them.   *)
Unknown == [known |-> FALSE, last |-> NoDay]
States == [s \in Schemes |-> IF row[s].status = "absent" THEN Unknown
                             ELSE [known |-> TRUE, last |-> row[s].last]]
StatesOrNone == {States, [s \in Schemes |-> Unknown]}

(* ListSchemes and GetScheme: the schemes that have a name. *)
Named == {s \in Schemes : named[s]}

(* GetRanking joins analytics, schemes and sync_state; a blank category      *)
(* matches no filter.  Metrics are NULL up to a window's length of days.     *)
Ranked(win) == {s \in Schemes : analytics[s][win] # {} /\ named[s] /\ row[s].status # "absent"}
Sufficient(win, days) == Cardinality(days) > WindowDays[win]
HasMetric(by, win, s) == by = "median_return" => Sufficient(win, analytics[s][win])

(* ORDER BY ... DESC NULLS LAST. *)
Ahead(by, win, s, t) ==
  \/ ~HasMetric(by, win, t)
  \/ HasMetric(by, win, s) /\ Score[by][s] >= Score[by][t]
Orders(by, win) ==
  {q \in [1 .. Cardinality(Ranked(win)) -> Ranked(win)] :
     \A i, j \in DOMAIN q : i < j => q[i] # q[j] /\ Ahead(by, win, q[i], q[j])}

(* The windows availableWindows finds in so many days. *)
availableWindowsOneMore(points) == {win \in Windows : points + 1 >= WindowDays[win]}
availableWindows(points) == {win \in Windows : points >= WindowDays[win]}

-----------------------------------------------------------------------------
(* The answers.  A handler of two reads is at the second, req is of its kind; *)
(* it sends an error when a read fails that it cannot do without.            *)

(* A blank name is skipped by ListFunds, and shown by GetFund.               *)
ListFunds(r) == {Answer({Fund(s, TRUE, st[s]) : s \in r.names}) : st \in StatesOrNone}
GetFund(r) == {Answer({Fund(r.code, r.code \in r.names, st[r.code])}) : st \in StatesOrNone}

(* The handler GetAnalytics, and toAnalyticsResponse: with too little data   *)
(* the answer says which windows can be asked for instead.                   *)
GetAnalytics(r) ==
  LET days == analytics[r.code][r.win]
      n == Cardinality(days)
  IN  {Error, [Error EXCEPT !.code = r.code, !.win = r.win, !.points = n,
                            !.usable = CASE days = {} -> {}    \* ANALYTICS_NOT_READY
                                         [] Sufficient(r.win, days) -> {r.win}
                                         [] OTHER -> availableWindows(n)]}

Ranking(by, win, q) ==
  [Answer({Fund(q[i], TRUE, States[q[i]]) : i \in DOMAIN q}) EXCEPT
     !.win = win,
     !.ranking = [i \in DOMAIN q |-> [code |-> q[i], days |-> analytics[q[i]][win]]]]
RankFunds ==
  {Error} \cup
  UNION {{Ranking(by, win, SubSeq(q, 1, IF limit <= Len(q) THEN limit ELSE Len(q))) :
            q \in Orders(by, win), limit \in Limits} : by \in SortBys, win \in Windows}

GetSyncStatus == {Error, Answer({Fund(s, FALSE, States[s]) : s \in {t \in Schemes : States[t].known}})}

(* The server takes no new request once it shuts down, but finishes those it *)
(* has: their contexts do not derive from the root.                          *)
AcceptsEarly(c) == ~cancelled /\ req[c] = NoRequest
Accepts(c) == up /\ ~cancelled /\ req[c] = NoRequest

Answers(c) ==
  CASE req[c].kind = "list" -> ListFunds(req[c])
    [] req[c].kind = "fund" -> GetFund(req[c])
    [] req[c].kind = "analytics" -> GetAnalytics(req[c])
    [] Accepts(c) -> RankFunds \cup GetSyncStatus
    [] OTHER -> {}

-----------------------------------------------------------------------------
Hold(c, r) == req' = [req EXCEPT ![c] = r] /\ UNCHANGED <<seen, vars>>

(* The first read of a handler of two.  A request that is refused, finds no  *)
(* scheme or cannot read it is answered with an error at once, which changes *)
(* nothing.                                                                  *)
ListSchemes(c) ==
  Accepts(c) /\ Hold(c, [NoRequest EXCEPT !.kind = "list", !.names = Named])
GetScheme(c) ==
  /\ Accepts(c)
  /\ \E s \in Schemes :
       LET r == [NoRequest EXCEPT !.code = s, !.names = Named \cap {s}] IN
       \/ Hold(c, [r EXCEPT !.kind = "fund"])
       \/ \E win \in Windows : Hold(c, [r EXCEPT !.kind = "analytics", !.win = win])

(* What an answer shows of the fund and the window that a client watches     *)
(* replaces what was shown before.                                           *)
Shown(a, watched) ==
  [watched EXCEPT
     !.date = IF \E f \in a.funds : f.code = watched.code /\ f.known
              THEN (CHOOSE f \in a.funds : f.code = watched.code).last ELSE @,
     !.points = IF a.code = watched.code /\ a.win = watched.win THEN a.points ELSE @]

(* The last read, and the answer.                                            *)
Reply(c) ==
  /\ \E shown \in {Shown(a, seen[c]) : a \in Answers(c)} : seen' = [seen EXCEPT ![c] = shown]
  /\ req' = [req EXCEPT ![c] = NoRequest]
  /\ UNCHANGED vars

(* A step of the pipeline; when the process ends, so do the requests.        *)
Pipeline ==
  /\ Next
  /\ req' = IF up' THEN req ELSE [c \in Clients |-> NoRequest]
  /\ UNCHANGED seen

ApiNext == Pipeline \/ \E c \in Clients : ListSchemes(c) \/ GetScheme(c) \/ Reply(c)
ApiSpec == ApiInit /\ [][ApiNext]_allVars

-----------------------------------------------------------------------------
(* Properties.                                                               *)

RequestType == [kind : {"none", "list", "fund", "analytics"}, code : Schemes \cup {NoScheme},
                win : Windows \cup {0}, names : SUBSET Schemes]

(* The type invariant; a request is in progress only while the process runs. *)
ApiTypeOK ==
  /\ req \in [Clients -> RequestType]
  /\ seen \in [Clients -> [code : Schemes, win : Windows, date : Days \cup {NoDay}, points : Nat]]
  /\ \A c \in Clients : req[c] # NoRequest => up

(* A fund that is shown with its name and a known state has a date, although *)
(* a save may come between the two reads: the name and the checkpoint are    *)
(* saved together, and never taken back one by one (ListFunds, GetFund).     *)
(* (As long as SeedSchemes has inserted every row, see NavCountExact.)       *)
NamedHasDate ==
  spent.seed = 0 => \A c \in Clients : \A a \in Answers(c) : \A f \in a.funds : f.named /\ f.known => f.last # NoDay

(* The metrics of a ranked fund are of no day after its last_updated: the    *)
(* ranking is one statement, and the checkpoint is saved before the metrics  *)
(* are computed (GetRanking, SyncScheme; while no two workers sync one       *)
(* scheme at once, and SeedSchemes has inserted every row).                  *)
RankCoversDays ==
  spent.seed = 0 => \A c \in Clients : \A a \in Answers(c) : \A i \in DOMAIN a.ranking : \A f \in a.funds :
    f.code = a.ranking[i].code => \A d \in a.ranking[i].days : d <= f.last

(* A client is never shown an older date of a fund than before, nor metrics  *)
(* of fewer days, nor "not yet computed" after metrics, whatever endpoints   *)
(* it asks (while no two workers sync one scheme at once).                   *)
NeverOlder ==
  [][\A c \in Clients : seen'[c].date >= seen[c].date /\ seen'[c].points >= seen[c].points]_allVars

(* A client that is told to try another window gets metrics when it does,   *)
(* whatever is being computed meanwhile, but for one window: that which is   *)
(* exactly as long as the history (availableWindows against computeWindow;   *)
(* while no statement fails and no two workers work on one scheme at once).  *)
UsableWindows ==
  spent.db = 0 => \A c \in Clients : \A a \in Answers(c) : \A win \in a.usable :
    Sufficient(win, analytics[a.code][win]) \/ a.points = WindowDays[win]
=============================================================================
