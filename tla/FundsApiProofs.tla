--------------------------- MODULE FundsApiProofs ---------------------------
(* Theorems about FundsApi, for every value of its constants: what a client  *)
(* of the HTTP API may rely on while the workers are writing.                *)
EXTENDS FundsApi, SyncPipelineCheckpointProofs, SequenceTheorems

-----------------------------------------------------------------------------
(* The pipeline does what it does without the API: its theorems hold here.   *)

LEMMA PipelineStep == [ApiNext]_allVars => [Next]_vars
<1> SUFFICES ASSUME [ApiNext]_allVars PROVE [Next]_vars
  OBVIOUS
<1>1. CASE Pipeline
  BY <1>1 DEF Pipeline
<1>2. CASE \E c \in Clients : ListSchemes(c) \/ GetScheme(c) \/ Reply(c)
  BY <1>2 DEF ListSchemes, GetScheme, Hold, Reply
<1>3. CASE UNCHANGED allVars
  BY <1>3 DEF allVars, vars
<1> QED
  BY <1>1, <1>2, <1>3 DEF ApiNext

LEMMA ApiKeepsPipeline == ApiSpec => Spec
<1>1. ApiInit => Init
  BY DEF ApiInit
<1> QED
  BY <1>1, PipelineStep, PTL DEF ApiSpec, Spec

-----------------------------------------------------------------------------
(* What the answers say.                                                     *)

LEMMA CardinalityOfDays ==
  ASSUME NEW S \in SUBSET Days
  PROVE  IsFiniteSet(S) /\ Cardinality(S) \in Nat
BY DaysAreNaturals, FS_Subset, FS_CardinalityType

LEMMA RankedFinite ==
  ASSUME NEW win
  PROVE  IsFiniteSet(Ranked(win)) /\ Cardinality(Ranked(win)) \in Nat /\ Ranked(win) \subseteq Schemes
BY SchemesAssumption, FS_Subset, FS_CardinalityType DEF SchemesAssumption, Ranked

(* A rank list shows the first n funds of one of the orders.                 *)
RankList(a, by, win, q, n) ==
  /\ a.code = NoScheme /\ a.win = win /\ a.points = 0 /\ a.usable = {}
  /\ DOMAIN a.ranking = 1 .. n
  /\ \A i \in 1 .. n : /\ a.ranking[i].code = q[i]
                       /\ a.ranking[i].days = analytics[q[i]][win]
  /\ a.funds = {Fund(q[i], TRUE, States[q[i]]) : i \in 1 .. n}

LEMMA RankAnswers ==
  ASSUME NEW a \in RankFunds
  PROVE  \/ a = Error
         \/ \E by \in SortBys, win \in Windows : \E q \in Orders(by, win) :
              \E n \in 0 .. Cardinality(Ranked(win)) : RankList(a, by, win, q, n)
<1> SUFFICES ASSUME a # Error
             PROVE  \E by \in SortBys, win \in Windows : \E q \in Orders(by, win) :
                      \E n \in 0 .. Cardinality(Ranked(win)) : RankList(a, by, win, q, n)
  OBVIOUS
<1>1. PICK by \in SortBys, win \in Windows, limit \in Limits : \E q \in Orders(by, win) :
        a = Ranking(by, win, SubSeq(q, 1, IF limit <= Len(q) THEN limit ELSE Len(q)))
  BY DEF RankFunds
<1>2. PICK q \in Orders(by, win) :
        a = Ranking(by, win, SubSeq(q, 1, IF limit <= Len(q) THEN limit ELSE Len(q)))
  BY <1>1
<1> DEFINE m == Cardinality(Ranked(win))
           n == IF limit <= m THEN limit ELSE m
           p == SubSeq(q, 1, n)
<1>3. q \in [1 .. m -> Ranked(win)] /\ m \in Nat /\ limit \in Nat
  BY RankedFinite, ApiAssumption DEF Orders, ApiAssumption
<1>4. Len(q) = m /\ n \in 0 .. m
  BY <1>3
<1>5. p \in Seq(Ranked(win)) /\ Len(p) = n /\ \A i \in 1 .. n : p[i] = q[i]
  <2>1. \A i \in 1 .. n : q[i] \in Ranked(win)
    BY <1>3, <1>4
  <2> HIDE DEF n
  <2>2. n \in Int /\ 1 \in Int /\ n >= 0
    BY <1>3, <1>4
  <2> QED
    BY <2>1, <2>2, SubSeqProperties
<1>6. DOMAIN p = 1 .. n
  BY <1>5, LenProperties
<1>7. a = Ranking(by, win, p)
  BY <1>2, <1>4
<1> HIDE DEF p, n, m
<1>8. RankList(a, by, win, q, n)
  BY <1>5, <1>6, <1>7 DEF Ranking, Answer, RankList
<1> QED
  BY <1>4, <1>8 DEF m

(* A handler that reads of a fund (of its analytics) has a fund (a window).  *)
RequestFit(r) ==
  /\ r.kind \in {"fund", "analytics"} => r.code \in Schemes
  /\ r.kind = "analytics" => r.win \in Windows

ApiInv == Typed /\ ApiTypeOK /\ \A c \in Clients : RequestFit(req[c])

(* The funds of an answer are shown with one reading of the states, and with *)
(* names that are there now or were at the first read.                       *)
Shows(a, names, st) ==
  \A f \in a.funds : /\ f.code \in Schemes /\ f.known = st[f.code].known /\ f.last = st[f.code].last
                     /\ f.named => f.code \in names

Metrics(a, r) ==
  LET n == Cardinality(analytics[r.code][r.win]) IN
  /\ a.code = r.code /\ a.win = r.win /\ a.points = n /\ a.funds = {} /\ a.ranking = <<>>
  /\ a.usable = CASE analytics[r.code][r.win] = {} -> {}
                  [] Sufficient(r.win, analytics[r.code][r.win]) -> {r.win}
                  [] OTHER -> availableWindows(n)

Plain(a) == a.code = NoScheme /\ a.points = 0 /\ a.usable = {} /\ a.ranking = <<>>

LEMMA MetricsAnswer ==
  ASSUME NEW r, NEW a \in GetAnalytics(r), a # Error
  PROVE  Metrics(a, r)
<1> DEFINE days == analytics[r.code][r.win]
           n == Cardinality(days)
           usable == CASE days = {} -> {}
                       [] Sufficient(r.win, days) -> {r.win}
                       [] OTHER -> availableWindows(n)
           b == [Error EXCEPT !.code = r.code, !.win = r.win, !.points = n, !.usable = usable]
<1>1. a = b
  BY DEF GetAnalytics
<1>2. \A u, m : LET x == [Error EXCEPT !.code = r.code, !.win = r.win, !.points = m, !.usable = u] IN
        /\ x.code = r.code /\ x.win = r.win /\ x.points = m /\ x.usable = u
        /\ x.funds = {} /\ x.ranking = <<>>
  BY DEF Error, Answer
<1>3. /\ b.code = r.code /\ b.win = r.win /\ b.points = n /\ b.usable = usable
      /\ b.funds = {} /\ b.ranking = <<>>
  <2> HIDE DEF n, usable
  <2> QED
    BY <1>2
<1> HIDE DEF b
<1> QED
  BY <1>1, <1>3 DEF Metrics

LEMMA AnswersByKind ==
  ASSUME NEW c, NEW a \in Answers(c)
  PROVE  \/ req[c].kind = "list" /\ a \in ListFunds(req[c])
         \/ req[c].kind = "fund" /\ a \in GetFund(req[c])
         \/ req[c].kind = "analytics" /\ a \in GetAnalytics(req[c])
         \/ req[c] = NoRequest /\ up /\ a \in RankFunds \cup GetSyncStatus
<1>1. Accepts(c) => req[c].kind = "none" /\ req[c] = NoRequest /\ up
  BY DEF Accepts, NoRequest
<1> QED
  BY <1>1 DEF Answers

LEMMA AnswerCases ==
  ASSUME ApiInv, NEW c \in Clients, NEW a \in Answers(c)
  PROVE  /\ \E st \in StatesOrNone : Shows(a, req[c].names \cup Named, st)
         /\ \/ Plain(a)
            \/ req[c].kind = "analytics" /\ Metrics(a, req[c])
            \/ \E by \in SortBys, win \in Windows : \E q \in Orders(by, win) :
                 \E n \in 0 .. Cardinality(Ranked(win)) : RankList(a, by, win, q, n)
<1> DEFINE names == req[c].names \cup Named
<1>0. req[c].names \subseteq Schemes /\ RequestFit(req[c]) /\ States \in StatesOrNone
  BY DEF ApiInv, ApiTypeOK, RequestType, StatesOrNone
<1>1. CASE a = Error
  <2>1. Plain(a) /\ a.funds = {}
    BY <1>1 DEF Error, Answer, Plain
  <2> QED
    BY <1>0, <2>1 DEF Shows
<1>2. CASE req[c].kind = "list"
  <2>0. a \in ListFunds(req[c])
    BY <1>2, AnswersByKind DEF NoRequest
  <2>1. PICK st \in StatesOrNone : a = Answer({Fund(s, TRUE, st[s]) : s \in req[c].names})
    BY <2>0, Zenon DEF ListFunds
  <2>2. Plain(a) /\ a.funds = {Fund(s, TRUE, st[s]) : s \in req[c].names}
    BY <2>1 DEF Answer, Plain
  <2>3. ASSUME NEW f \in a.funds
        PROVE  f.code \in req[c].names /\ f.known = st[f.code].known /\ f.last = st[f.code].last
    <3>1. PICK s \in req[c].names : f = Fund(s, TRUE, st[s])
      BY <2>2
    <3> QED
      BY <3>1 DEF Fund
  <2>4. Shows(a, names, st)
    BY <1>0, <2>3 DEF Shows
  <2> QED
    BY <2>1, <2>2, <2>4
<1>3. CASE req[c].kind = "fund"
  <2>1. PICK st \in StatesOrNone : a = Answer({Fund(req[c].code, req[c].code \in req[c].names, st[req[c].code])})
    BY <1>3, AnswersByKind DEF GetFund, NoRequest
  <2>2. Plain(a) /\ a.funds = {Fund(req[c].code, req[c].code \in req[c].names, st[req[c].code])}
    BY <2>1 DEF Answer, Plain
  <2>3. ASSUME NEW f \in a.funds
        PROVE  /\ f.code = req[c].code /\ f.known = st[f.code].known /\ f.last = st[f.code].last
               /\ f.named = (req[c].code \in req[c].names)
    <3>1. f = Fund(req[c].code, req[c].code \in req[c].names, st[req[c].code])
      BY <2>2
    <3> QED
      BY <3>1 DEF Fund
  <2>4. Shows(a, names, st)
    BY <1>0, <1>3, <2>3 DEF Shows, RequestFit
  <2> QED
    BY <2>1, <2>2, <2>4
<1>4. CASE req[c].kind = "analytics" /\ a # Error
  <2>1. a \in GetAnalytics(req[c])
    BY <1>4, AnswersByKind DEF NoRequest
  <2>2. Metrics(a, req[c])
    BY <1>4, <2>1, MetricsAnswer
  <2>3. Shows(a, names, States)
    BY <2>2 DEF Shows, Metrics
  <2> QED
    BY <1>0, <1>4, <2>2, <2>3
<1>5. CASE a \in RankFunds /\ a # Error
  <2>1. PICK by \in SortBys, win \in Windows : \E q \in Orders(by, win) :
               \E n \in 0 .. Cardinality(Ranked(win)) : RankList(a, by, win, q, n)
    BY <1>5, RankAnswers
  <2>2. PICK q \in Orders(by, win), n \in 0 .. Cardinality(Ranked(win)) : RankList(a, by, win, q, n)
    BY <2>1
  <2>3. \A i \in 1 .. n : q[i] \in Ranked(win)
    BY <2>2, RankedFinite DEF Orders
  <2>4. \A s \in Ranked(win) : s \in Schemes /\ s \in Named
    BY DEF Ranked, Named
  <2>5. ASSUME NEW f \in a.funds
        PROVE  f.code \in Ranked(win) /\ f.known = States[f.code].known /\ f.last = States[f.code].last
    <3>1. PICK i \in 1 .. n : f = Fund(q[i], TRUE, States[q[i]])
      BY <2>2 DEF RankList
    <3> QED
      BY <2>3, <3>1 DEF Fund
  <2>6. Shows(a, names, States)
    BY <2>4, <2>5 DEF Shows
  <2> QED
    BY <1>0, <2>1, <2>6
<1>6. CASE a \in GetSyncStatus /\ a # Error
  <2>1. a = Answer({Fund(s, FALSE, States[s]) : s \in {t \in Schemes : States[t].known}})
    BY <1>6 DEF GetSyncStatus
  <2>2. Plain(a) /\ a.funds = {Fund(s, FALSE, States[s]) : s \in {t \in Schemes : States[t].known}}
    BY <2>1 DEF Answer, Plain
  <2>3. ASSUME NEW f \in a.funds
        PROVE  f.code \in Schemes /\ f.named = FALSE /\ f.known = States[f.code].known /\ f.last = States[f.code].last
    <3>1. PICK s \in Schemes : f = Fund(s, FALSE, States[s])
      BY <2>2
    <3> QED
      BY <3>1 DEF Fund
  <2>4. Shows(a, names, States)
    BY <2>3 DEF Shows
  <2> QED
    BY <1>0, <2>2, <2>4
<1> QED
  <2>1. \/ req[c].kind \in {"list", "fund", "analytics"}
        \/ a \in RankFunds \/ a \in GetSyncStatus
    BY AnswersByKind
  <2> QED
    BY <1>1, <1>2, <1>3, <1>4, <1>5, <1>6, <2>1

-----------------------------------------------------------------------------
(* The type invariant.                                                       *)

(* What a client may be shown of the fund and the window it watches.         *)
ShownDate(a, s, old) ==
  IF \E f \in a.funds : f.code = s /\ f.known THEN (CHOOSE f \in a.funds : f.code = s).last ELSE old
ShownPoints(a, s, win, old) == IF a.code = s /\ a.win = win THEN a.points ELSE old

LEMMA StatesRead ==
  ASSUME Typed, NEW st \in StatesOrNone, NEW s \in Schemes
  PROVE  /\ st[s].last \in Days \cup {NoDay}
         /\ st[s].known = TRUE => row[s].status # "absent" /\ st[s].last = row[s].last
         /\ st[s].known \in BOOLEAN
<1>1. row[s].last \in Days \cup {NoDay}
  BY DEF Typed, TypeOK, RowType
<1>2. CASE st = [t \in Schemes |-> Unknown]
  <2>1. st[s] = Unknown
    BY <1>2
  <2> QED
    BY <2>1 DEF Unknown
<1>3. CASE st = States /\ row[s].status = "absent"
  <2>1. st[s] = Unknown
    BY <1>3 DEF States
  <2> QED
    BY <2>1 DEF Unknown
<1>4. CASE st = States /\ row[s].status # "absent"
  <2>1. st[s] = [known |-> TRUE, last |-> row[s].last]
    BY <1>4 DEF States
  <2> QED
    BY <1>1, <1>4, <2>1
<1> QED
  BY <1>2, <1>3, <1>4 DEF StatesOrNone

(* The date shown is the one there was, or the checkpoint of the row now.    *)
LEMMA DateShown ==
  ASSUME ApiInv, NEW c \in Clients, NEW a \in Answers(c), NEW s \in Schemes, NEW old
  PROVE  \/ ShownDate(a, s, old) = old
         \/ row[s].status # "absent" /\ ShownDate(a, s, old) = row[s].last
<1>1. PICK st \in StatesOrNone : Shows(a, req[c].names \cup Named, st)
  BY AnswerCases
<1>2. CASE \E f \in a.funds : f.code = s /\ f.known
  <2> DEFINE g == CHOOSE f \in a.funds : f.code = s
  <2>1. PICK f \in a.funds : f.code = s /\ f.known
    BY <1>2
  <2>2. g \in a.funds /\ g.code = s
    BY <2>1
  <2>3. ShownDate(a, s, old) = g.last
    BY <1>2 DEF ShownDate
  <2> HIDE DEF g
  <2>4. f.known = st[s].known /\ g.last = st[s].last
    BY <1>1, <2>1, <2>2 DEF Shows
  <2>5. st[s].known
    BY <2>1, <2>4, Zenon
  <2>6. st[s].known = TRUE
    BY <2>5, StatesRead DEF ApiInv
  <2> QED
    BY <2>3, <2>4, <2>6, StatesRead DEF ApiInv
<1> QED
  BY <1>2 DEF ShownDate

LEMMA PointsShown ==
  ASSUME ApiInv, NEW c \in Clients, NEW a \in Answers(c), NEW s \in Schemes, NEW win \in Windows, NEW old
  PROVE  \/ ShownPoints(a, s, win, old) = old
         \/ ShownPoints(a, s, win, old) = Cardinality(analytics[s][win])
<1>1. CASE a.code = NoScheme
  BY <1>1, ConstantsTyped DEF ShownPoints
<1>2. CASE Metrics(a, req[c])
  BY <1>2 DEF ShownPoints, Metrics
<1> QED
  BY <1>1, <1>2, AnswerCases DEF Plain, RankList

ReplyWith(c, a) ==
  /\ seen' = [seen EXCEPT ![c] = [seen[c] EXCEPT !.date = ShownDate(a, seen[c].code, @),
                                                !.points = ShownPoints(a, seen[c].code, seen[c].win, @)]]
  /\ req' = [req EXCEPT ![c] = NoRequest]
  /\ UNCHANGED vars

LEMMA ReplyEffect ==
  ASSUME ApiInv, NEW c \in Clients, Reply(c)
  PROVE  /\ UNCHANGED vars
         /\ req'[c] = NoRequest /\ \A d \in Clients \ {c} : req'[d] = req[d] /\ seen'[d] = seen[d]
         /\ req' \in [Clients -> RequestType] /\ DOMAIN seen' = Clients
         /\ seen'[c].code = seen[c].code /\ seen'[c].win = seen[c].win
         /\ seen'[c] = [seen[c] EXCEPT !.date = seen'[c].date, !.points = seen'[c].points]
         /\ LET s == seen[c].code IN
            /\ \/ seen'[c].date = seen[c].date
               \/ row[s].status # "absent" /\ seen'[c].date = row[s].last
            /\ \/ seen'[c].points = seen[c].points
               \/ seen'[c].points = Cardinality(analytics[s][seen[c].win])
<1>1. PICK a \in Answers(c) : ReplyWith(c, a)
  BY DEF Reply, ReplyWith, Shown, ShownDate, ShownPoints
<1> DEFINE s == seen[c].code
           v == [seen[c] EXCEPT !.date = ShownDate(a, s, seen[c].date)]
           u == [v EXCEPT !.points = ShownPoints(a, s, seen[c].win, seen[c].points)]
<1>2. seen \in [Clients -> [code : Schemes, win : Windows, date : Days \cup {NoDay}, points : Nat]]
  BY DEF ApiInv, ApiTypeOK
<1>3. seen' = [seen EXCEPT ![c] = u]
  BY <1>1 DEF ReplyWith
<1>4. /\ v.code = s /\ v.win = seen[c].win /\ v.points = seen[c].points
      /\ v.date = ShownDate(a, s, seen[c].date)
      /\ u.code = v.code /\ u.win = v.win /\ u.date = v.date
      /\ u.points = ShownPoints(a, s, seen[c].win, seen[c].points)
      /\ u = [seen[c] EXCEPT !.date = u.date, !.points = u.points]
  BY <1>2
<1> HIDE DEF u, v
<1>5. seen'[c] = u /\ DOMAIN seen' = Clients /\ \A d \in Clients \ {c} : seen'[d] = seen[d]
  BY <1>2, <1>3
<1>6. s \in Schemes /\ seen[c].win \in Windows
  BY <1>2
<1>7. /\ v.date = seen[c].date \/ (row[s].status # "absent" /\ v.date = row[s].last)
      /\ u.points = seen[c].points \/ u.points = Cardinality(analytics[s][seen[c].win])
  BY <1>4, <1>6, DateShown, PointsShown
<1>8. /\ UNCHANGED vars /\ req'[c] = NoRequest /\ \A d \in Clients \ {c} : req'[d] = req[d]
      /\ req' \in [Clients -> RequestType]
  BY <1>1 DEF ReplyWith, ApiInv, ApiTypeOK, RequestType, NoRequest
<1> QED
  BY <1>4, <1>5, <1>7, <1>8

LEMMA RequestTyped ==
  ASSUME ApiInv, NEW c \in Clients, ListSchemes(c) \/ GetScheme(c)
  PROVE  /\ UNCHANGED <<seen, vars>> /\ up
         /\ req' \in [Clients -> RequestType] /\ \A d \in Clients \ {c} : req'[d] = req[d]
         /\ RequestFit(req'[c]) /\ req'[c].names \subseteq Named
<1> DEFINE listing == [NoRequest EXCEPT !.kind = "list", !.names = Named]
           asking(s) == [NoRequest EXCEPT !.code = s, !.names = Named \cap {s}]
           fund(s) == [asking(s) EXCEPT !.kind = "fund"]
           metrics(s, win) == [asking(s) EXCEPT !.kind = "analytics", !.win = win]
<1>1. Named \subseteq Schemes /\ NoScheme \in Schemes \cup {NoScheme} /\ 0 \in Windows \cup {0}
  BY DEF Named
<1>2. listing \in RequestType /\ RequestFit(listing) /\ listing.names \subseteq Named
  BY <1>1 DEF RequestType, RequestFit, NoRequest
<1>3. ASSUME NEW s \in Schemes
      PROVE  fund(s) \in RequestType /\ RequestFit(fund(s)) /\ fund(s).names \subseteq Named
  BY <1>1 DEF RequestType, RequestFit, NoRequest
<1>4. ASSUME NEW s \in Schemes, NEW win \in Windows
      PROVE  metrics(s, win) \in RequestType /\ RequestFit(metrics(s, win)) /\ metrics(s, win).names \subseteq Named
  BY <1>1 DEF RequestType, RequestFit, NoRequest
<1>5. /\ up
      /\ \/ Hold(c, listing)
         \/ \E s \in Schemes : Hold(c, fund(s)) \/ \E win \in Windows : Hold(c, metrics(s, win))
  BY DEF ListSchemes, GetScheme, Accepts
<1> HIDE DEF listing, fund, metrics
<1>6. PICK r \in RequestType : Hold(c, r) /\ RequestFit(r) /\ r.names \subseteq Named
  BY <1>2, <1>3, <1>4, <1>5
<1> QED
  BY <1>5, <1>6 DEF Hold, ApiInv, ApiTypeOK

LEMMA ApiInvNext == ApiInv /\ [ApiNext]_allVars => ApiInv'
<1> SUFFICES ASSUME ApiInv, [ApiNext]_allVars PROVE ApiInv'
  OBVIOUS
<1>1. Typed'
  BY TypedNext, PipelineStep DEF ApiInv
<1> DEFINE ShownType == [code : Schemes, win : Windows, date : Days \cup {NoDay}, points : Nat]
<1>2. /\ req \in [Clients -> RequestType] /\ seen \in [Clients -> ShownType]
      /\ \A c \in Clients : RequestFit(req[c]) /\ (req[c] # NoRequest => up)
  BY DEF ApiInv, ApiTypeOK
<1>3. NoRequest \in RequestType /\ RequestFit(NoRequest)
  BY DEF NoRequest, RequestType, RequestFit
<1>4. CASE Pipeline
  <2>1. seen' = seen /\ req' = IF up' THEN req ELSE [c \in Clients |-> NoRequest]
    BY <1>4 DEF Pipeline
  <2>2. CASE up'
    BY <1>1, <1>2, <2>1, <2>2 DEF ApiInv, ApiTypeOK
  <2>3. CASE ~up'
    BY <1>1, <1>2, <1>3, <2>1, <2>3 DEF ApiInv, ApiTypeOK
  <2> QED
    BY <2>2, <2>3
<1>5. ASSUME NEW c \in Clients, ListSchemes(c) \/ GetScheme(c) PROVE ApiInv'
  <2>1. /\ seen' = seen /\ up' = up /\ up
        /\ req' \in [Clients -> RequestType] /\ \A d \in Clients \ {c} : req'[d] = req[d]
        /\ RequestFit(req'[c])
    BY <1>5, RequestTyped DEF vars
  <2>2. up'
    BY <2>1, Zenon
  <2> QED
    BY <1>1, <1>2, <2>1, <2>2 DEF ApiInv, ApiTypeOK
<1>6. ASSUME NEW c \in Clients, Reply(c) PROVE ApiInv'
  <2> DEFINE s == seen[c].code
  <2>1. /\ UNCHANGED vars /\ req'[c] = NoRequest
        /\ \A d \in Clients \ {c} : req'[d] = req[d] /\ seen'[d] = seen[d]
        /\ req' \in [Clients -> RequestType] /\ DOMAIN seen' = Clients
        /\ seen'[c] = [seen[c] EXCEPT !.date = seen'[c].date, !.points = seen'[c].points]
    BY <1>6, ReplyEffect
  <2>2. s \in Schemes /\ seen[c].win \in Windows
    BY <1>2
  <2>3. row[s].last \in Days \cup {NoDay} /\ Cardinality(analytics[s][seen[c].win]) \in Nat
    <3>1. analytics[s][seen[c].win] \in SUBSET Days
      BY <2>2 DEF ApiInv, Typed, TypeOK
    <3> QED
      BY <2>2, <3>1, CardinalityOfDays DEF ApiInv, Typed, TypeOK, RowType
  <2>4. seen'[c].date \in Days \cup {NoDay} /\ seen'[c].points \in Nat
    BY <1>2, <1>6, <2>3, ReplyEffect
  <2>5. seen'[c] \in ShownType
    BY <1>2, <2>1, <2>4
  <2>6. seen' \in [Clients -> ShownType]
    <3>1. \A d \in Clients : seen'[d] \in ShownType
      BY <1>2, <2>1, <2>5
    <3>2. seen' = [d \in Clients |-> seen'[d]]
      BY <1>6 DEF Reply, ApiInv, ApiTypeOK
    <3> QED
      BY <3>1, <3>2
  <2>7. \A d \in Clients : RequestFit(req'[d]) /\ (req'[d] # NoRequest => up')
    BY <1>2, <1>3, <2>1 DEF vars
  <2> QED
    BY <1>1, <2>1, <2>6, <2>7 DEF ApiInv, ApiTypeOK
<1>7. CASE UNCHANGED allVars
  BY <1>1, <1>2, <1>7 DEF allVars, ApiInv, ApiTypeOK
<1> QED
  BY <1>4, <1>5, <1>6, <1>7 DEF ApiNext

LEMMA ApiInvInit == ApiInit => ApiInv
<1> SUFFICES ASSUME ApiInit PROVE ApiInv
  OBVIOUS
<1>1. NoRequest \in RequestType /\ RequestFit(NoRequest) /\ 0 \in Nat
  BY DEF NoRequest, RequestType, RequestFit
<1>2. /\ req = [c \in Clients |-> NoRequest]
      /\ seen \in [Clients -> [code : Schemes, win : Windows, date : {NoDay}, points : {0}]]
      /\ Typed
  BY TypedInit DEF ApiInit
<1> QED
  BY <1>1, <1>2 DEF ApiInv, ApiTypeOK

LEMMA ApiInvariant == ApiSpec => []ApiInv
BY ApiInvInit, ApiInvNext, PTL DEF ApiSpec

(* Requests and what was shown keep their types, and a request is in         *)
(* progress only while the process runs (the handlers of internal/api).      *)
THEOREM ApiTypeCorrect == ApiSpec => []ApiTypeOK
<1>1. ApiInv => ApiTypeOK
  BY DEF ApiInv
<1> QED
  BY ApiInvariant, <1>1, PTL

-----------------------------------------------------------------------------
(* Metrics.                                                                  *)

(* A window that is named instead of a longer one has at least as many days. *)
LEMMA UsableShown ==
  ASSUME ApiInv, WindowsInv
  PROVE  UsableWindows
<1> SUFFICES ASSUME spent.db = 0, NEW c \in Clients, NEW a \in Answers(c), NEW win \in a.usable
             PROVE  Sufficient(win, analytics[a.code][win]) \/ a.points = WindowDays[win]
  BY DEF UsableWindows
<1> DEFINE r == req[c]
           days == analytics[r.code][r.win]
           n == Cardinality(days)
<1>1. r.kind = "analytics" /\ Metrics(a, r)
  BY AnswerCases DEF Plain, RankList
<1>2. r.code \in Schemes /\ r.win \in Windows
  BY <1>1 DEF ApiInv, RequestFit
<1>3. /\ a.code = r.code /\ a.points = n
      /\ a.usable = CASE days = {} -> {}
                      [] Sufficient(r.win, days) -> {r.win}
                      [] OTHER -> availableWindows(n)
  BY <1>1 DEF Metrics
<1>4. /\ days \in SUBSET Days /\ n \in Nat
      /\ \A w \in Windows : WindowDays[w] \in Nat /\ analytics[r.code][w] \in SUBSET Days
      /\ Windows \subseteq Nat
  <2>1. \A w \in Windows : analytics[r.code][w] \in SUBSET Days
    BY <1>2 DEF ApiInv, Typed, TypeOK
  <2>2. days \in SUBSET Days
    BY <1>2, <2>1
  <2> QED
    BY <2>1, <2>2, CardinalityOfDays, ApiAssumption DEF ApiAssumption, Windows
<1>5. CASE Sufficient(r.win, days)
  <2>1. days # {}
    <3>1. SUFFICES ASSUME days = {} PROVE FALSE
      OBVIOUS
    <3>2. n = 0
      BY <3>1, FS_EmptySet
    <3> QED
      BY <1>2, <1>4, <1>5, <3>2 DEF Sufficient
  <2>2. win = r.win
    BY <1>3, <1>5, <2>1
  <2> QED
    BY <1>3, <1>5, <2>2
<1>6. CASE ~Sufficient(r.win, days) /\ n # WindowDays[win]
  <2>1. win \in availableWindows(n)
    BY <1>3, <1>6
  <2>2. win \in Windows /\ n > WindowDays[win] /\ n <= WindowDays[r.win]
    <3>1. win \in Windows /\ n >= WindowDays[win]
      BY <2>1 DEF availableWindows
    <3>2. ~(n > WindowDays[r.win])
      BY <1>6 DEF Sufficient
    <3>3. WindowDays[win] \in Nat /\ WindowDays[r.win] \in Nat /\ n \in Nat
      BY <1>2, <1>4, <3>1
    <3> HIDE DEF n, r
    <3> QED
      BY <1>6, <3>1, <3>2, <3>3
  <2>3. win < r.win
    <3>1. r.win < win => WindowDays[r.win] < WindowDays[win]
      BY <1>2, <2>2, ApiAssumption DEF ApiAssumption
    <3>2. WindowDays[win] \in Nat /\ WindowDays[r.win] \in Nat /\ n \in Nat /\ win \in Nat /\ r.win \in Nat
      BY <1>2, <1>4, <2>2
    <3> HIDE DEF n, r
    <3> QED
      BY <2>2, <3>1, <3>2
  <2>4. days \subseteq analytics[r.code][win]
    BY <1>2, <2>2, <2>3 DEF WindowsInv, InOrder
  <2>5. n <= Cardinality(analytics[r.code][win])
    BY <1>4, <2>2, <2>4, CardinalityOfDays, FS_Subset
  <2>6. Cardinality(analytics[r.code][win]) \in Nat
    BY <1>4, <2>2, CardinalityOfDays
  <2> QED
    BY <1>3, <1>4, <2>2, <2>5, <2>6 DEF Sufficient
<1> QED
  BY <1>3, <1>5, <1>6

(* Asking for a window that was named instead gives metrics, because the     *)
(* windows are written shortest first from one reading of the history        *)
(* (computeAllOnce, availableWindows), as long as no two goroutines work on  *)
(* one scheme.                                                               *)
THEOREM UsableWindowsCorrect == ApiSpec /\ []OneEach => []UsableWindows
<1>1. Spec /\ []OneEach => []WindowsInv
  BY WindowsInvInit, WindowsInvNext, PTL DEF Spec
<1> QED
  BY ApiKeepsPipeline, ApiInvariant, UsableShown, <1>1, PTL

-----------------------------------------------------------------------------
(* Dates.                                                                    *)

(* A fund gets its name with its first days, and keeps them: what a worker   *)
(* asks for, gets and saves for a scheme without any begins with day 0.      *)
BatchStarts ==
  \A w \in Workers : pc[w] \in {"fetch", "save"} =>
    nav[job[w].code] # {} \/ 0 \in job[w].batch
NamesInv ==
  /\ Typed /\ BatchStarts
  /\ \A s \in Schemes : published[s] > 0 /\ (named[s] => nav[s] # {})

LEMMA NamesKept ==
  ASSUME NamesInv, [Next]_vars, NEW s \in Schemes, named'[s]
  PROVE  nav'[s] # {}
<1>0. Typed /\ nav[s] \subseteq nav'[s] /\ (named[s] => nav[s] # {})
  BY LedgerGrows DEF NamesInv
<1>1. ASSUME NEW w \in Workers, SaveSyncResult(w) PROVE nav'[s] # {}
  <2>1. named' = named \/ (nav' = [nav EXCEPT ![job[w].code] = @ \cup job[w].batch]
                           /\ named' = [named EXCEPT ![job[w].code] = TRUE])
    BY <1>1 DEF SaveSyncResult
  <2>2. CASE named' = named
    BY <1>0, <2>2
  <2>3. CASE /\ nav' = [nav EXCEPT ![job[w].code] = @ \cup job[w].batch]
             /\ named' = [named EXCEPT ![job[w].code] = TRUE]
    <3>1. CASE s = job[w].code
      <4>1. nav[s] # {} \/ 0 \in job[w].batch
        BY <1>1, <3>1 DEF SaveSyncResult, NamesInv, BatchStarts
      <4>2. nav'[s] = nav[s] \cup job[w].batch
        BY <1>0, <2>3, <3>1 DEF Typed, TypeOK
      <4> QED
        BY <4>1, <4>2
    <3>2. CASE s # job[w].code
      BY <1>0, <2>3, <3>2 DEF Typed, TypeOK
    <3> QED
      BY <3>1, <3>2
  <2> QED
    BY <2>1, <2>2, <2>3
<1>2. ASSUME NEW w \in Workers, TouchUpToDate(w) PROVE nav'[s] # {}
  <2>1. named' = named \/ named' = [named EXCEPT ![job[w].code] = FALSE]
    BY <1>2 DEF TouchUpToDate
  <2>2. named[s]
    BY <1>0, <2>1 DEF Typed, TypeOK
  <2> QED
    BY <1>0, <2>2
<1>3. CASE \/ ~(\E w \in Workers : Step(w))
           \/ \E w \in Workers : Step(w) /\ ~SaveSyncResult(w) /\ ~TouchUpToDate(w)
  <2>1. named' = named
    BY <1>3 DEF Next, vars, db, Boot, Shutdown, Crash, Tick, Age, Publish, TriggerSync, Step,
       Acquire, MarkRunning, ReadCheckpoint, Fetch, MarkError, ReadHistory, UpsertAnalytics, StampAnalytics,
       ListRepairs, ResetErrorsToPending, NextRepair, NextDaily, CheckMissed, WakeUp
  <2> QED
    BY <1>0, <2>1
<1> QED
  BY <1>1, <1>2, <1>3

LEMMA BatchStartsStays ==
  ASSUME NamesInv, [Next]_vars
  PROVE  BatchStarts'
<1> SUFFICES ASSUME NEW v \in Workers, pc'[v] \in {"fetch", "save"}
             PROVE  nav'[job'[v].code] # {} \/ 0 \in job'[v].batch
  BY DEF BatchStarts
<1>0. Typed /\ \A s \in Schemes : nav[s] \subseteq nav'[s]
  BY LedgerGrows DEF NamesInv
<1>1. CASE pc'[v] = pc[v] /\ job'[v] = job[v]
  <2>1. job[v].code \in Schemes
    BY <1>0, <1>1 DEF Typed, CodeOK, Inside
  <2>2. nav[job[v].code] # {} \/ 0 \in job[v].batch
    BY <1>1 DEF NamesInv, BatchStarts
  <2> QED
    BY <1>0, <1>1, <2>1, <2>2
<1>2. CASE ReadCheckpoint(v) /\ pc'[v] = "fetch"
  <2>1. /\ job[v].code \in Schemes /\ nav' = nav /\ job'[v].code = job[v].code
        /\ job'[v].batch = NextDay(nav[job[v].code]) .. Day(now)
    BY <1>0, <1>2, ReadCheckpointEffect DEF SameScheme
  <2>2. Day(now) \in Nat /\ nav[job[v].code] \in SUBSET Days
    BY <1>0, <2>1, DayRange DEF Typed, TypeOK
  <2>3. nav[job[v].code] = {} => NextDay(nav[job[v].code]) = 0
    BY <2>2, NextDayAfter
  <2> QED
    BY <2>1, <2>2, <2>3
<1>3. CASE Fetch(v) /\ pc'[v] = "save"
  <2>1. /\ pc[v] = "fetch" /\ job[v].code \in Schemes /\ nav' = nav /\ job'[v].code = job[v].code
        /\ job'[v].batch = Received(job[v].batch, job[v].code)
    BY <1>0, <1>3, FetchEffect DEF SameScheme
  <2>2. published[job[v].code] > 0 /\ published[job[v].code] \in Nat
    BY <1>0, <2>1 DEF NamesInv, Typed, TypeOK
  <2>3. 0 \in 0 .. published[job[v].code] - 1
    BY <2>2
  <2>4. nav[job[v].code] # {} \/ 0 \in job[v].batch
    BY <2>1 DEF NamesInv, BatchStarts
  <2> QED
    BY <2>1, <2>3, <2>4 DEF Received
<1>4. CASE ~(pc'[v] = pc[v] /\ job'[v] = job[v])
  <2>1. Step(v)
    <3>1. CASE \E w \in Workers : Step(w)
      BY <1>0, <1>4, <3>1, StepLabels DEF Elsewhere
    <3>2. CASE ~(\E w \in Workers : Step(w))
      BY <1>0, <1>4, <3>2, EnvironmentFrame
    <3> QED
      BY <3>1, <3>2
  <2> QED
    BY <1>0, <1>2, <1>3, <2>1, StepLabels
<1> QED
  BY <1>1, <1>4

LEMMA NamesInvNext == NamesInv /\ [Next]_vars => NamesInv'
<1> SUFFICES ASSUME NamesInv, [Next]_vars PROVE NamesInv'
  OBVIOUS
<1>1. Typed' /\ BatchStarts' /\ \A s \in Schemes : named'[s] => nav'[s] # {}
  BY TypedNext, BatchStartsStays, NamesKept DEF NamesInv
<1>2. \A s \in Schemes : published'[s] > 0
  BY LedgerGrows DEF NamesInv
<1> QED
  BY <1>1, <1>2 DEF NamesInv

LEMMA NamesInvInit == History > 0 /\ Init => NamesInv
<1> SUFFICES ASSUME History > 0, Init PROVE NamesInv
  OBVIOUS
<1>1. Typed
  BY TypedInit
<1> QED
  BY <1>1 DEF Init, NamesInv, BatchStarts

(* A name that was read is of a fund with days, now and later.               *)
HeldNames == \A c \in Clients : \A s \in req[c].names : nav[s] # {}

LEMMA HeldNamesNext == ApiInv /\ NamesInv /\ HeldNames /\ [ApiNext]_allVars => HeldNames'
<1> SUFFICES ASSUME ApiInv, NamesInv, HeldNames, [ApiNext]_allVars,
                    NEW c \in Clients, NEW s \in req'[c].names
             PROVE  nav'[s] # {}
  BY DEF HeldNames
<1>0. \A t \in Schemes : nav[t] \subseteq nav'[t]
  BY PipelineStep, LedgerGrows DEF NamesInv
<1>1. NoRequest.names = {}
  BY DEF NoRequest
<1>2. CASE req'[c] = req[c]
  <2>1. s \in Schemes /\ nav[s] # {}
    BY <1>2 DEF ApiInv, ApiTypeOK, RequestType, HeldNames
  <2> QED
    BY <1>0, <2>1
<1>3. CASE Pipeline
  BY <1>1, <1>2, <1>3 DEF Pipeline
<1>4. ASSUME NEW d \in Clients, ListSchemes(d) \/ GetScheme(d) PROVE nav'[s] # {}
  <2>1. CASE d = c
    <3>1. s \in Named /\ nav' = nav
      BY <1>4, <2>1, RequestTyped DEF vars
    <3> QED
      BY <3>1 DEF Named, NamesInv
  <2>2. CASE d # c
    BY <1>2, <1>4, <2>2, RequestTyped
  <2> QED
    BY <2>1, <2>2
<1>5. ASSUME NEW d \in Clients, Reply(d) PROVE nav'[s] # {}
  BY <1>1, <1>2, <1>5, ReplyEffect
<1> QED
  BY <1>2, <1>3, <1>4, <1>5 DEF ApiNext, allVars

LEMMA DateOfNamed ==
  ASSUME ApiInv, NamesInv, HeldNames, SeededInv
  PROVE  NamedHasDate
<1> SUFFICES ASSUME spent.seed = 0, NEW c \in Clients, NEW a \in Answers(c), NEW f \in a.funds,
                    f.named, f.known
             PROVE  f.last # NoDay
  BY DEF NamedHasDate
<1>1. PICK st \in StatesOrNone : Shows(a, req[c].names \cup Named, st)
  BY AnswerCases
<1>2. f.code \in Schemes /\ f.last = st[f.code].last /\ f.known = st[f.code].known
  BY <1>1 DEF Shows
<1>3. nav[f.code] # {} /\ nav[f.code] \subseteq Days
  <2>1. f.code \in req[c].names \cup Named
    BY <1>1, Zenon DEF Shows
  <2> QED
    BY <1>2, <2>1 DEF HeldNames, NamesInv, Named, Typed, TypeOK
<1>4. row[f.code].status # "absent" /\ f.last = row[f.code].last
  <2>1. st[f.code].known
    BY <1>2, Zenon
  <2>2. st[f.code].known = TRUE
    BY <1>2, <2>1, StatesRead DEF ApiInv
  <2> QED
    BY <1>2, <2>2, StatesRead DEF ApiInv
<1>5. row[f.code].last \in nav[f.code]
  BY <1>2, <1>3, <1>4 DEF SeededInv, Seeded, BookOf
<1> QED
  BY <1>3, <1>4, <1>5, DaysAreNaturals DEF NoDay

(* A fund that is shown with its name and a known state has a date: the name *)
(* is saved in the transaction that saves the first days and the checkpoint, *)
(* and who reads the name first reads a checkpoint no older (SaveSyncResult, *)
(* ListFunds, GetFund).  The API has published something of every scheme.    *)
THEOREM NamedHasDateCorrect ==
  ASSUME History > 0
  PROVE  ApiSpec => []NamedHasDate
<1>1. ApiInit => HeldNames
  BY DEF ApiInit, HeldNames, NoRequest
<1>2. Spec => []NamesInv
  <2>1. Init => NamesInv
    BY NamesInvInit
  <2> QED
    BY <2>1, NamesInvNext, PTL DEF Spec
<1>3. ApiSpec => []HeldNames
  BY <1>1, <1>2, ApiKeepsPipeline, ApiInvariant, HeldNamesNext, PTL DEF ApiSpec
<1> QED
  BY <1>2, <1>3, ApiKeepsPipeline, ApiInvariant, SeededInvariant, DateOfNamed, PTL

(* The metrics in a ranking are of no day after the date shown with them.    *)
LEMMA DateOfRanked ==
  ASSUME ApiInv, AnalyticsFromHistory, SeededInv, CheckpointIsMax
  PROVE  RankCoversDays
<1> SUFFICES ASSUME spent.seed = 0, NEW c \in Clients, NEW a \in Answers(c), NEW i \in DOMAIN a.ranking,
                    NEW f \in a.funds, f.code = a.ranking[i].code, NEW d \in a.ranking[i].days
             PROVE  d <= f.last
  BY DEF RankCoversDays
<1>1. a.ranking # <<>>
  <2>1. DOMAIN <<>> = {}
    OBVIOUS
  <2> QED
    BY <2>1
<1>2. PICK by \in SortBys, win \in Windows : \E q \in Orders(by, win) :
        \E n \in 0 .. Cardinality(Ranked(win)) : RankList(a, by, win, q, n)
  BY <1>1, AnswerCases DEF Plain, Metrics
<1>3. PICK q \in Orders(by, win), n \in 0 .. Cardinality(Ranked(win)) : RankList(a, by, win, q, n)
  BY <1>2
<1>4. f.code \in Ranked(win) /\ d \in analytics[f.code][win]
  <2>1. /\ i \in 1 .. n /\ a.ranking[i].code = q[i] /\ a.ranking[i].days = analytics[q[i]][win]
    BY <1>3 DEF RankList
  <2>2. q[i] \in Ranked(win)
    BY <1>3, <2>1, RankedFinite DEF Orders
  <2> QED
    BY <2>1, <2>2
<1>5. f.last = row[f.code].last
  <2>1. PICK j \in 1 .. n : f = Fund(q[j], TRUE, States[q[j]])
    BY <1>3 DEF RankList
  <2>2. f.code = q[j] /\ f.last = States[q[j]].last
    BY <2>1 DEF Fund
  <2> QED
    BY <1>4, <2>2 DEF Ranked, States
<1>6. f.code \in Schemes /\ row[f.code].status # "absent" /\ d \in nav[f.code] /\ nav[f.code] \subseteq Nat
  BY <1>4, DaysAreNaturals DEF Ranked, AnalyticsFromHistory, ApiInv, Typed, TypeOK
<1>7. row[f.code].last \in nav[f.code] /\ row[f.code].last # NoDay
  BY <1>6 DEF SeededInv, Seeded, BookOf, NoDay
<1> QED
  BY <1>5, <1>6, <1>7 DEF CheckpointIsMax

(* A ranking shows no metrics of a day after its last_updated, as long as no *)
(* two goroutines sync one scheme at once (GetRanking is one statement; the  *)
(* checkpoint is saved with the days that the metrics are computed from).    *)
THEOREM RankCoversDaysCorrect == ApiSpec /\ []OneSync => []RankCoversDays
BY ApiKeepsPipeline, ApiInvariant, AnalyticsCorrect, SeededInvariant, CheckpointIsMaxCorrect, DateOfRanked, PTL

(* So it is from the first boot until 14:30.                                 *)
THEOREM MorningRankCoversDays == ApiSpec => [](FirstMorning => RankCoversDays)
<1>1. ApiInv /\ AnalyticsFromHistory /\ SeededInv /\ (FirstMorning => CheckpointIsMax)
        => (FirstMorning => RankCoversDays)
  BY DateOfRanked
<1> QED
  BY ApiKeepsPipeline, ApiInvariant, AnalyticsCorrect, SeededInvariant, MorningCheckpointIsMax, <1>1, PTL

-----------------------------------------------------------------------------
(* What a client is shown never goes back.                                   *)

LastStored == \A s \in Schemes : row[s].last # NoDay => row[s].last \in nav[s]

LEMMA LastGrows ==
  ASSUME AboveInv, LastStored, [Next]_vars, NEW s \in Schemes
  PROVE  /\ row[s].last <= row'[s].last
         /\ row'[s].last # NoDay => row'[s].last \in nav'[s]
<1>0. /\ Typed /\ nav[s] \subseteq nav'[s] /\ nav[s] \subseteq Nat
      /\ row[s].last \in Nat \/ row[s].last = NoDay
      /\ row[s].last # NoDay => row[s].last \in nav[s]
  BY LedgerGrows, DaysAreNaturals DEF AboveInv, LastStored, Typed, TypeOK, RowType
<1>1. CASE SameBooks(s)
  BY <1>0, <1>1 DEF SameBooks, NoDay
<1>2. ASSUME NEW w \in Workers, SaveSyncResult(w), ~SameBooks(s)
      PROVE  /\ row[s].last <= row'[s].last
             /\ row'[s].last # NoDay => row'[s].last \in nav'[s]
  <2>1. /\ s = job[w].code /\ pc[w] = "save" /\ job[w].batch \in SUBSET Days
        /\ nav'[s] = nav[s] \cup job[w].batch
        /\ row'[s].last = IF job[w].batch = {} THEN row[s].last ELSE Largest(job[w].batch)
    BY <1>0, <1>2, SaveBooks
  <2>2. CASE job[w].batch = {}
    BY <1>0, <2>1, <2>2 DEF NoDay
  <2>3. CASE job[w].batch # {}
    <3>1. Largest(job[w].batch) \in job[w].batch
      BY <2>1, <2>3, LargestDay
    <3>2. \A e \in nav[s] : e < Largest(job[w].batch)
      BY <2>1, <3>1 DEF AboveInv, BatchAbove, Above
    <3>3. Largest(job[w].batch) \in Nat
      BY <2>1, <3>1, DaysAreNaturals
    <3>4. row[s].last <= Largest(job[w].batch)
      BY <1>0, <3>2, <3>3 DEF NoDay
    <3> QED
      BY <2>1, <2>3, <3>1, <3>4
  <2> QED
    BY <2>2, <2>3
<1>3. CASE ~(\E w \in Workers : Step(w)) /\ ~SameBooks(s)
  BY <1>0, <1>3, EnvironmentBooks DEF AboveInv, AbsentBlank, NoDay
<1>4. CASE ~(\E w \in Workers : SaveSyncResult(w)) /\ \E w \in Workers : Step(w)
  BY <1>0, <1>1, <1>4, StepBooks
<1> QED
  BY <1>1, <1>2, <1>3, <1>4

LEMMA WindowsGrow ==
  ASSUME WindowsInv, [Next]_vars, NEW s \in Schemes, NEW k \in Windows
  PROVE  /\ Cardinality(analytics[s][k]) \in Nat /\ Cardinality(analytics'[s][k]) \in Nat
         /\ Cardinality(analytics[s][k]) <= Cardinality(analytics'[s][k])
<1>1. analytics[s][k] \subseteq analytics'[s][k]
  BY WindowWritten
<1>2. analytics[s][k] \in SUBSET Days /\ analytics'[s][k] \in SUBSET Days
  BY TypedNext DEF WindowsInv, JobsInv, Typed, TypeOK
<1> QED
  BY <1>1, <1>2, CardinalityOfDays, FS_Subset

(* What was shown last of a fund and window is no more than there is.        *)
SeenInv ==
  /\ LastStored
  /\ \A c \in Clients : LET s == seen[c].code IN
       /\ seen[c].date <= row[s].last
       /\ seen[c].points <= Cardinality(analytics[s][seen[c].win])

LEMMA SeenInvNext ==
  ASSUME ApiInv, WindowsInv, AboveInv, SeenInv, [ApiNext]_allVars
  PROVE  /\ SeenInv'
         /\ \A c \in Clients : seen'[c].date >= seen[c].date /\ seen'[c].points >= seen[c].points
<1>0. [Next]_vars
  BY PipelineStep
<1>1. LastStored'
  BY <1>0, LastGrows DEF SeenInv, LastStored
<1> SUFFICES ASSUME NEW c \in Clients
             PROVE  /\ seen'[c].date <= row'[seen'[c].code].last
                    /\ seen'[c].points <= Cardinality(analytics'[seen'[c].code][seen'[c].win])
                    /\ seen'[c].date >= seen[c].date /\ seen'[c].points >= seen[c].points
  BY <1>1 DEF SeenInv
<1> DEFINE s == seen[c].code
           k == seen[c].win
           n == Cardinality(analytics[s][k])
           m == Cardinality(analytics'[s][k])
<1>2. /\ s \in Schemes /\ k \in Windows /\ seen[c].date \in Int /\ seen[c].points \in Nat
      /\ row[s].last \in Int /\ row'[s].last \in Int
  <2>1. seen[c] \in [code : Schemes, win : Windows, date : Days \cup {NoDay}, points : Nat]
    BY DEF ApiInv, ApiTypeOK
  <2>2. s \in Schemes
    BY <2>1
  <2>3. row[s] \in RowType /\ row'[s] \in RowType
    BY <1>0, <2>2, TypedNext DEF ApiInv, Typed, TypeOK
  <2>4. row[s].last \in Days \cup {NoDay} /\ row'[s].last \in Days \cup {NoDay}
    BY <2>3 DEF RowType
  <2>5. Days \cup {NoDay} \subseteq Int
    BY DaysAreNaturals DEF NoDay
  <2> QED
    BY <2>1, <2>4, <2>5
<1>3. /\ seen[c].date <= row[s].last /\ row[s].last <= row'[s].last
      /\ seen[c].points <= n /\ n <= m /\ n \in Nat /\ m \in Nat
  BY <1>0, <1>2, LastGrows, WindowsGrow DEF SeenInv
<1>4. CASE seen'[c] = seen[c]
  <2>1. seen[c].points <= m /\ seen[c].date <= row'[s].last
    <3> HIDE DEF n, m, s
    <3> QED
      BY <1>2, <1>3
  <2> QED
    BY <1>2, <1>4, <2>1
<1>5. CASE Reply(c)
  <2>1. /\ UNCHANGED vars /\ seen'[c].code = s /\ seen'[c].win = k
        /\ seen'[c].date = seen[c].date \/ seen'[c].date = row[s].last
        /\ seen'[c].points = seen[c].points \/ seen'[c].points = n
    BY <1>5, ReplyEffect
  <2>2. row' = row /\ analytics' = analytics
    BY <2>1 DEF vars
  <2>3. /\ seen[c].date <= seen'[c].date /\ seen'[c].date <= row[s].last
        /\ seen[c].points <= seen'[c].points /\ seen'[c].points <= n
    <3> HIDE DEF n, s
    <3> QED
      BY <1>2, <1>3, <2>1
  <2> QED
    BY <1>2, <1>3, <2>1, <2>2, <2>3
<1>6. CASE ~Reply(c)
  <2>1. seen'[c] = seen[c]
    BY <1>6, RequestTyped, ReplyEffect DEF ApiNext, allVars, Pipeline
  <2> QED
    BY <1>4, <2>1
<1> QED
  BY <1>5, <1>6

(* A client is never shown an older date of a fund than before, nor metrics  *)
(* of fewer days, whatever it asks, as long as no two goroutines work on one *)
(* scheme: what an answer shows was committed, and what replaces it is newer *)
(* (SaveSyncResult, UpsertAnalytics, the handlers of internal/api).          *)
THEOREM NeverOlderCorrect == ApiSpec /\ []OneEach => NeverOlder
<1>1. ApiInit => SeenInv
  <2> SUFFICES ASSUME ApiInit PROVE SeenInv
    OBVIOUS
  <2>1. \A c \in Clients : seen[c] \in [code : Schemes, win : Windows, date : {NoDay}, points : {0}]
    BY DEF ApiInit
  <2>2. row = [s \in Schemes |-> AbsentRow] /\ analytics = [s \in Schemes |-> [win \in Windows |-> {}]]
    BY DEF ApiInit, Init
  <2>3. LastStored
    BY <2>2 DEF LastStored, AbsentRow
  <2>4. ASSUME NEW c \in Clients
        PROVE  /\ seen[c].date = NoDay /\ row[seen[c].code].last = NoDay /\ seen[c].points = 0
               /\ Cardinality(analytics[seen[c].code][seen[c].win]) = 0
    <3>1. analytics[seen[c].code][seen[c].win] = {}
      BY <2>1, <2>2
    <3> QED
      BY <2>1, <2>2, <3>1, FS_EmptySet DEF AbsentRow
  <2> QED
    BY <2>3, <2>4 DEF NoDay, SeenInv
<1>2. WindowsInv /\ OneEach => OneSync
  BY DEF WindowsInv, JobsInv, TaskFit, Inside, OneEach, OneSync
<1>3. AboveInv /\ OneSync /\ [Next]_vars => AboveInv'
  BY TypedNext, AboveStays, MaxStays DEF AboveInv
<1>4. Spec /\ []OneEach => []WindowsInv
  BY WindowsInvInit, WindowsInvNext, PTL DEF Spec
<1>5. Spec /\ []OneEach => []AboveInv
  BY AboveInit, <1>2, <1>3, <1>4, PTL DEF Spec
<1>6. ApiInv /\ WindowsInv /\ AboveInv /\ SeenInv /\ [ApiNext]_allVars
        => SeenInv' /\ [\A c \in Clients : seen'[c].date >= seen[c].date /\ seen'[c].points >= seen[c].points]_allVars
  BY SeenInvNext
<1> QED
  BY ApiKeepsPipeline, ApiInvariant, <1>1, <1>4, <1>5, <1>6, PTL DEF ApiSpec, NeverOlder

(* On ordinary days (nobody asks for a sync, no restart, and no 14:30 before *)
(* the startup pass is over) all three hold without more: no metrics newer   *)
(* than the date, no window named that has none, and no step back in time    *)
(* (the handlers of internal/api, Scheduler.Start, RunBackfill).             *)
THEOREM OrdinaryDaysAnswers ==
  ASSUME OrdinaryDays
  PROVE  ApiSpec /\ [][StartupFirst]_vars => [](RankCoversDays /\ UsableWindows) /\ NeverOlder
BY ApiKeepsPipeline, OrdinaryDaysOneEach, RankCoversDaysCorrect, UsableWindowsCorrect, NeverOlderCorrect, PTL
=============================================================================
