--------------------------- MODULE ApiRequestsProofs ---------------------------
(***************************************************************************)
(* Proofs about ApiRequests, for every finite set of deliveries, every set   *)
(* of keys and every bound.  The invariant says how far a handler can be     *)
(* with what it has read, that a delivery mutates at most once and never      *)
(* before its transaction, and how the mutations committed under a key are    *)
(* accounted for by its stored row and its expiries.                         *)
(***************************************************************************)
EXTENDS ApiRequests, FiniteSetTheorems, TLAPS

Handlers == [step : Steps, req : {NoRequest} \cup Requests, got : {NoSnapshot} \cup Snapshots,
             answer : Answers, epoch : 0 .. MaxRestarts]
Rows == {NoRow} \cup [req : Requests, answer : Deliveries]
PlanRows == [status : PlanStatuses, base : Moves]
Workflows == [version : Versions, graph : Graphs, preview : {NoSnapshot} \cup Snapshots]

\* The handlers, and the requests they serve.
HandlerType ==
  /\ del \in [Deliveries -> Handlers]
  /\ \A d \in Deliveries : ~At(d, "idle") =>
       /\ Req(d) \in Requests /\ Req(d).op \in Ops
       /\ Req(d).op = "run" => Req(d).seen \in Snapshots

\* The database.
DataType ==
  /\ keys \in [Ops \X Keys -> Rows] /\ approval \in Rows
  /\ sessions \subseteq Deliveries /\ clones \subseteq Deliveries /\ applied \subseteq Deliveries
  /\ results \subseteq Deliveries /\ plans \in [Deliveries -> PlanRows]
  /\ wf \in Workflows
  /\ runs \in [Deliveries -> {NoSnapshot} \cup Snapshots]
  /\ active \in Deliveries \cup {None, Earlier}

\* What surrounds it.
WorldType ==
  /\ head \in Moves /\ catalog \in Moves /\ epoch \in 0 .. MaxRestarts
  /\ ws \in Deliveries \cup {None}
  /\ working \subseteq Deliveries \X (0 .. MaxRestarts)
  /\ expiries \in [Ops \X Keys -> 0 .. MaxExpiries]

\* A handler before its transaction.
Early == {"idle", "lookup", "clone", "lease", "load", "compile", "confirm", "execute"}

\* What a handler may be at, with what it read.
RouteOf(d) ==
  /\ del[d].step \in {"clone", "settle", "discard"} => Req(d).op = "session"
  /\ del[d].step \in {"lease", "load", "compile"} => Req(d).op \in {"validate", "run"}
  /\ del[d].step \in {"compile", "confirm"} => del[d].got \in Snapshots
  /\ At(d, "confirm") => Req(d).op = "run" /\ del[d].got.version = Req(d).seen.version
  /\ At(d, "execute") => Req(d).op # "decide" /\ (Req(d).op = "run" => del[d].got = Req(d).seen)
  /\ del[d].step \in Early => del[d].answer = None /\ d \notin applied

RouteInv == \A d \in Deliveries : RouteOf(d)

\* What the mutation of a delivery left, and that there is none before it.
EffectOf(d) ==
  /\ d \notin applied => d \notin sessions /\ plans[d].status = "none"
  /\ d \in sessions => d \in clones
  /\ d \in clones => /\ Req(d).op = "session"
                     /\ del[d].step \in {"execute", "settle", "discard", "done", "dead"}
  /\ d \in clones /\ At(d, "done") => d \in sessions
  /\ At(d, "execute") /\ Req(d).op = "session" => d \in clones
  /\ At(d, "discard") => d \notin sessions

EffectInv ==
  /\ \A d \in Deliveries : EffectOf(d)
  /\ results = {d \in Deliveries : plans[d].status = "succeeded"}
  /\ wf.version <= Cardinality(applied) + 1
  /\ wf.preview.version <= wf.version

\* The mutations committed under a key, and the row that remembers the last of them.
Committed(s) == {e \in applied : Scope(Req(e)) = s}
Decisions == {e \in applied : Req(e).op = "decide"}

KeyInv ==
  /\ \A s \in Ops \X Keys :
       /\ keys[s] # NoRow => keys[s].answer \in applied
       /\ s[1] # "decide" =>
            Cardinality(Committed(s)) <= expiries[s] + (IF keys[s] = NoRow THEN 0 ELSE 1)
  /\ approval # NoRow => approval.answer \in applied
  /\ Cardinality(Decisions) <= IF approval = NoRow THEN 0 ELSE 1

\* The answer of a handler is what the row says, as long as the row is there.
AnswerInv ==
  \A d \in Deliveries : del[d].answer \in Deliveries =>
    /\ del[d].answer \in applied
    /\ Req(d).op # "decide" /\ expiries[Scope(Req(d))] = 0 =>
         keys[Scope(Req(d))] = [req |-> Req(d), answer |-> del[d].answer]
    /\ Req(d).op = "decide" => approval = [req |-> Req(d), answer |-> del[d].answer]

ApiType == HandlerType /\ DataType /\ WorldType
ApiInv == ApiType /\ RouteInv /\ EffectInv /\ KeyInv /\ AnswerInv

-------------------------------------------------------------------------------
(* Facts about the constants and the records *)

LEMMA DeliveryFacts ==
  /\ IsFiniteSet(Deliveries)
  /\ \A d \in Deliveries : d \notin {"none", "earlier", "conflict", "error"}
  /\ None \in Answers /\ "conflict" \in Answers /\ "error" \in Answers
  /\ Deliveries \subseteq Answers /\ None \notin Deliveries
  /\ Cardinality(Deliveries) \in Nat
BY DeliveryAssumption, FS_CardinalityType DEF Answers, None

LEMMA ScopeFacts ==
  ASSUME HandlerType, NEW d \in Deliveries, ~At(d, "idle")
  PROVE  Scope(Req(d)) \in Ops \X Keys /\ Scope(Req(d))[1] = Req(d).op
BY DEF HandlerType, Scope, Requests

LEMMA HandlerFacts ==
  /\ Handler \in Handlers
  /\ Handler.got = NoSnapshot /\ Handler.answer = None /\ Handler.step = "idle"
BY BoundAssumption, DeliveryFacts DEF Handler, Handlers, Steps

LEMMA HandlerFields ==
  ASSUME NEW h \in Handlers
  PROVE  /\ h.step \in Steps /\ h.req \in {NoRequest} \cup Requests
         /\ h.got \in {NoSnapshot} \cup Snapshots /\ h.answer \in Answers
         /\ h.epoch \in 0 .. MaxRestarts
BY DEF Handlers

\* A step that replaces the handler of one delivery.
Served(d) ==
  /\ del' \in [Deliveries -> Handlers]
  /\ \A e \in Deliveries \ {d} : del'[e] = del[e]
  /\ del'[d].req = del[d].req

LEMMA GoFacts ==
  ASSUME HandlerType, NEW d \in Deliveries, NEW s \in Steps, Go(d, s)
  PROVE  /\ Served(d) /\ del'[d].step = s
         /\ del'[d].got = del[d].got /\ del'[d].answer = del[d].answer
<1>1. del[d] \in Handlers
  BY DEF HandlerType
<1>2. [del[d] EXCEPT !.step = s] \in Handlers
  BY <1>1 DEF Handlers
<1>3. del' = [del EXCEPT ![d] = [del[d] EXCEPT !.step = s]]
  BY DEF Go
<1>4. /\ del' \in [Deliveries -> Handlers] /\ del'[d] = [del[d] EXCEPT !.step = s]
      /\ \A e \in Deliveries \ {d} : del'[e] = del[e]
  BY <1>2, <1>3 DEF HandlerType
<1> QED
  BY <1>1, <1>4 DEF Served, Handlers

LEMMA AnswerFacts ==
  ASSUME HandlerType, NEW d \in Deliveries, NEW a \in Answers, Answer(d, a)
  PROVE  /\ Served(d) /\ del'[d].step = "done"
         /\ del'[d].got = NoSnapshot /\ del'[d].answer = a
<1> DEFINE h == [Handler EXCEPT !.step = "done", !.req = Req(d), !.answer = a]
<1>1. del[d] \in Handlers
  BY DEF HandlerType
<1>2. "done" \in Steps /\ del[d].req \in {NoRequest} \cup Requests
  BY <1>1 DEF Handlers, Steps
<1>3. /\ h \in Handlers /\ h.step = "done" /\ h.req = del[d].req /\ h.answer = a
      /\ h.got = Handler.got
  BY <1>2, HandlerFacts DEF Handlers, Req
<1>4. /\ del' \in [Deliveries -> Handlers] /\ del'[d] = h
      /\ \A e \in Deliveries \ {d} : del'[e] = del[e]
  BY <1>3 DEF HandlerType, Answer
<1> QED
  BY <1>3, <1>4, HandlerFacts DEF Served

\* A handler that reads and compiles: step and snapshot change.
LEMMA GotFacts ==
  ASSUME HandlerType, NEW d \in Deliveries, NEW s \in Steps, NEW g \in {NoSnapshot} \cup Snapshots,
         del' = [del EXCEPT ![d].step = s, ![d].got = g]
  PROVE  /\ Served(d) /\ del'[d].step = s
         /\ del'[d].got = g /\ del'[d].answer = del[d].answer
<1> DEFINE h == [del[d] EXCEPT !.step = s, !.got = g]
<1>1. del[d] \in Handlers
  BY DEF HandlerType
<1>2. h \in Handlers /\ h.req = del[d].req /\ h.step = s /\ h.got = g /\ h.answer = del[d].answer
  BY <1>1 DEF Handlers
<1>3. del' = [del EXCEPT ![d] = h]
  BY DEF HandlerType
<1>4. /\ del' \in [Deliveries -> Handlers] /\ del'[d] = h
      /\ \A e \in Deliveries \ {d} : del'[e] = del[e]
  BY <1>2, <1>3 DEF HandlerType
<1> QED
  BY <1>2, <1>4 DEF Served

LEMMA CatalogFacts ==
  ASSUME HandlerType, NEW d \in Deliveries, NEW s \in Steps, del[d].got \in Snapshots, catalog \in Moves,
         del' = [del EXCEPT ![d].step = s, ![d].got.catalog = catalog]
  PROVE  /\ Served(d) /\ del'[d].step = s /\ del'[d].got \in Snapshots
         /\ del'[d].got.version = del[d].got.version /\ del'[d].answer = del[d].answer
<1> DEFINE g == [del[d].got EXCEPT !.catalog = catalog]
<1>1. g \in Snapshots /\ g.version = del[d].got.version
  BY DEF Snapshots
<1>2. del[d] \in Handlers
  BY DEF HandlerType
<1>3. del' = [del EXCEPT ![d] = [del[d] EXCEPT !.step = s, !.got = g]]
  BY DEF HandlerType
<1> DEFINE h == [del[d] EXCEPT !.step = s, !.got = g]
<1>4. h \in Handlers /\ h.req = del[d].req /\ h.step = s /\ h.got = g /\ h.answer = del[d].answer
  BY <1>1, <1>2 DEF Handlers
<1>5. /\ del' \in [Deliveries -> Handlers] /\ del'[d] = h
      /\ \A e \in Deliveries \ {d} : del'[e] = del[e]
  BY <1>3, <1>4 DEF HandlerType
<1> QED
  BY <1>1, <1>4, <1>5 DEF Served

\* A transaction that left a clone without a session: the answer is kept for later.
LEMMA KeptFacts ==
  ASSUME HandlerType, NEW d \in Deliveries, NEW s \in Steps, NEW a \in Answers,
         del' = [del EXCEPT ![d].answer = a, ![d].step = s]
  PROVE  Served(d) /\ del'[d].step = s /\ del'[d].got = del[d].got /\ del'[d].answer = a
<1> DEFINE h == [del[d] EXCEPT !.answer = a, !.step = s]
<1>1. del[d] \in Handlers
  BY DEF HandlerType
<1>2. h \in Handlers /\ h.req = del[d].req /\ h.step = s /\ h.got = del[d].got /\ h.answer = a
  BY <1>1 DEF Handlers
<1>3. del' = [del EXCEPT ![d] = h]
  BY DEF HandlerType
<1>4. /\ del' \in [Deliveries -> Handlers] /\ del'[d] = h
      /\ \A e \in Deliveries \ {d} : del'[e] = del[e]
  BY <1>2, <1>3 DEF HandlerType
<1> QED
  BY <1>2, <1>4 DEF Served

-------------------------------------------------------------------------------
(* The steps of a handler outside of its transaction *)

\* Such a step changes its handler, its clone and the workspace lease; the answer it may
\* give is the one its key stores.
QuietServe(d) ==
  /\ Served(d) /\ UNCHANGED <<keys, applied, dbVars, envVars>>
  /\ ws' \in Deliveries \cup {None} /\ clones' \subseteq Deliveries
  /\ ~At(d, "idle") /\ ~At(d, "idle")'
  /\ \/ del'[d].answer \in {del[d].answer, "error", "conflict"}
     \/ /\ Req(d).op # "decide" /\ Row(d) # NoRow /\ Row(d).req = Req(d)
        /\ del'[d].answer = Row(d).answer
     \/ /\ Req(d).op = "decide" /\ approval # NoRow /\ approval.req = Req(d)
        /\ del'[d].answer = approval.answer
  /\ \A e \in Deliveries \ {d} : e \in clones' <=> e \in clones
  /\ RouteOf(d)' /\ EffectOf(d)'

\* What such a step finds.
LEMMA QuietBasics ==
  ASSUME ApiInv, NEW d \in Deliveries
  PROVE  /\ HandlerType /\ RouteOf(d) /\ EffectOf(d) /\ del[d] \in Handlers
         /\ ws \in Deliveries \cup {None} /\ clones \subseteq Deliveries /\ catalog \in Moves
         /\ Current \in Snapshots
         /\ ~At(d, "idle") => Row(d) \in Rows
         /\ ~At(d, "idle") /\ Row(d) # NoRow => Row(d).answer \in applied
<1>1. /\ HandlerType /\ RouteOf(d) /\ EffectOf(d) /\ del[d] \in Handlers
      /\ ws \in Deliveries \cup {None} /\ clones \subseteq Deliveries /\ catalog \in Moves
  BY DEF ApiInv, ApiType, HandlerType, RouteInv, EffectInv, WorldType, DataType
<1>2. Current \in Snapshots
  BY DEF ApiInv, ApiType, WorldType, DataType, Workflows, Current, Snapshots
<1>3. ASSUME ~At(d, "idle") PROVE Row(d) \in Rows /\ (Row(d) # NoRow => Row(d).answer \in applied)
  BY <1>1, <1>3, ScopeFacts DEF ApiInv, ApiType, DataType, KeyInv, Row
<1> QED
  BY <1>1, <1>2, <1>3

LEMMA RowFacts ==
  ASSUME NEW row \in Rows, row # NoRow
  PROVE  row = [req |-> row.req, answer |-> row.answer] /\ row.answer \in Deliveries
BY DEF Rows

LEMMA RowsEqual ==
  ASSUME NEW r, NEW a, NEW q, NEW b, [req |-> r, answer |-> a] = [req |-> q, answer |-> b]
  PROVE  r = q /\ a = b
<1>1. [req |-> r, answer |-> a].req = r /\ [req |-> r, answer |-> a].answer = a
  OBVIOUS
<1>2. [req |-> q, answer |-> b].req = q /\ [req |-> q, answer |-> b].answer = b
  OBVIOUS
<1> QED
  BY <1>1, <1>2

LEMMA LookupQuiet ==
  ASSUME ApiInv, NEW d \in Deliveries, Lookup(d) PROVE QuietServe(d)
<1>0. /\ HandlerType /\ RouteOf(d) /\ EffectOf(d) /\ del[d] \in Handlers
      /\ ws \in Deliveries \cup {None} /\ clones \subseteq Deliveries
      /\ At(d, "lookup") /\ ~At(d, "idle") /\ Row(d) \in Rows
      /\ Req(d).op # "decide" /\ d \notin applied /\ d \notin sessions /\ d \notin clones
      /\ Req(d).op \in AllOps /\ del[d].answer = None /\ plans[d].status = "none"
  BY QuietBasics DEF Lookup, At, RouteOf, EffectOf, Early, HandlerType, Requests
<1>1. UNCHANGED <<keys, clones, ws, applied, dbVars, envVars>>
  BY DEF Lookup
<1>2. CASE Row(d) # NoRow
  <2>1. Answer(d, Replay(Row(d), Req(d)))
    BY <1>2 DEF Lookup
  <2>2. \/ Row(d).req = Req(d) /\ Replay(Row(d), Req(d)) = Row(d).answer
        \/ Replay(Row(d), Req(d)) = "conflict"
    BY DEF Replay, SameRequest
  <2>3. Replay(Row(d), Req(d)) \in Answers
    BY <1>0, <1>2, <2>2, RowFacts, DeliveryFacts
  <2>4. Served(d) /\ del'[d].step = "done" /\ del'[d].answer = Replay(Row(d), Req(d))
    BY <1>0, <2>1, <2>3, AnswerFacts
  <2>5. RouteOf(d)' /\ EffectOf(d)'
    BY <1>0, <1>1, <2>4 DEF RouteOf, EffectOf, At, Early, dbVars
  <2> QED
    BY <1>0, <1>1, <1>2, <2>2, <2>4, <2>5 DEF QuietServe, At
<1>3. CASE Row(d) = NoRow /\ Answer(d, "error")
  <2>4. Served(d) /\ del'[d].step = "done" /\ del'[d].answer = "error"
    BY <1>0, <1>3, AnswerFacts, DeliveryFacts
  <2>5. RouteOf(d)' /\ EffectOf(d)'
    BY <1>0, <1>1, <2>4 DEF RouteOf, EffectOf, At, Early, dbVars
  <2> QED
    BY <1>0, <1>1, <2>4, <2>5 DEF QuietServe, At
<1>4. CASE Row(d) = NoRow /\ Go(d, AfterLookup(Req(d)))
  <2>1. /\ AfterLookup(Req(d)) \in {"clone", "lease", "execute"}
        /\ AfterLookup(Req(d)) = "clone" => Req(d).op = "session"
        /\ AfterLookup(Req(d)) = "lease" => Req(d).op \in {"validate", "run"}
        /\ AfterLookup(Req(d)) = "execute" => Req(d).op \notin {"session", "validate", "run"}
    <3>1. CASE Req(d).op = "session"
      BY <3>1 DEF AfterLookup
    <3>2. CASE Req(d).op \in {"validate", "run"}
      BY <3>2 DEF AfterLookup
    <3>3. CASE Req(d).op \notin {"session", "validate", "run"}
      BY <3>3 DEF AfterLookup
    <3> QED
      BY <3>1, <3>2, <3>3
  <2>2. AfterLookup(Req(d)) \in Steps
    BY <2>1 DEF Steps
  <2>4. Served(d) /\ del'[d].step = AfterLookup(Req(d)) /\ del'[d].answer = None
    BY <1>0, <1>4, <2>2, GoFacts
  <2>5. RouteOf(d)' /\ EffectOf(d)'
    BY <1>0, <1>1, <2>1, <2>4 DEF RouteOf, EffectOf, At, Req, Served, Early, dbVars
  <2> QED
    BY <1>0, <1>1, <2>1, <2>4, <2>5 DEF QuietServe, At
<1> QED
  BY <1>2, <1>3, <1>4 DEF Lookup

\* A handler that gives up before its transaction, without a clone of its own.
LEMMA GivesUp ==
  ASSUME ApiInv, NEW d \in Deliveries, del[d].step \in Early \ {"idle"}, d \notin clones,
         Answer(d, "error"), UNCHANGED <<keys, clones, applied, dbVars, envVars>>,
         ws' \in Deliveries \cup {None}
  PROVE  QuietServe(d)
<1>1. /\ HandlerType /\ RouteOf(d) /\ EffectOf(d) /\ d \notin applied /\ d \notin sessions
      /\ plans[d].status = "none" /\ clones \subseteq Deliveries
  BY QuietBasics DEF RouteOf, EffectOf
<1>2. Served(d) /\ del'[d].step = "done" /\ del'[d].answer = "error"
  BY <1>1, AnswerFacts, DeliveryFacts
<1>3. RouteOf(d)' /\ EffectOf(d)'
  BY <1>1, <1>2 DEF RouteOf, EffectOf, At, Early, dbVars
<1> QED
  BY <1>1, <1>2, <1>3 DEF QuietServe, At, Early

LEMMA CloneQuiet ==
  ASSUME ApiInv, NEW d \in Deliveries, PrepareClone(d) PROVE QuietServe(d)
<1>0. /\ HandlerType /\ RouteOf(d) /\ EffectOf(d)
      /\ ws \in Deliveries \cup {None} /\ clones \subseteq Deliveries
      /\ At(d, "clone") /\ Req(d).op = "session" /\ d \notin applied /\ d \notin sessions /\ d \notin clones
      /\ del[d].answer = None /\ plans[d].status = "none"
  BY QuietBasics DEF PrepareClone, At, RouteOf, EffectOf, Early
<1>1. UNCHANGED <<keys, ws, applied, dbVars, envVars>>
  BY DEF PrepareClone
<1>2. CASE Go(d, "execute") /\ clones' = clones \cup {d}
  <2>1. Served(d) /\ del'[d].step = "execute" /\ del'[d].answer = None
    BY <1>0, <1>2, GoFacts DEF Steps
  <2>2. RouteOf(d)' /\ EffectOf(d)'
    BY <1>0, <1>1, <1>2, <2>1 DEF RouteOf, EffectOf, At, Req, Served, Early, dbVars
  <2> QED
    BY <1>0, <1>1, <1>2, <2>1, <2>2 DEF QuietServe, At
<1>3. CASE Answer(d, "error") /\ UNCHANGED clones
  BY <1>0, <1>1, <1>3, GivesUp DEF At, Early
<1> QED
  BY <1>2, <1>3 DEF PrepareClone

LEMMA LeaseQuiet ==
  ASSUME ApiInv, NEW d \in Deliveries, TakeWorkspace(d) \/ LoadWorkflow(d) PROVE QuietServe(d)
<1>0. /\ HandlerType /\ RouteOf(d) /\ EffectOf(d) /\ Current \in Snapshots
      /\ ws \in Deliveries \cup {None} /\ clones \subseteq Deliveries
      /\ del[d].step \in {"lease", "load"} /\ Req(d).op \in {"validate", "run"}
      /\ d \notin applied /\ d \notin sessions /\ d \notin clones
      /\ del[d].answer = None /\ plans[d].status = "none"
  BY QuietBasics DEF TakeWorkspace, LoadWorkflow, At, RouteOf, EffectOf, Early
<1>1. UNCHANGED <<keys, clones, applied, dbVars, envVars>>
  BY DEF TakeWorkspace, LoadWorkflow
<1>2. CASE Go(d, "load") /\ ws' = d
  <2>1. Served(d) /\ del'[d].step = "load" /\ del'[d].answer = None
    BY <1>0, <1>2, GoFacts DEF Steps
  <2>2. RouteOf(d)' /\ EffectOf(d)'
    BY <1>0, <1>1, <2>1 DEF RouteOf, EffectOf, At, Req, Served, Early, dbVars
  <2> QED
    BY <1>0, <1>1, <1>2, <2>1, <2>2 DEF QuietServe, At
<1>3. CASE Answer(d, "error") /\ UNCHANGED ws
  BY <1>0, <1>1, <1>3, GivesUp DEF Early
<1>4. CASE LoadWorkflow(d)
  <2>1. /\ Served(d) /\ del'[d].step = "compile" /\ del'[d].answer = None /\ del'[d].got \in Snapshots
    <3>1. "compile" \in Steps /\ Current \in {NoSnapshot} \cup Snapshots
      BY <1>0 DEF Steps
    <3>2. PICK g \in {NoSnapshot} \cup Snapshots :
            g \in Snapshots /\ del' = [del EXCEPT ![d].step = "compile", ![d].got = g]
      BY <1>0, <1>4, <3>1 DEF LoadWorkflow
    <3>3. HandlerType
      BY <1>0
    <3>4. Served(d) /\ del'[d].step = "compile" /\ del'[d].got = g /\ del'[d].answer = del[d].answer
      BY <3>2, <3>3, GotFacts DEF Steps
    <3> QED
      BY <1>0, <3>2, <3>4
  <2>2. RouteOf(d)' /\ EffectOf(d)'
    BY <1>0, <1>1, <2>1 DEF RouteOf, EffectOf, At, Req, Served, Early, dbVars
  <2>3. UNCHANGED ws
    BY <1>4 DEF LoadWorkflow
  <2> QED
    BY <1>0, <1>1, <2>1, <2>2, <2>3 DEF QuietServe, At
<1> QED
  BY <1>2, <1>3, <1>4 DEF TakeWorkspace

LEMMA CompileQuiet ==
  ASSUME ApiInv, NEW d \in Deliveries, Compile(d) PROVE QuietServe(d)
<1>0. /\ HandlerType /\ RouteOf(d) /\ EffectOf(d) /\ catalog \in Moves
      /\ ws \in Deliveries \cup {None} /\ clones \subseteq Deliveries
      /\ At(d, "compile") /\ Req(d).op \in {"validate", "run"} /\ del[d].got \in Snapshots
      /\ d \notin applied /\ d \notin sessions /\ d \notin clones
      /\ del[d].answer = None /\ plans[d].status = "none"
  BY QuietBasics DEF Compile, At, RouteOf, EffectOf, Early
<1>1. UNCHANGED <<keys, clones, applied, dbVars, envVars>>
  BY DEF Compile
<1>2. CASE Answer(d, "error") /\ Free(d)
  <2>1. ws' \in Deliveries \cup {None}
    BY <1>0, <1>2 DEF Free
  <2> QED
    BY <1>0, <1>1, <1>2, <2>1, GivesUp DEF At, Early
<1>3. CASE /\ del[d].got.version = Req(d).seen.version
           /\ del' = [del EXCEPT ![d].step = IF Req(d).op = "run" THEN "confirm" ELSE "execute",
                                 ![d].got.catalog = catalog]
           /\ UNCHANGED ws
  <2>0. (IF Req(d).op = "run" THEN "confirm" ELSE "execute") \in Steps
    BY DEF Steps
  <2>1. /\ Served(d) /\ del'[d].step = (IF Req(d).op = "run" THEN "confirm" ELSE "execute")
        /\ del'[d].answer = None /\ del'[d].got \in Snapshots
        /\ del'[d].got.version = del[d].got.version
    BY <1>0, <1>3, <2>0, CatalogFacts
  <2>2. Req(d)' = Req(d)
    BY <2>1 DEF Req, Served
  <2>3. RouteOf(d)' /\ EffectOf(d)'
    BY <1>0, <1>1, <1>3, <2>1, <2>2 DEF RouteOf, EffectOf, At, Early, dbVars
  <2> QED
    BY <1>0, <1>1, <1>3, <2>1, <2>3 DEF QuietServe, At
<1>4. CASE /\ Req(d).op = "validate" /\ UNCHANGED ws
           /\ del' = [del EXCEPT ![d].step = "execute", ![d].got = NoSnapshot]
  <2>1. Served(d) /\ del'[d].step = "execute" /\ del'[d].answer = None
    BY <1>0, <1>4, GotFacts DEF Steps
  <2>2. Req(d)' = Req(d)
    BY <2>1 DEF Req, Served
  <2>3. RouteOf(d)' /\ EffectOf(d)'
    BY <1>0, <1>1, <1>4, <2>1, <2>2 DEF RouteOf, EffectOf, At, Early, dbVars
  <2> QED
    BY <1>0, <1>1, <1>4, <2>1, <2>3 DEF QuietServe, At
<1> QED
  BY <1>2, <1>3, <1>4 DEF Compile

\* The snapshot that a run's client confirmed is the one that was compiled.
LEMMA SnapshotsEqual ==
  ASSUME NEW x \in Snapshots, NEW y \in Snapshots, x.version = y.version, x.graph = y.graph,
         x.base = y.base, x.catalog = y.catalog
  PROVE  x = y
BY DEF Snapshots

LEMMA ConfirmQuiet ==
  ASSUME ApiInv, NEW d \in Deliveries, Confirm(d) PROVE QuietServe(d)
<1>0. /\ HandlerType /\ RouteOf(d) /\ EffectOf(d)
      /\ ws \in Deliveries \cup {None} /\ clones \subseteq Deliveries
      /\ At(d, "confirm") /\ Req(d).op = "run" /\ del[d].got \in Snapshots
      /\ Req(d).seen \in Snapshots /\ del[d].got.version = Req(d).seen.version
      /\ d \notin applied /\ d \notin sessions /\ d \notin clones
      /\ del[d].answer = None /\ plans[d].status = "none"
  BY QuietBasics DEF Confirm, At, RouteOf, EffectOf, Early, HandlerType
<1>1. UNCHANGED <<keys, clones, applied, dbVars, envVars>>
  BY DEF Confirm
<1>2. CASE Answer(d, "error") /\ Free(d)
  <2>1. ws' \in Deliveries \cup {None}
    BY <1>0, <1>2 DEF Free
  <2> QED
    BY <1>0, <1>1, <1>2, <2>1, GivesUp DEF At, Early
<1>3. CASE Confirmed(d) /\ Go(d, "execute") /\ UNCHANGED ws
  <2>0. del[d].got = Req(d).seen
    BY <1>0, <1>3, SnapshotsEqual DEF Confirmed
  <2>1. Served(d) /\ del'[d].step = "execute" /\ del'[d].answer = None /\ del'[d].got = del[d].got
    BY <1>0, <1>3, GoFacts DEF Steps
  <2>2. Req(d)' = Req(d)
    BY <2>1 DEF Req, Served
  <2>3. RouteOf(d)' /\ EffectOf(d)'
    BY <1>0, <1>1, <2>0, <2>1, <2>2 DEF RouteOf, EffectOf, At, Early, dbVars
  <2> QED
    BY <1>0, <1>1, <1>3, <2>1, <2>3 DEF QuietServe, At
<1> QED
  BY <1>2, <1>3 DEF Confirm

LEMMA SettleQuiet ==
  ASSUME ApiInv, NEW d \in Deliveries, Settle(d) \/ Discard(d) PROVE QuietServe(d)
<1>0. /\ HandlerType /\ RouteOf(d) /\ EffectOf(d)
      /\ ws \in Deliveries \cup {None} /\ clones \subseteq Deliveries
      /\ del[d].step \in {"settle", "discard"} /\ Req(d).op = "session"
      /\ At(d, "discard") => d \notin sessions
  BY QuietBasics DEF Settle, Discard, At, RouteOf, EffectOf
<1>1. UNCHANGED <<keys, ws, applied, dbVars, envVars>>
  BY DEF Settle, Discard
<1>2. PICK s \in {"discard", "done"} : Go(d, s)
  BY DEF Settle, Discard
<1>3. Served(d) /\ del'[d].step = s /\ del'[d].answer = del[d].answer
  BY <1>0, <1>2, GoFacts DEF Steps
<1>4. Req(d)' = Req(d)
  BY <1>3 DEF Req, Served
<1>5. CASE Settle(d)
  <2>1. UNCHANGED clones /\ (s = "discard" => d \notin sessions) /\ (s = "done" => d \in sessions)
    <3>1. Go(d, IF MayDiscard(d) THEN "discard" ELSE "done") /\ UNCHANGED clones
      BY <1>5 DEF Settle
    <3>2. del'[d].step = IF MayDiscard(d) THEN "discard" ELSE "done"
      BY <1>0, <3>1, GoFacts DEF Steps
    <3> QED
      BY <1>3, <3>1, <3>2 DEF MayDiscard
  <2>2. RouteOf(d)' /\ EffectOf(d)'
    BY <1>0, <1>1, <1>3, <1>4, <2>1 DEF RouteOf, EffectOf, At, Early, dbVars
  <2> QED
    BY <1>0, <1>1, <1>3, <2>1, <2>2 DEF QuietServe, At
<1>6. CASE Discard(d)
  <2>1. clones' = clones \ {d} /\ At(d, "discard")
    BY <1>6 DEF Discard, Discarded
  <2>2. del'[d].step = "done"
    BY <1>0, <1>6, GoFacts DEF Discard, Steps
  <2>3. RouteOf(d)' /\ EffectOf(d)'
    BY <1>0, <1>1, <1>3, <1>4, <2>1, <2>2 DEF RouteOf, EffectOf, At, Early, dbVars
  <2> QED
    BY <1>0, <1>1, <1>3, <2>1, <2>2, <2>3 DEF QuietServe, At
<1> QED
  BY <1>5, <1>6

-------------------------------------------------------------------------------
(* Preservation where no transaction commits *)

LEMMA KeysKept ==
  ASSUME KeyInv, UNCHANGED <<keys, approval, applied, expiries>>,
         \A e \in applied : Req(e)' = Req(e)
  PROVE  KeyInv'
<1>1. \A s : Committed(s)' = Committed(s)
  BY DEF Committed, Scope
<1>2. Decisions' = Decisions
  BY DEF Decisions
<1> QED
  BY <1>1, <1>2 DEF KeyInv

\* A handler that does not move, while the transactions of others may.
LEMMA OthersKept ==
  ASSUME NEW e \in Deliveries, del'[e] = del[e], e \in applied' <=> e \in applied,
         e \in sessions' <=> e \in sessions, e \in clones' <=> e \in clones,
         plans'[e] = plans[e], RouteOf(e), EffectOf(e)
  PROVE  RouteOf(e)' /\ EffectOf(e)'
BY DEF RouteOf, EffectOf, At, Req

LEMMA DataKept ==
  ASSUME DataType, UNCHANGED <<keys, applied, dbVars>>, clones' \subseteq Deliveries
  PROVE  DataType'
BY DEF DataType, dbVars

LEMMA WorldKept ==
  ASSUME WorldType, UNCHANGED envVars, ws' \in Deliveries \cup {None}
  PROVE  WorldType'
BY DEF WorldType, envVars

\* What a step of one handler does to the types of all.
LEMMA ServedTyped ==
  ASSUME HandlerType, NEW d \in Deliveries, Served(d), ~At(d, "idle")
  PROVE  HandlerType' /\ \A e \in Deliveries : Req(e)' = Req(e)
<1>1. \A e \in Deliveries : Req(e)' = Req(e)
  BY DEF Served, Req
<1>2. \A e \in Deliveries : ~At(e, "idle")' => ~At(e, "idle")
  BY DEF Served, At
<1> QED
  BY <1>1, <1>2 DEF Served, HandlerType

LEMMA QuietPreserves ==
  ASSUME ApiInv, NEW d \in Deliveries, QuietServe(d) PROVE ApiInv'
<1>0. HandlerType' /\ \A e \in Deliveries : Req(e)' = Req(e)
  BY ServedTyped DEF QuietServe, ApiInv, ApiType
<1>u. UNCHANGED <<keys, applied, sessions, plans, results, wf, runs, active, approval, expiries>>
  BY DEF QuietServe, dbVars, envVars
<1>1. DataType' /\ WorldType'
  BY DataKept, WorldKept DEF QuietServe, ApiInv, ApiType
<1>2. ASSUME NEW e \in Deliveries PROVE RouteOf(e)' /\ EffectOf(e)'
  <2>1. CASE e = d
    BY <2>1 DEF QuietServe
  <2>2. CASE e # d
    BY <1>u, <2>2, OthersKept DEF QuietServe, Served, ApiInv, RouteInv, EffectInv
  <2> QED
    BY <2>1, <2>2
<1>3. EffectInv'
  BY <1>2, <1>u DEF ApiInv, EffectInv
<1>4. KeyInv'
  <2>1. applied \subseteq Deliveries
    BY DEF ApiInv, ApiType, DataType
  <2> QED
    BY <1>0, <1>u, <2>1, KeysKept DEF ApiInv
<1>5. ASSUME NEW e \in Deliveries, del'[e].answer \in Deliveries
      PROVE  /\ del'[e].answer \in applied'
             /\ Req(e)'.op # "decide" /\ expiries'[Scope(Req(e)')] = 0 =>
                  keys'[Scope(Req(e)')] = [req |-> Req(e)', answer |-> del'[e].answer]
             /\ Req(e)'.op = "decide" => approval' = [req |-> Req(e)', answer |-> del'[e].answer]
  <2>1. CASE del'[e].answer = del[e].answer
    BY <1>0, <1>5, <1>u, <2>1 DEF ApiInv, AnswerInv
  <2>2. CASE del'[e].answer # del[e].answer
    <3>1. e = d
      BY <2>2 DEF QuietServe, Served
    <3>2. CASE Req(d).op # "decide"
      <4>1. Row(d) # NoRow /\ Row(d).req = Req(d) /\ del'[d].answer = Row(d).answer
        BY <1>5, <2>2, <3>1, <3>2, DeliveryFacts DEF QuietServe
      <4>2. Row(d) \in Rows /\ Row(d).answer \in applied
        BY <4>1, QuietBasics DEF QuietServe
      <4>3. Row(d) = [req |-> Req(d), answer |-> del'[d].answer]
        BY <4>1, <4>2, RowFacts
      <4> QED
        BY <1>0, <1>u, <3>1, <3>2, <4>1, <4>2, <4>3 DEF Row
    <3>3. CASE Req(d).op = "decide"
      <4>1. approval # NoRow /\ approval.req = Req(d) /\ del'[d].answer = approval.answer
        BY <1>5, <2>2, <3>1, <3>3, DeliveryFacts DEF QuietServe
      <4>2. approval \in Rows /\ approval.answer \in applied
        BY <4>1 DEF ApiInv, ApiType, DataType, KeyInv
      <4>3. approval = [req |-> Req(d), answer |-> del'[d].answer]
        BY <4>1, <4>2, RowFacts
      <4> QED
        BY <1>0, <1>u, <3>1, <3>3, <4>1, <4>2, <4>3
    <3> QED
      BY <3>2, <3>3
  <2> QED
    BY <2>1, <2>2
<1>6. AnswerInv'
  BY <1>5 DEF AnswerInv, Scope, Req
<1> QED
  BY <1>0, <1>1, <1>2, <1>3, <1>4, <1>6 DEF ApiInv, ApiType, RouteInv

\* A transaction that stores nothing: a replay, or an error.
LEMMA ExecuteQuiet ==
  ASSUME ApiInv, NEW d \in Deliveries, At(d, "execute"), NEW a \in Answers, After(d, a),
         UNCHANGED <<keys, applied, dbVars, clones, envVars>>,
         a \in {"error", "conflict"} \/ (Row(d) # NoRow /\ Row(d).req = Req(d) /\ a = Row(d).answer)
  PROVE  QuietServe(d)
<1>0. /\ HandlerType /\ RouteOf(d) /\ EffectOf(d) /\ ~At(d, "idle")
      /\ ws \in Deliveries \cup {None} /\ clones \subseteq Deliveries
      /\ Req(d).op # "decide" /\ d \notin applied /\ d \notin sessions
      /\ d \in clones => Req(d).op = "session"
      /\ plans[d].status = "none"
      /\ Row(d) # NoRow => Row(d).answer \in applied
  BY QuietBasics DEF At, RouteOf, EffectOf, Early
<1>1. a # d
  BY <1>0, DeliveryFacts
<1>2. ws' \in Deliveries \cup {None}
  BY <1>0 DEF After, Free
<1>3. CASE Req(d).op # "session"
  <2>1. Served(d) /\ del'[d].step = "done" /\ del'[d].answer = a
    BY <1>0, <1>3, AnswerFacts DEF After
  <2>2. RouteOf(d)' /\ EffectOf(d)'
    BY <1>0, <1>3, <2>1 DEF RouteOf, EffectOf, At, Early, dbVars
  <2> QED
    BY <1>0, <1>2, <2>1, <2>2 DEF QuietServe, At
<1>4. CASE Req(d).op = "session"
  <2>0. PICK s \in {"discard", "settle"} : del' = [del EXCEPT ![d].answer = a, ![d].step = s]
    BY <1>1, <1>4 DEF After
  <2>1. Served(d) /\ del'[d].step = s /\ del'[d].answer = a
    BY <1>0, <2>0, KeptFacts DEF Steps
  <2>2. Req(d)' = Req(d)
    BY <2>1 DEF Req, Served
  <2>3. RouteOf(d)' /\ EffectOf(d)'
    BY <1>0, <1>4, <2>1, <2>2 DEF RouteOf, EffectOf, At, Early, dbVars
  <2> QED
    BY <1>0, <1>2, <2>1, <2>3 DEF QuietServe, At
<1> QED
  BY <1>3, <1>4

\* A decision that was taken before, or that cannot be taken.
LEMMA DecideQuiet ==
  ASSUME ApiInv, NEW d \in Deliveries, Decide(d), UNCHANGED <<approval, applied>>
  PROVE  QuietServe(d)
<1>0. /\ HandlerType /\ RouteOf(d) /\ EffectOf(d) /\ ~At(d, "idle")
      /\ ws \in Deliveries \cup {None} /\ clones \subseteq Deliveries
      /\ Req(d).op = "decide" /\ d \notin applied /\ d \notin sessions /\ d \notin clones
      /\ plans[d].status = "none"
  BY QuietBasics DEF Decide, At, RouteOf, EffectOf, Early
<1>1. UNCHANGED <<keys, clones, ws, applied, dbVars, envVars>>
  BY DEF Decide, dbVars
<1>2. approval \in Rows /\ (approval # NoRow => approval.answer \in applied)
  BY DEF ApiInv, ApiType, DataType, KeyInv
<1>3. PICK a \in Answers :
        /\ Answer(d, a)
        /\ \/ a \in {"error", "conflict"}
           \/ approval # NoRow /\ approval.req = Req(d) /\ a = approval.answer
  <2>1. CASE Fenced(d) /\ approval # NoRow /\ approval.req.key = Req(d).key
    <3>1. approval.answer \in Answers
      BY <1>2, <2>1, RowFacts, DeliveryFacts
    <3> QED
      BY <2>1, <3>1, DeliveryFacts DEF Decide
  <2>2. CASE ~(Fenced(d) /\ approval # NoRow /\ approval.req.key = Req(d).key)
    <3>1. ~(Fenced(d) /\ Decidable(Req(d)))
      BY <1>0, <1>1, <2>2 DEF Decide
    <3> QED
      BY <2>2, <3>1, DeliveryFacts DEF Decide
  <2> QED
    BY <2>1, <2>2
<1>4. Served(d) /\ del'[d].step = "done" /\ del'[d].answer = a
  BY <1>0, <1>3, AnswerFacts
<1>5. RouteOf(d)' /\ EffectOf(d)'
  BY <1>0, <1>1, <1>4 DEF RouteOf, EffectOf, At, Early, dbVars
<1> QED
  BY <1>0, <1>1, <1>3, <1>4, <1>5 DEF QuietServe, At

-------------------------------------------------------------------------------
(* The transactions that commit a mutation *)

\* One more delivery has mutated.
LEMMA OneMore ==
  ASSUME DataType, NEW d \in Deliveries, d \notin applied, applied' = applied \cup {d}
  PROVE  /\ IsFiniteSet(applied) /\ Cardinality(applied) \in Nat
         /\ Cardinality(applied') = Cardinality(applied) + 1
         /\ Cardinality(applied') <= Cardinality(Deliveries)
         /\ applied' \subseteq Deliveries
<1>1. applied \subseteq Deliveries /\ applied \cup {d} \subseteq Deliveries
  BY DEF DataType
<1>2. IsFiniteSet(applied)
  BY <1>1, DeliveryFacts, FS_Subset
<1>3. Cardinality(applied \cup {d}) <= Cardinality(Deliveries)
  BY <1>1, DeliveryFacts, FS_Subset
<1> QED
  BY <1>1, <1>2, <1>3, FS_AddElement, FS_CardinalityType

\* What the mutations do to the database, row by row.
MutateEffect(d) ==
  /\ sessions' = IF Req(d).op = "session" THEN sessions \cup {d} ELSE sessions
  /\ plans' \in [Deliveries -> PlanRows]
  /\ \A e \in Deliveries \ {d} : plans'[e] = plans[e]
  /\ plans'[d].status \in {plans[d].status, "pending"}
  /\ results' = results /\ approval' = approval
  /\ wf'.version \in {wf.version, wf.version + 1} /\ wf'.graph \in Graphs
  /\ wf' = [version |-> wf'.version, graph |-> wf'.graph, preview |-> wf'.preview]
  /\ wf'.preview \in {NoSnapshot} \cup Snapshots
  /\ wf'.preview.version <= wf'.version
  /\ runs' \in [Deliveries -> {NoSnapshot} \cup Snapshots]
  /\ active' \in Deliveries \cup {None, Earlier}

LEMMA MutateFacts ==
  ASSUME ApiInv, NEW d \in Deliveries, At(d, "execute"), Mutate(d)
  PROVE  MutateEffect(d)
<1>0. /\ plans \in [Deliveries -> PlanRows] /\ wf \in Workflows
      /\ wf.version \in Nat /\ wf.preview.version <= wf.version
      /\ runs \in [Deliveries -> {NoSnapshot} \cup Snapshots]
      /\ active \in Deliveries \cup {None, Earlier} /\ head \in Moves
      /\ del[d].got \in {NoSnapshot} \cup Snapshots
      /\ Req(d) \in Requests /\ Req(d).op \in AllOps /\ Req(d).op # "decide"
  <2>1. /\ plans \in [Deliveries -> PlanRows] /\ wf \in Workflows
        /\ runs \in [Deliveries -> {NoSnapshot} \cup Snapshots]
        /\ active \in Deliveries \cup {None, Earlier} /\ head \in Moves
        /\ wf.preview.version <= wf.version
    BY DEF ApiInv, ApiType, DataType, WorldType, EffectInv
  <2>2. wf.version \in Nat
    <3>1. wf.version \in Versions
      BY <2>1 DEF Workflows
    <3> QED
      BY <3>1, DeliveryFacts DEF Versions
  <2>3. del[d].got \in {NoSnapshot} \cup Snapshots
    BY QuietBasics, HandlerFields
  <2>4. Req(d) \in Requests /\ Req(d).op # "decide"
    BY DEF ApiInv, ApiType, HandlerType, RouteInv, RouteOf, At
  <2> QED
    BY <2>1, <2>2, <2>3, <2>4 DEF Requests
<1>1. /\ wf = [version |-> wf.version, graph |-> wf.graph, preview |-> wf.preview]
      /\ wf.graph \in Graphs /\ wf.preview \in {NoSnapshot} \cup Snapshots
  BY <1>0 DEF Workflows
<1>2. CASE Req(d).op = "session"
  BY <1>0, <1>1, <1>2 DEF Mutate, InsertSession, MutateEffect
<1>3. CASE Req(d).op = "plan"
  <2>1. InsertPlan(d)
    BY <1>3 DEF Mutate
  <2>2. [status |-> "pending", base |-> head] \in PlanRows
    BY <1>0 DEF PlanRows, PlanStatuses
  <2>3. /\ plans' \in [Deliveries -> PlanRows] /\ plans'[d] = [status |-> "pending", base |-> head]
        /\ \A e \in Deliveries \ {d} : plans'[e] = plans[e]
    BY <1>0, <2>1, <2>2 DEF InsertPlan
  <2> QED
    BY <1>0, <1>1, <1>3, <2>1, <2>3 DEF InsertPlan, MutateEffect
<1>4. CASE Req(d).op = "update"
  <2>1. UpdateAuthorGraph(d)
    BY <1>4 DEF Mutate
  <2>2. wf' = [version |-> wf.version + 1, graph |-> Req(d).body, preview |-> wf.preview]
    BY <1>1, <2>1 DEF UpdateAuthorGraph, Advanced
  <2>3. Req(d).body \in Graphs
    BY <1>0 DEF Requests, Graphs
  <2>4. wf.preview.version <= wf.version + 1
    <3>1. wf.preview.version \in Nat
      BY <1>1, DeliveryFacts DEF Snapshots, NoSnapshot, Versions
    <3> QED
      BY <1>0, <3>1
  <2>5. /\ wf'.version = wf.version + 1 /\ wf'.graph \in Graphs
        /\ wf' = [version |-> wf'.version, graph |-> wf'.graph, preview |-> wf'.preview]
        /\ wf'.preview = wf.preview
    BY <2>2, <2>3
  <2>6. UNCHANGED <<sessions, plans, results, runs, active, approval>>
    BY <2>1 DEF UpdateAuthorGraph
  <2> QED
    BY <1>0, <1>1, <1>4, <2>4, <2>5, <2>6 DEF MutateEffect
<1>5. ASSUME SavePreview(d)
      PROVE  wf' = [version |-> wf.version, graph |-> wf.graph, preview |-> del[d].got]
             /\ del[d].got.version <= wf.version
  BY <1>0, <1>1, <1>5 DEF SavePreview, Previewable
<1>6. CASE Req(d).op = "validate"
  <2>1. StoreValidation(d)
    BY <1>6 DEF Mutate
  <2> QED
    BY <1>0, <1>1, <1>5, <1>6, <2>1 DEF StoreValidation, MutateEffect
<1>7. CASE Req(d).op = "run"
  <2>1. InsertRun(d)
    BY <1>7 DEF Mutate
  <2>2. runs' \in [Deliveries -> {NoSnapshot} \cup Snapshots]
    BY <1>0, <2>1 DEF InsertRun
  <2>3. SavePreview(d)
    BY <2>1 DEF InsertRun
  <2> QED
    BY <1>0, <1>1, <1>5, <1>7, <2>1, <2>2, <2>3 DEF InsertRun, MutateEffect
<1> QED
  BY <1>0, <1>2, <1>3, <1>4, <1>6, <1>7 DEF AllOps

\* The transaction of a delivery that commits, with the answer that it gives.
Commits(d) ==
  /\ Served(d) /\ Stores(d) /\ UNCHANGED <<clones, envVars>>
  /\ ws' \in Deliveries \cup {None}
  /\ At(d, "execute") /\ Row(d) = NoRow /\ del'[d].answer \in {d, "error"}
  /\ \/ At(d, "done")' /\ (Req(d).op = "session" => del'[d].answer = d)
     \/ At(d, "settle")' /\ Req(d).op = "session"

LEMMA ExecuteCases ==
  ASSUME ApiInv, NEW d \in Deliveries, Execute(d) PROVE QuietServe(d) \/ Commits(d)
<1>0. /\ HandlerType /\ At(d, "execute") /\ ~At(d, "idle") /\ Row(d) \in Rows
      /\ ws \in Deliveries \cup {None} /\ UNCHANGED <<clones, envVars>>
  BY QuietBasics DEF Execute, At
<1>1. CASE Row(d) # NoRow
  <2>1. After(d, Replay(Row(d), Req(d))) /\ UNCHANGED <<keys, applied, dbVars, clones, envVars>>
    BY <1>0, <1>1 DEF Execute, Stored
  <2>2. \/ Row(d).req = Req(d) /\ Replay(Row(d), Req(d)) = Row(d).answer
        \/ Replay(Row(d), Req(d)) = "conflict"
    BY DEF Replay, SameRequest
  <2>3. Replay(Row(d), Req(d)) \in Answers
    BY <1>0, <1>1, <2>2, RowFacts, DeliveryFacts
  <2>4. PICK a \in Answers : a = Replay(Row(d), Req(d))
    BY <2>3
  <2>5. After(d, a) /\ (a \in {"error", "conflict"} \/ (Row(d) # NoRow /\ Row(d).req = Req(d) /\ a = Row(d).answer))
    BY <1>1, <2>1, <2>2, <2>4
  <2> QED
    BY <1>0, <2>1, <2>5, ExecuteQuiet
<1>2. CASE Row(d) = NoRow /\ After(d, "error") /\ UNCHANGED <<keys, applied, dbVars>>
  BY <1>0, <1>2, ExecuteQuiet, DeliveryFacts
<1>3. CASE Row(d) = NoRow /\ Stores(d) /\ \E a \in {d, "error"} : After(d, a)
  <2>1. PICK a \in {d, "error"} : After(d, a)
    BY <1>3
  <2>2. a \in Answers
    BY DeliveryFacts
  <2>3. ws' \in Deliveries \cup {None}
    BY <1>0, <2>1 DEF After, Free
  <2>4. CASE Req(d).op # "session" \/ a = d
    <3>1. Served(d) /\ del'[d].step = "done" /\ del'[d].answer = a
      BY <1>0, <2>1, <2>2, <2>4, AnswerFacts DEF After
    <3> QED
      BY <1>0, <1>3, <2>3, <2>4, <3>1 DEF Commits, At
  <2>5. CASE Req(d).op = "session" /\ a # d
    <3>0. "error" \notin Deliveries
      BY DeliveryFacts
    <3>1. del' = [del EXCEPT ![d].answer = a, ![d].step = "settle"]
      BY <2>1, <2>5, <3>0 DEF After
    <3>2. Served(d) /\ del'[d].step = "settle" /\ del'[d].answer = a
      BY <1>0, <2>2, <3>1, KeptFacts DEF Steps
    <3> QED
      BY <1>0, <1>3, <2>3, <2>5, <3>2 DEF Commits, At
  <2> QED
    BY <2>4, <2>5
<1> QED
  BY <1>1, <1>2, <1>3 DEF Execute, Stored

LEMMA CommitsPreserves ==
  ASSUME ApiInv, NEW d \in Deliveries, Commits(d) PROVE ApiInv'
<1> DEFINE t == Scope(Req(d))
<1>0. /\ HandlerType /\ DataType /\ WorldType /\ RouteOf(d) /\ EffectOf(d) /\ KeyInv /\ AnswerInv
      /\ At(d, "execute") /\ ~At(d, "idle") /\ d \notin applied
      /\ plans[d].status = "none" /\ keys[t] = NoRow /\ Served(d) /\ Stores(d)
      /\ Req(d).op # "decide" /\ (Req(d).op = "session" => d \in clones)
      /\ (d \in clones => Req(d).op = "session")
  <2>1. /\ HandlerType /\ DataType /\ WorldType /\ RouteOf(d) /\ EffectOf(d) /\ KeyInv /\ AnswerInv
    BY DEF ApiInv, ApiType, RouteInv, EffectInv
  <2>2. At(d, "execute") /\ keys[t] = NoRow /\ Served(d) /\ Stores(d)
    BY DEF Commits, Row
  <2>3. ~At(d, "idle") /\ d \notin applied /\ Req(d).op # "decide"
    BY <2>1, <2>2 DEF At, RouteOf, Early
  <2> QED
    BY <2>1, <2>2, <2>3 DEF EffectOf
<1>1. HandlerType' /\ \A e \in Deliveries : Req(e)' = Req(e)
  BY <1>0, ServedTyped
<1>2. /\ applied' = applied \cup {d} /\ Mutate(d)
      /\ keys' = [keys EXCEPT ![t] = [req |-> Req(d), answer |-> d]]
  BY <1>0 DEF Stores
<1>3. MutateEffect(d)
  BY <1>0, <1>2, MutateFacts
<1>4. /\ IsFiniteSet(applied) /\ Cardinality(applied) \in Nat
      /\ Cardinality(applied') = Cardinality(applied) + 1
      /\ Cardinality(applied') <= Cardinality(Deliveries) /\ applied' \subseteq Deliveries
  BY <1>0, <1>2, OneMore
<1>5. t \in Ops \X Keys /\ t[1] = Req(d).op /\ Req(d) \in Requests
  BY <1>0, ScopeFacts DEF HandlerType
<1>6. /\ [req |-> Req(d), answer |-> d] \in Rows /\ [req |-> Req(d), answer |-> d] # NoRow
      /\ [req |-> Req(d), answer |-> d].answer = d
  BY <1>5, DeliveryFacts DEF Rows, NoRow
<1>7. /\ keys' \in [Ops \X Keys -> Rows] /\ keys'[t] = [req |-> Req(d), answer |-> d]
      /\ \A s \in (Ops \X Keys) \ {t} : keys'[s] = keys[s]
  BY <1>0, <1>2, <1>5, <1>6 DEF DataType
<1>8. /\ wf'.version \in Versions /\ wf'.version <= Cardinality(applied') + 1
  <2>1. wf.version \in 1 .. Cardinality(Deliveries) + 1 /\ wf.version <= Cardinality(applied) + 1
    BY DEF ApiInv, ApiType, DataType, Workflows, Versions, EffectInv
  <2> QED
    BY <1>3, <1>4, <2>1, DeliveryFacts DEF MutateEffect, Versions
<1>9. DataType'
  <2>1. wf' \in Workflows
    BY <1>3, <1>8 DEF MutateEffect, Workflows
  <2>2. sessions' \subseteq Deliveries /\ clones' \subseteq Deliveries /\ results' \subseteq Deliveries
    BY <1>0, <1>3 DEF MutateEffect, DataType, Commits
  <2>3. approval' \in Rows
    BY <1>0, <1>3 DEF MutateEffect, DataType
  <2> QED
    BY <1>3, <1>4, <1>7, <2>1, <2>2, <2>3 DEF DataType, MutateEffect
<1>10. WorldType'
  BY <1>0, WorldKept DEF Commits
<1>11. ASSUME NEW e \in Deliveries PROVE RouteOf(e)' /\ EffectOf(e)'
  <2>1. CASE e = d
    <3>1. /\ del'[d].step \in {"done", "settle"} /\ (del'[d].step = "settle" => Req(d).op = "session")
          /\ UNCHANGED clones
      BY DEF Commits, At
    <3>2. sessions' = IF Req(d).op = "session" THEN sessions \cup {d} ELSE sessions
      BY <1>3 DEF MutateEffect
    <3>3. d \in sessions' => Req(d).op = "session"
      BY <1>0, <3>2 DEF EffectOf
    <3>4. RouteOf(d)'
      BY <1>1, <3>1 DEF RouteOf, At, Early
    <3>5. EffectOf(d)'
      BY <1>0, <1>1, <1>2, <3>1, <3>2, <3>3 DEF EffectOf, At
    <3> QED
      BY <2>1, <3>4, <3>5
  <2>2. CASE e # d
    <3>1. /\ del'[e] = del[e] /\ plans'[e] = plans[e] /\ RouteOf(e) /\ EffectOf(e)
          /\ e \in applied' <=> e \in applied
          /\ e \in sessions' <=> e \in sessions
          /\ e \in clones' <=> e \in clones
      BY <1>0, <1>2, <1>3, <2>2 DEF Served, MutateEffect, Commits, ApiInv, RouteInv, EffectInv
    <3> QED
      BY <3>1, OthersKept
  <2> QED
    BY <2>1, <2>2
<1>12. EffectInv'
  <2>1. results' = {e \in Deliveries : plans'[e].status = "succeeded"}
    <3>1. results = {e \in Deliveries : plans[e].status = "succeeded"}
      BY DEF ApiInv, EffectInv
    <3>2. plans'[d].status # "succeeded" /\ plans[d].status # "succeeded"
      BY <1>0, <1>3 DEF MutateEffect
    <3> QED
      BY <1>3, <3>1, <3>2 DEF MutateEffect
  <2> QED
    BY <1>3, <1>8, <1>11, <2>1 DEF EffectInv, MutateEffect
<1>13. KeyInv'
  <2>0. expiries' = expiries /\ approval' = approval
    BY <1>3 DEF MutateEffect, Commits, envVars
  <2>1. \A s \in Ops \X Keys : s = t => Committed(s)' = Committed(s) \cup {d}
    BY <1>1, <1>2, <1>4 DEF Committed, Scope
  <2>2. \A s \in (Ops \X Keys) \ {t} : Committed(s)' = Committed(s)
    BY <1>1, <1>2, <1>4 DEF Committed, Scope
  <2>3. Decisions' = Decisions
    BY <1>0, <1>1, <1>2, <1>4 DEF Decisions
  <2>4. /\ IsFiniteSet(Committed(t)) /\ d \notin Committed(t)
        /\ Cardinality(Committed(t)) \in Nat
        /\ Cardinality(Committed(t) \cup {d}) = Cardinality(Committed(t)) + 1
    <3>1. Committed(t) \subseteq applied /\ d \notin Committed(t)
      BY <1>0 DEF Committed
    <3> QED
      BY <1>4, <3>1, FS_Subset, FS_AddElement, FS_CardinalityType
  <2>5. Cardinality(Committed(t)) <= expiries[t] + 0 /\ expiries[t] \in Nat
    BY <1>0, <1>5 DEF KeyInv, WorldType
  <2>6. \A s \in Ops \X Keys : s = t =>
          Cardinality(Committed(s)') <= expiries'[s] + (IF keys'[s] = NoRow THEN 0 ELSE 1)
    BY <1>6, <1>7, <2>0, <2>1, <2>4, <2>5
  <2>7. \A s \in (Ops \X Keys) \ {t} : s[1] # "decide" =>
          Cardinality(Committed(s)') <= expiries'[s] + (IF keys'[s] = NoRow THEN 0 ELSE 1)
    BY <1>0, <1>7, <2>0, <2>2 DEF KeyInv
  <2>8. \A s \in Ops \X Keys : keys'[s] # NoRow => keys'[s].answer \in applied'
    BY <1>0, <1>2, <1>6, <1>7 DEF KeyInv
  <2>9. /\ approval' # NoRow => approval'.answer \in applied'
        /\ Cardinality(Decisions') <= IF approval' = NoRow THEN 0 ELSE 1
    BY <1>0, <1>2, <2>0, <2>3 DEF KeyInv
  <2>10. \A s \in Ops \X Keys :
           /\ keys'[s] # NoRow => keys'[s].answer \in applied'
           /\ s[1] # "decide" =>
                Cardinality(Committed(s)') <= expiries'[s] + (IF keys'[s] = NoRow THEN 0 ELSE 1)
    <3>1. SUFFICES ASSUME NEW s \in Ops \X Keys, s[1] # "decide"
                   PROVE  Cardinality(Committed(s)') <= expiries'[s] + (IF keys'[s] = NoRow THEN 0 ELSE 1)
      BY <2>8
    <3>2. CASE s = t
      BY <2>6, <3>2
    <3>3. CASE s # t
      BY <2>7, <3>1, <3>3
    <3> QED
      BY <3>2, <3>3
  <2> QED
    BY <2>9, <2>10 DEF KeyInv, Committed, Decisions
<1>14. ASSUME NEW e \in Deliveries, del'[e].answer \in Deliveries
       PROVE  /\ del'[e].answer \in applied'
              /\ Req(e)'.op # "decide" /\ expiries'[Scope(Req(e)')] = 0 =>
                   keys'[Scope(Req(e)')] = [req |-> Req(e)', answer |-> del'[e].answer]
              /\ Req(e)'.op = "decide" => approval' = [req |-> Req(e)', answer |-> del'[e].answer]
  <2>0. expiries' = expiries /\ approval' = approval
    BY <1>3 DEF MutateEffect, Commits, envVars
  <2>1. CASE e = d
    <3>1. del'[d].answer = d
      BY <1>14, <2>1, DeliveryFacts DEF Commits
    <3> QED
      BY <1>0, <1>1, <1>2, <1>7, <2>1, <3>1
  <2>2. CASE e # d
    <3>1. del'[e] = del[e]
      BY <1>0, <2>2 DEF Served
    <3>2. /\ del[e].answer \in applied
          /\ Req(e).op # "decide" /\ expiries[Scope(Req(e))] = 0 =>
               keys[Scope(Req(e))] = [req |-> Req(e), answer |-> del[e].answer]
          /\ Req(e).op = "decide" => approval = [req |-> Req(e), answer |-> del[e].answer]
      BY <1>0, <1>14, <3>1 DEF AnswerInv
    <3>3. ~At(e, "idle")
      BY <1>14, <3>1, DeliveryFacts DEF ApiInv, RouteInv, RouteOf, At, Early
    <3>4. Scope(Req(e)) \in Ops \X Keys
      BY <1>0, <3>3, ScopeFacts
    <3>5. [req |-> Req(e), answer |-> del[e].answer] # NoRow
      BY <1>14, <3>1, DeliveryFacts DEF NoRow
    <3> QED
      BY <1>0, <1>1, <1>2, <1>7, <2>0, <3>1, <3>2, <3>4, <3>5
  <2> QED
    BY <2>1, <2>2
<1>15. AnswerInv'
  BY <1>14 DEF AnswerInv, Scope, Req
<1> QED
  BY <1>1, <1>9, <1>10, <1>11, <1>12, <1>13, <1>15 DEF ApiInv, ApiType, RouteInv

LEMMA DecisionPreserves ==
  ASSUME ApiInv, NEW d \in Deliveries, Decide(d), ~(UNCHANGED <<approval, applied>>)
  PROVE  ApiInv'
<1>0. /\ HandlerType /\ DataType /\ WorldType /\ RouteOf(d) /\ EffectOf(d) /\ KeyInv /\ AnswerInv
      /\ At(d, "lookup") /\ ~At(d, "idle") /\ d \notin applied /\ d \notin sessions /\ d \notin clones
      /\ plans[d].status = "none" /\ Req(d).op = "decide"
  BY DEF Decide, ApiInv, ApiType, RouteInv, EffectInv, RouteOf, EffectOf, Early, At
<1>1. /\ approval = NoRow /\ approval' = [req |-> Req(d), answer |-> d] /\ applied' = applied \cup {d}
      /\ \E a \in {d, "error"} : Answer(d, a)
      /\ UNCHANGED <<keys, clones, ws, sessions, plans, results, wf, runs, active, envVars>>
  BY DEF Decide, Decidable
<1>2. PICK a \in {d, "error"} : Answer(d, a)
  BY <1>1
<1>3. Served(d) /\ del'[d].step = "done" /\ del'[d].answer = a
  BY <1>0, <1>2, AnswerFacts, DeliveryFacts
<1>4. HandlerType' /\ \A e \in Deliveries : Req(e)' = Req(e)
  BY <1>0, <1>3, ServedTyped
<1>5. /\ IsFiniteSet(applied) /\ Cardinality(applied) \in Nat
      /\ Cardinality(applied') = Cardinality(applied) + 1 /\ applied' \subseteq Deliveries
  BY <1>0, <1>1, OneMore
<1>6. Req(d) \in Requests
  BY <1>0 DEF HandlerType
<1>7. /\ [req |-> Req(d), answer |-> d] \in Rows /\ [req |-> Req(d), answer |-> d] # NoRow
      /\ [req |-> Req(d), answer |-> d].answer = d
  BY <1>6, DeliveryFacts DEF Rows, NoRow
<1>8. DataType' /\ WorldType'
  <2>1. DataType'
    BY <1>0, <1>1, <1>5, <1>7 DEF DataType
  <2>2. WorldType'
    BY <1>0, <1>1, WorldKept DEF WorldType
  <2> QED
    BY <2>1, <2>2
<1>9. ASSUME NEW e \in Deliveries PROVE RouteOf(e)' /\ EffectOf(e)'
  <2>1. CASE e = d
    BY <1>0, <1>1, <1>3, <2>1 DEF RouteOf, EffectOf, At, Early
  <2>2. CASE e # d
    <3>1. del'[e] = del[e] /\ RouteOf(e) /\ EffectOf(e) /\ (e \in applied' <=> e \in applied)
      BY <1>1, <1>3, <2>2 DEF Served, ApiInv, RouteInv, EffectInv
    <3> QED
      BY <1>1, <3>1, OthersKept
  <2> QED
    BY <2>1, <2>2
<1>10. EffectInv'
  <2>1. wf.version \in Nat /\ wf.version <= Cardinality(applied) + 1
    BY <1>0, DeliveryFacts DEF ApiInv, EffectInv, DataType, Workflows, Versions
  <2>2. wf'.version <= Cardinality(applied') + 1
    BY <1>1, <1>5, <2>1
  <2>3. results' = {e \in Deliveries : plans'[e].status = "succeeded"} /\ wf'.preview.version <= wf'.version
    BY <1>1 DEF ApiInv, EffectInv
  <2> QED
    BY <1>9, <2>2, <2>3 DEF EffectInv
<1>11. KeyInv'
  <2>1. \A s \in Ops \X Keys : s[1] # "decide" => Committed(s)' = Committed(s)
    <3>1. Scope(Req(d))[1] = "decide"
      BY <1>0, ScopeFacts
    <3> QED
      BY <1>1, <1>4, <1>5, <3>1 DEF Committed, Scope
  <2>2. Decisions' = Decisions \cup {d} /\ d \notin Decisions
    BY <1>0, <1>1, <1>4, <1>5 DEF Decisions
  <2>3. Decisions \subseteq applied /\ Cardinality(Decisions) <= 0
    BY <1>0, <1>1 DEF KeyInv, Decisions
  <2>4. Cardinality(Decisions') <= 1
    <3>1. IsFiniteSet(Decisions) /\ Cardinality(Decisions) \in Nat
      BY <1>5, <2>3, FS_Subset, FS_CardinalityType
    <3> QED
      BY <2>2, <2>3, <3>1, FS_AddElement
  <2>5. expiries' = expiries /\ keys' = keys
    BY <1>1 DEF envVars
  <2>6. \A s \in Ops \X Keys :
          /\ keys'[s] # NoRow => keys'[s].answer \in applied'
          /\ s[1] # "decide" =>
               Cardinality(Committed(s)') <= expiries'[s] + (IF keys'[s] = NoRow THEN 0 ELSE 1)
    BY <1>0, <1>1, <2>1, <2>5 DEF KeyInv
  <2> QED
    BY <1>1, <1>7, <2>4, <2>6 DEF KeyInv, Committed, Decisions
<1>12. ASSUME NEW e \in Deliveries, del'[e].answer \in Deliveries
       PROVE  /\ del'[e].answer \in applied'
              /\ Req(e)'.op # "decide" /\ expiries'[Scope(Req(e)')] = 0 =>
                   keys'[Scope(Req(e)')] = [req |-> Req(e)', answer |-> del'[e].answer]
              /\ Req(e)'.op = "decide" => approval' = [req |-> Req(e)', answer |-> del'[e].answer]
  <2>1. CASE e = d
    <3>1. del'[d].answer = d
      BY <1>3, <1>12, <2>1, DeliveryFacts
    <3> QED
      BY <1>0, <1>1, <1>4, <2>1, <3>1
  <2>2. CASE e # d
    <3>1. del'[e] = del[e]
      BY <1>3, <2>2 DEF Served
    <3>2. /\ del[e].answer \in applied
          /\ Req(e).op # "decide" /\ expiries[Scope(Req(e))] = 0 =>
               keys[Scope(Req(e))] = [req |-> Req(e), answer |-> del[e].answer]
          /\ Req(e).op = "decide" => approval = [req |-> Req(e), answer |-> del[e].answer]
      BY <1>0, <1>12, <3>1 DEF AnswerInv
    <3>3. [req |-> Req(e), answer |-> del[e].answer] # NoRow
      BY <1>12, <3>1, DeliveryFacts DEF NoRow
    <3> QED
      BY <1>1, <1>4, <3>1, <3>2, <3>3 DEF envVars
  <2> QED
    BY <2>1, <2>2
<1>13. AnswerInv'
  BY <1>12 DEF AnswerInv, Scope, Req
<1> QED
  BY <1>4, <1>8, <1>9, <1>10, <1>11, <1>13 DEF ApiInv, ApiType, RouteInv

-------------------------------------------------------------------------------
(* Deliveries and the environment *)

LEMMA SentFacts ==
  ASSUME HandlerType, NEW r \in Sent
  PROVE  r \in Requests /\ r.op \in Ops /\ (r.op = "run" => r.seen \in Snapshots)
BY DEF Sent, HandlerType

LEMMA UsableFacts ==
  ASSUME HandlerType PROVE Usable \subseteq Keys
<1> DEFINE used == {r.key : r \in Sent}
<1>1. used \subseteq Keys
  BY SentFacts DEF Requests
<1>2. used # Keys => (CHOOSE k \in Keys : k \notin used) \in Keys
  BY <1>1
<1>3. Usable = IF used = Keys THEN Keys ELSE used \cup {CHOOSE k \in Keys : k \notin used}
  BY DEF Usable
<1> HIDE DEF used
<1> QED
  BY <1>1, <1>2, <1>3

LEMMA SeenFacts ==
  ASSUME Current \in Snapshots, NEW o \in Ops
  PROVE  SeenBy(o) \in Seen /\ (o = "run" => SeenBy(o) \in Snapshots)
<1>1. CASE o = "run"
  BY <1>1 DEF SeenBy, Seen
<1>2. CASE o \in {"update", "validate"}
  <2>1. SeenBy(o) = [NoSnapshot EXCEPT !.version = wf.version]
    BY <1>2 DEF SeenBy
  <2>2. wf.version \in Versions
    BY DEF Current, Snapshots
  <2> QED
    BY <1>2, <2>1, <2>2 DEF Seen
<1>3. CASE o \notin {"run", "update", "validate"}
  BY <1>3 DEF SeenBy, Seen
<1> QED
  BY <1>1, <1>2, <1>3

LEMMA DeliverPreserves ==
  ASSUME ApiInv, NEW d \in Deliveries, Deliver(d) PROVE ApiInv'
<1>0. /\ HandlerType /\ DataType /\ WorldType /\ Current \in Snapshots /\ KeyInv /\ AnswerInv
      /\ d \notin applied /\ d \notin sessions /\ d \notin clones /\ plans[d].status = "none"
      /\ epoch \in 0 .. MaxRestarts
  <2>1. /\ HandlerType /\ DataType /\ WorldType /\ KeyInv /\ AnswerInv /\ epoch \in 0 .. MaxRestarts
        /\ RouteOf(d) /\ EffectOf(d)
    BY DEF ApiInv, ApiType, WorldType, RouteInv, EffectInv
  <2> QED
    BY <2>1, QuietBasics DEF Deliver, RouteOf, EffectOf, At, Early
<1>1. UNCHANGED <<keys, clones, ws, applied, dbVars, envVars>>
  BY DEF Deliver
<1>2. PICK r \in Sendable :
        del' = [del EXCEPT ![d] = [Handler EXCEPT !.step = "lookup", !.req = r, !.epoch = epoch]]
  BY DEF Deliver
<1>3. r \in Requests /\ r.op \in Ops /\ (r.op = "run" => r.seen \in Snapshots)
  <2>1. CASE r \in Sent
    BY <1>0, <2>1, SentFacts
  <2>2. CASE r \notin Sent
    <3>1. PICK o \in Ops, k \in Usable, b \in {1, 2} :
            r = [op |-> o, key |-> k, body |-> b, seen |-> SeenBy(o)]
      BY <1>2, <2>2 DEF Sendable
    <3>2. k \in Keys /\ o \in AllOps
      BY <1>0, UsableFacts, OpsAssumption
    <3>3. SeenBy(o) \in Seen /\ (o = "run" => SeenBy(o) \in Snapshots)
      BY <1>0, SeenFacts
    <3> QED
      BY <3>1, <3>2, <3>3 DEF Requests
  <2> QED
    BY <2>1, <2>2
<1> DEFINE h == [Handler EXCEPT !.step = "lookup", !.req = r, !.epoch = epoch]
<1>4. h \in Handlers /\ h.step = "lookup" /\ h.req = r /\ h.answer = None
  <2>1. "lookup" \in Steps
    BY DEF Steps
  <2> QED
    BY <1>0, <1>3, <2>1, BoundAssumption, DeliveryFacts DEF Handlers, Handler
<1>5. /\ del' \in [Deliveries -> Handlers] /\ del'[d] = h
      /\ \A e \in Deliveries \ {d} : del'[e] = del[e]
  BY <1>0, <1>2, <1>4 DEF HandlerType
<1> HIDE DEF h
<1>6. HandlerType'
  BY <1>0, <1>3, <1>4, <1>5 DEF HandlerType, At, Req
<1>7. DataType' /\ WorldType'
  BY <1>0, <1>1, DataKept, WorldKept DEF DataType, WorldType
<1>8. ASSUME NEW e \in Deliveries PROVE RouteOf(e)' /\ EffectOf(e)'
  <2>1. CASE e = d
    BY <1>0, <1>1, <1>4, <1>5, <2>1 DEF RouteOf, EffectOf, At, Req, Early, dbVars
  <2>2. CASE e # d
    BY <1>1, <1>5, <2>2, OthersKept DEF ApiInv, RouteInv, EffectInv, dbVars
  <2> QED
    BY <2>1, <2>2
<1>9. EffectInv'
  BY <1>1, <1>8 DEF ApiInv, EffectInv, dbVars
<1>10. KeyInv'
  <2>1. \A e \in applied : Req(e)' = Req(e)
    BY <1>0, <1>5 DEF Req, DataType
  <2> QED
    BY <1>0, <1>1, <2>1, KeysKept DEF dbVars, envVars
<1>11. AnswerInv'
  <2>1. del'[d].answer \notin Deliveries
    BY <1>4, <1>5, DeliveryFacts
  <2> QED
    BY <1>0, <1>1, <1>5, <2>1 DEF AnswerInv, Req, Scope, dbVars, envVars
<1> QED
  BY <1>6, <1>7, <1>8, <1>9, <1>10, <1>11 DEF ApiInv, ApiType, RouteInv

\* A step of the Scheduler or of the environment: no handler moves, unless it dies.
WorldStep ==
  /\ UNCHANGED <<keys, clones, sessions, wf, runs, approval, applied, expiries>>
  /\ del' \in [Deliveries -> Handlers]
  /\ \A d \in Deliveries : \/ del'[d] = del[d]
                           \/ /\ del'[d].req = del[d].req /\ del'[d].answer = None
                              /\ At(d, "dead")' /\ del[d].step \notin {"idle", "done"}
  /\ plans' \in [Deliveries -> PlanRows]
  /\ \A d \in Deliveries : plans[d].status = "none" => plans'[d].status = "none"
  /\ results' = {d \in Deliveries : plans'[d].status = "succeeded"}
  /\ active' \in Deliveries \cup {None, Earlier}
  /\ WorldType'

LEMMA WorldPreserves ==
  ASSUME ApiInv, WorldStep PROVE ApiInv'
<1>1. /\ HandlerType /\ DataType /\ KeyInv /\ AnswerInv
      /\ \A e \in Deliveries : RouteOf(e) /\ EffectOf(e)
  BY DEF ApiInv, ApiType, RouteInv, EffectInv
<1>2. \A e \in Deliveries : Req(e)' = Req(e) /\ (At(e, "idle")' <=> At(e, "idle"))
  BY DEF WorldStep, Req, At
<1>3. HandlerType'
  BY <1>1, <1>2 DEF HandlerType, WorldStep
<1>4. DataType'
  BY <1>1 DEF DataType, WorldStep
<1>5. ASSUME NEW e \in Deliveries PROVE RouteOf(e)' /\ EffectOf(e)'
  <2>1. RouteOf(e)'
    BY <1>1, <1>2 DEF WorldStep, RouteOf, At, Req, Early
  <2>2. EffectOf(e)'
    BY <1>1, <1>2 DEF WorldStep, EffectOf, At
  <2> QED
    BY <2>1, <2>2
<1>6. EffectInv'
  BY <1>5 DEF WorldStep, ApiInv, EffectInv
<1>7. KeyInv'
  BY <1>1, <1>2, KeysKept DEF WorldStep, DataType
<1>8. ASSUME NEW e \in Deliveries, del'[e].answer \in Deliveries PROVE del'[e] = del[e]
  BY <1>8, DeliveryFacts DEF WorldStep
<1>9. AnswerInv'
  BY <1>1, <1>2, <1>8 DEF AnswerInv, WorldStep
<1> QED
  BY <1>3, <1>4, <1>5, <1>6, <1>7, <1>9 DEF ApiInv, ApiType, RouteInv, WorldStep

LEMMA PlanFields ==
  ASSUME NEW d \in Deliveries, plans \in [Deliveries -> PlanRows], NEW s \in PlanStatuses,
         plans' = [plans EXCEPT ![d].status = s]
  PROVE  /\ plans' \in [Deliveries -> PlanRows] /\ plans'[d].status = s
         /\ \A e \in Deliveries \ {d} : plans'[e] = plans[e]
<1>1. [plans[d] EXCEPT !.status = s] \in PlanRows /\ [plans[d] EXCEPT !.status = s].status = s
  BY DEF PlanRows
<1>2. plans' = [plans EXCEPT ![d] = [plans[d] EXCEPT !.status = s]]
  OBVIOUS
<1> QED
  BY <1>1, <1>2

LEMMA WorldBasics ==
  ASSUME ApiInv
  PROVE  /\ HandlerType /\ WorldType /\ del \in [Deliveries -> Handlers]
         /\ plans \in [Deliveries -> PlanRows] /\ active \in Deliveries \cup {None, Earlier}
         /\ results = {d \in Deliveries : plans[d].status = "succeeded"}
         /\ head \in Moves /\ catalog \in Moves /\ epoch \in 0 .. MaxRestarts
BY DEF ApiInv, ApiType, HandlerType, DataType, WorldType, EffectInv

LEMMA PlanIsWorldStep ==
  ASSUME ApiInv, Plan PROVE WorldStep
<1>0. /\ WorldType /\ del \in [Deliveries -> Handlers]
      /\ plans \in [Deliveries -> PlanRows] /\ active \in Deliveries \cup {None, Earlier}
      /\ results = {d \in Deliveries : plans[d].status = "succeeded"}
      /\ working \subseteq Deliveries \X (0 .. MaxRestarts) /\ epoch \in 0 .. MaxRestarts
  BY WorldBasics DEF WorldType
<1>1. ASSUME NEW d \in Deliveries, StartPlan(d) PROVE WorldStep
  <2>1. /\ plans' \in [Deliveries -> PlanRows] /\ plans'[d].status = "running"
        /\ \A e \in Deliveries \ {d} : plans'[e] = plans[e]
        /\ plans[d].status = "pending"
    BY <1>0, <1>1, PlanFields DEF StartPlan, PlanStatuses
  <2>2. working' \subseteq Deliveries \X (0 .. MaxRestarts)
    BY <1>0, <1>1 DEF StartPlan
  <2>3. WorldType'
    BY <1>0, <1>1, <2>2 DEF StartPlan, WorldType
  <2> QED
    BY <1>0, <1>1, <2>1, <2>3 DEF StartPlan, WorldStep
<1>2. ASSUME NEW w \in working, FinishPlan(w) PROVE WorldStep
  <2>1. w[1] \in Deliveries /\ working' \subseteq Deliveries \X (0 .. MaxRestarts)
    BY <1>0, <1>2 DEF FinishPlan
  <2>2. WorldType'
    BY <1>0, <1>2, <2>1 DEF FinishPlan, WorldType
  <2>3. CASE SucceedWithWorkflow(w[1])
    <3>1. /\ plans' \in [Deliveries -> PlanRows] /\ plans'[w[1]].status = "succeeded"
          /\ \A e \in Deliveries \ {w[1]} : plans'[e] = plans[e]
          /\ plans[w[1]].status = "running" /\ results' = results \cup {w[1]}
      BY <1>0, <2>1, <2>3, PlanFields DEF SucceedWithWorkflow, PlanStatuses
    <3>2. results' = {d \in Deliveries : plans'[d].status = "succeeded"}
      BY <1>0, <2>1, <3>1
    <3> QED
      BY <1>0, <1>2, <2>2, <3>1, <3>2 DEF FinishPlan, WorldStep
  <2>4. CASE FailPlan(w[1])
    <3>1. /\ plans' \in [Deliveries -> PlanRows] /\ plans'[w[1]].status = "failed"
          /\ \A e \in Deliveries \ {w[1]} : plans'[e] = plans[e]
          /\ plans[w[1]].status = "running" /\ results' = results
      BY <1>0, <2>1, <2>4, PlanFields DEF FailPlan, PlanStatuses
    <3>2. results' = {d \in Deliveries : plans'[d].status = "succeeded"}
      BY <1>0, <2>1, <3>1
    <3> QED
      BY <1>0, <1>2, <2>2, <3>1, <3>2 DEF FinishPlan, WorldStep
  <2>5. CASE UNCHANGED <<plans, results>>
    BY <1>0, <1>2, <2>2, <2>5 DEF FinishPlan, WorldStep
  <2> QED
    BY <1>2, <2>3, <2>4, <2>5 DEF FinishPlan
<1> QED
  BY <1>1, <1>2 DEF Plan

LEMMA MoveIsWorldStep ==
  ASSUME ApiInv, MoveHead \/ EndRun \/ ChangeCatalog \/ LoseWorkspace \/ UNCHANGED vars
  PROVE  WorldStep
<1>0. /\ WorldType /\ del \in [Deliveries -> Handlers]
      /\ plans \in [Deliveries -> PlanRows] /\ active \in Deliveries \cup {None, Earlier}
      /\ results = {d \in Deliveries : plans[d].status = "succeeded"}
      /\ head \in 0 .. MaxMoves /\ catalog \in 0 .. MaxMoves /\ MaxMoves \in Nat
  BY WorldBasics, BoundAssumption DEF Moves
<1>1. CASE MoveHead
  <2>1. WorldType'
    BY <1>0, <1>1 DEF MoveHead, WorldType, Moves
  <2> QED
    BY <1>0, <1>1, <2>1 DEF MoveHead, WorldStep, dbVars
<1>2. CASE EndRun
  <2>1. WorldType'
    BY <1>0, <1>2 DEF EndRun, WorldType, envVars
  <2> QED
    BY <1>0, <1>2, <2>1 DEF EndRun, WorldStep, envVars
<1>3. CASE ChangeCatalog
  <2>1. WorldType'
    BY <1>0, <1>3 DEF ChangeCatalog, WorldType, Moves
  <2> QED
    BY <1>0, <1>3, <2>1 DEF ChangeCatalog, WorldStep, dbVars
<1>4. CASE LoseWorkspace
  <2>1. WorldType'
    BY <1>0, <1>4 DEF LoseWorkspace, WorldType, envVars
  <2> QED
    BY <1>0, <1>4, <2>1 DEF LoseWorkspace, WorldStep, dbVars, envVars
<1>5. CASE UNCHANGED vars
  <2>1. WorldType'
    BY <1>0, <1>5 DEF vars, WorldType
  <2> QED
    BY <1>0, <1>5, <2>1 DEF vars, WorldStep
<1> QED
  BY <1>1, <1>2, <1>3, <1>4, <1>5

LEMMA RestartIsWorldStep ==
  ASSUME ApiInv, Restart PROVE WorldStep
<1>0. /\ HandlerType /\ WorldType /\ del \in [Deliveries -> Handlers]
      /\ plans \in [Deliveries -> PlanRows] /\ active \in Deliveries \cup {None, Earlier}
      /\ results = {d \in Deliveries : plans[d].status = "succeeded"}
      /\ epoch \in 0 .. MaxRestarts /\ MaxRestarts \in Nat
  BY WorldBasics, BoundAssumption
<1>1. /\ plans' \in [Deliveries -> PlanRows]
      /\ \A d \in Deliveries : \/ plans'[d] = plans[d]
                               \/ plans[d].status = "running" /\ plans'[d].status = "orphaned"
  <2>1. \A d \in Deliveries : /\ [plans[d] EXCEPT !.status = "orphaned"] \in PlanRows
                              /\ [plans[d] EXCEPT !.status = "orphaned"].status = "orphaned"
    BY <1>0 DEF PlanRows, PlanStatuses
  <2> QED
    BY <1>0, <2>1 DEF Restart, Orphaned
<1>2. results' = {d \in Deliveries : plans'[d].status = "succeeded"}
  BY <1>0, <1>1 DEF Restart
<1>3. WorldType'
  <2>0. epoch < MaxRestarts /\ epoch' = epoch + 1
    BY DEF Restart
  <2>1. epoch' \in 0 .. MaxRestarts
    BY <1>0, <2>0
  <2> QED
    BY <1>0, <2>1 DEF Restart, WorldType
<1>4. /\ del' \in [Deliveries -> Handlers]
      /\ \A d \in Deliveries : \/ del'[d] = del[d]
                               \/ /\ del'[d].req = del[d].req /\ del'[d].answer = None
                                  /\ del'[d].step = "dead" /\ del[d].step \notin {"idle", "done"}
  <2>1. CASE UNCHANGED del
    BY <1>0, <2>1
  <2>2. CASE del' = [d \in Deliveries |->
                       IF del[d].step \in {"idle", "done"} THEN del[d]
                       ELSE [Handler EXCEPT !.step = "dead", !.req = Req(d)]]
    <3>1. ASSUME NEW d \in Deliveries
          PROVE  /\ [Handler EXCEPT !.step = "dead", !.req = Req(d)] \in Handlers
                 /\ [Handler EXCEPT !.step = "dead", !.req = Req(d)].req = Req(d)
                 /\ [Handler EXCEPT !.step = "dead", !.req = Req(d)].step = "dead"
                 /\ [Handler EXCEPT !.step = "dead", !.req = Req(d)].answer = None
      <4>1. del[d] \in Handlers /\ "dead" \in Steps
        BY <1>0 DEF Steps
      <4>2. Req(d) \in {NoRequest} \cup Requests
        BY <4>1, HandlerFields DEF Req
      <4> QED
        BY <4>1, <4>2, HandlerFacts DEF Handlers
    <3> QED
      BY <1>0, <2>2, <3>1 DEF Req
  <2> QED
    BY <2>1, <2>2 DEF Restart
<1> QED
  BY <1>0, <1>1, <1>2, <1>3, <1>4 DEF Restart, WorldStep, At

LEMMA ExpirePreserves ==
  ASSUME ApiInv, NEW t \in Ops \X Keys, ExpireKey(t) PROVE ApiInv'
<1>0. /\ HandlerType /\ DataType /\ WorldType /\ KeyInv /\ AnswerInv /\ MaxExpiries \in Nat
      /\ expiries \in [Ops \X Keys -> 0 .. MaxExpiries] /\ keys \in [Ops \X Keys -> Rows]
      /\ applied \subseteq Deliveries
  BY BoundAssumption DEF ApiInv, ApiType, WorldType, DataType
<1>1. /\ keys[t] # NoRow /\ expiries[t] < MaxExpiries
      /\ UNCHANGED <<clones, dbVars, head, catalog, ws, epoch, working, del, applied>>
  BY DEF ExpireKey
<1>2. /\ expiries' \in [Ops \X Keys -> 0 .. MaxExpiries] /\ expiries'[t] = expiries[t] + 1
      /\ \A s \in (Ops \X Keys) \ {t} : expiries'[s] = expiries[s]
  BY <1>0, <1>1 DEF ExpireKey
<1>3. /\ keys' \in [Ops \X Keys -> Rows] /\ keys'[t] = NoRow
      /\ \A s \in (Ops \X Keys) \ {t} : keys'[s] = keys[s]
  BY <1>0 DEF ExpireKey, Rows
<1>4. HandlerType'
  BY <1>0, <1>1 DEF HandlerType, At, Req
<1>5. DataType' /\ WorldType'
  <2>1. DataType'
    BY <1>0, <1>1, <1>3 DEF DataType, dbVars
  <2>2. WorldType'
    BY <1>0, <1>1, <1>2 DEF WorldType
  <2> QED
    BY <2>1, <2>2
<1>6. RouteInv' /\ EffectInv'
  <2>1. \A e \in Deliveries : RouteOf(e)' /\ EffectOf(e)'
    BY <1>1, OthersKept DEF ApiInv, RouteInv, EffectInv, dbVars
  <2> QED
    BY <1>1, <2>1 DEF ApiInv, RouteInv, EffectInv, dbVars
<1>7. KeyInv'
  <2>1. \A s : Committed(s)' = Committed(s)
    BY <1>1 DEF Committed, Req
  <2>2. Decisions' = Decisions
    BY <1>1 DEF Decisions, Req
  <2>3. ASSUME NEW s \in Ops \X Keys
        PROVE  /\ keys'[s] # NoRow => keys'[s].answer \in applied'
               /\ s[1] # "decide" =>
                    Cardinality(Committed(s)') <= expiries'[s] + (IF keys'[s] = NoRow THEN 0 ELSE 1)
    <3>1. CASE s # t
      BY <1>0, <1>1, <1>2, <1>3, <2>1, <3>1 DEF KeyInv
    <3>2. CASE s = t
      BY <1>0, <1>1, <1>2, <1>3, <2>1, <3>2 DEF KeyInv
    <3> QED
      BY <3>1, <3>2
  <2>4. /\ approval' # NoRow => approval'.answer \in applied'
        /\ Cardinality(Decisions') <= IF approval' = NoRow THEN 0 ELSE 1
    BY <1>0, <1>1, <2>2 DEF KeyInv, dbVars
  <2> QED
    BY <2>3, <2>4 DEF KeyInv, Committed, Decisions
<1>8. AnswerInv'
  <2>1. SUFFICES ASSUME NEW e \in Deliveries, del[e].answer \in Deliveries
                 PROVE  /\ del[e].answer \in applied
                        /\ Req(e).op # "decide" /\ expiries'[Scope(Req(e))] = 0 =>
                             keys'[Scope(Req(e))] = [req |-> Req(e), answer |-> del[e].answer]
                        /\ Req(e).op = "decide" => approval = [req |-> Req(e), answer |-> del[e].answer]
    BY <1>1 DEF AnswerInv, Req, Scope, dbVars
  <2>2. ~At(e, "idle")
    BY <2>1, DeliveryFacts DEF ApiInv, RouteInv, RouteOf, At, Early
  <2>3. Scope(Req(e)) \in Ops \X Keys
    BY <1>0, <2>2, ScopeFacts
  <2>4. expiries'[t] # 0
    BY <1>0, <1>2
  <2> QED
    BY <1>0, <1>2, <1>3, <2>1, <2>3, <2>4 DEF AnswerInv
<1> QED
  BY <1>4, <1>5, <1>6, <1>7, <1>8 DEF ApiInv, ApiType

-------------------------------------------------------------------------------
(* The invariant, and what follows from it *)

LEMMA InitInv ==
  ASSUME Init PROVE ApiInv
<1>0. \A d \in Deliveries : /\ del[d] = Handler /\ del[d].step = "idle" /\ del[d].answer = None
                            /\ plans[d] = [status |-> "none", base |-> 0]
  BY HandlerFacts DEF Init
<1>1. HandlerType
  BY <1>0, HandlerFacts DEF Init, HandlerType, At
<1>2. 0 \in Moves /\ 0 \in 0 .. MaxRestarts /\ 0 \in 0 .. MaxExpiries /\ 1 \in Versions
  BY BoundAssumption, DeliveryFacts DEF Moves, Versions
<1>3. DataType
  <2>1. [status |-> "none", base |-> 0] \in PlanRows
    BY <1>2 DEF PlanRows, PlanStatuses
  <2>2. wf \in Workflows
    BY <1>2 DEF Init, Workflows, Graphs
  <2> QED
    BY <2>1, <2>2 DEF Init, DataType, Rows
<1>4. WorldType
  BY <1>2 DEF Init, WorldType
<1>5. RouteInv
  BY <1>0 DEF Init, RouteInv, RouteOf, At, Early
<1>6. EffectInv
  <2>1. \A d \in Deliveries : EffectOf(d)
    BY <1>0 DEF Init, EffectOf, At
  <2>2. results = {d \in Deliveries : plans[d].status = "succeeded"}
    BY <1>0 DEF Init
  <2>3. wf.version <= Cardinality(applied) + 1 /\ wf.preview.version <= wf.version
    BY FS_EmptySet DEF Init, NoSnapshot
  <2> QED
    BY <2>1, <2>2, <2>3 DEF EffectInv
<1>7. KeyInv
  <2>1. Decisions = {} /\ \A s : Committed(s) = {}
    BY DEF Init, Decisions, Committed
  <2>2. /\ approval = NoRow /\ Cardinality({}) = 0
        /\ \A s \in Ops \X Keys : keys[s] = NoRow /\ expiries[s] = 0
    BY FS_EmptySet DEF Init
  <2> QED
    BY <2>1, <2>2 DEF KeyInv
<1>8. AnswerInv
  BY <1>0, DeliveryFacts DEF AnswerInv
<1> QED
  BY <1>1, <1>3, <1>4, <1>5, <1>6, <1>7, <1>8 DEF ApiInv, ApiType

LEMMA ServeCases ==
  ASSUME ApiInv, NEW d \in Deliveries, Serve(d)
  PROVE  \/ QuietServe(d) \/ Commits(d)
         \/ Decide(d) /\ ~(UNCHANGED <<approval, applied>>)
<1>1. CASE Execute(d)
  BY <1>1, ExecuteCases
<1>2. CASE Decide(d)
  BY <1>2, DecideQuiet
<1> QED
  BY <1>1, <1>2, LookupQuiet, CloneQuiet, LeaseQuiet, CompileQuiet, ConfirmQuiet, SettleQuiet DEF Serve

LEMMA NextPreserves ==
  ASSUME ApiInv, [Next]_vars PROVE ApiInv'
<1>1. ASSUME NEW d \in Deliveries, Deliver(d) PROVE ApiInv'
  BY <1>1, DeliverPreserves
<1>2. ASSUME NEW d \in Deliveries, Serve(d) PROVE ApiInv'
  BY <1>2, ServeCases, QuietPreserves, CommitsPreserves, DecisionPreserves
<1>3. CASE Plan
  BY <1>3, PlanIsWorldStep, WorldPreserves
<1>4. CASE MoveHead \/ EndRun \/ ChangeCatalog \/ LoseWorkspace \/ UNCHANGED vars
  BY <1>4, MoveIsWorldStep, WorldPreserves
<1>5. CASE Restart
  BY <1>5, RestartIsWorldStep, WorldPreserves
<1>6. ASSUME NEW s \in Ops \X Keys, ExpireKey(s) PROVE ApiInv'
  BY <1>6, ExpirePreserves
<1> QED
  BY <1>1, <1>2, <1>3, <1>4, <1>5, <1>6 DEF Next

LEMMA ApiInvariant == Spec => []ApiInv
BY InitInv, NextPreserves, PTL DEF Spec

\* However many deliveries, retries, expiries and changes of the Master there are, the
\* handlers and the database keep their types; the version of the workflow never
\* exceeds the number of committed updates.
THEOREM ApiTyped == Spec => []TypeOK
<1>1. ASSUME ApiInv PROVE TypeOK
  <2>1. /\ wf.version \in Versions /\ wf.graph \in Graphs /\ wf.preview \in {NoSnapshot} \cup Snapshots
    BY <1>1 DEF ApiInv, ApiType, DataType, Workflows
  <2>2. \A d \in Deliveries :
          /\ del[d].step \in Steps /\ del[d].answer \in Answers /\ del[d].epoch \in 0 .. MaxRestarts
          /\ del[d].step # "idle" => del[d].req \in Requests
          /\ del[d].got \in {NoSnapshot} \cup Snapshots
    BY <1>1, HandlerFields DEF ApiInv, ApiType, HandlerType, At, Req
  <2> QED
    BY <1>1, <2>1, <2>2 DEF ApiInv, ApiType, DataType, WorldType, TypeOK, Rows, PlanRows
<1> QED
  BY <1>1, ApiInvariant, PTL

\* create_session never removes the clone of a session whose commit was ambiguous, and
\* leaves no clone without a session once its handler has answered.
THEOREM ClonesFollowSessions == Spec => []ClonesMatchSessions
<1>1. ASSUME ApiInv PROVE ClonesMatchSessions
  BY <1>1 DEF ApiInv, ApiType, DataType, EffectInv, EffectOf, ClonesMatchSessions
<1> QED
  BY <1>1, ApiInvariant, PTL

\* Two deliveries with one key never get two different rows, nor one row for two
\* different requests, while the key lives.
THEOREM OneAnswerPerKey == Spec => []AnswersAgree
<1>1. ASSUME ApiInv PROVE AnswersAgree
  <2>1. SUFFICES ASSUME NEW d \in Deliveries, NEW e \in Deliveries, SameScope(d, e),
                        del[d].answer \in Deliveries, del[e].answer \in Deliveries
                 PROVE  /\ del[d].answer \in applied
                        /\ expiries[Scope(Req(d))] = 0 => del[d].answer = del[e].answer /\ Req(d) = Req(e)
    BY DEF AnswersAgree
  <2>2. AnswerInv /\ Scope(Req(d)) = Scope(Req(e)) /\ Req(d).op = Req(e).op
    BY <1>1, <2>1 DEF ApiInv, SameScope, Scope
  <2>3. /\ del[d].answer \in applied
        /\ expiries[Scope(Req(d))] = 0 =>
             [req |-> Req(d), answer |-> del[d].answer] = [req |-> Req(e), answer |-> del[e].answer]
    <3>1. CASE Req(d).op = "decide"
      BY <2>1, <2>2, <3>1 DEF AnswerInv
    <3>2. CASE Req(d).op # "decide"
      BY <2>1, <2>2, <3>2 DEF AnswerInv
    <3> QED
      BY <3>1, <3>2
  <2> QED
    BY <2>3, RowsEqual
<1> QED
  BY <1>1, ApiInvariant, PTL

\* A mutation is committed once under its key, and once more for every expiry of the key:
\* however often its request is delivered, retried after a commit that raised, or served
\* across a change of the Master.
THEOREM MutatedOncePerKey == Spec => []OncePerKey
<1>1. ASSUME ApiInv PROVE OncePerKey
  <2>1. SUFFICES ASSUME NEW d \in applied
                 PROVE  Cardinality({e \in applied : SameScope(d, e)}) <= 1 + expiries[Scope(Req(d))]
    BY DEF OncePerKey
  <2>2. /\ HandlerType /\ KeyInv /\ applied \subseteq Deliveries /\ d \in Deliveries
        /\ expiries \in [Ops \X Keys -> 0 .. MaxExpiries]
    BY <1>1 DEF ApiInv, ApiType, DataType, WorldType
  <2>3. \A e \in applied : ~At(e, "idle")
    BY <1>1, <2>2 DEF ApiInv, RouteInv, RouteOf, At, Early
  <2>4. Scope(Req(d)) \in Ops \X Keys /\ Scope(Req(d))[1] = Req(d).op
    BY <2>2, <2>3, ScopeFacts
  <2>5. {e \in applied : SameScope(d, e)} = Committed(Scope(Req(d)))
    BY <2>3 DEF SameScope, Committed
  <2>6. IsFiniteSet(applied) /\ expiries[Scope(Req(d))] \in Nat
    BY <2>2, <2>4, DeliveryFacts, FS_Subset
  <2>7. CASE Req(d).op # "decide"
    <3>1. Committed(Scope(Req(d))) \subseteq applied
      BY DEF Committed
    <3>2. Cardinality(Committed(Scope(Req(d)))) \in Nat
      BY <2>6, <3>1, FS_Subset, FS_CardinalityType
    <3>3. Cardinality(Committed(Scope(Req(d)))) <=
            expiries[Scope(Req(d))] + (IF keys[Scope(Req(d))] = NoRow THEN 0 ELSE 1)
      BY <2>2, <2>4, <2>7 DEF KeyInv
    <3> QED
      BY <2>5, <2>6, <3>2, <3>3
  <2>8. CASE Req(d).op = "decide"
    <3>1. Committed(Scope(Req(d))) \subseteq Decisions /\ Decisions \subseteq applied
      BY <2>8 DEF Committed, Decisions, Scope
    <3>2. /\ IsFiniteSet(Decisions) /\ Cardinality(Decisions) \in Nat
          /\ Cardinality(Committed(Scope(Req(d)))) \in Nat
          /\ Cardinality(Committed(Scope(Req(d)))) <= Cardinality(Decisions)
      BY <2>6, <3>1, FS_Subset, FS_CardinalityType
    <3>3. Cardinality(Decisions) <= 1
      BY <2>2, <3>2 DEF KeyInv
    <3> QED
      BY <2>5, <2>6, <3>2, <3>3
  <2> QED
    BY <2>7, <2>8
<1> QED
  BY <1>1, ApiInvariant, PTL

\* The parts of the database that a step other than a commit leaves alone.
LEMMA OnlyCommits ==
  ASSUME ApiInv, [Next]_vars
  PROVE  UNCHANGED <<runs, wf>> \/ \E d \in Deliveries : Commits(d)
<1>1. ASSUME NEW d \in Deliveries, Deliver(d) \/ Serve(d), ~Commits(d) PROVE UNCHANGED <<runs, wf>>
  <2>1. CASE Deliver(d)
    BY <2>1 DEF Deliver, dbVars
  <2>2. CASE Serve(d)
    BY <1>1, <2>2, ServeCases DEF QuietServe, Decide, dbVars
  <2> QED
    BY <1>1, <2>1, <2>2
<1>2. CASE Plan \/ MoveHead \/ EndRun \/ ChangeCatalog \/ LoseWorkspace \/ UNCHANGED vars \/ Restart
  BY <1>2, PlanIsWorldStep, MoveIsWorldStep, RestartIsWorldStep DEF WorldStep
<1>3. ASSUME NEW s \in Ops \X Keys, ExpireKey(s) PROVE UNCHANGED <<runs, wf>>
  BY <1>3 DEF ExpireKey, dbVars
<1> QED
  BY <1>1, <1>2, <1>3 DEF Next

\* A run is created from exactly the snapshot its client confirmed, and only while that is
\* what the workflow, the head and the catalog are; a preview is stored only for the
\* graph it was compiled from, and never replaces a newer one.
THEOREM RunsAreConfirmed == Spec => RunAsConfirmed
<1>1. ASSUME ApiInv, [Next]_vars
      PROVE  /\ \A d \in Deliveries : runs'[d] # runs[d] => runs'[d] = Req(d).seen /\ runs'[d] = Current
             /\ wf'.preview # wf.preview => /\ wf'.preview.version = wf'.version
                                            /\ wf'.preview.graph = wf'.graph
                                            /\ wf'.preview.version >= wf.preview.version
  <2>1. CASE UNCHANGED <<runs, wf>>
    BY <2>1
  <2>2. ASSUME NEW d \in Deliveries, Commits(d)
        PROVE  /\ \A e \in Deliveries : runs'[e] # runs[e] => runs'[e] = Req(e).seen /\ runs'[e] = Current
               /\ wf'.preview # wf.preview => /\ wf'.preview.version = wf'.version
                                              /\ wf'.preview.graph = wf'.graph
                                              /\ wf'.preview.version >= wf.preview.version
    <3>0. /\ At(d, "execute") /\ Mutate(d) /\ RouteOf(d) /\ Req(d).op \in AllOps \ {"decide"}
          /\ Req(d).op = "run" => del[d].got = Req(d).seen
      <4>1. At(d, "execute") /\ Mutate(d) /\ RouteOf(d) /\ Req(d) \in Requests
        BY <1>1, <2>2 DEF Commits, Stores, ApiInv, ApiType, RouteInv, HandlerType, At
      <4> QED
        BY <4>1 DEF RouteOf, Requests
    <3>1. /\ wf = [version |-> wf.version, graph |-> wf.graph, preview |-> wf.preview]
          /\ wf.version \in Nat /\ wf.preview.version \in Nat /\ wf.preview.version <= wf.version
          /\ runs \in [Deliveries -> {NoSnapshot} \cup Snapshots]
      <4>1. /\ wf \in Workflows /\ wf.preview.version <= wf.version
            /\ runs \in [Deliveries -> {NoSnapshot} \cup Snapshots]
        BY <1>1 DEF ApiInv, ApiType, DataType, EffectInv
      <4>2. wf = [version |-> wf.version, graph |-> wf.graph, preview |-> wf.preview]
        BY <4>1 DEF Workflows
      <4>3. wf.version \in Versions /\ wf.preview \in {NoSnapshot} \cup Snapshots
        BY <4>1 DEF Workflows
      <4> QED
        BY <4>1, <4>2, <4>3, DeliveryFacts DEF Versions, Snapshots, NoSnapshot
    <3>2. ASSUME SavePreview(d)
          PROVE  /\ wf'.preview.version = wf'.version /\ wf'.preview.graph = wf'.graph
                 /\ wf'.preview.version >= wf.preview.version
      <4>1. /\ wf' = [version |-> wf.version, graph |-> wf.graph, preview |-> del[d].got]
            /\ wf.version = del[d].got.version /\ wf.graph = del[d].got.graph
        BY <3>1, <3>2 DEF SavePreview, Previewable
      <4> QED
        BY <3>1, <4>1
    <3>3. CASE Req(d).op = "session"
      BY <3>0, <3>3 DEF Mutate, InsertSession
    <3>4. CASE Req(d).op = "plan"
      BY <3>0, <3>4 DEF Mutate, InsertPlan
    <3>5. CASE Req(d).op = "update"
      <4>1. UpdateAuthorGraph(d)
        BY <3>0, <3>5 DEF Mutate
      <4>2. runs' = runs /\ wf'.preview = wf.preview
        BY <3>1, <4>1 DEF UpdateAuthorGraph
      <4> QED
        BY <4>2
    <3>6. CASE Req(d).op = "validate"
      <4>1. StoreValidation(d)
        BY <3>0, <3>6 DEF Mutate
      <4> QED
        BY <3>2, <4>1 DEF StoreValidation
    <3>7. CASE Req(d).op = "run"
      <4>1. InsertRun(d)
        BY <3>0, <3>7 DEF Mutate
      <4>2. SavePreview(d) /\ del[d].got = Current /\ del[d].got = Req(d).seen
        BY <3>0, <3>7, <4>1 DEF InsertRun, StillCurrent
      <4>3. \A e \in Deliveries : runs'[e] = IF e = d THEN del[d].got ELSE runs[e]
        BY <3>1, <4>1 DEF InsertRun
      <4> QED
        BY <3>2, <4>2, <4>3
    <3> QED
      BY <3>0, <3>3, <3>4, <3>5, <3>6, <3>7 DEF AllOps
  <2> QED
    BY <1>1, <2>1, <2>2, OnlyCommits
<1> QED
  BY <1>1, ApiInvariant, PTL DEF Spec, RunAsConfirmed

\* A planner run has a workflow exactly when it succeeded, it succeeds only on the head it
\* was planned for, and once over it stays as it ended, whoever was the Master.
THEOREM PlansKeepTheirHead == Spec => PlannedOnHead
<1>1. ASSUME ApiInv, [Next]_vars
      PROVE  /\ results' = {d \in Deliveries : plans'[d].status = "succeeded"}
             /\ \A d \in Deliveries : plans[d].status \in PlanEnded => plans'[d] = plans[d]
             /\ \A d \in results' \ results : plans[d].base = head
  <2>1. results' = {d \in Deliveries : plans'[d].status = "succeeded"}
    BY <1>1, NextPreserves DEF ApiInv, EffectInv
  <2>2. plans \in [Deliveries -> PlanRows] /\ working \subseteq Deliveries \X (0 .. MaxRestarts)
    BY <1>1, WorldBasics DEF WorldType
  <2>3. CASE UNCHANGED <<plans, results>>
    BY <2>1, <2>3
  <2>4. ASSUME NEW d \in Deliveries, Commits(d)
        PROVE  /\ \A e \in Deliveries : plans[e].status \in PlanEnded => plans'[e] = plans[e]
               /\ results' = results
    <3>1. At(d, "execute") /\ Mutate(d)
      BY <2>4 DEF Commits, Stores
    <3>2. MutateEffect(d)
      BY <1>1, <3>1, MutateFacts
    <3>3. plans[d].status \notin PlanEnded
      BY <1>1, <3>1 DEF ApiInv, RouteInv, RouteOf, EffectInv, EffectOf, At, Early, PlanEnded
    <3> QED
      BY <3>2, <3>3 DEF MutateEffect
  <2>5. ASSUME NEW d \in Deliveries, StartPlan(d)
        PROVE  /\ \A e \in Deliveries : plans[e].status \in PlanEnded => plans'[e] = plans[e]
               /\ results' = results
    BY <2>2, <2>5, PlanFields DEF StartPlan, PlanStatuses, PlanEnded
  <2>6. ASSUME NEW w \in working, FinishPlan(w)
        PROVE  /\ \A e \in Deliveries : plans[e].status \in PlanEnded => plans'[e] = plans[e]
               /\ \A d \in results' \ results : plans[d].base = head
    <3>1. w[1] \in Deliveries
      BY <2>2
    <3>2. CASE SucceedWithWorkflow(w[1])
      <4>1. /\ \A e \in Deliveries \ {w[1]} : plans'[e] = plans[e]
            /\ plans[w[1]].status = "running" /\ plans[w[1]].base = head
            /\ results' = results \cup {w[1]}
        BY <2>2, <3>1, <3>2, PlanFields DEF SucceedWithWorkflow, BaseCurrent, PlanStatuses
      <4> QED
        BY <4>1 DEF PlanEnded
    <3>3. CASE FailPlan(w[1])
      <4>1. /\ \A e \in Deliveries \ {w[1]} : plans'[e] = plans[e]
            /\ plans[w[1]].status = "running" /\ results' = results
        BY <2>2, <3>1, <3>3, PlanFields DEF FailPlan, PlanStatuses
      <4> QED
        BY <4>1 DEF PlanEnded
    <3> QED
      BY <2>6, <3>2, <3>3 DEF FinishPlan
  <2>7. CASE Restart
    BY <2>1, <2>2, <2>7 DEF Restart, Orphaned, PlanEnded
  <2>8. ASSUME NEW d \in Deliveries, Deliver(d) \/ Serve(d), ~Commits(d) PROVE UNCHANGED <<plans, results>>
    <3>1. CASE Deliver(d)
      BY <3>1 DEF Deliver, dbVars
    <3>2. CASE Serve(d)
      BY <1>1, <2>8, <3>2, ServeCases DEF QuietServe, Decide, dbVars
    <3> QED
      BY <2>8, <3>1, <3>2
  <2>9. CASE MoveHead \/ EndRun \/ ChangeCatalog \/ LoseWorkspace \/ UNCHANGED vars
    BY <2>3, <2>9 DEF MoveHead, EndRun, ChangeCatalog, LoseWorkspace, vars, dbVars
  <2>10. ASSUME NEW s \in Ops \X Keys, ExpireKey(s) PROVE UNCHANGED <<plans, results>>
    BY <2>10 DEF ExpireKey, dbVars
  <2> QED
    BY <1>1, <2>1, <2>3, <2>4, <2>5, <2>6, <2>7, <2>8, <2>9, <2>10 DEF Next, Plan
<1> QED
  BY <1>1, ApiInvariant, PTL DEF Spec, PlannedOnHead
================================================================================
