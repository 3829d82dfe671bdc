---------------------------- MODULE Reads_proofs ----------------------------
(***************************************************************************)
(* Proofs about Reads: for every request, every list of descriptors and    *)
(* every content of the database.                                          *)
(***************************************************************************)
EXTENDS Reads, QueryArgs_proofs, FiniteSetTheorems

-----------------------------------------------------------------------------
(***************************************************************************)
(* The routes.                                                             *)
(***************************************************************************)

\* There are thirteen.
LEMMA RoutesNumbered == DOMAIN Routes = 1 .. 13
  BY DEF Routes

\* The route of a request is the first that matches it.
LEMMA RouteIsFirst ==
  ASSUME NEW r, Routed(r)
  PROVE  \E i \in Matching(r) : RouteOf(r) = Routes[i] /\ \A j \in Matching(r) : i <= j
  <1>1. Matching(r) \subseteq 1 .. 13 /\ Matching(r) # {}
    BY RoutesNumbered DEF Matching, Routed
  <1>2. \E i \in Matching(r) : \A j \in Matching(r) : i <= j
    BY <1>1, Least
  <1>3. QED BY <1>2 DEF RouteOf

\* The templates of the paths, as sequences.
LEMMA Templates ==
  /\ DOMAIN <<"{table}", "options", "{id}">> = 1 .. 3
  /\ DOMAIN <<"{table}", "options">> = 1 .. 2
  /\ DOMAIN <<"{table}", "{id}">> = 1 .. 2
  /\ DOMAIN <<"{table}">> = 1 .. 1
  /\ DOMAIN <<>> = {}
  OBVIOUS

\* The paths of the routes ...
LEMMA PathsOfRoutes ==
  /\ Routes[1].path = <<"{table}", "options", "{id}">>
  /\ Routes[2].path = <<"{table}", "options">>
  /\ \A i \in {3, 4, 5, 9, 10} : Routes[i].path = <<"{table}", "{id}">>
  /\ \A i \in {6, 7, 8} : Routes[i].path = <<"{table}">>
  /\ \A i \in {11, 12, 13} : Routes[i].path = <<>>
  <1>1. /\ Routes[1].path = <<"{table}", "options", "{id}">>
        /\ Routes[2].path = <<"{table}", "options">>
    BY DEF Routes, Route
  <1>2. /\ Routes[3].path = <<"{table}", "{id}">> /\ Routes[4].path = <<"{table}", "{id}">>
        /\ Routes[5].path = <<"{table}", "{id}">> /\ Routes[9].path = <<"{table}", "{id}">>
        /\ Routes[10].path = <<"{table}", "{id}">>
    BY DEF Routes, Route
  <1>3. /\ Routes[6].path = <<"{table}">> /\ Routes[7].path = <<"{table}">>
        /\ Routes[8].path = <<"{table}">>
    BY DEF Routes, Route
  <1>4. Routes[11].path = <<>> /\ Routes[12].path = <<>> /\ Routes[13].path = <<>>
    BY DEF Routes, Route
  <1>5. QED BY <1>1, <1>2, <1>3, <1>4

\* ... how many segments they have ...
LEMMA SegmentsOfRoutes ==
  /\ DOMAIN Routes[1].path = 1 .. 3 /\ DOMAIN Routes[2].path = 1 .. 2
  /\ \A i \in {3, 4, 5, 9, 10} : DOMAIN Routes[i].path = 1 .. 2
  /\ \A i \in {6, 7, 8} : DOMAIN Routes[i].path = 1 .. 1
  /\ \A i \in {11, 12, 13} : DOMAIN Routes[i].path = {}
  BY PathsOfRoutes, Templates, Zenon

\* A path with one literal segment, the second of three.
LEMMA ThreeSegments ==
  ASSUME NEW route, DOMAIN route.path = 1 .. 3, route.path[1] \in Variables,
         route.path[2] \notin Variables, route.path[3] \in Variables
  PROVE  Literals(route) = {2}
  <1>1. \A j \in 1 .. 3 : j = 1 \/ j = 2 \/ j = 3
    OBVIOUS
  <1>2. QED BY <1>1 DEF Literals

\* A path of two segments, of which the first is a variable.
LEMMA TwoSegments ==
  ASSUME NEW route, DOMAIN route.path = 1 .. 2, route.path[1] \in Variables
  PROVE  Literals(route) = IF route.path[2] \in Variables THEN {} ELSE {2}
  <1>1. \A j \in 1 .. 2 : j = 1 \/ j = 2
    OBVIOUS
  <1>2. QED BY <1>1 DEF Literals

\* ... and which of them are literal.
LEMMA LiteralsOfRoutes ==
  /\ \A i \in 3 .. 13 : Literals(Routes[i]) = {}
  /\ Literals(Routes[1]) = {2} /\ Literals(Routes[2]) = {2}
  /\ Len(Routes[1].path) = 3 /\ Len(Routes[2].path) = 2
<1>1. "{table}" \in Variables /\ "{id}" \in Variables /\ "options" \notin Variables
  BY DEF Variables
<1>2. Literals(Routes[1]) = {2}
  <2>1. /\ Routes[1].path[1] = "{table}" /\ Routes[1].path[2] = "options"
        /\ Routes[1].path[3] = "{id}"
    BY DEF Routes, Route
  <2>2. DOMAIN Routes[1].path = 1 .. 3
    BY SegmentsOfRoutes
  <2>3. QED BY <1>1, <2>1, <2>2, ThreeSegments
<1>3. Literals(Routes[2]) = {2}
  <2>1. Routes[2].path[1] = "{table}" /\ Routes[2].path[2] = "options"
    BY DEF Routes, Route
  <2>2. DOMAIN Routes[2].path = 1 .. 2
    BY SegmentsOfRoutes
  <2>3. QED BY <1>1, <2>1, <2>2, TwoSegments
<1>4. \A i \in {3, 4, 5, 9, 10} : Literals(Routes[i]) = {}
  <2>1. \A i \in {3, 4, 5, 9, 10} : Routes[i].path[1] = "{table}" /\ Routes[i].path[2] = "{id}"
    <3>1. /\ Routes[3].path[1] = "{table}" /\ Routes[3].path[2] = "{id}"
          /\ Routes[4].path[1] = "{table}" /\ Routes[4].path[2] = "{id}"
          /\ Routes[5].path[1] = "{table}" /\ Routes[5].path[2] = "{id}"
      BY DEF Routes, Route
    <3>2. /\ Routes[9].path[1] = "{table}" /\ Routes[9].path[2] = "{id}"
          /\ Routes[10].path[1] = "{table}" /\ Routes[10].path[2] = "{id}"
      BY DEF Routes, Route
    <3>3. QED BY <3>1, <3>2
  <2>2. SUFFICES ASSUME NEW i \in {3, 4, 5, 9, 10} PROVE Literals(Routes[i]) = {}
    OBVIOUS
  <2>3. DOMAIN Routes[i].path = 1 .. 2
    BY SegmentsOfRoutes
  <2>4. Routes[i].path[1] \in Variables /\ Routes[i].path[2] \in Variables
    BY <1>1, <2>1
  <2>5. QED BY <2>3, <2>4, TwoSegments
<1>5. \A i \in {6, 7, 8} : Literals(Routes[i]) = {}
  <2>1. /\ Routes[6].path[1] = "{table}" /\ Routes[7].path[1] = "{table}"
        /\ Routes[8].path[1] = "{table}"
    BY DEF Routes, Route
  <2>2. \A j \in 1 .. 1 : j = 1
    OBVIOUS
  <2>3. QED BY <1>1, <2>1, <2>2, SegmentsOfRoutes DEF Literals
<1>6. \A i \in {11, 12, 13} : Literals(Routes[i]) = {}
  BY SegmentsOfRoutes DEF Literals
<1>7. Len(Routes[1].path) = 3 /\ Len(Routes[2].path) = 2
  BY DEF Routes, Route
<1>8. 3 .. 13 = {3, 4, 5, 9, 10} \cup {6, 7, 8} \cup {11, 12, 13}
  OBVIOUS
<1>9. QED BY <1>2, <1>3, <1>4, <1>5, <1>6, <1>7, <1>8

\* Every route that reads names a table.
LEMMA ReadingNamesTable ==
  ASSUME NEW i \in 1 .. 13, Routes[i].name \in Reading
  PROVE  /\ 1 \in DOMAIN Routes[i].path /\ Routes[i].path[1] = "{table}"
         /\ DOMAIN Routes[i].path = 1 .. Len(Routes[i].path)
  <1>1. /\ Routes[4].name = "UpdateSingle" /\ Routes[5].name = "UpdateSingle"
        /\ Routes[7].name = "CreateSingle" /\ Routes[8].name = "CreateSingle"
        /\ Routes[9].name = "DeleteSingle" /\ Routes[10].name = "DeleteSingle"
        /\ Routes[11].name = "GetDescriptorFile" /\ Routes[12].name = "CreateTx"
        /\ Routes[13].name = "CommitTx"
    BY DEF Routes, Route
  <1>2. i \in {1, 2, 3, 6}
    BY <1>1 DEF Reading
  <1>3. /\ Routes[1].path[1] = "{table}" /\ Routes[2].path[1] = "{table}"
        /\ Routes[3].path[1] = "{table}" /\ Routes[6].path[1] = "{table}"
    BY DEF Routes, Route
  <1>4. /\ Len(Routes[1].path) = 3 /\ Len(Routes[2].path) = 2
        /\ Len(Routes[3].path) = 2 /\ Len(Routes[6].path) = 1
    BY DEF Routes, Route
  <1>5. /\ DOMAIN Routes[1].path = 1 .. 3 /\ DOMAIN Routes[2].path = 1 .. 2
        /\ DOMAIN Routes[3].path = 1 .. 2 /\ DOMAIN Routes[6].path = 1 .. 1
    BY SegmentsOfRoutes
  <1>6. 1 \in DOMAIN Routes[1].path /\ 1 \in DOMAIN Routes[2].path
        /\ 1 \in DOMAIN Routes[3].path /\ 1 \in DOMAIN Routes[6].path
    BY <1>5
  <1>7. /\ DOMAIN Routes[1].path = 1 .. Len(Routes[1].path)
        /\ DOMAIN Routes[2].path = 1 .. Len(Routes[2].path)
        /\ DOMAIN Routes[3].path = 1 .. Len(Routes[3].path)
        /\ DOMAIN Routes[6].path = 1 .. Len(Routes[6].path)
    BY <1>4, <1>5, Zenon
  <1>8. i = 1 \/ i = 2 \/ i = 3 \/ i = 6
    BY <1>2
  <1>9. QED BY <1>3, <1>6, <1>7, <1>8, Zenon

\* No request is taken from a route that names more of its path, by a route
\* that was registered earlier (backend.go:37-78).
THEOREM MostSpecificRouteTheorem == Spec => []MostSpecificRoute
  <1>1. MostSpecificRoute
    <2> SUFFICES ASSUME Routed(req), NEW i \in Matching(req)
                 PROVE  Literals(Routes[i]) \subseteq Literals(RouteOf(req))
      BY DEF MostSpecificRoute
    <2>1. PICK k \in Matching(req) : RouteOf(req) = Routes[k] /\ \A j \in Matching(req) : k <= j
      BY RouteIsFirst
    <2>2. i \in 1 .. 13 /\ k \in 1 .. 13 /\ k <= i
      BY <2>1, RoutesNumbered DEF Matching
    <2>3. Len(Routes[i].path) = Len(Routes[k].path)
      BY <2>1 DEF Matching, Matches
    <2>4. CASE i \in 3 .. 13
      BY <2>4, LiteralsOfRoutes
    <2>5. CASE i = 1 \/ i = 2
      <3>1. k = i
        <4>1. k = 1 \/ k = i
          BY <2>2, <2>5
        <4>2. ~(k = 1 /\ i = 2)
          <5>1. k = 1 /\ i = 2 => Len(Routes[2].path) = Len(Routes[1].path)
            BY <2>3, Zenon
          <5>2. Len(Routes[2].path) # Len(Routes[1].path)
            BY LiteralsOfRoutes
          <5>3. QED BY <5>1, <5>2
        <4>3. QED BY <2>5, <4>1, <4>2
      <3>2. QED BY <2>1, <3>1
    <2>6. QED BY <2>2, <2>4, <2>5
  <1>2. QED BY <1>1, PTL

-----------------------------------------------------------------------------
(***************************************************************************)
(* The inductive invariant, in named parts.                                *)
(***************************************************************************)

Input == tds \in TypeDescriptors /\ req \in RequestsMade /\ \A i \in DOMAIN tds : Sane(tds[i])

\* What a request has passed when it is where it is.
Checked ==
  /\ pc \notin {"route", "done"} => Routed(req)
  /\ pc \notin {"route", "BasicAuth", "done"} => req.authorized
  /\ pc = "RequestInjector" => Table = Null \/ WithKey(tds, Table) # {}
  /\ pc \in {"Interpolate", "Query", "Format"} => "table" \in DOMAIN ctx

\* A context with a table is the one RequestInjector made.
Injected ==
  "table" \in DOMAIN ctx => ctx = Context /\ req.authorized /\ WithKey(tds, Table) # {}

\* An answer with rows shows the results one by one.
Shown ==
  Ok("GetCollection") \/ Ok("GetSingle") => "table" \in DOMAIN ctx /\ answer.items = Items

IInv == Input /\ Checked /\ Injected /\ Shown

\* A request for rows has a table.
LEMMA ReadingHasTable ==
  ASSUME Input, Routed(req), RouteOf(req).name \in Reading
  PROVE  Table # Null
  <1>1. PICK i \in Matching(req) : RouteOf(req) = Routes[i]
    BY RouteIsFirst
  <1>2. i \in 1 .. 13 /\ Len(Routes[i].path) = Len(req.path)
    BY RoutesNumbered DEF Matching, Matches
  <1>3. 1 \in DOMAIN Routes[i].path /\ Routes[i].path[1] = "{table}"
    BY <1>1, <1>2, ReadingNamesTable
  <1> DEFINE path == Routes[i].path
             at == {j \in DOMAIN path : path[j] = "{table}"}
  <1>4. 1 \in at /\ (CHOOSE j \in at : TRUE) \in at
    BY <1>3
  <1>5. DOMAIN path = 1 .. Len(path)
    BY <1>1, <1>2, ReadingNamesTable
  <1>6. DOMAIN req.path = 1 .. Len(req.path) /\ Null \notin Range(req.path)
    <2>1. req.path \in Seq(Range(req.path)) /\ Null \notin Range(req.path)
      BY ReadsAssumption, Zenon DEF Input
    <2>2. QED BY <2>1
  <1>7. (CHOOSE j \in at : TRUE) \in DOMAIN req.path
    BY <1>2, <1>4, <1>5, <1>6
  <1>8. Table = req.path[CHOOSE j \in at : TRUE]
    BY <1>1, <1>4 DEF Table, Var
  <1>9. QED BY <1>6, <1>7, <1>8 DEF Range

\* What is made of the results depends on nothing but them.
LEMMA SameItems ==
  ASSUME UNCHANGED <<tds, ctx, results>>
  PROVE  Items' = Items
  <1>1. Descriptor' = Descriptor /\ \A i : Row(i)' = Row(i)
    BY DEF Descriptor, Row
  <1>2. \A k, i : RelatedRow(k, i)' = RelatedRow(k, i)
    BY <1>1 DEF RelatedRow
  <1>3. \A k, i : ContainsResults(k, i)' <=> ContainsResults(k, i)
    BY <1>2 DEF ContainsResults
  <1>4. \A k, i : Appended(k, i)' = Appended(k, i)
    BY <1>2, <1>3 DEF Appended
  <1>5. \A k, i : FieldResultSet(k, i)' = FieldResultSet(k, i)
    BY <1>2, <1>4 DEF FieldResultSet
  <1>6. \A k, i : Referred(k, i)' = Referred(k, i)
    BY <1>1, <1>5 DEF Referred, Told
  <1>7. \A k, i : Resolved(k, i)' = Resolved(k, i)
    <2> SUFFICES ASSUME NEW k, NEW i PROVE Resolved(k, i)' = Resolved(k, i)
      OBVIOUS
    <2> DEFINE td == DescriptorOfTable(tds, Relationships(Descriptor)[k].withTable)
               set == FieldResultSet(k, i)
               how == ctx.denormalize
               last == Max(Referred(k, i))
    <2>1. /\ td' = td /\ set' = set /\ how' = how /\ last' = last
          /\ IsList(k, i)' <=> IsList(k, i)
      <3>1. td' = td /\ how' = how
        BY <1>1
      <3>2. set' = set
        BY <1>5
      <3>3. last' = last
        BY <1>6
      <3>4. IsList(k, i)' <=> IsList(k, i)
        BY <1>1, <1>5 DEF IsList
      <3> HIDE DEF td, set, how, last
      <3>5. QED BY <3>1, <3>2, <3>3, <3>4
    <2>2. Resolved(k, i) = IF IsList(k, i)
                           THEN [j \in DOMAIN set |-> IF how THEN Formatted(td, set[j])
                                                      ELSE Normalized(td, set[j])]
                           ELSE IF how THEN Formatted(td, set[last])
                           ELSE Normalized(td, set[last])
      BY DEF Resolved, Resolve
    <2>3. Resolved(k, i)' = IF IsList(k, i)'
                            THEN [j \in DOMAIN set' |-> IF how' THEN Formatted(td', set'[j])
                                                        ELSE Normalized(td', set'[j])]
                            ELSE IF how' THEN Formatted(td', set'[last'])
                            ELSE Normalized(td', set'[last'])
      BY DEF Resolved, Resolve
    <2> HIDE DEF td, set, how, last
    <2>4. CASE IsList(k, i)
      BY <2>1, <2>2, <2>3, <2>4, Zenon
    <2>5. CASE ~IsList(k, i)
      BY <2>1, <2>2, <2>3, <2>5, Zenon
    <2>6. QED BY <2>4, <2>5
  <1>8. \A i : Related(i)' = Related(i)
    <2> SUFFICES ASSUME NEW i PROVE Related(i)' = Related(i)
      OBVIOUS
    <2> DEFINE rs == Relationships(Descriptor)
    <2>1. rs' = rs
      BY <1>1
    <2>2. ShownOf(i)' = ShownOf(i)
      BY <1>1, <1>5, <1>6 DEF ShownOf, IsShown, IsList
    <2>3. Related(i) = [n \in {rs[k].key : k \in ShownOf(i)} |->
                          Resolved(Max({k \in ShownOf(i) : rs[k].key = n}), i)]
      BY DEF Related
    <2>4. Related(i)' = [n \in {rs'[k].key : k \in ShownOf(i)'} |->
                           Resolved(Max({k \in ShownOf(i) : rs[k].key = n}), i)']
      BY DEF Related
    <2> HIDE DEF rs
    <2>5. QED BY <1>7, <2>1, <2>2, <2>3, <2>4
  <1>9. \A i : Item(i)' = Item(i)
    BY <1>1, <1>8 DEF Item
  <1>10. Items' = Items
    BY <1>9 DEF Items
  <1>11. QED BY <1>10

\* Nothing has been checked yet.
LEMMA InitHolds == Init => IInv
  BY DEF Init, IInv, Input, Checked, Injected, Shown, NoContext, NoAnswer, Ok

\* Every step keeps the invariant.
LEMMA StepHolds == IInv /\ [Next]_vars => IInv'
<1> SUFFICES ASSUME IInv, [Next]_vars PROVE IInv'
  OBVIOUS
<1>1. Input'
  BY DEF IInv, Input, Next, vars, input, MatchRoute, BasicAuth, RouteChecker, RequestInjector,
         Handler, Interpolate, QueryForOptions, Query, QueryFails, Answers, GetCollection, GetCollectionAsOptions,
         GetSingle, GetSingleAsOption
<1>2. CASE MatchRoute \/ BasicAuth \/ RouteChecker
  <2>1. UNCHANGED <<tds, req, ctx, results>> /\ pc # "done"
    BY <1>2 DEF MatchRoute, BasicAuth, RouteChecker, input
  <2> pc' = "done" => answer'.code # "200"
    <3>1. PICK next \in {"BasicAuth", "RouteChecker", "RequestInjector"},
               code \in {"404 or 405", "401", "404"} :
            Goto(next) \/ Reply(code, <<>>)
      BY <1>2 DEF MatchRoute, BasicAuth, RouteChecker
    <3>2. CASE Goto(next)
      BY <3>2 DEF Goto
    <3>3. CASE Reply(code, <<>>)
      <4>1. answer'.code = code
        BY <3>3 DEF Reply
      <4>2. QED BY <4>1
    <3>4. QED BY <3>1, <3>2, <3>3
  <2>2. Injected' /\ Shown'
    BY <2>1 DEF IInv, Injected, Shown, Ok, Context, Table, Denormalize
  <2>3. Checked'
    BY <1>2, <2>1 DEF IInv, Checked, MatchRoute, BasicAuth, RouteChecker, Goto, Reply, Table,
                      TableOfKey
  <2>4. QED BY <1>1, <2>2, <2>3 DEF IInv
<1>3. CASE RequestInjector
  <2>1. UNCHANGED <<tds, req>> /\ pc = "RequestInjector" /\ pc' # "done"
    BY <1>3 DEF RequestInjector, Goto, input
  <2>2. CASE Table = Null
    <3>1. ctx' = [route |-> RouteOf(req).name]
      BY <1>3, <2>2 DEF RequestInjector
    <3>2. RouteOf(req).name \notin Reading
      BY <2>1, <2>2, ReadingHasTable DEF IInv, Checked
    <3>3. pc' = "Handler"
      BY <1>3, <3>2 DEF RequestInjector, Goto
    <3>4. QED BY <1>1, <2>1, <3>1, <3>3 DEF IInv, Checked, Injected, Shown, Ok, Table
  <2>3. CASE Table # Null
    <3>1. ctx' = Context /\ pc' \in {"Interpolate", "Handler"}
      BY <1>3, <2>3 DEF RequestInjector, Goto
    <3>2. Context' = Context /\ Table' = Table
      BY <2>1 DEF Context, Table, Denormalize
    <3>3. "table" \in DOMAIN ctx'
      BY <3>1 DEF Context
    <3>4. Checked' /\ Injected'
      BY <2>1, <2>3, <3>1, <3>2, <3>3 DEF IInv, Checked, Injected
    <3>5. QED BY <1>1, <2>1, <3>4 DEF IInv, Shown, Ok
  <2>4. QED BY <2>2, <2>3
<1>4. CASE Handler \/ QueryFails
  <2>1. UNCHANGED <<tds, req, ctx>> /\ pc' = "done"
    BY <1>4 DEF Handler, QueryFails, Reply, input
  <2>2. Shown'
    <3>1. \E code \in {"handled", "500"} : answer' = [code |-> code, items |-> <<>>]
      BY <1>4, Zenon DEF Handler, QueryFails, Reply
    <3>2. ~Ok("GetCollection")' /\ ~Ok("GetSingle")'
      <4>1. PICK code \in {"handled", "500"} : answer' = [code |-> code, items |-> <<>>]
        BY <3>1
      <4>2. answer'.code = code /\ code # "200"
        BY <4>1
      <4>3. QED BY <4>2 DEF Ok
    <3>3. QED BY <3>2 DEF Shown
  <2>3. QED BY <1>1, <2>1, <2>2 DEF IInv, Checked, Injected, Context, Table, Denormalize
<1>5. CASE Interpolate \/ QueryForOptions \/ Query
  <2>1. /\ UNCHANGED <<tds, req, ctx>>
        /\ pc \in {"Interpolate", "Query"} /\ pc' \in {"Query", "Format", "done"}
        /\ pc' = "done" => answer'.code # "200"
    <3>1. CASE Interpolate
      BY <3>1 DEF Interpolate, Goto, Reply, input
    <3>2. CASE QueryForOptions \/ Query
      <4>1. pc = "Query" /\ pc' = "Format" /\ UNCHANGED <<input, ctx>>
        BY <3>2, Zenon DEF QueryForOptions, Query, Goto
      <4>2. QED BY <4>1 DEF input
    <3>3. QED BY <1>5, <3>1, <3>2
  <2>2. QED BY <1>1, <2>1 DEF IInv, Checked, Injected, Shown, Ok, Context, Table, Denormalize
<1>6. ASSUME NEW route, NEW code, NEW items, Answers(route, code, items),
             code = "200" /\ route \in {"GetCollection", "GetSingle"} => items = Items
      PROVE  IInv'
  <2>1. /\ UNCHANGED <<tds, req, ctx, results>> /\ pc = "Format" /\ ctx.route = route
        /\ pc' = "done" /\ answer' = [code |-> code, items |-> items]
    BY <1>6 DEF Answers, Reply, input
  <2>2. Items' = Items
    BY <2>1, SameItems
  <2>3. Shown'
    BY <1>6, <2>1, <2>2 DEF Shown, Ok, IInv, Checked
  <2>4. QED BY <1>1, <2>1, <2>3 DEF IInv, Checked, Injected, Context, Table, Denormalize
<1>7. CASE GetCollection \/ GetCollectionAsOptions \/ GetSingle \/ GetSingleAsOption
  <2>1. CASE GetCollection
    BY <2>1, <1>6 DEF GetCollection
  <2>2. CASE GetCollectionAsOptions
    BY <2>2, <1>6 DEF GetCollectionAsOptions
  <2>3. CASE GetSingle
    <3>1. CASE results = <<>>
      BY <2>3, <3>1, <1>6 DEF GetSingle
    <3>2. CASE results # <<>>
      BY <2>3, <3>2, <1>6 DEF GetSingle
    <3>3. QED BY <3>1, <3>2
  <2>4. CASE GetSingleAsOption
    <3>1. PICK code, items : Answers("GetSingleAsOption", code, items)
      BY <2>4 DEF GetSingleAsOption
    <3>2. QED BY <3>1, <1>6
  <2>5. QED BY <1>7, <2>1, <2>2, <2>3, <2>4
<1>8. CASE UNCHANGED vars
  <2>1. Items' = Items
    BY <1>8, SameItems DEF vars
  <2>2. Shown'
    BY <1>8, <2>1 DEF vars, IInv, Shown, Ok
  <2>3. QED BY <1>1, <1>8, <2>2 DEF vars, IInv, Checked, Injected, Context, Table, Denormalize
<1>9. QED BY <1>2, <1>3, <1>4, <1>5, <1>7, <1>8 DEF Next

\* The invariant holds of every behaviour.
LEMMA InvariantHolds == Spec => []IInv
  <1> QED BY InitHolds, StepHolds, PTL DEF Spec

-----------------------------------------------------------------------------

\* The only descriptor with a key, or with a table, is the first and the last.
LEMMA OnlyOne ==
  ASSUME NEW i \in Nat
  PROVE  Min({i}) = i /\ Max({i}) = i
  BY DEF Min, Max

\* Descriptors and their fields are numbered.
LEMMA Numbering ==
  ASSUME Input
  PROVE  /\ DOMAIN tds = 1 .. Len(tds) /\ Len(tds) \in Nat /\ DOMAIN tds \subseteq Nat
         /\ \A i \in DOMAIN tds : DOMAIN tds[i].fields \subseteq Nat
  <1>1. tds \in Seq(Range(tds)) /\ \A i \in DOMAIN tds : AreFields(tds[i].fields)
    BY ReadsAssumption, Zenon DEF Input
  <1>2. \A i \in DOMAIN tds : tds[i].fields \in Seq(Range(tds[i].fields))
    BY <1>1, Zenon DEF AreFields
  <1>3. QED BY <1>1, <1>2

\* The table of a key is that of a descriptor, and in the database.
LEMMA KeyHasTable ==
  ASSUME Input, WithKey(tds, Table) # {}
  PROVE  \E m \in DOMAIN tds : /\ TableOfKey(tds, Table) = tds[m].table
                               /\ TableOfKey(tds, Table) \in DOMAIN Database
  <1>1. WithKey(tds, Table) \subseteq DOMAIN tds /\ WithKey(tds, Table) \subseteq Nat
    BY Numbering DEF WithKey
  <1>2. Min(WithKey(tds, Table)) \in DOMAIN tds
    BY <1>1, Least DEF Min
  <1>3. TableOfKey(tds, Table) = tds[Min(WithKey(tds, Table))].table
    BY DEF TableOfKey
  <1>4. \A i \in DOMAIN tds : tds[i].table \in DOMAIN Database
    BY ReadsAssumption, Zenon DEF Input
  <1>5. QED BY <1>2, <1>3, <1>4

\* So is the table of a context.
LEMMA TableThere ==
  ASSUME IInv, "table" \in DOMAIN ctx
  PROVE  \E m \in DOMAIN tds : ctx.table = tds[m].table /\ ctx.table \in DOMAIN Database
  <1>1. ctx = Context /\ WithKey(tds, Table) # {}
    BY DEF IInv, Injected
  <1>2. ctx.table = TableOfKey(tds, Table)
    BY <1>1 DEF Context
  <1>3. QED BY <1>1, <1>2, KeyHasTable DEF IInv

\* In whatever order rows come, they are these rows.
LEMMA OrdersPermute ==
  ASSUME NEW S, NEW s \in Seq(S), NEW r \in Orders(s)
  PROVE  \E p \in [DOMAIN s -> DOMAIN s] : r = [i \in DOMAIN s |-> s[p[i]]]
  <1>1. DOMAIN s = 1 .. Len(s) /\ Len(s) \in Nat
    OBVIOUS
  <1>2. CASE r = s
    <2> DEFINE p == [i \in DOMAIN s |-> i]
    <2>1. p \in [DOMAIN s -> DOMAIN s]
      OBVIOUS
    <2>2. s = [i \in DOMAIN s |-> s[i]]
      OBVIOUS
    <2>3. [i \in DOMAIN s |-> s[p[i]]] = [i \in DOMAIN s |-> s[i]]
      BY Zenon
    <2> HIDE DEF p
    <2>4. QED BY <1>2, <2>1, <2>2, <2>3, Zenon
  <1>3. ASSUME NEW p \in SetToSeqs(DOMAIN s), r = [i \in DOMAIN s |-> s[p[i]]]
        PROVE  \E q \in [DOMAIN s -> DOMAIN s] : r = [i \in DOMAIN s |-> s[q[i]]]
    <2>1. Cardinality(DOMAIN s) = Len(s)
      BY <1>1, FS_Interval
    <2>2. p \in [1 .. Cardinality(DOMAIN s) -> DOMAIN s]
      BY Zenon DEF SetToSeqs
    <2>3. p \in [DOMAIN s -> DOMAIN s]
      BY <1>1, <2>1, <2>2, Zenon
    <2>4. QED BY <1>3, <2>3, Zenon
  <1>4. r = s \/ \E p \in SetToSeqs(DOMAIN s) : r = [i \in DOMAIN s |-> s[p[i]]]
    BY Zenon DEF Orders
  <1>5. QED BY <1>2, <1>3, <1>4

\* ... as many of them, ...
LEMMA OrdersType ==
  ASSUME NEW S, NEW s \in Seq(S), NEW r \in Orders(s)
  PROVE  r \in Seq(S) /\ Len(r) = Len(s) /\ DOMAIN r = DOMAIN s /\ Range(r) \subseteq Range(s)
  <1>1. PICK p \in [DOMAIN s -> DOMAIN s] : r = [i \in DOMAIN s |-> s[p[i]]]
    BY OrdersPermute
  <1>2. DOMAIN s = 1 .. Len(s) /\ Len(s) \in Nat /\ \A i \in DOMAIN s : s[i] \in S
    BY ElementOfSeq
  <1>3. r \in [1 .. Len(s) -> S]
    BY <1>1, <1>2, Zenon
  <1>4. r \in Seq(S) /\ Len(r) = Len(s)
    BY <1>2, <1>3, IsSequence
  <1>5. Range(r) \subseteq Range(s)
    BY <1>1, <1>2 DEF Range
  <1>6. QED BY <1>2, <1>4, <1>5

\* ... and what is made of each of them comes in that order, too.
LEMMA OrdersMapped ==
  ASSUME NEW S, NEW s \in Seq(S), NEW r \in Orders(s), NEW f
  PROVE  [i \in DOMAIN r |-> f[r[i]]] \in Orders([i \in DOMAIN s |-> f[s[i]]])
  <1> DEFINE fs == [i \in DOMAIN s |-> f[s[i]]]
             fr == [i \in DOMAIN r |-> f[r[i]]]
  <1>1. DOMAIN r = DOMAIN s /\ DOMAIN fs = DOMAIN s
    BY OrdersType
  <1>2. CASE Ordered(driver) \/ ById
    <2>1. r = s
      BY <1>2 DEF Orders
    <2>2. fr = fs
      BY <2>1
    <2> HIDE DEF fr, fs
    <2>3. QED BY <1>2, <2>2 DEF Orders, fr, fs
  <1>3. CASE ~(Ordered(driver) \/ ById)
    <2>1. PICK p \in SetToSeqs(DOMAIN s) : r = [i \in DOMAIN s |-> s[p[i]]]
      BY <1>3 DEF Orders
    <2>2. p \in [DOMAIN s -> DOMAIN s]
      <3>1. DOMAIN s = 1 .. Len(s) /\ Len(s) \in Nat
        OBVIOUS
      <3>2. Cardinality(DOMAIN s) = Len(s)
        BY <3>1, FS_Interval
      <3>3. p \in [1 .. Cardinality(DOMAIN s) -> DOMAIN s]
        BY Zenon DEF SetToSeqs
      <3>4. QED BY <3>1, <3>2, <3>3, Zenon
    <2>3. ASSUME NEW i \in DOMAIN s PROVE f[r[i]] = fs[p[i]]
      <3>1. p[i] \in DOMAIN s /\ r[i] = s[p[i]]
        BY <2>1, <2>2
      <3>2. QED BY <3>1, Zenon
    <2>4. fr = [i \in DOMAIN fs |-> fs[p[i]]]
      <3> HIDE DEF fs
      <3>1. QED BY <1>1, <2>3
    <2>5. p \in SetToSeqs(DOMAIN fs)
      BY <1>1, <2>1
    <2> HIDE DEF fr, fs
    <2>6. QED BY <1>3, <2>4, <2>5 DEF Orders, fr, fs
  <1>4. QED BY <1>2, <1>3

\* For every list of descriptors whose keys differ, also if several show one
\* table, an authorized request is served with the context of one of them:
\* the one whose key it names (injector.go:28-65).
THEOREM ContextOfOneDescriptorTheorem == Spec => []ContextOfOneDescriptor
  <1>1. IInv => ContextOfOneDescriptor
    <2> SUFFICES ASSUME IInv, "table" \in DOMAIN ctx
                 PROVE  /\ req.authorized
                        /\ DistinctKeys =>
                             \E td \in Range(tds) :
                               /\ td.key = Table
                               /\ ctx.table = td.table
                               /\ ctx.relationships = Relationships(td)
                               /\ ctx.optionName = td.optionName
                               /\ ctx.uniqueId = td.uniqueId
      BY DEF ContextOfOneDescriptor
    <2>1. ctx = Context /\ req.authorized /\ WithKey(tds, Table) # {}
      BY DEF IInv, Injected
    <2>2. SUFFICES ASSUME DistinctKeys
                   PROVE  \E td \in Range(tds) :
                            /\ td.key = Table
                            /\ ctx.table = td.table
                            /\ ctx.relationships = Relationships(td)
                            /\ ctx.optionName = td.optionName
                            /\ ctx.uniqueId = td.uniqueId
      BY <2>1
    <2>3. PICK i \in DOMAIN tds : tds[i].key = Table
      BY <2>1 DEF WithKey
    <2>4. WithKey(tds, Table) = {i} /\ i \in Nat
      BY <2>2, <2>3, Numbering DEF WithKey, DistinctKeys, IInv
    <2>5. TableOfKey(tds, Table) = tds[i].table /\ DescriptorOfKey(tds, Table) = tds[i]
      BY <2>4, OnlyOne DEF TableOfKey, DescriptorOfKey
    <2>6. tds[i] \in Range(tds)
      BY DEF Range
    <2>7. QED BY <2>1, <2>3, <2>5, <2>6 DEF Context
  <1>2. QED BY <1>1, InvariantHolds, PTL

\* The names under which fields are shown differ.
LEMMA ShownApart ==
  ASSUME NEW td, Sane(td), Plain(td), NEW i \in PlainFields(td), NEW j \in PlainFields(td),
         ShownAs(td, td.fields[i]) = ShownAs(td, td.fields[j])
  PROVE  i = j
  <1> DEFINE f == td.fields[i]
             g == td.fields[j]
  <1>1. /\ f.key = "id" \/ g.key = "id" => td.uniqueId = "id"
        /\ f.key = "name" \/ g.key = "name" => td.optionName = "name"
    BY DEF Sane, UniqueIdColumnMatches, ColumnAsOptionNameMatches, PlainFields
  <1>2. /\ f.key = g.key => i = j
        /\ FromColumn(f) = FromColumn(g) /\ FromColumn(f) # "" => i = j
        /\ f.key \in {"id", "name"} => FromColumn(f) = f.key
        /\ g.key \in {"id", "name"} => FromColumn(g) = g.key
        /\ td.optionName # "" /\ td.uniqueId # ""
    BY DEF Plain, PlainFields
  <1>3. \/ ShownAs(td, f) = "name" /\ FromColumn(f) = td.optionName
        \/ ShownAs(td, f) = "id" /\ FromColumn(f) = td.uniqueId
        \/ ShownAs(td, f) = f.key
    BY DEF ShownAs
  <1>4. \/ ShownAs(td, g) = "name" /\ FromColumn(g) = td.optionName
        \/ ShownAs(td, g) = "id" /\ FromColumn(g) = td.uniqueId
        \/ ShownAs(td, g) = g.key
    BY DEF ShownAs
  <1>5. ShownAs(td, f) = ShownAs(td, g)
    OBVIOUS
  <1>6. QED
    <2> HIDE DEF f, g
    <2>1. CASE FromColumn(f) = FromColumn(g) /\ FromColumn(f) # ""
      BY <1>2, <2>1
    <2>2. CASE f.key = g.key
      BY <1>2, <2>2
    <2>3. CASE ShownAs(td, f) = "name" /\ FromColumn(f) = td.optionName
      BY <1>1, <1>2, <1>4, <1>5, <2>1, <2>3
    <2>4. CASE ShownAs(td, f) = "id" /\ FromColumn(f) = td.uniqueId
      BY <1>1, <1>2, <1>4, <1>5, <2>1, <2>4
    <2>5. CASE ShownAs(td, f) = f.key
      BY <1>1, <1>2, <1>4, <1>5, <2>1, <2>2, <2>5
    <2>6. QED BY <1>3, <2>3, <2>4, <2>5

\* No relationship is called what a field is shown as.
LEMMA RelationshipApart ==
  ASSUME NEW td, Sane(td), Plain(td), NEW i \in PlainFields(td), NEW j \in DOMAIN td.fields,
         IsRelationship(td.fields[j]), td.fields[j].columns[1] = "", td.fields[j].type # "money"
  PROVE  ShownAs(td, td.fields[i]) # td.fields[j].key
  <1> DEFINE f == td.fields[i]
             g == td.fields[j]
  <1>1. i \in DOMAIN td.fields /\ i # j
    BY DEF PlainFields
  <1>2. f.key # g.key /\ g.key \notin {"id", "name"}
    <2>1. FromColumn(g) = ""
      BY DEF FromColumn
    <2>2. QED BY <1>1, <2>1 DEF Plain
  <1>3. ShownAs(td, f) \in {"name", "id", f.key}
    BY DEF ShownAs
  <1> HIDE DEF f, g
  <1>4. QED BY <1>2, <1>3 DEF f, g

\* A table of a descriptor has one, for its handlers too.
LEMMA TableHasDescriptor ==
  ASSUME Input, NEW t, WithTable(tds, t) # {}
  PROVE  \E d \in DOMAIN tds : DescriptorOfTable(tds, t) = tds[d] /\ tds[d].table = t
  <1> DEFINE I == WithTable(tds, t)
  <1>1. I \subseteq 0 .. Len(tds) /\ Len(tds) \in Nat
    BY Numbering DEF WithTable
  <1>2. Max(I) \in I
    <2> HIDE DEF I
    <2>1. I # {}
      BY DEF I
    <2>2. \E i \in I : \A j \in I : j <= i
      BY <1>1, <2>1, Greatest
    <2>3. QED BY <2>2 DEF Max
  <1>3. DescriptorOfTable(tds, t) = tds[Max(I)]
    BY DEF DescriptorOfTable
  <1>4. QED BY <1>2, <1>3 DEF WithTable

\* So has the table of a context.
LEMMA ContextHasDescriptor ==
  ASSUME IInv, "table" \in DOMAIN ctx
  PROVE  \E d \in DOMAIN tds : Descriptor = tds[d] /\ tds[d].table = ctx.table
  <1>1. PICK m \in DOMAIN tds : ctx.table = tds[m].table
    BY TableThere
  <1>2. WithTable(tds, ctx.table) # {}
    BY <1>1 DEF WithTable
  <1>3. QED BY <1>2, TableHasDescriptor DEF IInv, Descriptor

\* The relationships of a descriptor are fields of it, each another one.
FromFields(q, td) ==
  /\ q \in [DOMAIN Relationships(td) -> DOMAIN td.fields]
  /\ \A k \in DOMAIN Relationships(td) :
       Relationships(td)[k] = td.fields[q[k]] /\ IsRelationship(td.fields[q[k]])
  /\ \A k, l \in DOMAIN Relationships(td) : q[k] = q[l] => k = l

\* They are picked in order.
LEMMA RelationshipsFromFields ==
  ASSUME Input, NEW d \in DOMAIN tds
  PROVE  /\ Relationships(tds[d]) \in Seq(Range(tds[d].fields))
         /\ \E q : FromFields(q, tds[d])
  <1> DEFINE fields == tds[d].fields
             rs == Relationships(tds[d])
             I == {i \in DOMAIN fields : IsRelationship(fields[i])}
  <1>1. fields \in Seq(Range(fields))
    BY ReadsAssumption, Zenon DEF Input, AreFields
  <1>2. rs = Picked(fields, I)
    BY Zenon DEF Relationships
  <1>3. \A i \in I : i \in DOMAIN fields /\ IsRelationship(fields[i])
    OBVIOUS
  <1> HIDE DEF I, fields, rs
  <1>4. rs \in Seq(Range(fields)) /\ DOMAIN rs = 1 .. Len(rs) /\ Len(rs) \in Nat
    <2>1. rs \in Seq(Range(fields))
      BY <1>1, <1>2, PickedElements
    <2>2. QED BY <2>1
  <1>5. PICK q : IndicesOf(q, rs, fields, I)
    BY <1>1, <1>2, PickedIndices
  <1>6. /\ q \in [DOMAIN rs -> DOMAIN fields]
        /\ \A k \in DOMAIN rs : rs[k] = fields[q[k]] /\ IsRelationship(fields[q[k]])
    BY <1>3, <1>4, <1>5 DEF IndicesOf
  <1>7. ASSUME NEW k \in DOMAIN rs, NEW l \in DOMAIN rs, q[k] = q[l] PROVE k = l
    <2>1. DOMAIN fields \subseteq Nat
      BY <1>1
    <2>2. q[k] \in Nat /\ q[l] \in Nat
      BY <1>6, <2>1
    <2>3. ~(k < l) /\ ~(l < k)
      BY <1>4, <1>5, <1>7, <2>2 DEF IndicesOf
    <2>4. QED BY <1>4, <2>3
  <1>8. QED BY <1>4, <1>6, <1>7 DEF FromFields, fields, rs

\* What is assumed of a field that is a relationship.
LEMMA RelationshipField ==
  ASSUME Input, NEW d \in DOMAIN tds, NEW i \in DOMAIN tds[d].fields,
         IsRelationship(tds[d].fields[i])
  PROVE  LET f == tds[d].fields[i]
         IN /\ f.type # "money" /\ f.columns[1] = "" /\ f.withTable \in DOMAIN Database
            /\ \E e \in DOMAIN tds : tds[e].table = f.withTable
            /\ \A row \in Range(Database[tds[d].table]) : f.key \notin DOMAIN row
  <1> DEFINE f == tds[d].fields[i]
  <1>1. /\ f.withTable \in {tds[j].table : j \in DOMAIN tds}
        /\ f.type # "money" /\ f.columns[1] = ""
        /\ \A row \in Range(Database[tds[d].table]) : f.key \notin DOMAIN row
    <2>1. RelatesTables(f, tds[d], tds)
      BY ReadsAssumption, Zenon DEF Input
    <2> HIDE DEF f
    <2>2. QED BY <2>1 DEF RelatesTables
  <1> HIDE DEF f
  <1>2. PICK e \in DOMAIN tds : tds[e].table = f.withTable
    BY <1>1
  <1>3. f.withTable \in DOMAIN Database
    BY <1>2, ReadsAssumption, Zenon DEF Input
  <1>4. QED BY <1>1, <1>2, <1>3 DEF f

\* No field of a row is overwritten by one that is renamed to id or name.
LEMMA FieldShown ==
  ASSUME Input, NEW d \in DOMAIN tds, Plain(tds[d]), NEW j \in PlainFields(tds[d]), NEW row
  PROVE  LET n == ShownAs(tds[d], tds[d].fields[j])
         IN /\ n \in DOMAIN Formatted(tds[d], row)
            /\ Formatted(tds[d], row)[n] = ValueOf(tds[d], tds[d].fields[j], row)
  <1> DEFINE td == tds[d]
             n == ShownAs(td, td.fields[j])
             S == {i \in PlainFields(td) : ShownAs(td, td.fields[i]) = n}
  <1>1. Sane(td) /\ j \in Nat
    BY Numbering DEF Input, PlainFields
  <1>2. S = {j}
    BY <1>1, ShownApart
  <1>3. Max(S) = j
    BY <1>1, <1>2, OnlyOne
  <1>4. n \in {ShownAs(td, td.fields[i]) : i \in PlainFields(td)}
    OBVIOUS
  <1>5. Formatted(td, row) = [m \in {ShownAs(td, td.fields[i]) : i \in PlainFields(td)} |->
           ValueOf(td, td.fields[Max({i \in PlainFields(td) : ShownAs(td, td.fields[i]) = m})], row)]
    BY DEF Formatted
  <1>6. Formatted(td, row)[n] = ValueOf(td, td.fields[Max(S)], row)
    BY <1>4, <1>5
  <1>7. n \in DOMAIN Formatted(td, row)
    BY <1>4, <1>5
  <1> HIDE DEF td, n, S
  <1>8. QED BY <1>3, <1>6, <1>7 DEF td, n

\* The fields of an item come before its relationships.
LEMMA ItemParts ==
  ASSUME NEW i
  PROVE  LET own == Formatted(Descriptor, Row(i))
         IN /\ DOMAIN Item(i) = DOMAIN own \cup DOMAIN Related(i)
            /\ \A n \in DOMAIN own : Item(i)[n] = own[n]
            /\ \A n \in DOMAIN Related(i) \ DOMAIN own : Item(i)[n] = Related(i)[n]
  <1> DEFINE own == Formatted(Descriptor, Row(i))
             rel == Related(i)
  <1>1. Item(i) = [x \in (DOMAIN own) \cup (DOMAIN rel) |-> IF x \in DOMAIN own THEN own[x] ELSE rel[x]]
    BY DEF Item
  <1> HIDE DEF own, rel
  <1>2. QED BY <1>1 DEF own, rel

\* Nor is a relationship, by a field or by another relationship.
LEMMA RelationshipShown ==
  ASSUME Input, NEW d \in DOMAIN tds, Descriptor = tds[d], Plain(tds[d]),
         NEW k \in DOMAIN Relationships(Descriptor), NEW i
  PROVE  LET n == Relationships(Descriptor)[k].key
         IN /\ IsShown(k, i) => n \in DOMAIN Item(i) /\ Item(i)[n] = Resolved(k, i)
            /\ ~IsShown(k, i) => n \notin DOMAIN Item(i)
  <1> DEFINE td == tds[d]
             rs == Relationships(td)
             n == rs[k].key
             S == {l \in ShownOf(i) : rs[l].key = n}
             own == Formatted(td, Row(i))
  <1>1. PICK q : FromFields(q, td)
    BY RelationshipsFromFields
  <1>2. n = td.fields[q[k]].key /\ q[k] \in DOMAIN td.fields /\ IsRelationship(td.fields[q[k]])
    BY <1>1 DEF FromFields
  <1>3. n \notin DOMAIN own
    <2>1. Sane(td)
      BY DEF Input
    <2>2. \A j \in PlainFields(td) : ShownAs(td, td.fields[j]) # n
      <3>1. td.fields[q[k]].columns[1] = "" /\ td.fields[q[k]].type # "money"
        BY <1>2, RelationshipField
      <3>2. QED BY <1>2, <2>1, <3>1, RelationshipApart
    <2>3. DOMAIN own = {ShownAs(td, td.fields[j]) : j \in PlainFields(td)}
      BY DEF Formatted
    <2>4. QED BY <2>2, <2>3
  <1>4. S \subseteq {k} /\ ShownOf(i) \subseteq DOMAIN rs
    <2>1. ASSUME NEW l \in DOMAIN rs, rs[l].key = n PROVE l = k
      <3>1. rs[l] = td.fields[q[l]] /\ q[l] \in DOMAIN td.fields
        BY <1>1 DEF FromFields
      <3>2. q[l] = q[k]
        BY <1>2, <2>1, <3>1 DEF Plain
      <3>3. QED BY <1>1, <3>2 DEF FromFields
    <2>2. ShownOf(i) \subseteq DOMAIN rs
      BY DEF ShownOf
    <2>3. QED BY <2>1, <2>2
  <1>5. k \in ShownOf(i) <=> IsShown(k, i)
    BY DEF ShownOf
  <1>6. Related(i) = [m \in {rs[l].key : l \in ShownOf(i)} |->
                        Resolved(Max({l \in ShownOf(i) : rs[l].key = m}), i)]
    BY DEF Related
  <1>7. k \in Nat
    BY RelationshipsFromFields
  <1> HIDE DEF td, rs, own, n
  <1>9. CASE IsShown(k, i)
    <2>1. S = {k}
      BY <1>4, <1>5, <1>9 DEF n
    <2>2. Max(S) = k
      BY <1>7, <2>1, OnlyOne
    <2>3. n \in DOMAIN Related(i) /\ Related(i)[n] = Resolved(Max(S), i)
      BY <1>5, <1>6, <1>9 DEF n
    <2>4. QED BY <1>3, <1>9, <2>2, <2>3, ItemParts DEF n, own, td, rs
  <1>10. CASE ~IsShown(k, i)
    <2>1. n \notin DOMAIN Related(i)
      BY <1>4, <1>5, <1>6, <1>10
    <2>2. QED BY <1>3, <1>10, <2>1, ItemParts DEF n, own, td, rs
  <1>11. QED BY <1>9, <1>10

\* For every descriptor that passes the sanity checks, has an option name and
\* means one column by each of its fields, no field of a row and nothing that is
\* shown of a relationship is overwritten by what is renamed to id or name
\* (descriptor.go:126-148, jsonForWorkflowAccelerator.go:150-196).
THEOREM NothingHiddenTheorem == Spec => []NothingHidden
  <1>1. IInv => NothingHidden
    <2> SUFFICES ASSUME IInv, Ok("GetCollection") \/ Ok("GetSingle"),
                        Plain(Descriptor), NEW i \in DOMAIN answer.items
                 PROVE  /\ \A k \in PlainFields(Descriptor) :
                             LET n == ShownAs(Descriptor, Descriptor.fields[k])
                             IN /\ n \in DOMAIN answer.items[i]
                                /\ answer.items[i][n] = ValueOf(Descriptor, Descriptor.fields[k], Row(i))
                        /\ \A k \in DOMAIN Relationships(Descriptor) :
                             LET n == Relationships(Descriptor)[k].key
                             IN IsShown(k, i) => /\ n \in DOMAIN answer.items[i]
                                                 /\ answer.items[i][n] = Resolved(k, i)
      BY DEF NothingHidden
    <2>1. answer.items[i] = Item(i) /\ "table" \in DOMAIN ctx
      BY DEF IInv, Shown, Items
    <2>2. PICK d \in DOMAIN tds : Descriptor = tds[d]
      BY <2>1, ContextHasDescriptor
    <2>3. ASSUME NEW k \in PlainFields(Descriptor)
          PROVE  LET n == ShownAs(Descriptor, Descriptor.fields[k])
                 IN /\ n \in DOMAIN answer.items[i]
                    /\ answer.items[i][n] = ValueOf(Descriptor, Descriptor.fields[k], Row(i))
      <3> DEFINE n == ShownAs(Descriptor, Descriptor.fields[k])
                 own == Formatted(Descriptor, Row(i))
      <3>1. n \in DOMAIN own /\ own[n] = ValueOf(Descriptor, Descriptor.fields[k], Row(i))
        BY <2>2, FieldShown DEF IInv
      <3>2. n \in DOMAIN Item(i) /\ Item(i)[n] = own[n]
        BY <3>1, ItemParts
      <3> HIDE DEF n, own
      <3>3. QED BY <2>1, <3>1, <3>2 DEF n
    <2>4. ASSUME NEW k \in DOMAIN Relationships(Descriptor), IsShown(k, i)
          PROVE  LET n == Relationships(Descriptor)[k].key
                 IN n \in DOMAIN answer.items[i] /\ answer.items[i][n] = Resolved(k, i)
      BY <2>1, <2>2, <2>4, RelationshipShown DEF IInv
    <2>5. QED BY <2>3, <2>4
  <1>2. QED BY <1>1, InvariantHolds, PTL

-----------------------------------------------------------------------------
(***************************************************************************)
(* The types.                                                              *)
(***************************************************************************)

\* Until the context is there, nothing is read.
Fresh ==
  pc \in {"route", "BasicAuth", "RouteChecker", "RequestInjector"} =>
    ctx = NoContext /\ results = <<>>

TypedInv == IInv /\ Fresh /\ TypeOK

\* A request before its first step.
LEMMA InitTyped == Init => TypedInv
  <1> SUFFICES ASSUME Init PROVE TypedInv
    OBVIOUS
  <1>1. IInv
    BY InitHolds
  <1>2. Fresh
    BY DEF Init, Fresh
  <1>3. ctx.route = "none" /\ DOMAIN ctx = {"route"}
    BY DEF Init, NoContext
  <1>4. TypeOK
    BY <1>3 DEF Init, TypeOK
  <1>5. QED BY <1>1, <1>2, <1>4 DEF TypedInv

\* The relationships of a context are those of a descriptor.
LEMMA ContextRelationships ==
  ASSUME IInv, "table" \in DOMAIN ctx
  PROVE  /\ ctx.relationships \in Seq(Range(ctx.relationships))
         /\ \A k \in DOMAIN ctx.relationships : ctx.relationships[k].withTable \in DOMAIN Database
  <1> DEFINE I == WithKey(tds, Table)
  <1>1. ctx = Context /\ I # {} /\ Input
    BY DEF IInv, Injected
  <1>2. I \subseteq 0 .. Len(tds) /\ Len(tds) \in Nat
    BY <1>1, Numbering DEF WithKey
  <1>3. Max(I) \in DOMAIN tds
    <2>1. I \subseteq DOMAIN tds
      BY DEF WithKey
    <2> HIDE DEF I
    <2>2. \E i \in I : \A j \in I : j <= i
      BY <1>1, <1>2, Greatest
    <2>3. QED BY <2>1, <2>2 DEF Max
  <1>4. ctx.relationships = Relationships(tds[Max(I)])
    BY <1>1 DEF Context, DescriptorOfKey
  <1> DEFINE d == Max(I)
             rs == Relationships(tds[d])
  <1> HIDE DEF I
  <1>5. rs \in Seq(Range(tds[d].fields)) /\ \E q : FromFields(q, tds[d])
    BY <1>1, <1>3, RelationshipsFromFields
  <1>6. rs \in Seq(Range(rs))
    <2> HIDE DEF rs, d
    <2>1. QED BY <1>5 DEF Range
  <1>7. PICK q : FromFields(q, tds[d])
    BY <1>5
  <1>8. ASSUME NEW k \in DOMAIN rs PROVE rs[k].withTable \in DOMAIN Database
    <2>1. rs[k] = tds[d].fields[q[k]] /\ q[k] \in DOMAIN tds[d].fields /\ IsRelationship(tds[d].fields[q[k]])
      BY <1>7 DEF FromFields
    <2>2. tds[d].fields[q[k]].withTable \in DOMAIN Database
      BY <1>1, <1>3, <2>1, RelationshipField
    <2>3. QED BY <2>1, <2>2
  <1>9. QED BY <1>4, <1>6, <1>8

\* How rows are joined, by their indices.
Joined == [main : DOMAIN Database[ctx.table], rel : [DOMAIN ctx.relationships -> Nat]]

\* A row is joined with rows of the tables of its relationships.
LEMMA JoinTyped ==
  ASSUME IInv, "table" \in DOMAIN ctx
  PROVE  Join \subseteq Joined
  <1> DEFINE rs == ctx.relationships
             rows == Database[ctx.table]
  <1>1. ASSUME NEW i, NEW k \in DOMAIN rs
        PROVE  OrNone(Partners(rs[k], i)) \subseteq Nat
    <2>1. rs[k].withTable \in DOMAIN Database
      BY ContextRelationships
    <2>2. DOMAIN Database[rs[k].withTable] \subseteq Nat
      <3>1. Database[rs[k].withTable] \in Seq(Range(Database[rs[k].withTable]))
        BY <2>1, ReadsAssumption
      <3>2. QED BY <3>1
    <2>3. QED BY <2>2 DEF Partners, OrNone
  <1>2. ASSUME NEW i PROVE Combinations(i) \subseteq [DOMAIN rs -> Nat]
    BY <1>1 DEF Combinations
  <1>3. ASSUME NEW i \in DOMAIN rows PROVE [main : {i}, rel : Combinations(i)] \subseteq Joined
    <2>1. Combinations(i) \subseteq [DOMAIN rs -> Nat]
      BY <1>2
    <2> HIDE DEF rs
    <2>2. QED BY <2>1 DEF Joined, rs
  <1>4. QED BY <1>3 DEF Join

\* The rows a query for options returns are rows of its table.
LEMMA QueryReturnsRows ==
  ASSUME IInv, "table" \in DOMAIN ctx, QueryForOptions
  PROVE  Range(results') \subseteq Range(Database[ctx.table])
  <1> DEFINE rows == Database[ctx.table]
             I == {i \in DOMAIN rows : Selected(rows[i])}
  <1>1. rows \in Seq(Range(rows))
    BY TableThere, ReadsAssumption
  <1>2. results' \in Orders(Picked(rows, I))
    BY DEF QueryForOptions
  <1> HIDE DEF I
  <1>3. Picked(rows, I) \in Seq(Range(rows)) /\ Range(Picked(rows, I)) \subseteq Range(rows)
    <2>1. Picked(rows, I) \in Seq(Range(rows)) /\ Range(Picked(rows, I)) = {rows[i] : i \in I \cap DOMAIN rows}
      BY <1>1, PickedElements
    <2>2. QED BY <2>1 DEF Range
  <1>4. Range(results') \subseteq Range(Picked(rows, I))
    BY <1>2, <1>3, OrdersType
  <1>5. QED BY <1>3, <1>4

\* An answer is none yet, and one once the request is done.
LEMMA Answering ==
  ASSUME pc # "done", answer = NoAnswer
  PROVE  /\ \A l : Goto(l) /\ l # "done" => ((answer' # NoAnswer) = (pc' = "done"))
         /\ \A code, items : Reply(code, items) /\ code # "none" =>
              ((answer' # NoAnswer) = (pc' = "done"))
  <1>1. ASSUME NEW code, NEW items, Reply(code, items), code # "none"
        PROVE  (answer' # NoAnswer) = (pc' = "done")
    <2>1. answer'.code = code /\ NoAnswer.code = "none" /\ pc' = "done"
      BY <1>1 DEF Reply, NoAnswer
    <2>2. QED BY <1>1, <2>1
  <1>2. QED BY <1>1 DEF Goto

\* The places a request can be at.
Places == {"route", "BasicAuth", "RouteChecker", "RequestInjector", "Handler",
           "Interpolate", "Query", "Format", "done"}

\* Where a step leads, and whether it answers.
LEMMA StepTyped ==
  ASSUME TypedInv, Next
  PROVE  pc' \in Places /\ (answer' # NoAnswer) = (pc' = "done")
  <1>1. PICK l \in Places \ {"done"}, code \in {"404 or 405", "401", "404", "handled", "400", "500", "200"} :
          Goto(l) \/ \E items : Reply(code, items)
    BY DEF Next, MatchRoute, BasicAuth, RouteChecker, RequestInjector, Handler, Interpolate,
           QueryForOptions, Query, QueryFails, Answers, GetCollection, GetCollectionAsOptions, GetSingle,
           GetSingleAsOption, Places
  <1>2. pc # "done" 
    BY DEF Next, MatchRoute, BasicAuth, RouteChecker, RequestInjector, Handler, Interpolate,
           QueryForOptions, Query, QueryFails, Answers, GetCollection, GetCollectionAsOptions, GetSingle,
           GetSingleAsOption
  <1>3. answer = NoAnswer
    BY <1>2 DEF TypedInv, TypeOK
  <1>4. code # "none" /\ l # "done"
    OBVIOUS
  <1>5. pc' \in Places
    BY <1>1 DEF Goto, Reply, Places
  <1>6. QED BY <1>1, <1>2, <1>3, <1>4, <1>5, Answering

\* The names of the routes.
LEMMA RouteNames ==
  ASSUME Routed(req)
  PROVE  RouteOf(req).name \in {Routes[i].name : i \in DOMAIN Routes}
  BY RouteIsFirst DEF Matching

\* Every step keeps the types.
LEMMA TypedStep ==
  ASSUME TypedInv, [Next]_vars
  PROVE  TypedInv'
  <1>1. IInv'
    BY StepHolds DEF TypedInv
  <1>2. CASE UNCHANGED vars
    <2>1. (\A i \in DOMAIN Routes : Routes[i] = Routes[i]) /\ TypeOK' /\ Fresh'
      BY <1>2 DEF vars, TypedInv, TypeOK, Fresh, ForOptions
    <2>2. QED BY <1>1, <2>1 DEF TypedInv
  <1>3. CASE Next
    <2>1. pc' \in Places /\ (answer' # NoAnswer) = (pc' = "done")
      BY <1>3, StepTyped
    <2>2. UNCHANGED input
      BY <1>3 DEF Next, MatchRoute, BasicAuth, RouteChecker, RequestInjector, Handler, Interpolate,
                  QueryForOptions, Query, QueryFails, Answers, GetCollection,
                  GetCollectionAsOptions, GetSingle, GetSingleAsOption
    <2>3. /\ ctx'.route \in {"none"} \cup {Routes[i].name : i \in DOMAIN Routes}
          /\ "table" \in DOMAIN ctx' =>
               /\ ctx'.table \in DOMAIN Database
               /\ Range(results') \subseteq (IF ForOptions THEN Range(Database[ctx.table])
                                            ELSE Joined)'
          /\ results' # <<>> => "table" \in DOMAIN ctx'
          /\ Fresh'
      <3>1. CASE UNCHANGED <<ctx, results>>
        <4>1. pc' \in {"route", "BasicAuth", "RouteChecker", "RequestInjector"} =>
                pc \in {"route", "BasicAuth", "RouteChecker", "RequestInjector"}
          BY <1>3 DEF Next, MatchRoute, BasicAuth, RouteChecker, RequestInjector, Handler,
                      Interpolate, QueryForOptions, Query, QueryFails, Answers, GetCollection,
                      GetCollectionAsOptions, GetSingle, GetSingleAsOption, Goto, Reply
        <4>2. (IF ForOptions THEN Range(Database[ctx.table]) ELSE Joined)'
                = IF ForOptions THEN Range(Database[ctx.table]) ELSE Joined
          BY <3>1 DEF ForOptions, Joined
        <4>3. QED BY <3>1, <4>1, <4>2 DEF TypedInv, TypeOK, Fresh, Joined
      <3>2. CASE RequestInjector
        <4>1. pc = "RequestInjector" /\ results' = results /\ pc' \in {"Interpolate", "Handler"}
          BY <3>2 DEF RequestInjector, Goto
        <4>2. results = <<>>
          BY <4>1 DEF TypedInv, Fresh
        <4>3. ctx'.route = RouteOf(req).name
          BY <3>2 DEF RequestInjector, Context
        <4>4. RouteOf(req).name \in {Routes[i].name : i \in DOMAIN Routes}
          BY <4>1, RouteNames DEF TypedInv, IInv, Checked
        <4>5. ASSUME "table" \in DOMAIN ctx' PROVE ctx'.table \in DOMAIN Database
          <5>1. Table # Null
            BY <3>2, <4>5 DEF RequestInjector
          <5>2. WithKey(tds, Table) # {}
            BY <4>1, <5>1 DEF TypedInv, IInv, Checked
          <5>3. ctx'.table = TableOfKey(tds, Table)
            BY <3>2, <5>1 DEF RequestInjector, Context
          <5>4. QED BY <5>2, <5>3, KeyHasTable DEF TypedInv, IInv
        <4>6. Range(results') = {}
          BY <4>1, <4>2 DEF Range
        <4>7. QED BY <4>1, <4>2, <4>3, <4>4, <4>5, <4>6 DEF Fresh
      <3>3. CASE QueryForOptions \/ Query
        <4>1. ctx' = ctx /\ pc' = "Format" /\ "table" \in DOMAIN ctx
          BY <3>3 DEF QueryForOptions, Query, Goto, TypedInv, IInv, Checked
        <4>2. Range(results') \subseteq IF ForOptions THEN Range(Database[ctx.table]) ELSE Joined
          <5>1. CASE QueryForOptions
            BY <4>1, <5>1, QueryReturnsRows DEF TypedInv, QueryForOptions
          <5>2. CASE Query
            <6>1. Range(results') \subseteq Join /\ ~ForOptions
              BY <5>2 DEF Query, Bijection, Injection, Range
            <6>2. QED BY <4>1, <6>1, JoinTyped DEF TypedInv
          <5>3. QED BY <3>3, <5>1, <5>2
        <4>3. (IF ForOptions THEN Range(Database[ctx.table]) ELSE Joined)'
                = IF ForOptions THEN Range(Database[ctx.table]) ELSE Joined
          BY <4>1 DEF ForOptions, Joined
        <4>4. QED BY <4>1, <4>2, <4>3 DEF TypedInv, TypeOK, Fresh
      <3>4. QED
        BY <1>3, <3>1, <3>2, <3>3
           DEF Next, MatchRoute, BasicAuth, RouteChecker, Handler, Interpolate, QueryFails,
               Answers, GetCollection, GetCollectionAsOptions, GetSingle, GetSingleAsOption
    <2>4. TypeOK'
      BY <2>1, <2>2, <2>3 DEF TypedInv, TypeOK, Places, input, ForOptions, Joined
    <2>5. QED BY <1>1, <2>3, <2>4 DEF TypedInv
  <1>4. QED BY <1>2, <1>3

\* The variables have the values their comments say, for any descriptors and
\* any request (server.go, backend.go).
THEOREM TypeOKTheorem == Spec => []TypeOK
  <1>1. TypedInv => TypeOK
    BY DEF TypedInv
  <1>2. QED BY <1>1, InitTyped, TypedStep, PTL DEF Spec

-----------------------------------------------------------------------------
(***************************************************************************)
(* The statement and its rows.                                             *)
(***************************************************************************)

\* The rows the statement is about.
Wanted == LET rows == Database[ctx.table] IN Picked(rows, {i \in DOMAIN rows : Selected(rows[i])})

Answered200 == pc = "done" /\ answer.code = "200"

\* What the database returned: the rows wanted, or all of their join.
Rows ==
  IF ForOptions THEN results \in Orders(Wanted)
  ELSE /\ results \in Bijection(1 .. Cardinality(Join), Join)
       /\ Ordered(driver) /\ ctx.route = "GetCollection" => InOrder(results)
       /\ Join = {} \/ ctx.relationships = <<>> \/ Scannable

\* The arguments of the statement, and what the database made of it.
Asked == pc \in {"Query", "Format"} \/ Answered200 => args = Arguments
Found == pc = "Format" \/ Answered200 => "table" \in DOMAIN ctx /\ QueryAccepted /\ Rows

\* An answer with options shows the first of the results.
Listed ==
  Ok("GetCollectionAsOptions") =>
    answer.items = FirstOptions([i \in DOMAIN results |-> Option(results[i])])

QueryInv == IInv /\ Asked /\ Found /\ Listed

\* A request before its first step.
LEMMA InitQuery == Init => QueryInv
  BY InitHolds DEF Init, QueryInv, Asked, Found, Listed, Ok, Answered200

\* None of this depends on where the request is.
LEMMA SameStatement ==
  ASSUME UNCHANGED <<tds, driver, req, ctx>>
  PROVE  /\ Arguments' = Arguments
         /\ args' = args => /\ QueryAccepted' <=> QueryAccepted
                           /\ Orders(Wanted)' = Orders(Wanted)
                           /\ Join' = Join
         /\ ForOptions' <=> ForOptions
         /\ Scannable' <=> Scannable
  <1>1. /\ Columns' = Columns /\ StatementColumns' = StatementColumns
        /\ ById' = ById /\ (ForOptions' <=> ForOptions)
    BY DEF Columns, StatementColumns, ById, Descriptor, ForOptions
  <1>2. Arguments' = Arguments
    BY DEF Arguments, Descriptor, Filter
  <1>3. \A s : Orders(s)' = Orders(s')
    BY <1>1 DEF Orders
  <1>4. Conditions' = Conditions
    BY <1>1 DEF Conditions
  <1>5. Scannable' <=> Scannable
    BY DEF Scannable, Descriptor
  <1>6. ASSUME args' = args
        PROVE  (QueryAccepted' <=> QueryAccepted) /\ Orders(Wanted)' = Orders(Wanted) /\ Join' = Join
    <2>1. QueryAccepted' <=> QueryAccepted
      BY <1>1, <1>6 DEF QueryAccepted
    <2>2. Wanted' = Wanted
      BY <1>1, <1>4, <1>6 DEF Wanted, Selected
    <2>3. \A i : Combinations(i)' = Combinations(i)
      BY DEF Combinations, Partners
    <2>4. Join' = Join
      BY <1>1, <1>4, <1>6, <2>3 DEF Join, Selected
    <2>5. QED BY <1>3, <2>1, <2>2, <2>4
  <1>7. QED BY <1>1, <1>2, <1>5, <1>6

\* Nor do the rows, once they are there.
LEMMA SameRows ==
  ASSUME UNCHANGED <<tds, driver, req, ctx, args, results>>
  PROVE  Rows' <=> Rows
  <1>1. /\ Orders(Wanted)' = Orders(Wanted) /\ Join' = Join
        /\ ForOptions' <=> ForOptions
        /\ Scannable' <=> Scannable
    BY SameStatement
  <1>2. QED BY <1>1 DEF Rows, InOrder

\* Every step keeps the invariant.
LEMMA QueryStep ==
  ASSUME QueryInv, [Next]_vars
  PROVE  QueryInv'
  <1>1. IInv'
    BY StepHolds DEF QueryInv
  <1>2. ASSUME UNCHANGED <<tds, driver, req, ctx, args, results>>,
               pc' # "Query", pc' = "Format" => pc = "Format",
               pc' = "done" => answer'.code # "200"
        PROVE  QueryInv'
    <2>1. Arguments' = Arguments /\ (QueryAccepted' <=> QueryAccepted) /\ (Rows' <=> Rows)
      BY <1>2, SameStatement, SameRows
    <2>2. Asked' /\ Found' /\ Listed'
      BY <1>2, <2>1 DEF QueryInv, Asked, Found, Listed, Answered200, Ok
    <2>3. QED BY <1>1, <2>2 DEF QueryInv
  <1>3. CASE MatchRoute \/ BasicAuth \/ RouteChecker \/ Handler \/ QueryFails
    <2>1. PICK l \in {"BasicAuth", "RouteChecker", "RequestInjector"},
               code \in {"404 or 405", "401", "404", "handled", "500"} :
            Goto(l) \/ Reply(code, <<>>)
      BY <1>3 DEF MatchRoute, BasicAuth, RouteChecker, Handler, QueryFails
    <2>2. UNCHANGED <<tds, driver, req, ctx, args, results>>
      BY <1>3 DEF MatchRoute, BasicAuth, RouteChecker, Handler, QueryFails, input
    <2>3. CASE Goto(l)
      BY <1>2, <2>2, <2>3 DEF Goto
    <2>4. CASE Reply(code, <<>>)
      <3>1. answer'.code = code /\ pc' = "done"
        BY <2>4 DEF Reply
      <3>2. QED BY <1>2, <2>2, <3>1
    <2>5. QED BY <2>1, <2>3, <2>4
  <1>4. CASE RequestInjector
    <2>1. pc' \in {"Interpolate", "Handler"}
      BY <1>4 DEF RequestInjector, Goto
    <2>2. QED BY <1>1, <2>1 DEF QueryInv, Asked, Found, Listed, Answered200, Ok
  <1>5. CASE Interpolate
    <2>1. UNCHANGED <<tds, driver, req, ctx, results>>
      BY <1>5 DEF Interpolate, input
    <2>2. CASE args' = Arguments /\ Goto("Query")
      <3>1. Arguments' = Arguments
        BY <2>1, SameStatement
      <3>2. QED BY <1>1, <2>2, <3>1 DEF Goto, QueryInv, Asked, Found, Listed, Answered200, Ok
    <2>3. ASSUME NEW code \in {"400", "500"}, Reply(code, <<>>), UNCHANGED args
          PROVE  QueryInv'
      <3>1. answer'.code = code /\ pc' = "done"
        BY <2>3 DEF Reply
      <3>2. QED BY <1>2, <2>1, <2>3, <3>1
    <2>4. QED BY <1>5, <2>2, <2>3 DEF Interpolate
  <1>6. CASE QueryForOptions \/ Query
    <2>1. /\ UNCHANGED <<tds, driver, req, ctx, args>> /\ pc = "Query" /\ pc' = "Format"
          /\ QueryAccepted
      BY <1>6, Zenon DEF QueryForOptions, Query, Goto, input
    <2>2. /\ Arguments' = Arguments
          /\ QueryAccepted' <=> QueryAccepted
          /\ Orders(Wanted)' = Orders(Wanted) /\ Join' = Join
          /\ ForOptions' <=> ForOptions
          /\ Scannable' <=> Scannable
      BY <2>1, SameStatement
    <2>3. Rows'
      <3>1. CASE QueryForOptions
        <4>1. results' \in Orders(Wanted) /\ ForOptions
          BY <3>1 DEF QueryForOptions, Wanted
        <4>2. QED BY <2>2, <4>1 DEF Rows
      <3>2. CASE Query
        <4>1. /\ results' \in Bijection(1 .. Cardinality(Join), Join) /\ ~ForOptions
              /\ Ordered(driver) /\ ctx.route = "GetCollection" => InOrder(results')
              /\ Join = {} \/ ctx.relationships = <<>> \/ Scannable
          BY <3>2 DEF Query
        <4>2. QED BY <2>1, <2>2, <4>1 DEF Rows, InOrder
      <3>3. QED BY <1>6, <3>1, <3>2
    <2>4. "table" \in DOMAIN ctx
      BY <2>1 DEF QueryInv, IInv, Checked
    <2>5. QED BY <1>1, <2>1, <2>2, <2>3, <2>4 DEF QueryInv, Asked, Found, Listed, Answered200, Ok
  <1>7. ASSUME NEW route, NEW code, NEW items, Answers(route, code, items),
               code = "200" /\ route = "GetCollectionAsOptions" =>
                 items = FirstOptions([i \in DOMAIN results |-> Option(results[i])])
        PROVE  QueryInv'
    <2>1. /\ UNCHANGED <<tds, driver, req, ctx, args, results>> /\ pc = "Format"
          /\ ctx.route = route /\ pc' = "done" /\ answer' = [code |-> code, items |-> items]
      BY <1>7 DEF Answers, Reply, input
    <2>2. Arguments' = Arguments /\ (QueryAccepted' <=> QueryAccepted) /\ (Rows' <=> Rows)
      BY <2>1, SameStatement, SameRows
    <2>3. Asked' /\ Found'
      BY <2>1, <2>2 DEF QueryInv, Asked, Found, Answered200
    <2>4. FirstOptions([i \in DOMAIN results |-> Option(results[i])])'
            = FirstOptions([i \in DOMAIN results |-> Option(results[i])])
      BY <2>1 DEF FirstOptions, Option
    <2>5. Listed'
      BY <1>7, <2>1, <2>4 DEF Listed, Ok
    <2>6. QED BY <1>1, <2>3, <2>5 DEF QueryInv
  <1>8. CASE GetCollection \/ GetCollectionAsOptions \/ GetSingle \/ GetSingleAsOption
    <2>1. CASE GetCollectionAsOptions
      BY <1>7, <2>1 DEF GetCollectionAsOptions
    <2>2. CASE GetCollection \/ GetSingle \/ GetSingleAsOption
      <3>1. PICK route, code, items :
              /\ route \in {"GetCollection", "GetSingle", "GetSingleAsOption"}
              /\ Answers(route, code, items)
        BY <2>2 DEF GetCollection, GetSingle, GetSingleAsOption
      <3>2. QED BY <1>7, <3>1
    <2>3. QED BY <1>8, <2>1, <2>2
  <1>9. CASE UNCHANGED vars
    <2>1. UNCHANGED <<tds, driver, req, ctx, args, results, pc, answer>>
      BY <1>9 DEF vars
    <2>2. Arguments' = Arguments /\ (QueryAccepted' <=> QueryAccepted) /\ (Rows' <=> Rows)
      BY <2>1, SameStatement, SameRows
    <2>3. FirstOptions([i \in DOMAIN results |-> Option(results[i])])'
            = FirstOptions([i \in DOMAIN results |-> Option(results[i])])
      BY <2>1 DEF FirstOptions, Option
    <2>4. Asked' /\ Found' /\ Listed'
      BY <2>1, <2>2, <2>3 DEF QueryInv, Asked, Found, Listed, Answered200, Ok
    <2>5. QED BY <1>1, <2>4 DEF QueryInv
  <1>10. QED BY <1>3, <1>4, <1>5, <1>6, <1>8, <1>9 DEF Next

\* The statement and its rows, of every behaviour.
LEMMA QueryHolds == Spec => []QueryInv
  BY InitQuery, QueryStep, PTL DEF Spec

\* The descriptor of the context, if no two have the same key or table, is the
\* one the request names.
LEMMA OneDescriptor ==
  ASSUME IInv, "table" \in DOMAIN ctx, DistinctKeys, DistinctTables
  PROVE  \E d \in DOMAIN tds : Descriptor = tds[d] /\ DescriptorOfKey(tds, Table) = tds[d]
  <1>1. ctx = Context /\ WithKey(tds, Table) # {}
    BY DEF IInv, Injected
  <1>2. PICK d \in DOMAIN tds : tds[d].key = Table
    BY <1>1 DEF WithKey
  <1>3. WithKey(tds, Table) = {d} /\ d \in Nat
    BY <1>2, Numbering DEF WithKey, DistinctKeys, IInv
  <1>4. ctx.table = tds[d].table /\ DescriptorOfKey(tds, Table) = tds[d]
    BY <1>1, <1>3, OnlyOne DEF TableOfKey, DescriptorOfKey, Context
  <1>5. WithTable(tds, ctx.table) = {d}
    BY <1>4, <1>2 DEF WithTable, DistinctTables
  <1>6. Descriptor = tds[d]
    BY <1>3, <1>5, OnlyOne DEF Descriptor, DescriptorOfTable
  <1>7. QED BY <1>4, <1>6

\* The fields of a descriptor and the columns of their keys.
ColumnsOf(fields) == [i \in DOMAIN fields |-> fields[i].columns]
AllColumns(fields) == UNION {Range(fields[i].columns) : i \in DOMAIN fields}

\* They are as many as the keys.
LEMMA FieldsHaveColumns ==
  ASSUME Input, NEW d \in DOMAIN tds
  PROVE  /\ AreFields(tds[d].fields)
         /\ Names(tds[d].fields, ColumnsOf(tds[d].fields), AllColumns(tds[d].fields))
  <1> DEFINE fields == tds[d].fields
  <1>1. AreFields(fields)
    BY ReadsAssumption, Zenon DEF Input
  <1>2. \A i \in DOMAIN fields : /\ fields[i].columns \in Seq(Range(fields[i].columns))
                                 /\ Len(fields[i].columns) = Len(fields[i].keys)
    BY ReadsAssumption, Zenon DEF Input
  <1> SUFFICES ASSUME NEW i \in DOMAIN fields
               PROVE  /\ ColumnsOf(fields)[i] \in Seq(AllColumns(fields))
                      /\ Len(ColumnsOf(fields)[i]) = Len(fields[i].keys)
    BY <1>1, Zenon DEF Names
  <1>3. ColumnsOf(fields)[i] = fields[i].columns
    BY DEF ColumnsOf
  <1>4. Range(fields[i].columns) \subseteq AllColumns(fields)
    BY DEF AllColumns
  <1> HIDE DEF fields
  <1>5. fields[i].columns \in Seq(AllColumns(fields))
    BY <1>2, <1>4
  <1>6. QED BY <1>2, <1>3, <1>5

\* The columns of a statement are those of the keys that were sent.
LEMMA ColumnsAreSent ==
  Columns = NamesSent(Descriptor.fields, req.params, ColumnsOf(Descriptor.fields))
  <1> DEFINE fields == Descriptor.fields
  <1>1. \A i \in DOMAIN fields : ColumnsOf(fields)[i] = fields[i].columns
    BY DEF ColumnsOf
  <1>2. QED BY <1>1 DEF Columns, NamesSent

\* They are columns of the descriptor.
LEMMA ColumnsType ==
  ASSUME Input, NEW d \in DOMAIN tds, Descriptor = tds[d]
  PROVE  Columns \in Seq(AllColumns(Descriptor.fields))
  BY FieldsHaveColumns, ColumnsAreSent, NamesSentType

\* The conditions on the columns of a statement: each argument belongs to its
\* column.
Meets(row, cols, values) == \A p \in DOMAIN cols : Equal(row[cols[p]], values[p])

\* A row that meets them is one that answers the query.
LEMMA MeetsIsFits ==
  ASSUME IInv, "table" \in DOMAIN ctx, DistinctKeys, DistinctTables,
         Len(Columns) = Len(Args(Descriptor.fields, req.params)), NEW row
  PROVE  Meets(row, Columns, Args(Descriptor.fields, req.params)) <=> Fits(row)
  <1> DEFINE fields == Descriptor.fields
             names == ColumnsOf(fields)
             body == req.params
             values == Args(fields, body)
  <1>1. PICK d \in DOMAIN tds : Descriptor = tds[d] /\ DescriptorOfKey(tds, Table) = tds[d]
    BY OneDescriptor
  <1>2. AreFields(fields) /\ Names(fields, names, AllColumns(fields))
    BY <1>1, FieldsHaveColumns DEF IInv
  <1>3. Columns = NamesSent(fields, body, names)
    BY ColumnsAreSent
  <1>4. Fits(row) <=> \A i \in DOMAIN fields : \A k \in Sent(fields[i], body) :
                        Equal(row[names[i][k]], body[fields[i].keys[k]])
    <2>1. \A i \in DOMAIN fields : names[i] = fields[i].columns
      BY DEF ColumnsOf
    <2>2. DescriptorOfKey(tds, Table).fields = fields
      BY <1>1
    <2> HIDE DEF fields, names, body
    <2>3. Fits(row) <=> \A f \in Range(fields) : \A k \in DOMAIN f.keys :
                          f.keys[k] \in DOMAIN body => Equal(row[f.columns[k]], body[f.keys[k]])
      BY <2>2 DEF Fits, body
    <2>4. QED BY <2>1, <2>3 DEF Range, Sent
  <1> HIDE DEF fields, names, body
  <1>5. /\ Columns \in Seq(AllColumns(fields))
        /\ OfSentKeys(fields, body, names, Columns, Args(fields, body))
        /\ AllSentKeys(fields, body, names, Columns, Args(fields, body))
    <2>1. Len(NamesSent(fields, body, names)) = Len(Args(fields, body))
      BY <1>3 DEF fields, body
    <2>2. QED BY <1>2, <1>3, <2>1, ArgumentsMeetColumns, NamesSentType
  <1>6. DOMAIN Columns = 1 .. Len(Columns)
    BY <1>5
  <1> HIDE DEF values
  <1>7. ASSUME Meets(row, Columns, values) PROVE Fits(row)
    <2> SUFFICES ASSUME NEW i \in DOMAIN fields, NEW k \in Sent(fields[i], body)
                 PROVE  Equal(row[names[i][k]], body[fields[i].keys[k]])
      BY <1>4
    <2>1. PICK p \in 1 .. Len(Columns) : Columns[p] = names[i][k] /\ values[p] = body[fields[i].keys[k]]
      BY <1>5 DEF AllSentKeys, values
    <2>2. QED BY <1>6, <1>7, <2>1 DEF Meets
  <1>8. ASSUME Fits(row) PROVE Meets(row, Columns, values)
    <2> SUFFICES ASSUME NEW p \in 1 .. Len(Columns)
                 PROVE  Equal(row[Columns[p]], values[p])
      BY <1>6 DEF Meets
    <2>1. PICK i \in DOMAIN fields : \E k \in Sent(fields[i], body) :
            Columns[p] = names[i][k] /\ values[p] = body[fields[i].keys[k]]
      BY <1>5 DEF OfSentKeys, values
    <2>2. PICK k \in Sent(fields[i], body) :
            Columns[p] = names[i][k] /\ values[p] = body[fields[i].keys[k]]
      BY <2>1
    <2>3. QED BY <1>4, <1>8, <2>2
  <1>9. QED BY <1>7, <1>8 DEF values, fields, body

\* What is made of the results, one by one, comes in one of the orders.
LEMMA ResultsShown ==
  ASSUME IInv, "table" \in DOMAIN ctx, NEW I, NEW f,
         results \in Orders(Picked(Database[ctx.table], I))
  PROVE  [i \in DOMAIN results |-> f[results[i]]]
           \in Orders([i \in DOMAIN Picked(Database[ctx.table], I) |->
                         f[Picked(Database[ctx.table], I)[i]]])
  <1> DEFINE rows == Database[ctx.table]
  <1>1. rows \in Seq(Range(rows))
    BY TableThere, ReadsAssumption
  <1>2. Picked(rows, I) \in Seq(Range(rows))
    BY <1>1, PickedElements
  <1>3. QED BY <1>2, OrdersMapped

\* The placeholders of a collection take the arguments in the order of the
\* columns.
LEMMA CollectionSelects ==
  ASSUME IInv, "table" \in DOMAIN ctx, DistinctKeys, DistinctTables,
         ctx.route = "GetCollection", args = Arguments, QueryAccepted, NEW row
  PROVE  Selected(row) <=> Fits(row)
  <1>1. args = Args(Descriptor.fields, req.params) /\ Len(args) = Len(Columns) /\ ~ById
    BY DEF Arguments, QueryAccepted, ById
  <1>2. Meets(row, Columns, args) <=> Fits(row)
    BY <1>1, MeetsIsFits
  <1>3. Conditions = [i \in DOMAIN Columns |-> Bind(Columns[i], HeadTail(driver, i))]
    BY DEF Conditions, CollectionConditions
  <1>4. ASSUME NEW i \in DOMAIN Columns PROVE HeadTail(driver, i) = i
    <2>1. i \in Nat
      <3>1. PICK d \in DOMAIN tds : Descriptor = tds[d]
        BY OneDescriptor
      <3>2. Columns \in Seq(AllColumns(Descriptor.fields))
        BY <3>1, ColumnsType DEF IInv
      <3>3. QED BY <3>2
    <2>2. QED BY <2>1 DEF HeadTail, Add2
  <1>5. DOMAIN Conditions = DOMAIN Columns
    BY <1>3
  <1>6. ASSUME NEW i \in DOMAIN Columns
        PROVE  Conditions[i].column = Columns[i] /\ Conditions[i].arg = i
    BY <1>3, <1>4 DEF Bind
  <1>7. Selected(row) <=> \A i \in DOMAIN Columns : Equal(row[Columns[i]], args[i])
    BY <1>1, <1>5, <1>6 DEF Selected
  <1>8. QED BY <1>2, <1>7 DEF Meets

\* The rows that a collection selects are all in its join.
LEMMA JoinHasSelected ==
  ASSUME IInv, "table" \in DOMAIN ctx, NEW i \in DOMAIN Database[ctx.table],
         Selected(Database[ctx.table][i])
  PROVE  \E c \in Join : c.main = i
  <1> DEFINE rs == ctx.relationships
             V(k) == OrNone(Partners(rs[k], i))
             c == [k \in DOMAIN rs |-> CHOOSE j \in V(k) : TRUE]
  <1>1. ASSUME NEW k \in DOMAIN rs PROVE c[k] \in V(k)
    <2>1. V(k) # {}
      BY DEF OrNone
    <2> HIDE DEF V
    <2>2. QED BY <2>1
  <1>2. c \in [DOMAIN rs -> UNION {V(k) : k \in DOMAIN rs}]
    <2>1. \A k \in DOMAIN rs : (CHOOSE j \in V(k) : TRUE) \in UNION {V(l) : l \in DOMAIN rs}
      <3>1. \A k \in DOMAIN rs : c[k] = CHOOSE j \in V(k) : TRUE
        OBVIOUS
      <3> HIDE DEF c, V
      <3>2. QED BY <1>1, <3>1
    <2> HIDE DEF V
    <2>2. QED BY <2>1
  <1>3. c \in Combinations(i)
    BY <1>1, <1>2, Zenon DEF Combinations
  <1> HIDE DEF c
  <1> DEFINE r == [main |-> i, rel |-> c]
  <1>4. r \in [main : {i}, rel : Combinations(i)] /\ r.main = i
    BY <1>3
  <1> HIDE DEF r
  <1>5. r \in Join
    BY <1>4 DEF Join
  <1>6. QED BY <1>4, <1>5

\* ... and no others; without relationships each is there once.
LEMMA JoinOnlySelected ==
  ASSUME IInv, "table" \in DOMAIN ctx, NEW c \in Join
  PROVE  /\ c.main \in DOMAIN Database[ctx.table] /\ Selected(Database[ctx.table][c.main])
         /\ c.rel \in Combinations(c.main)
         /\ ctx.relationships = <<>> => c = [main |-> c.main, rel |-> <<>>]
  <1>1. PICK i \in DOMAIN Database[ctx.table] : Selected(Database[ctx.table][i])
                                              /\ c \in [main : {i}, rel : Combinations(i)]
    BY DEF Join
  <1>2. c.main = i /\ c.rel \in Combinations(i) /\ c = [main |-> c.main, rel |-> c.rel]
    BY <1>1
  <1>3. ASSUME ctx.relationships = <<>> PROVE c.rel = <<>>
    <2>1. DOMAIN c.rel = DOMAIN ctx.relationships
      BY <1>2 DEF Combinations
    <2>2. c.rel = [k \in DOMAIN c.rel |-> c.rel[k]]
      BY <1>2 DEF Combinations
    <2>3. DOMAIN c.rel = {}
      BY <1>3, <2>1
    <2>4. QED BY <2>2, <2>3
  <1>4. QED BY <1>1, <1>2, <1>3

\* For any descriptors with keys and tables of their own, any request and any
\* rows, the items of a collection are the rows that answer the query, and no
\* others: each has an item, only one if the descriptor has no relationships,
\* and they come in order if the statement asks for it (getCollection.go:16,
\* query.go:26, db.go:94).
THEOREM CollectionExactTheorem == Spec => []CollectionExact
  <1>1. QueryInv => CollectionExact
    <2> DEFINE rows == Database[ctx.table]
               wanted == {i \in DOMAIN rows : Fits(rows[i])}
               of == [i \in DOMAIN results |-> results[i].main]
               own(i) == Formatted(Descriptor, rows[of[i]])
    <2> SUFFICES ASSUME QueryInv, Ok("GetCollection"), DistinctKeys, DistinctTables
                 PROVE  /\ of \in Surjection(DOMAIN answer.items, wanted)
                        /\ \A i \in DOMAIN answer.items :
                             /\ DOMAIN own(i) \subseteq DOMAIN answer.items[i]
                             /\ \A n \in DOMAIN own(i) : answer.items[i][n] = own(i)[n]
                        /\ Ordered(driver) => \A i, j \in DOMAIN answer.items : i < j => of[i] <= of[j]
                        /\ ctx.relationships = <<>> => IsInjective(of)
      <3> HIDE DEF of
      <3>1. QED BY DEF CollectionExact
    <2>1. /\ "table" \in DOMAIN ctx /\ args = Arguments /\ QueryAccepted
          /\ results \in Bijection(1 .. Cardinality(Join), Join)
          /\ Ordered(driver) => InOrder(results)
          /\ ctx.route = "GetCollection" /\ answer.items = Items
      BY DEF QueryInv, Asked, Found, Rows, ForOptions, Answered200, Ok, IInv, Shown
    <2>2. \A i : Selected(rows[i]) <=> Fits(rows[i])
      BY <2>1, CollectionSelects DEF QueryInv
    <2>3. /\ DOMAIN answer.items = DOMAIN results /\ \A i \in DOMAIN results : answer.items[i] = Item(i)
          /\ results \in [DOMAIN results -> Join]
          /\ \A c \in Join : \E i \in DOMAIN results : results[i] = c
          /\ \A i, j \in DOMAIN results : results[i] = results[j] => i = j
      BY <2>1 DEF Items, Bijection, Injection, Surjection, IsInjective
    <2>4. of \in Surjection(DOMAIN answer.items, wanted)
      <3>1. \A i \in DOMAIN results : results[i] \in Join
        BY <2>3
      <3>2. of \in [DOMAIN results -> wanted]
        BY <2>1, <2>2, <3>1, JoinOnlySelected DEF QueryInv
      <3>3. ASSUME NEW w \in wanted PROVE \E i \in DOMAIN results : of[i] = w
        <4>1. PICK c \in Join : c.main = w
          BY <2>1, <2>2, JoinHasSelected DEF QueryInv
        <4>2. PICK i \in DOMAIN results : results[i] = c
          BY <2>3
        <4>3. QED BY <4>1, <4>2
      <3> HIDE DEF wanted, of
      <3>4. QED BY <2>3, <3>2, <3>3 DEF Surjection
    <2>5. ASSUME NEW i \in DOMAIN answer.items
          PROVE  DOMAIN own(i) \subseteq DOMAIN answer.items[i]
                 /\ \A n \in DOMAIN own(i) : answer.items[i][n] = own(i)[n]
      <3>1. own(i) = Formatted(Descriptor, Row(i))
        BY <2>3 DEF Row
      <3> HIDE DEF own
      <3>2. LET o == Formatted(Descriptor, Row(i))
            IN DOMAIN o \subseteq DOMAIN Item(i) /\ \A n \in DOMAIN o : Item(i)[n] = o[n]
        BY ItemParts
      <3>3. QED BY <2>3, <3>1, <3>2
    <2>6. ASSUME Ordered(driver), NEW i \in DOMAIN answer.items, NEW j \in DOMAIN answer.items, i < j
          PROVE  of[i] <= of[j]
      BY <2>1, <2>3, <2>6 DEF InOrder
    <2>7. ASSUME ctx.relationships = <<>> PROVE IsInjective(of)
      <3> SUFFICES ASSUME NEW i \in DOMAIN results, NEW j \in DOMAIN results, of[i] = of[j]
                   PROVE  i = j
        BY DEF IsInjective
      <3>1. results[i] \in Join /\ results[j] \in Join
        BY <2>3
      <3>2. /\ results[i] = [main |-> results[i].main, rel |-> <<>>]
            /\ results[j] = [main |-> results[j].main, rel |-> <<>>]
        BY <2>1, <2>7, <3>1, JoinOnlySelected DEF QueryInv
      <3>3. results[i] = results[j]
        BY <3>2
      <3>4. QED BY <2>3, <3>3
    <2> HIDE DEF of, own, wanted
    <2>8. QED BY <2>4, <2>5, <2>6, <2>7
  <1>2. QED BY <1>1, QueryHolds, PTL

\* A row that has a name, one with the text of the filter.
HasName(row) ==
  /\ row[ctx.optionName] # Null
  /\ "filter" \in DOMAIN req.params /\ req.params.filter # "%" =>
       HasText[row[ctx.optionName], req.params.filter]

\* The first placeholder of the options takes the filter, the others take the
\* arguments in the order of the columns.
LEMMA OptionsSelect ==
  ASSUME IInv, "table" \in DOMAIN ctx, DistinctKeys, DistinctTables,
         ctx.route = "GetCollectionAsOptions", args = Arguments, QueryAccepted, NEW row
  PROVE  Selected(row) <=> HasName(row) /\ Fits(row)
  <1> DEFINE values == Args(Descriptor.fields, req.params)
  <1>1. args = <<Filter>> \o values /\ Len(args) = Len(Columns) + 1 /\ ~ById
    BY DEF Arguments, QueryAccepted, ById, StatementColumns
  <1>2. PICK d \in DOMAIN tds : Descriptor = tds[d]
    BY OneDescriptor
  <1>3. Columns \in Seq(AllColumns(Descriptor.fields))
    BY <1>2, ColumnsType DEF IInv
  <1>4. \E T : values \in Seq(T)
    BY <1>2, FieldsHaveColumns, ArgsType DEF IInv
  <1> HIDE DEF values
  <1>5. PICK T : values \in Seq(T)
    BY <1>4
  <1>6. /\ Len(values) = Len(Columns) /\ args[1] = Filter
        /\ \A i \in 1 .. Len(values) : args[i + 1] = values[i]
    <2> DEFINE f == Filter
               U == T \cup {f}
    <2>1. args = <<f>> \o values /\ <<f>> \in Seq(U) /\ values \in Seq(U) /\ Len(<<f>>) = 1
      BY <1>1, <1>5
    <2> HIDE DEF f, U
    <2>2. /\ Len(args) = 1 + Len(values) /\ args[1] = f
          /\ \A i \in 1 .. Len(values) : args[i + 1] = values[i]
      BY <2>1
    <2>3. Len(values) = Len(Columns)
      BY <1>1, <1>3, <1>5, <2>2
    <2>4. QED BY <2>2, <2>3 DEF f
  <1>7. Meets(row, Columns, values) <=> Fits(row)
    BY <1>6, MeetsIsFits DEF values
  <1>8. Conditions = [i \in DOMAIN Columns |-> Bind(Columns[i], AfterFirst(driver, i))]
    BY <1>1 DEF Conditions, OptionsConditions
  <1>9. DOMAIN Columns = 1 .. Len(Columns)
    BY <1>3
  <1>10. ASSUME NEW i \in DOMAIN Columns PROVE AfterFirst(driver, i) = i + 1
    BY <1>9 DEF AfterFirst, Add2
  <1>11. DOMAIN Conditions = DOMAIN Columns
    BY <1>8
  <1>12. ASSUME NEW i \in DOMAIN Columns
         PROVE  Conditions[i].column = Columns[i] /\ args[Conditions[i].arg] = values[i]
    <2>1. Conditions[i].column = Columns[i] /\ Conditions[i].arg = i + 1
      BY <1>8, <1>10 DEF Bind
    <2>2. QED BY <1>6, <1>9, <2>1
  <1>13. Selected(row) <=> Like(row[ctx.optionName], args[1])
                           /\ \A i \in DOMAIN Columns : Equal(row[Columns[i]], values[i])
    BY <1>1, <1>11, <1>12 DEF Selected
  <1>14. Like(row[ctx.optionName], args[1]) <=> HasName(row)
    BY <1>6 DEF Like, Filter, HasName
  <1>15. QED BY <1>7, <1>13, <1>14 DEF Meets

\* For any descriptors with keys and tables of their own, any request and any
\* rows, the options are the first of the rows that have a name with the text
\* of the filter and answer the rest of the query
\* (getCollectionAsOptions.go:72, subsetForPerformance).
THEOREM OptionsExactTheorem == Spec => []OptionsExact
  <1>1. QueryInv => OptionsExact
    <2> DEFINE rows == Database[ctx.table]
               I == {j \in DOMAIN rows : HasName(rows[j]) /\ Fits(rows[j])}
               wanted == Picked(rows, I)
               least == IF Len(wanted) < Limit THEN Len(wanted) ELSE Limit
               f == [row \in Range(rows) |-> Option(row)]
    <2> SUFFICES ASSUME QueryInv, Ok("GetCollectionAsOptions"), DistinctKeys, DistinctTables
                 PROVE  \E options \in Orders([i \in DOMAIN wanted |-> Option(wanted[i])]) :
                          answer.items = SubSeq(options, 1, least)
      BY DEF OptionsExact, HasName
    <2>1. /\ "table" \in DOMAIN ctx /\ args = Arguments /\ QueryAccepted
          /\ results \in Orders(Wanted) /\ ctx.route = "GetCollectionAsOptions"
          /\ answer.items = FirstOptions([i \in DOMAIN results |-> Option(results[i])])
      BY DEF QueryInv, Asked, Found, Rows, ForOptions, Answered200, Ok, Listed
    <2>2. \A j : Selected(rows[j]) <=> HasName(rows[j]) /\ Fits(rows[j])
      BY <2>1, OptionsSelect DEF QueryInv
    <2>3. Wanted = wanted
      <3>1. {j \in DOMAIN rows : Selected(rows[j])} = I
        BY <2>2
      <3>2. QED BY <3>1, Zenon DEF Wanted
    <2>4. rows \in Seq(Range(rows))
      BY <2>1, TableThere, ReadsAssumption DEF QueryInv
    <2> HIDE DEF I
    <2>5. wanted \in Seq(Range(rows))
      BY <2>4, PickedElements
    <2>6. /\ results \in Seq(Range(rows)) /\ Len(results) = Len(wanted)
          /\ \A i \in DOMAIN results : results[i] \in Range(rows)
      <3>1. results \in Seq(Range(rows)) /\ Len(results) = Len(wanted)
        BY <2>1, <2>3, <2>5, OrdersType
      <3>2. QED BY <3>1, ElementOfSeq
    <2>7. \A i \in DOMAIN wanted : wanted[i] \in Range(rows)
      BY <2>5, ElementOfSeq
    <2>8. [i \in DOMAIN results |-> f[results[i]]] \in Orders([i \in DOMAIN wanted |-> f[wanted[i]]])
      <3> HIDE DEF f
      <3>1. QED BY <2>1, <2>3, ResultsShown DEF QueryInv
    <2>9. [i \in DOMAIN results |-> f[results[i]]] = [i \in DOMAIN results |-> Option(results[i])]
      BY <2>6
    <2>10. [i \in DOMAIN wanted |-> f[wanted[i]]] = [i \in DOMAIN wanted |-> Option(wanted[i])]
      <3> HIDE DEF wanted, rows
      <3>1. QED BY <2>7
    <2> DEFINE options == [i \in DOMAIN results |-> Option(results[i])]
    <2>11. options \in Orders([i \in DOMAIN wanted |-> Option(wanted[i])])
      <3> HIDE DEF wanted, rows, f, options
      <3>1. QED BY <2>8, <2>9, <2>10 DEF options
    <2>12. \E S : options \in Seq(S) /\ Len(options) = Len(wanted)
      <3>1. Len(results) \in Nat /\ DOMAIN results = 1 .. Len(results)
        BY <2>6
      <3> DEFINE S == {Option(results[i]) : i \in 1 .. Len(results)}
      <3>2. options \in [1 .. Len(results) -> S]
        BY <3>1
      <3> HIDE DEF S, options, wanted
      <3>3. options \in Seq(S) /\ Len(options) = Len(results)
        BY <3>1, <3>2, IsSequence
      <3>4. QED BY <2>6, <3>3
    <2> HIDE DEF options, wanted
    <2>13. PICK S : options \in Seq(S) /\ Len(options) = Len(wanted)
      BY <2>12
    <2>14. FirstOptions(options) = SubSeq(options, 1, least)
      <3>1. Limit \in Nat /\ Len(options) \in Nat
        <4>1. Limit \in Nat
          BY ReadsAssumption, Zenon
        <4>2. QED BY <2>13, <4>1
      <3>2. CASE Len(options) > Limit
        <4>1. least = Limit
          BY <2>13, <3>1, <3>2
        <4>2. QED BY <3>2, <4>1 DEF FirstOptions
      <3>3. CASE ~(Len(options) > Limit)
        <4>1. least = Len(options)
          BY <2>13, <3>1, <3>3
        <4>2. SubSeq(options, 1, Len(options)) = options
          BY <2>13
        <4>3. QED BY <3>3, <4>1, <4>2 DEF FirstOptions
      <3>4. QED BY <3>2, <3>3
    <2>15. answer.items = FirstOptions(options)
      BY <2>1 DEF options
    <2>16. QED BY <2>11, <2>14, <2>15
  <1>2. QED BY <1>1, QueryHolds, PTL


\* As many functions as there are between finite sets are finitely many.
LEMMA FunctionsFinite ==
  ASSUME NEW S, NEW T, IsFiniteSet(S), IsFiniteSet(T)
  PROVE  IsFiniteSet([S -> T])
  <1> DEFINE graph(f) == {<<x, f[x]>> : x \in S}
             g == [f \in [S -> T] |-> graph(f)]
  <1>1. IsFiniteSet(SUBSET (S \X T))
    BY FS_Product, FS_SUBSET
  <1>2. g \in [[S -> T] -> SUBSET (S \X T)]
    OBVIOUS
  <1>3. ASSUME NEW f \in [S -> T], NEW h \in [S -> T], g[f] = g[h] PROVE f = h
    <2>1. ASSUME NEW x \in S PROVE f[x] = h[x]
      <3>1. <<x, f[x]>> \in graph(h)
        BY <1>3
      <3>2. QED BY <3>1
    <2>2. QED BY <2>1
  <1> HIDE DEF g
  <1>4. g \in Injection([S -> T], SUBSET (S \X T))
    BY <1>2, <1>3 DEF Injection, IsInjective
  <1>5. QED BY <1>1, <1>4, FS_Injection

\* So are the values of a function on a finite set, put together.
LEMMA UnionFinite ==
  ASSUME NEW S, IsFiniteSet(S), NEW f, DOMAIN f = S, \A x \in S : IsFiniteSet(f[x])
  PROVE  IsFiniteSet(UNION {f[x] : x \in S})
  <1> DEFINE T == {f[x] : x \in S}
             g == [x \in S |-> f[x]]
  <1>1. g \in Surjection(S, T)
    BY DEF Surjection
  <1>2. \A t \in T : IsFiniteSet(t)
    OBVIOUS
  <1> HIDE DEF g, T
  <1>3. IsFiniteSet(T)
    BY <1>1, FS_Surjection
  <1>4. QED BY <1>2, <1>3, FS_UNION DEF T

\* The rows of a statement can be counted.
LEMMA JoinFinite ==
  ASSUME IInv, "table" \in DOMAIN ctx
  PROVE  IsFiniteSet(Join) /\ Cardinality(Join) \in Nat
  <1> DEFINE rs == ctx.relationships
             rows == Database[ctx.table]
             W == [k \in DOMAIN rs |-> {0} \cup DOMAIN Database[rs[k].withTable]]
             V == UNION {W[k] : k \in DOMAIN rs}
  <1>1. IsFiniteSet(DOMAIN rs) /\ IsFiniteSet(DOMAIN rows)
    <2>1. rs \in Seq(Range(rs))
      BY ContextRelationships
    <2>2. rows \in Seq(Range(rows))
      BY TableThere, ReadsAssumption
    <2> HIDE DEF rs, rows
    <2>3. DOMAIN rs = 1 .. Len(rs) /\ Len(rs) \in Nat /\ DOMAIN rows = 1 .. Len(rows) /\ Len(rows) \in Nat
      BY <2>1, <2>2
    <2>4. QED BY <2>3, FS_Interval
  <1>2. ASSUME NEW k \in DOMAIN rs PROVE IsFiniteSet(W[k])
    <2> DEFINE s == Database[rs[k].withTable]
    <2>1. s \in Seq(Range(s))
      BY ContextRelationships, ReadsAssumption
    <2>2. W[k] = {0} \cup DOMAIN s
      OBVIOUS
    <2> HIDE DEF s, W
    <2>3. DOMAIN s = 1 .. Len(s) /\ Len(s) \in Nat
      BY <2>1
    <2>4. IsFiniteSet(DOMAIN s) /\ IsFiniteSet({0})
      <3>1. IsFiniteSet(1 .. Len(s))
        BY <2>3, FS_Interval
      <3>2. IsFiniteSet({0})
        BY FS_Singleton
      <3>3. QED BY <2>3, <3>1, <3>2
    <2>5. QED BY <2>2, <2>4, FS_Union
  <1>3. IsFiniteSet(V)
    <2>1. DOMAIN W = DOMAIN rs
      OBVIOUS
    <2> HIDE DEF W, rs
    <2>2. QED BY <1>1, <1>2, <2>1, UnionFinite
  <1> DEFINE U == (DOMAIN rows) \X [DOMAIN rs -> V]
             g == [c \in Join |-> <<c.main, c.rel>>]
  <1>4. IsFiniteSet(U)
    <2> HIDE DEF V, rs, rows
    <2>1. IsFiniteSet([DOMAIN rs -> V])
      BY <1>1, <1>3, FunctionsFinite
    <2> DEFINE A == DOMAIN rows
               B == [DOMAIN rs -> V]
    <2>2. IsFiniteSet(A) /\ IsFiniteSet(B) /\ U = A \X B
      BY <1>1, <2>1
    <2> HIDE DEF A, B, U
    <2>3. IsFiniteSet(A \X B)
      BY <2>2, FS_Product
    <2>4. QED BY <2>2, <2>3
  <1>5. ASSUME NEW c \in Join
        PROVE  c.main \in DOMAIN rows /\ c.rel \in [DOMAIN rs -> V] /\ c = [main |-> c.main, rel |-> c.rel]
    <2>1. PICK i \in DOMAIN rows : c \in [main : {i}, rel : Combinations(i)]
      BY DEF Join
    <2>2. c.main = i /\ c.rel \in Combinations(i) /\ c = [main |-> c.main, rel |-> c.rel]
      BY <2>1
    <2>3. \A k \in DOMAIN rs : OrNone(Partners(rs[k], i)) \subseteq W[k]
      BY DEF OrNone, Partners
    <2>4. c.rel \in [DOMAIN rs -> UNION {OrNone(Partners(rs[k], i)) : k \in DOMAIN rs}]
          /\ \A k \in DOMAIN rs : c.rel[k] \in OrNone(Partners(rs[k], i))
      BY <2>2, Zenon DEF Combinations
    <2> HIDE DEF W, rs, rows
    <2>5. \A k \in DOMAIN rs : c.rel[k] \in V
      BY <2>3, <2>4
    <2> HIDE DEF V
    <2>6. c.rel \in [DOMAIN rs -> V]
      BY <2>4, <2>5
    <2>7. QED BY <2>1, <2>2, <2>6
  <1>6. g \in Injection(Join, U)
    <2> HIDE DEF V, rs, rows
    <2>1. g \in [Join -> U]
      <3>1. ASSUME NEW c \in Join PROVE <<c.main, c.rel>> \in U
        <4>1. c.main \in DOMAIN rows /\ c.rel \in [DOMAIN rs -> V]
          BY <1>5
        <4>2. QED BY <4>1
      <3> HIDE DEF U
      <3>2. QED BY <3>1
    <2>2. ASSUME NEW c \in Join, NEW e \in Join, g[c] = g[e] PROVE c = e
      <3>1. c.main = e.main /\ c.rel = e.rel
        BY <2>2
      <3>2. QED BY <1>5, <3>1, Zenon
    <2> HIDE DEF g, U
    <2>3. QED BY <2>1, <2>2 DEF Injection, IsInjective
  <1> HIDE DEF g, U
  <1>7. IsFiniteSet(Join)
    BY <1>4, <1>6, FS_Injection
  <1>8. QED BY <1>7, FS_CardinalityType

-----------------------------------------------------------------------------
(***************************************************************************)
(* Related rows.                                                           *)
(***************************************************************************)

\* An answer with rows, of descriptors with keys and tables of their own.
Listing ==
  QueryInv /\ DistinctKeys /\ DistinctTables /\ (Ok("GetCollection") \/ Ok("GetSingle"))

\* Its results are the rows of the join, and its items show them one by one.
JoinShown ==
  /\ ctx.relationships = Relationships(Descriptor)
  /\ DOMAIN results = 1 .. Cardinality(Join) /\ Cardinality(Join) \in Nat
  /\ \A i \in DOMAIN results : results[i] \in Join
  /\ \A c \in Join : \E i \in DOMAIN results : results[i] = c
  /\ DOMAIN answer.items = DOMAIN results
  /\ \A i \in DOMAIN results : answer.items[i] = Item(i)

\* That is what the query and the handler have made of it.
LEMMA ListingShowsJoin ==
  ASSUME Listing
  PROVE  "table" \in DOMAIN ctx /\ JoinShown
  <1>1. /\ IInv /\ "table" \in DOMAIN ctx /\ results \in Bijection(1 .. Cardinality(Join), Join)
        /\ answer.items = Items
    BY DEF Listing, QueryInv, Found, Rows, ForOptions, Answered200, Ok, IInv, Shown
  <1>2. ctx.relationships = Relationships(Descriptor)
    <2>1. PICK d \in DOMAIN tds : Descriptor = tds[d] /\ DescriptorOfKey(tds, Table) = tds[d]
      BY <1>1, OneDescriptor DEF Listing
    <2>2. ctx = Context
      BY <1>1 DEF IInv, Injected
    <2>3. ctx.relationships = Relationships(DescriptorOfKey(tds, Table))
      BY <2>2 DEF Context
    <2>4. QED BY <2>1, <2>3
  <1>3. Cardinality(Join) \in Nat
    BY <1>1, JoinFinite
  <1>4. /\ DOMAIN results = 1 .. Cardinality(Join)
        /\ \A i \in DOMAIN results : results[i] \in Join
        /\ \A c \in Join : \E i \in DOMAIN results : results[i] = c
    BY <1>1 DEF Bijection, Injection, Surjection
  <1>5. DOMAIN answer.items = DOMAIN results /\ \A i \in DOMAIN results : answer.items[i] = Item(i)
    BY <1>1 DEF Items
  <1>6. QED BY <1>1, <1>2, <1>3, <1>4, <1>5 DEF JoinShown

\* The rows of its table that the i-th result refers to by f, the empty ones too.
PartnerRows(f, i) == {r \in Range(Database[f.withTable]) : Equal(r[f.foreign], Row(i)[f.local])}

\* What a result has of a related table is one of them, or NULL if there is none.
LEMMA RelatedRowIs ==
  ASSUME IInv, "table" \in DOMAIN ctx, JoinShown,
         NEW k \in DOMAIN Relationships(Descriptor), NEW i \in DOMAIN results
  PROVE  LET f == Relationships(Descriptor)[k]
         IN \/ RelatedRow(k, i) \in PartnerRows(f, i)
            \/ RelatedRow(k, i) = NullRow(f.withTable) /\ PartnerRows(f, i) = {}
  <1> DEFINE f == Relationships(Descriptor)[k]
             c == results[i]
             rows == Database[f.withTable]
             P == Partners(f, c.main)
  <1>1. c \in Join /\ f = ctx.relationships[k] /\ k \in DOMAIN ctx.relationships
    BY DEF JoinShown
  <1>2. c.rel \in Combinations(c.main)
    BY <1>1, JoinOnlySelected
  <1>3. k \in DOMAIN c.rel /\ c.rel[k] \in OrNone(P)
    <2>1. c.rel \in [DOMAIN ctx.relationships -> UNION {OrNone(Partners(ctx.relationships[l], c.main)) : l \in DOMAIN ctx.relationships}]
          /\ \A l \in DOMAIN ctx.relationships : c.rel[l] \in OrNone(Partners(ctx.relationships[l], c.main))
      BY <1>2, Zenon DEF Combinations
    <2> HIDE DEF c, f
    <2>2. QED BY <1>1, <2>1
  <1>4. RelatedRow(k, i) = IF c.rel[k] = 0 THEN NullRow(f.withTable) ELSE rows[c.rel[k]]
    BY <1>3 DEF RelatedRow
  <1>5. 0 \notin P /\ P \subseteq DOMAIN rows
    <2>1. f.withTable \in DOMAIN Database
      BY <1>1, ContextRelationships
    <2>2. rows \in Seq(Range(rows))
      BY <2>1, ReadsAssumption
    <2>3. 0 \notin DOMAIN rows
      <3> HIDE DEF rows
      <3>1. QED BY <2>2
    <2>4. QED BY <2>3 DEF Partners
  <1>6. P = {j \in DOMAIN rows : Equal(rows[j][f.foreign], Row(i)[f.local])}
    BY DEF Partners, Row
  <1> HIDE DEF P, rows, c, f
  <1>7. CASE P = {}
    <2>1. c.rel[k] = 0
      BY <1>3, <1>7 DEF OrNone
    <2>2. PartnerRows(f, i) = {}
      BY <1>6, <1>7 DEF PartnerRows, Range, rows
    <2>3. QED BY <1>4, <2>1, <2>2 DEF f
  <1>8. CASE P # {}
    <2>1. c.rel[k] \in P /\ c.rel[k] # 0 /\ c.rel[k] \in DOMAIN rows
      BY <1>3, <1>5, <1>8 DEF OrNone
    <2>2. rows[c.rel[k]] \in PartnerRows(f, i)
      BY <1>6, <2>1 DEF PartnerRows, Range, rows
    <2>3. QED BY <1>4, <2>1, <2>2 DEF f
  <1>9. QED BY <1>7, <1>8

\* A result is repeated with every row that it refers to.
LEMMA ResultRepeated ==
  ASSUME IInv, "table" \in DOMAIN ctx, JoinShown,
         NEW k \in DOMAIN Relationships(Descriptor), NEW i \in DOMAIN results,
         NEW r \in PartnerRows(Relationships(Descriptor)[k], i)
  PROVE  \E j \in DOMAIN results : results[j].main = results[i].main /\ RelatedRow(k, j) = r
  <1> DEFINE rs == ctx.relationships
             f == Relationships(Descriptor)[k]
             rows == Database[f.withTable]
             c == results[i]
             V(l) == OrNone(Partners(rs[l], c.main))
  <1>1. c \in Join /\ f = rs[k] /\ k \in DOMAIN rs
    BY DEF JoinShown
  <1>2. PICK h \in DOMAIN rows : rows[h] = r /\ Equal(rows[h][f.foreign], Row(i)[f.local])
    BY DEF PartnerRows, Range
  <1>3. h \in Partners(f, c.main)
    BY <1>2 DEF Partners, Row
  <1>4. h \in V(k)
    BY <1>1, <1>3 DEF OrNone
  <1>5. PICK m \in DOMAIN Database[ctx.table] : Selected(Database[ctx.table][m])
                                              /\ c \in [main : {m}, rel : Combinations(m)]
    BY <1>1 DEF Join
  <1>6. c.main = m /\ c.rel \in Combinations(c.main)
    BY <1>5
  <1>7. c.rel \in [DOMAIN rs -> UNION {V(l) : l \in DOMAIN rs}]
        /\ \A l \in DOMAIN rs : c.rel[l] \in V(l)
    BY <1>6, Zenon DEF Combinations
  <1> DEFINE rel == [c.rel EXCEPT ![k] = h]
  <1> HIDE DEF V, c, rows, f, rs
  <1>8. rel \in [DOMAIN rs -> UNION {V(l) : l \in DOMAIN rs}] /\ \A l \in DOMAIN rs : rel[l] \in V(l)
    BY <1>1, <1>4, <1>7
  <1>9. rel[k] = h /\ k \in DOMAIN rel
    BY <1>1, <1>7
  <1> HIDE DEF rel
  <1>10. rel \in Combinations(m)
    BY <1>6, <1>8, Zenon DEF Combinations, V, rs
  <1> DEFINE e == [main |-> m, rel |-> rel]
  <1>11. e \in [main : {m}, rel : Combinations(m)] /\ e.main = m /\ e.rel = rel
    BY <1>10
  <1> HIDE DEF e
  <1>12. e \in Join
    BY <1>5, <1>11 DEF Join
  <1>13. PICK j \in DOMAIN results : results[j] = e
    BY <1>12 DEF JoinShown
  <1>14. h # 0
    <2>1. rows \in Seq(Range(rows))
      BY <1>1, ContextRelationships, ReadsAssumption DEF rows, rs
    <2>2. QED BY <1>2, <2>1
  <1>15. RelatedRow(k, j) = rows[h]
    BY <1>9, <1>11, <1>13, <1>14 DEF RelatedRow, rows, f
  <1>16. QED BY <1>2, <1>6, <1>11, <1>13, <1>15 DEF c

\* What is gathered up to a result are related rows of results up to it, all
\* that are not empty.
LEMMA Gathered ==
  ASSUME NEW k, NEW i \in Nat
  PROVE  LET set == FieldResultSet(k, i)
         IN /\ set \in Seq({RelatedRow(k, j) : j \in 1 .. i})
            /\ \A j \in 1 .. i : ~IsEmpty(RelatedRow(k, j)) => RelatedRow(k, j) \in Range(set)
  <1> DEFINE S == {RelatedRow(k, j) : j \in 1 .. i}
             s == [j \in 1 .. i |-> RelatedRow(k, j)]
             set == FieldResultSet(k, i)
  <1>1. s \in Seq(S) /\ DOMAIN s = 1 .. i
    <2>1. s \in [1 .. i -> S]
      OBVIOUS
    <2> HIDE DEF s, S
    <2>2. QED BY <2>1, IsSequence
  <1>2. set = Picked(s, Appended(k, i))
    BY Zenon DEF FieldResultSet
  <1>3. \A j \in 1 .. i : s[j] = RelatedRow(k, j)
    OBVIOUS
  <1> HIDE DEF s, S
  <1>4. set \in Seq(S) /\ Range(set) = {s[j] : j \in Appended(k, i) \cap DOMAIN s}
    <2> HIDE DEF set
    <2>1. QED BY <1>1, <1>2, PickedElements
  <1>5. ASSUME NEW j \in 1 .. i, ~IsEmpty(RelatedRow(k, j))
        PROVE  RelatedRow(k, j) \in Range(set)
    <2> DEFINE H == {h \in 1 .. i : ContainsResults(k, h) /\ RelatedRow(k, h) = RelatedRow(k, j)}
    <2>1. ContainsResults(k, j)
      <3>1. j \in 1 .. j
        OBVIOUS
      <3>2. QED BY <1>5, <3>1, Zenon DEF ContainsResults
    <2>2. j \in H /\ H \subseteq Nat
      BY <2>1
    <2>3. PICK h \in H : \A g \in H : h <= g
      <3> HIDE DEF H
      <3>1. QED BY <2>2, Least
    <2>4. ASSUME NEW g \in 1 .. h - 1, ContainsResults(k, g)
          PROVE  RelatedRow(k, g) # RelatedRow(k, h)
      <3>1. g \in 1 .. i /\ ~(h <= g)
        OBVIOUS
      <3>2. g \notin H
        BY <2>3, <3>1
      <3>3. RelatedRow(k, h) = RelatedRow(k, j)
        OBVIOUS
      <3>4. QED BY <2>4, <3>1, <3>2, <3>3
    <2>5. h \in Appended(k, i)
      BY <2>4 DEF Appended
    <2>6. h \in DOMAIN s /\ s[h] = RelatedRow(k, j)
      BY <1>1, <1>3
    <2>7. QED BY <1>4, <2>5, <2>6
  <1>6. QED BY <1>4, <1>5 DEF S

\* The formatter shows the unique id of a row under the name id.
LEMMA IdShown ==
  ASSUME Input, NEW d \in DOMAIN tds, ShowsId(tds[d]), NEW row
  PROVE  /\ "id" \in DOMAIN Formatted(tds[d], row) /\ Formatted(tds[d], row)["id"] = Lookup(row, "id")
         /\ Normalized(tds[d], row) = Lookup(row, "id")
  <1> DEFINE td == tds[d]
  <1>1. PICK j \in PlainFields(td) : FromColumn(td.fields[j]) = "id"
    BY DEF ShowsId
  <1> DEFINE f == td.fields[j]
  <1>2. td.uniqueId = "id" /\ td.optionName # "id" /\ Plain(td)
    BY DEF ShowsId
  <1>3. ShownAs(td, f) = "id"
    BY <1>1, <1>2 DEF ShownAs
  <1>4. ValueOf(td, f, row) = Lookup(row, "id")
    BY <1>1, <1>2 DEF ValueOf
  <1>5. "id" \in DOMAIN Formatted(td, row) /\ Formatted(td, row)["id"] = ValueOf(td, f, row)
    BY <1>2, <1>3, FieldShown
  <1>6. Normalized(td, row) = Lookup(Formatted(td, row), "id")
    BY <1>2 DEF Normalized
  <1> HIDE DEF td, f
  <1>7. Lookup(Formatted(td, row), "id") = Formatted(td, row)["id"]
    BY <1>5 DEF Lookup
  <1>8. QED BY <1>4, <1>5, <1>6, <1>7 DEF td

\* The id that a client is told of what is shown of a related row.
IdOf(x) == IF ctx.denormalize THEN Lookup(x, "id") ELSE x

\* It is the unique id of the row.
LEMMA IdTold ==
  ASSUME Input, NEW d \in DOMAIN tds, ShowsId(tds[d]), NEW row
  PROVE  /\ IdOf(Resolve(tds[d], row)) = Lookup(row, "id")
         /\ \A f : f.foreign = "id" => Told(f, tds[d], row) = Lookup(row, "id")
  <1> DEFINE td == tds[d]
             shown == Formatted(td, row)
  <1>1. "id" \in DOMAIN shown /\ shown["id"] = Lookup(row, "id") /\ Normalized(td, row) = Lookup(row, "id")
    BY IdShown
  <1>2. Lookup(shown, "id") = Lookup(row, "id")
    <2> HIDE DEF shown
    <2>1. QED BY <1>1 DEF Lookup
  <1>3. IdOf(Resolve(td, row)) = IF ctx.denormalize THEN Lookup(shown, "id") ELSE Normalized(td, row)
    BY DEF IdOf, Resolve
  <1>4. \A f : Told(f, td, row) = IF ctx.denormalize THEN Lookup(shown, f.foreign) ELSE Normalized(td, row)
    BY DEF Told
  <1> HIDE DEF td, shown
  <1>5. QED BY <1>1, <1>2, <1>3, <1>4 DEF td

\* The rows of a related table have a unique id, and the row that refers to them
\* has the local column.
LEMMA RowsHaveColumns ==
  ASSUME Listing, NEW k \in DOMAIN Relationships(Descriptor), NEW i \in DOMAIN results
  PROVE  LET f == Relationships(Descriptor)[k]
             td == DescriptorOfTable(tds, f.withTable)
         IN /\ f.local \in DOMAIN Row(i)
            /\ \E d \in DOMAIN tds : td = tds[d]
            /\ \A r \in Range(Database[f.withTable]) : td.uniqueId \in DOMAIN r
  <1>1. /\ "table" \in DOMAIN ctx /\ results[i] \in Join /\ IInv /\ Input
    BY ListingShowsJoin DEF Listing, QueryInv, IInv, JoinShown
  <1>2. PICK d \in DOMAIN tds : Descriptor = tds[d] /\ tds[d].table = ctx.table
    BY <1>1, ContextHasDescriptor
  <1>3. PICK q : FromFields(q, tds[d])
    BY <1>1, RelationshipsFromFields
  <1> DEFINE f == tds[d].fields[q[k]]
  <1>4. Relationships(Descriptor)[k] = f /\ q[k] \in DOMAIN tds[d].fields /\ IsRelationship(f)
    BY <1>2, <1>3 DEF FromFields
  <1>5. RelatesTables(f, tds[d], tds)
    BY <1>1, <1>4, ReadsAssumption, Zenon DEF Input
  <1> HIDE DEF f
  <1>6. PICK e \in DOMAIN tds : tds[e].table = f.withTable
    BY <1>5 DEF RelatesTables
  <1>7. WithTable(tds, f.withTable) # {}
    BY <1>6 DEF WithTable
  <1>8. PICK o \in DOMAIN tds : DescriptorOfTable(tds, f.withTable) = tds[o] /\ tds[o].table = f.withTable
    BY <1>1, <1>7, TableHasDescriptor
  <1>9. \A r \in Range(Database[tds[o].table]) : tds[o].uniqueId \in DOMAIN r
    BY <1>1, ReadsAssumption, Zenon DEF Input
  <1>10. f.local \in DOMAIN Row(i)
    <2>1. results[i].main \in DOMAIN Database[ctx.table]
      BY <1>1, JoinOnlySelected
    <2>2. Row(i) \in Range(Database[tds[d].table])
      BY <1>2, <2>1 DEF Row, Range
    <2>3. QED BY <1>5, <2>2 DEF RelatesTables
  <1>11. QED BY <1>4, <1>8, <1>9, <1>10

\* A list tells the ids of what has been gathered.
LEMMA ListTellsIds ==
  ASSUME Listing, Plain(Descriptor), NEW k \in DOMAIN Relationships(Descriptor),
         Relationships(Descriptor)[k].kind = "oneToMany",
         ShowsId(DescriptorOfTable(tds, Relationships(Descriptor)[k].withTable)),
         NEW i \in DOMAIN answer.items
  PROVE  {IdOf(x) : x \in Range(answer.items[i][Relationships(Descriptor)[k].key])}
           = {Lookup(row, "id") : row \in Range(FieldResultSet(k, i))}
  <1> DEFINE f == Relationships(Descriptor)[k]
             td == DescriptorOfTable(tds, f.withTable)
             set == FieldResultSet(k, i)
             shown == answer.items[i][f.key]
  <1>1. "table" \in DOMAIN ctx /\ i \in DOMAIN results /\ answer.items[i] = Item(i) /\ IInv /\ Input
    BY ListingShowsJoin DEF Listing, QueryInv, IInv, JoinShown
  <1>2. PICK d \in DOMAIN tds : Descriptor = tds[d]
    BY <1>1, ContextHasDescriptor
  <1>3. IsShown(k, i) /\ IsList(k, i)
    BY DEF IsShown, IsList
  <1>4. shown = Resolved(k, i)
    BY <1>1, <1>2, <1>3, RelationshipShown
  <1>5. Resolved(k, i) = [j \in DOMAIN set |-> Resolve(td, set[j])]
    BY <1>3 DEF Resolved
  <1>6. PICK e \in DOMAIN tds : td = tds[e]
    BY <1>1, RowsHaveColumns
  <1>7. \A row : IdOf(Resolve(td, row)) = Lookup(row, "id")
    BY <1>1, <1>6, IdTold
  <1> HIDE DEF td, set, shown, f
  <1>8. Range(shown) = {Resolve(td, set[j]) : j \in DOMAIN set}
    BY <1>4, <1>5 DEF Range
  <1>9. Range(set) = {set[j] : j \in DOMAIN set}
    BY DEF Range
  <1>10. {IdOf(x) : x \in Range(shown)} = {IdOf(Resolve(td, set[j])) : j \in DOMAIN set}
    BY <1>8
  <1>11. {IdOf(Resolve(td, set[j])) : j \in DOMAIN set} = {Lookup(set[j], "id") : j \in DOMAIN set}
    BY <1>7
  <1>12. QED BY <1>9, <1>10, <1>11 DEF shown, set, f

\* NULLs have no id.
LEMMA NullRowHasNoId == \A table : Lookup(NullRow(table), "id") = Null
  BY DEF Lookup, NullRow

\* Of empty rows, the id is none.
LEMMA EmptyHasNoId ==
  ASSUME NEW row, IsEmpty(row)
  PROVE  Lookup(row, "id") \in {Null, ""}
  BY DEF IsEmpty, Lookup

\* Every related row is told by one of the items of its resource, ...
LEMMA ListComplete ==
  ASSUME Listing, Plain(Descriptor), NEW k \in DOMAIN Relationships(Descriptor),
         Relationships(Descriptor)[k].kind = "oneToMany",
         ShowsId(DescriptorOfTable(tds, Relationships(Descriptor)[k].withTable)),
         NEW i \in DOMAIN answer.items, NEW r \in RelatedTo(Relationships(Descriptor)[k], i)
  PROVE  \E j \in DOMAIN answer.items :
           /\ results[j].main = results[i].main
           /\ r["id"] \in {IdOf(x) : x \in Range(answer.items[j][Relationships(Descriptor)[k].key])}
  <1> DEFINE f == Relationships(Descriptor)[k]
  <1>1. "table" \in DOMAIN ctx /\ JoinShown /\ IInv
    BY ListingShowsJoin DEF Listing, QueryInv
  <1>2. DOMAIN answer.items = DOMAIN results /\ \A j \in DOMAIN results : j \in Nat /\ j \in 1 .. j
    BY <1>1 DEF JoinShown
  <1>3. r \in PartnerRows(f, i) /\ r \in Range(Database[f.withTable]) /\ ~IsEmpty(r)
    BY DEF RelatedTo, PartnerRows
  <1>4. PICK j \in DOMAIN results : results[j].main = results[i].main /\ RelatedRow(k, j) = r
    BY <1>1, <1>2, <1>3, ResultRepeated
  <1>5. r \in Range(FieldResultSet(k, j))
    BY <1>2, <1>3, <1>4, Gathered
  <1>6. "id" \in DOMAIN r
    <2>1. DescriptorOfTable(tds, f.withTable).uniqueId = "id"
      BY DEF ShowsId
    <2>2. QED BY <1>2, <1>3, <2>1, RowsHaveColumns
  <1>7. r["id"] = Lookup(r, "id")
    BY <1>6 DEF Lookup
  <1>8. {IdOf(x) : x \in Range(answer.items[j][f.key])} = {Lookup(row, "id") : row \in Range(FieldResultSet(k, j))}
    BY <1>2, ListTellsIds
  <1> HIDE DEF f
  <1>9. r["id"] \in {IdOf(x) : x \in Range(answer.items[j][f.key])}
    BY <1>5, <1>7, <1>8
  <1>10. QED BY <1>2, <1>4, <1>9 DEF f

\* ... and only rows that this item or an earlier one is related to are told.
LEMMA ListSound ==
  ASSUME Listing, Plain(Descriptor), NEW k \in DOMAIN Relationships(Descriptor),
         Relationships(Descriptor)[k].kind = "oneToMany",
         ShowsId(DescriptorOfTable(tds, Relationships(Descriptor)[k].withTable)),
         NEW i \in DOMAIN answer.items
  PROVE  {IdOf(x) : x \in Range(answer.items[i][Relationships(Descriptor)[k].key])}
           \subseteq {Null, ""} \cup
                     UNION {{r["id"] : r \in RelatedTo(Relationships(Descriptor)[k], j)} : j \in 1 .. i}
  <1> DEFINE f == Relationships(Descriptor)[k]
             told(j) == {r["id"] : r \in RelatedTo(f, j)}
             set == FieldResultSet(k, i)
  <1>1. "table" \in DOMAIN ctx /\ JoinShown /\ IInv
    BY ListingShowsJoin DEF Listing, QueryInv
  <1>2. /\ DOMAIN answer.items = DOMAIN results /\ i \in Nat
        /\ \A j \in 1 .. i : j \in DOMAIN results
    BY <1>1 DEF JoinShown
  <1>3. {IdOf(x) : x \in Range(answer.items[i][f.key])} = {Lookup(row, "id") : row \in Range(set)}
    BY ListTellsIds
  <1>4. ASSUME NEW row \in Range(set)
        PROVE  Lookup(row, "id") \in {Null, ""} \cup UNION {told(j) : j \in 1 .. i}
    <2>1. PICK j \in 1 .. i : row = RelatedRow(k, j)
      <3>1. set \in Seq({RelatedRow(k, j) : j \in 1 .. i})
        BY <1>2, Gathered
      <3> HIDE DEF set
      <3>2. row \in {RelatedRow(k, j) : j \in 1 .. i}
        BY <3>1, ElementOfSeq DEF Range
      <3>3. QED BY <3>2
    <2>2. \/ row \in PartnerRows(f, j)
          \/ row = NullRow(f.withTable)
      BY <1>1, <1>2, <2>1, RelatedRowIs
    <2>3. CASE IsEmpty(row)
      BY <2>3, EmptyHasNoId
    <2>4. CASE row = NullRow(f.withTable)
      BY <2>4, NullRowHasNoId
    <2>5. CASE row \in PartnerRows(f, j) /\ ~IsEmpty(row)
      <3>1. row \in RelatedTo(f, j) /\ row \in Range(Database[f.withTable])
        BY <2>5 DEF PartnerRows, RelatedTo
      <3>2. "id" \in DOMAIN row
        <4>1. DescriptorOfTable(tds, f.withTable).uniqueId = "id"
          BY DEF ShowsId
        <4>2. QED BY <1>2, <3>1, <4>1, RowsHaveColumns
      <3>3. Lookup(row, "id") = row["id"]
        BY <3>2 DEF Lookup
      <3>4. Lookup(row, "id") \in told(j)
        BY <3>1, <3>3
      <3> HIDE DEF told
      <3>5. QED BY <3>4
    <2>6. QED BY <2>2, <2>3, <2>4, <2>5
  <1> HIDE DEF set
  <1>5. QED BY <1>3, <1>4

\* The unique id of a row is not the empty text.
HasId(r) == r["id"] # ""

\* A reference by unique id is shown as the row it refers to.
LEMMA ReferenceShown ==
  ASSUME Listing, Plain(Descriptor), NEW k \in DOMAIN Relationships(Descriptor),
         Relationships(Descriptor)[k].kind # "oneToMany", Relationships(Descriptor)[k].foreign = "id",
         ShowsId(DescriptorOfTable(tds, Relationships(Descriptor)[k].withTable)),
         NEW i \in DOMAIN answer.items, NEW r \in RelatedTo(Relationships(Descriptor)[k], i), HasId(r)
  PROVE  LET n == Relationships(Descriptor)[k].key
         IN n \in DOMAIN answer.items[i] /\ IdOf(answer.items[i][n]) = r["id"]
  <1> DEFINE f == Relationships(Descriptor)[k]
             td == DescriptorOfTable(tds, f.withTable)
             set == FieldResultSet(k, i)
             own == RelatedRow(k, i)
  <1>1. "table" \in DOMAIN ctx /\ JoinShown /\ IInv /\ Input
    BY ListingShowsJoin DEF Listing, QueryInv, IInv
  <1>2. /\ DOMAIN answer.items = DOMAIN results /\ i \in Nat /\ i \in 1 .. i
        /\ answer.items[i] = Item(i)
    <2>1. DOMAIN answer.items = DOMAIN results /\ i \in Nat /\ answer.items[i] = Item(i) /\ 1 <= i
      BY <1>1 DEF JoinShown
    <2>2. QED BY <2>1
  <1>3. r \in PartnerRows(f, i)
    BY DEF RelatedTo, PartnerRows
  <1>4. own \in PartnerRows(f, i)
    BY <1>1, <1>2, <1>3, RelatedRowIs
  <1>5. /\ own["id"] = Row(i)[f.local] /\ r["id"] = Row(i)[f.local] /\ Row(i)[f.local] # Null
        /\ own \in Range(Database[f.withTable])
    BY <1>3, <1>4 DEF PartnerRows, Equal
  <1>6. /\ f.local \in DOMAIN Row(i) /\ "id" \in DOMAIN own /\ \E d \in DOMAIN tds : td = tds[d]
    <2>1. td.uniqueId = "id"
      BY DEF ShowsId
    <2>2. QED BY <1>2, <1>5, <2>1, RowsHaveColumns
  <1>7. Lookup(own, "id") = own["id"] /\ Lookup(Row(i), f.local) = Row(i)[f.local] /\ ~IsEmpty(own)
    BY <1>5, <1>6 DEF Lookup, IsEmpty, HasId
  <1>8. own \in Range(set)
    BY <1>2, <1>7, Gathered
  <1>9. PICK d \in DOMAIN tds : td = tds[d]
    BY <1>6
  <1>10. \A row : IdOf(Resolve(td, row)) = Lookup(row, "id") /\ Told(f, td, row) = Lookup(row, "id")
    BY <1>1, <1>9, IdTold
  <1>11. set # <<>> /\ Referred(k, i) = {j \in DOMAIN set : Told(f, td, set[j]) = Lookup(Row(i), f.local)}
    <2>1. Referred(k, i) = {j \in DOMAIN set : Told(f, td, set[j]) = Lookup(Row(i), f.local)}
      BY DEF Referred
    <2> HIDE DEF set, td, f, own
    <2>2. set # <<>>
      BY <1>8 DEF Range
    <2>3. QED BY <2>1, <2>2
  <1>12. Referred(k, i) # {}
    <2>1. PICK j \in DOMAIN set : set[j] = own
      <3> HIDE DEF set
      <3>1. QED BY <1>8 DEF Range
    <2> HIDE DEF set, td, f, own
    <2>2. j \in Referred(k, i)
      BY <1>5, <1>7, <1>10, <1>11, <2>1
    <2>3. QED BY <2>2
  <1>13. Max(Referred(k, i)) \in Referred(k, i)
    <2> DEFINE S == {RelatedRow(k, j) : j \in 1 .. i}
    <2>1. set \in Seq(S)
      BY <1>2, Gathered
    <2> HIDE DEF S, set, td, f
    <2>2. Len(set) \in Nat /\ DOMAIN set = 1 .. Len(set)
      BY <2>1
    <2>3. Referred(k, i) \subseteq 0 .. Len(set)
      BY <1>11, <2>2
    <2>4. \E m \in Referred(k, i) : \A j \in Referred(k, i) : j <= m
      BY <1>12, <2>2, <2>3, Greatest
    <2>5. QED BY <2>4 DEF Max
  <1>14. IsShown(k, i) /\ ~IsList(k, i)
    BY <1>11, <1>12 DEF IsShown, IsList
  <1>15. PICK e \in DOMAIN tds : Descriptor = tds[e]
    BY <1>1, ContextHasDescriptor
  <1>16. f.key \in DOMAIN answer.items[i] /\ answer.items[i][f.key] = Resolved(k, i)
    BY <1>1, <1>2, <1>14, <1>15, RelationshipShown
  <1>17. Resolved(k, i) = Resolve(td, set[Max(Referred(k, i))])
    BY <1>14 DEF Resolved
  <1>18. IdOf(Resolved(k, i)) = r["id"]
    <2> HIDE DEF set, td, f, own
    <2>1. Told(f, td, set[Max(Referred(k, i))]) = Lookup(Row(i), f.local)
      BY <1>11, <1>13
    <2>2. QED BY <1>5, <1>7, <1>10, <1>17, <2>1
  <1> HIDE DEF f
  <1>19. QED BY <1>16, <1>18 DEF f

\* For any descriptors with keys and tables of their own, any rows and any way
\* in which they are related: although the rows of a join are repeated, and each
\* shows what was gathered up to it, every related row is told by an item of its
\* resource, none is told before a resource is related to it, and a reference by
\* unique id is shown as the row it refers to (db.go:209-241,
\* jsonForWorkflowAccelerator.go:164-288).
THEOREM RelatedShownByIdTheorem == Spec => []RelatedShownById
  <1>1. QueryInv => RelatedShownById
    <2> SUFFICES ASSUME QueryInv, Ok("GetCollection") \/ Ok("GetSingle"), DistinctKeys,
                        DistinctTables, Plain(Descriptor), NEW k \in DOMAIN Relationships(Descriptor),
                        ShowsId(DescriptorOfTable(tds, Relationships(Descriptor)[k].withTable)),
                        NEW i \in DOMAIN answer.items
                 PROVE  LET f == Relationships(Descriptor)[k]
                            ids(j) == {IdOf(x) : x \in Range(answer.items[j][f.key])}
                        IN IF f.kind = "oneToMany"
                           THEN /\ \A r \in RelatedTo(f, i) : \E j \in DOMAIN answer.items :
                                     results[j].main = results[i].main /\ r["id"] \in ids(j)
                                /\ ids(i) \subseteq
                                     {Null, ""} \cup UNION {{r["id"] : r \in RelatedTo(f, j)} : j \in 1 .. i}
                           ELSE f.foreign = "id" => \A r \in RelatedTo(f, i) :
                                  r["id"] # "" => /\ f.key \in DOMAIN answer.items[i]
                                                  /\ IdOf(answer.items[i][f.key]) = r["id"]
      BY Zenon DEF RelatedShownById, IdOf
    <2>1. Listing
      BY DEF Listing
    <2>2. CASE Relationships(Descriptor)[k].kind = "oneToMany"
      BY <2>1, <2>2, ListComplete, ListSound, Zenon
    <2>3. CASE Relationships(Descriptor)[k].kind # "oneToMany"
      BY <2>1, <2>3, ReferenceShown, Zenon DEF HasId
    <2>4. QED BY <2>2, <2>3
  <1>2. QED BY <1>1, QueryHolds, PTL
=============================================================================
