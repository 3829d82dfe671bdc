--------------------------------- MODULE Reads ---------------------------------
(***************************************************************************)
(* One request from its route to its answer: the routes (Routes), the      *)
(* middleware in the order of internal/app/server/server.go, and the GET   *)
(* handlers of internal/app/backend: getCollection.go,                     *)
(* getCollectionAsOptions.go, getSingleAsOption.go and getSingle.go, with  *)
(* the descriptors (Descriptors), the statements of the database           *)
(* (Dialects), their arguments (QueryArgs) and the formatter.  A request   *)
(* that changes something is followed until its handler has its context;   *)
(* Resources and Transactions take it from there.                          *)
(*                                                                         *)
(* The rows of a table are those of the database when the query is         *)
(* evaluated.  The route of a collection, or of one row, gets the rows of  *)
(* a join: each of its results shows one row and, for each relationship,   *)
(* what deduplicateSingleResource has gathered up to it.  Every          *)
(* relationship of a descriptor is with another table: the templates give  *)
(* the tables they join no alias.                                          *)
(***************************************************************************)
EXTENDS Descriptors, Routes, Dialects, QueryArgs, FiniteSets

CONSTANTS
  TypeDescriptors,  \* descriptors the connector may be started with
  Database,         \* Database[t]: the rows of t, in the order of their unique ids
  RequestsMade,     \* requests: [method, path, params, authorized]
  Drivers,          \* the databases in use
  HasText,          \* HasText[v, w]: a name v contains the text w
  Limit             \* how many options are listed at most (42)

\* A relationship of td is with another table, and no column is called like it.
RelatesTables(f, td, ds) ==
  /\ f.withTable \in {ds[j].table : j \in DOMAIN ds} \ {td.table}
  /\ f.type # "money" /\ f.columns[1] = ""
  /\ \A row \in Range(Database[td.table]) : f.local \in DOMAIN row /\ f.key \notin DOMAIN row

ASSUME ReadsAssumption ==
  /\ \A ds \in TypeDescriptors :
       /\ ds \in Seq(Range(ds))
       /\ \A i \in DOMAIN ds :
            /\ ds[i].table \in DOMAIN Database
            /\ ds[i].uniqueId # "" /\ AreFields(ds[i].fields)
            /\ \A row \in Range(Database[ds[i].table]) : ds[i].uniqueId \in DOMAIN row
            /\ \A k \in DOMAIN ds[i].fields :
                 LET f == ds[i].fields[k]
                 IN /\ f.columns \in Seq(Range(f.columns)) /\ Len(f.columns) = Len(f.keys)
                    /\ IsRelationship(f) => RelatesTables(f, ds[i], ds)
  /\ \A t \in DOMAIN Database : Database[t] \in Seq(Range(Database[t]))
  /\ \A r \in RequestsMade : r.path \in Seq(Range(r.path)) /\ Null \notin Range(r.path)
  /\ Drivers \subseteq {"sqlite", "mysql", "postgres", "oracle"}
  /\ Limit \in Nat

VARIABLES
  tds,      \* the descriptors
  driver,
  req,      \* the request
  pc,       \* what is called next
  ctx,      \* the values RequestInjector put into the context
  args,     \* the arguments of the statement
  results,  \* what the query returned: rows, or how rows were joined
  answer    \* [code, items]

vars == <<tds, driver, req, pc, ctx, args, results, answer>>
input == <<tds, driver, req>>

NoContext == [route |-> "none"]
NoAnswer == [code |-> "none", items |-> <<>>]

\* With a descriptor that is not sane the connector does not start.
Init ==
  /\ tds \in TypeDescriptors /\ driver \in Drivers /\ req \in RequestsMade
  /\ \A i \in DOMAIN tds : Sane(tds[i])
  /\ pc = "route" /\ ctx = NoContext /\ args = <<>> /\ results = <<>>
  /\ answer = NoAnswer

Goto(l) == pc' = l /\ UNCHANGED answer
Reply(code, items) == pc' = "done" /\ answer' = [code |-> code, items |-> items]

-----------------------------------------------------------------------------
(* Routing and middleware.                                                 *)

\* Only a request that has a route passes through the middleware.
MatchRoute ==
  /\ pc = "route"
  /\ IF Routed(req) THEN Goto("BasicAuth") ELSE Reply("404 or 405", <<>>)
  /\ UNCHANGED <<input, ctx, args, results>>

BasicAuth ==
  /\ pc = "BasicAuth"
  /\ IF req.authorized THEN Goto("RouteChecker") ELSE Reply("401", <<>>)
  /\ UNCHANGED <<input, ctx, args, results>>

Table == Var(req, "{table}", Null)
Denormalize == "$denormalize" \in DOMAIN req.params

RouteChecker ==
  /\ pc = "RouteChecker"
  /\ IF Table = Null \/ TableOfKey(tds, Table) # Null
     THEN Goto("RequestInjector") ELSE Reply("404", <<>>)
  /\ UNCHANGED <<input, ctx, args, results>>

\* Mutant of Context: the key is taken for the table.
ContextKeyAsTable ==
  LET td == DescriptorOfKey(tds, Table)
  IN [route |-> RouteOf(req).name, id |-> Var(req, "{id}", Null),
      tx |-> QueryVar(req, "tx", Null), denormalize |-> Denormalize,
      table |-> Table,
      optionName |-> td.optionName, uniqueId |-> td.uniqueId,
      relationships |-> Relationships(td)]

\* Mutant of Context: the descriptor is looked up by its table.
ContextByTable ==
  LET td == DescriptorOfTable(tds, TableOfKey(tds, Table))
  IN [route |-> RouteOf(req).name, id |-> Var(req, "{id}", Null),
      tx |-> QueryVar(req, "tx", Null), denormalize |-> Denormalize,
      table |-> td.table,
      optionName |-> td.optionName, uniqueId |-> td.uniqueId,
      relationships |-> Relationships(td)]

\* The context of a request for a table.  The table is that of the first
\* descriptor with the key, all else is of the last.
Context ==
  LET td == DescriptorOfKey(tds, Table)
  IN [route |-> RouteOf(req).name, id |-> Var(req, "{id}", Null),
      tx |-> QueryVar(req, "tx", Null), denormalize |-> Denormalize,
      table |-> TableOfKey(tds, Table),
      optionName |-> td.optionName, uniqueId |-> td.uniqueId,
      relationships |-> Relationships(td)]

Reading == {"GetSingle", "GetSingleAsOption", "GetCollection", "GetCollectionAsOptions"}

RequestInjector ==
  /\ pc = "RequestInjector"
  /\ ctx' = IF Table = Null THEN [route |-> RouteOf(req).name] ELSE Context
  /\ Goto(IF RouteOf(req).name \in Reading THEN "Interpolate" ELSE "Handler")
  /\ UNCHANGED <<input, args, results>>

\* The descriptor file, the transactions and the statements.
Handler ==
  /\ pc = "Handler"
  /\ Reply("handled", <<>>)
  /\ UNCHANGED <<input, ctx, args, results>>

-----------------------------------------------------------------------------
(* The handlers of the GET routes.                                         *)

\* What handlers and formatter take for the descriptor of the table.
Descriptor == DescriptorOfTable(tds, ctx.table)

\* GetColumnNamesFromRequestData: the columns of the keys that were sent.
Columns ==
  LET fields == Descriptor.fields
  IN FlattenSeq([i \in DOMAIN fields |-> Picked(fields[i].columns, Sent(fields[i], req.params))])

\* "%" without a filter.
Filter == IF "filter" \in DOMAIN req.params THEN req.params.filter ELSE "%"

\* Mutant of Arguments: the filter comes last.
ArgumentsFilterLast ==
  IF ctx.route \in {"GetSingle", "GetSingleAsOption"} THEN <<ctx.id>>
  ELSE IF ctx.route = "GetCollection" THEN Args(Descriptor.fields, req.params)
  ELSE Append(Args(Descriptor.fields, req.params), Filter)

Arguments ==
  IF ctx.route \in {"GetSingle", "GetSingleAsOption"} THEN <<ctx.id>>
  ELSE IF ctx.route = "GetCollection" THEN Args(Descriptor.fields, req.params)
  ELSE <<Filter>> \o Args(Descriptor.fields, req.params)

ById == ctx.route \in {"GetSingle", "GetSingleAsOption"}
ForOptions == ctx.route \in {"GetSingleAsOption", "GetCollectionAsOptions"}
StatementColumns == IF ById THEN <<>> ELSE Columns

\* The template is executed and the arguments are coerced.  A format function
\* that is not there makes the execution fail, or the handler panic: it
\* depends on the Go the connector was built with.  sqlite's coercion does not
\* look at dates.
Coerced == driver = "sqlite" \/ ~CoerceFails(Descriptor.fields, req.params)
Interpolate ==
  /\ pc = "Interpolate"
  /\ \/ /\ ~Renders(driver, ctx.route, StatementColumns)
        /\ \E code \in {"400", "500"} : Reply(code, <<>>)
        /\ UNCHANGED args
     \/ /\ Renders(driver, ctx.route, StatementColumns)
        /\ ~ById /\ ~Coerced
        /\ Reply("400", <<>>) /\ UNCHANGED args
     \/ /\ Renders(driver, ctx.route, StatementColumns)
        /\ ById \/ Coerced
        /\ args' = Arguments /\ Goto("Query")
  /\ UNCHANGED <<input, ctx, results>>

\* The WHERE clause.  NULL equals nothing and is like nothing.
Equal(v, w) == v # Null /\ w # Null /\ v = w
Like(v, w) == v # Null /\ (w = "%" \/ HasText[v, w])
Conditions ==
  IF ctx.route = "GetCollection" THEN CollectionConditions(driver, Columns)
  ELSE OptionsConditions(driver, Columns)
Selected(row) ==
  IF ById THEN Equal(row[ctx.uniqueId], args[1])
  ELSE /\ ctx.route = "GetCollectionAsOptions" => Like(row[ctx.optionName], args[1])
       /\ \A i \in DOMAIN Conditions :
            LET c == Conditions[i] IN Equal(row[c.column], args[c.arg])

\* The database refuses what is no SQL, a column that is not there, and
\* another number of arguments than of placeholders.
QueryAccepted ==
  /\ IsSQL(driver, ctx.route, StatementColumns, ctx.relationships # <<>>)
  /\ \A i \in DOMAIN StatementColumns : StatementColumns[i] # ""
  /\ Len(args) = IF ctx.route = "GetCollection" THEN Len(Columns) ELSE Len(StatementColumns) + 1

\* The orders in which the rows of options may come; without ORDER BY, any.
Orders(rows) ==
  IF Ordered(driver) \/ ById THEN {rows}
  ELSE {[i \in DOMAIN rows |-> rows[p[i]]] : p \in SetToSeqs(DOMAIN rows)}

\* queryContextForOptionRoutes.  Without a name there is no column to scan.
QueryForOptions ==
  /\ pc = "Query" /\ ForOptions /\ QueryAccepted /\ ctx.optionName # ""
  /\ LET rows == Database[ctx.table]
     IN results' \in Orders(Picked(rows, {i \in DOMAIN rows : Selected(rows[i])}))
  /\ Goto("Format")
  /\ UNCHANGED <<input, ctx, args>>

\* The rows of the related table of f that the i-th row of the table is joined
\* with, by their indices; 0 if a LEFT JOIN finds none.
Partners(f, i) ==
  {j \in DOMAIN Database[f.withTable] :
     Equal(Database[f.withTable][j][f.foreign], Database[ctx.table][i][f.local])}
OrNone(S) == IF S = {} THEN {0} ELSE S
Combinations(i) ==
  LET rs == ctx.relationships
  IN {c \in [DOMAIN rs -> UNION {OrNone(Partners(rs[k], i)) : k \in DOMAIN rs}] :
        \A k \in DOMAIN rs : c[k] \in OrNone(Partners(rs[k], i))}

\* The rows of the statement: every selected row once for every combination of
\* related rows.
Join ==
  LET rows == Database[ctx.table]
  IN UNION {[main : {i}, rel : Combinations(i)] : i \in {i \in DOMAIN rows : Selected(rows[i])}}
InOrder(joined) == \A i, j \in DOMAIN joined : i < j => joined[i].main <= joined[j].main

\* The columns of the rows are those of the join with the relationships of the
\* descriptor of the table, which the startup read: if the statement joins
\* other tables, the first row cannot be scanned, and if that descriptor has no
\* relationships, there are no columns, and the handler dereferences nil.
Scannable ==
  LET read == Relationships(Descriptor)
  IN /\ Len(read) = Len(ctx.relationships)
     /\ \A k \in DOMAIN read : read[k].withTable = ctx.relationships[k].withTable
Panics == ~ForOptions /\ ctx.relationships # <<>> /\ Relationships(Descriptor) = <<>>

\* queryContextForNonOptionRoutes.  Nothing orders the rows that one row is
\* joined with, nor those of one id.
Query ==
  /\ pc = "Query" /\ ~ForOptions /\ QueryAccepted /\ ~Panics
  /\ Join = {} \/ ctx.relationships = <<>> \/ Scannable
  /\ results' \in {joined \in Bijection(1 .. Cardinality(Join), Join) :
                     Ordered(driver) /\ ctx.route = "GetCollection" => InOrder(joined)}
  /\ Goto("Format")
  /\ UNCHANGED <<input, ctx, args>>

\* An error of the statement or of the scan, or the handler's panic, which the
\* server's Recovery answers.
QueryFails ==
  /\ pc = "Query" /\ Reply("500", <<>>)
  /\ UNCHANGED <<input, ctx, args, results>>

-----------------------------------------------------------------------------
(* deduplicateSingleResource and the formatter.  The i-th result shows     *)
(* Row(i), and RelatedRow(k, i) is what it has of the table of the k-th    *)
(* relationship: a row, or as many NULLs.                                  *)

Row(i) == Database[ctx.table][results[i].main]
NullRow(table) == [c \in UNION {DOMAIN row : row \in Range(Database[table])} |-> Null]
RelatedRow(k, i) ==
  LET table == Relationships(Descriptor)[k].withTable
      rel == results[i].rel
  IN IF k \notin DOMAIN rel \/ rel[k] = 0 THEN NullRow(table) ELSE Database[table][rel[k]]

\* Once a result has a related row, relationshipTableContainsResults stays true
\* for all that follow ...
IsEmpty(row) == \A c \in DOMAIN row : row[c] \in {Null, ""}
ContainsResults(k, i) == \E j \in 1 .. i : ~IsEmpty(RelatedRow(k, j))

\* Mutant of Appended: only the first related row is kept.
AppendedFirst(k, i) ==
  {j \in 1 .. i : ContainsResults(k, j) /\ \A h \in 1 .. j - 1 : ~ContainsResults(k, h)}

\* ... and their related rows, or NULLs, are appended, each once.
Appended(k, i) ==
  {j \in 1 .. i :
     /\ ContainsResults(k, j)
     /\ \A h \in 1 .. j - 1 :
          ContainsResults(k, h) => RelatedRow(k, h) # RelatedRow(k, j)}
FieldResultSet(k, i) == Picked([j \in 1 .. i |-> RelatedRow(k, j)], Appended(k, i))

\* A related row is shown as its unique id, or, if the client asked for it, as
\* its document.  What is compared with the local column is the id, or what the
\* document has under the name of the foreign column.
Resolve(td, row) == IF ctx.denormalize THEN Formatted(td, row) ELSE Normalized(td, row)
Told(f, td, row) ==
  IF ctx.denormalize THEN Lookup(Formatted(td, row), f.foreign) ELSE Normalized(td, row)

\* The related rows a result refers to, by their indices.
Referred(k, i) ==
  LET f == Relationships(Descriptor)[k]
      set == FieldResultSet(k, i)
  IN {j \in DOMAIN set :
        Told(f, DescriptorOfTable(tds, f.withTable), set[j]) = Lookup(Row(i), f.local)}

\* buildAndRecursivelyResolveRelationships: a list, for oneToMany and if there
\* is nothing; otherwise the last row referred to, if any.
IsList(k, i) == FieldResultSet(k, i) = <<>> \/ Relationships(Descriptor)[k].kind = "oneToMany"
IsShown(k, i) == IsList(k, i) \/ Referred(k, i) # {}
Resolved(k, i) ==
  LET td == DescriptorOfTable(tds, Relationships(Descriptor)[k].withTable)
      set == FieldResultSet(k, i)
  IN IF IsList(k, i) THEN [j \in DOMAIN set |-> Resolve(td, set[j])]
     ELSE Resolve(td, set[Max(Referred(k, i))])

\* formatAsAWorkflowType: the relationships come first, and what comes later
\* overwrites what has the same name.
ShownOf(i) == {k \in DOMAIN Relationships(Descriptor) : IsShown(k, i)}
Related(i) ==
  LET rs == Relationships(Descriptor)
  IN [n \in {rs[k].key : k \in ShownOf(i)} |->
        Resolved(Max({k \in ShownOf(i) : rs[k].key = n}), i)]
Item(i) ==
  LET own == Formatted(Descriptor, Row(i))
      related == Related(i)
  IN [n \in DOMAIN own \cup DOMAIN related |-> IF n \in DOMAIN own THEN own[n] ELSE related[n]]
Items == [i \in DOMAIN results |-> Item(i)]
Option(row) == [id |-> row[ctx.uniqueId], name |-> row[ctx.optionName]]

\* Mutant of FirstOptions: one more than the limit.
FirstOptionsOneMore(options) ==
  IF Len(options) > Limit + 1 THEN SubSeq(options, 1, Limit + 1) ELSE options

\* subsetForPerformance
FirstOptions(options) == IF Len(options) > Limit THEN SubSeq(options, 1, Limit) ELSE options

\* The handlers answer with what the formatter makes of the results.
Answers(route, code, items) ==
  /\ pc = "Format" /\ ctx.route = route
  /\ Reply(code, items)
  /\ UNCHANGED <<input, ctx, args, results>>

GetCollection ==
  Answers("GetCollection", "200", Items)

GetCollectionAsOptions ==
  Answers("GetCollectionAsOptions", "200",
          FirstOptions([i \in DOMAIN results |-> Option(results[i])]))

\* A unique id that is not unique: several rows are shown as they are, several
\* options are an error.
GetSingle ==
  IF results = <<>> THEN Answers("GetSingle", "404", <<>>)
  ELSE Answers("GetSingle", "200", Items)

GetSingleAsOption ==
  IF results = <<>> THEN Answers("GetSingleAsOption", "404", <<>>)
  ELSE IF Len(results) > 1 THEN Answers("GetSingleAsOption", "500", <<>>)
  ELSE Answers("GetSingleAsOption", "200", <<Option(results[1])>>)

Next ==
  \/ MatchRoute \/ BasicAuth \/ RouteChecker \/ RequestInjector \/ Handler
  \/ Interpolate \/ QueryForOptions \/ Query \/ QueryFails
  \/ GetCollection \/ GetCollectionAsOptions \/ GetSingle \/ GetSingleAsOption

Spec == Init /\ [][Next]_vars

-----------------------------------------------------------------------------
(* Properties.                                                             *)

Ok(route) == pc = "done" /\ answer.code = "200" /\ ctx.route = route
DistinctKeys == \A i, j \in DOMAIN tds : tds[i].key = tds[j].key => i = j
DistinctTables == \A i, j \in DOMAIN tds : tds[i].table = tds[j].table => i = j

\* The variables have the values their comments say.
TypeOK ==
  /\ tds \in TypeDescriptors /\ driver \in Drivers /\ req \in RequestsMade
  /\ pc \in {"route", "BasicAuth", "RouteChecker", "RequestInjector", "Handler",
             "Interpolate", "Query", "Format", "done"}
  /\ ctx.route \in {"none"} \cup {Routes[i].name : i \in DOMAIN Routes}
  /\ "table" \in DOMAIN ctx =>
       /\ ctx.table \in DOMAIN Database
       /\ Range(results) \subseteq
            IF ForOptions THEN Range(Database[ctx.table])
            ELSE [main : DOMAIN Database[ctx.table], rel : [DOMAIN ctx.relationships -> Nat]]
  /\ results # <<>> => "table" \in DOMAIN ctx
  /\ (answer # NoAnswer) = (pc = "done")

\* No route that was registered earlier takes a request from one that names
\* more of its path: nobody reads the row with the id "options" when he asks
\* for the options (backend.go:37-78, where the order of the calls decides).
\* The queries of the routes are another matter: TxHonoured.
Literals(route) == {i \in DOMAIN route.path : route.path[i] \notin Variables}
MostSpecificRoute ==
  pc # "route" /\ Routed(req) =>
    \A i \in Matching(req) : Literals(Routes[i]) \subseteq Literals(RouteOf(req))

\* The context of a request is that of one descriptor, whose key the request
\* names, and the request was authorized, also when two descriptors show one
\* table (injector.go:28-65: two look-ups that search in opposite directions).
ContextOfOneDescriptor ==
  "table" \in DOMAIN ctx =>
    /\ req.authorized
    /\ DistinctKeys =>
         \E td \in Range(tds) :
           /\ td.key = Table
           /\ ctx.table = td.table /\ ctx.relationships = Relationships(td)
           /\ ctx.optionName = td.optionName /\ ctx.uniqueId = td.uniqueId

\* A row answers the parameters of the query: it has every value that was sent
\* under a key of the descriptor the request names.
Fits(row) ==
  \A f \in Range(DescriptorOfKey(tds, Table).fields) : \A k \in DOMAIN f.keys :
    f.keys[k] \in DOMAIN req.params => Equal(row[f.columns[k]], req.params[f.keys[k]])

\* The items of a collection are the rows that answer the query and no others,
\* whatever else relationships add to them: every such row has an item, by
\* unique id where the statement orders them, and only one if no join repeats
\* it.  Each placeholder was given the argument of its own column
\* (getCollection.go:16, query.go:26, the templates, db.go:94).
CollectionExact ==
  Ok("GetCollection") /\ DistinctKeys /\ DistinctTables =>
    LET rows == Database[ctx.table]
        items == answer.items
    IN \E of \in Surjection(DOMAIN items, {i \in DOMAIN rows : Fits(rows[i])}) :
         /\ \A i \in DOMAIN items :
              LET own == Formatted(Descriptor, rows[of[i]])
              IN DOMAIN own \subseteq DOMAIN items[i] /\ \A n \in DOMAIN own : items[i][n] = own[n]
         /\ Ordered(driver) => \A i, j \in DOMAIN items : i < j => of[i] <= of[j]
         /\ ctx.relationships = <<>> => IsInjective(of)

\* The options are the first of the rows that have a name, one with the text of
\* the filter, and answer the rest of the query: the argument of the filter
\* stays apart from those of the columns (getCollectionAsOptions.go:72,
\* subsetForPerformance).  The filter is a pattern: a percent sign is any text.
OptionsExact ==
  Ok("GetCollectionAsOptions") /\ DistinctKeys /\ DistinctTables =>
    LET named(row) ==
          /\ row[ctx.optionName] # Null
          /\ "filter" \in DOMAIN req.params /\ req.params.filter # "%" =>
               HasText[row[ctx.optionName], req.params.filter]
        rows == Database[ctx.table]
        wanted == Picked(rows, {i \in DOMAIN rows : named(rows[i]) /\ Fits(rows[i])})
        least == IF Len(wanted) < Limit THEN Len(wanted) ELSE Limit
    IN \E options \in Orders([i \in DOMAIN wanted |-> Option(wanted[i])]) :
         answer.items = SubSeq(options, 1, least)

\* A descriptor that has an option name, and means one column by each of its
\* fields and the column of the same name by the fields id and name; no money
\* field and no relationship is called so.
Plain(td) ==
  /\ td.optionName # "" /\ td.uniqueId # ""
  /\ \A i, j \in DOMAIN td.fields :
       LET f == td.fields[i]
           g == td.fields[j]
       IN /\ f.key = g.key => i = j
          /\ FromColumn(f) = FromColumn(g) /\ FromColumn(f) # "" => i = j
          /\ f.key \in {"id", "name"} => FromColumn(f) = f.key

\* No field hides another one: whatever is renamed to id and name, the value of
\* each field of a row and what is shown of each relationship is in the answer.
\* This is what the checks of the descriptor are for (descriptor.go:126-148,
\* jsonForWorkflowAccelerator.go:150-196).
NothingHidden ==
  (Ok("GetCollection") \/ Ok("GetSingle")) /\ Plain(Descriptor) =>
    \A i \in DOMAIN answer.items :
      LET item == answer.items[i]
          rs == Relationships(Descriptor)
      IN /\ \A k \in PlainFields(Descriptor) :
              LET f == Descriptor.fields[k]
                  n == ShownAs(Descriptor, f)
              IN n \in DOMAIN item /\ item[n] = ValueOf(Descriptor, f, Row(i))
         /\ \A k \in DOMAIN rs :
              IsShown(k, i) => rs[k].key \in DOMAIN item /\ item[rs[k].key] = Resolved(k, i)

\* The unique id of a table is in the column id, and a field shows it as id.
ShowsId(td) ==
  /\ td.uniqueId = "id" /\ td.optionName # "id" /\ Plain(td)
  /\ \E j \in PlainFields(td) : FromColumn(td.fields[j]) = "id"

\* The rows of the database that the i-th result refers to by f.
RelatedTo(f, i) ==
  {r \in Range(Database[f.withTable]) : Equal(r[f.foreign], Row(i)[f.local]) /\ ~IsEmpty(r)}

\* Related rows are found although a join multiplies the results and each shows
\* what was gathered up to it (db.go:209-241).  A list tells the id of every row
\* its resource is related to, in one of the items of the resource, and no id,
\* empty ones aside, but those of rows that this resource or an earlier one is
\* related to; a reference by unique id is always shown as the row it refers to.
\* It takes a related table whose column id is shown as id: otherwise there is
\* null, or no id (jsonForWorkflowAccelerator.go:285).
RelatedShownById ==
  (Ok("GetCollection") \/ Ok("GetSingle")) /\ DistinctKeys /\ DistinctTables /\ Plain(Descriptor) =>
    \A k \in DOMAIN Relationships(Descriptor) :
      LET f == Relationships(Descriptor)[k]
          td == DescriptorOfTable(tds, f.withTable)
          idOf(x) == IF ctx.denormalize THEN Lookup(x, "id") ELSE x
          shown(i) == answer.items[i][f.key]
          ids(i) == {idOf(x) : x \in Range(shown(i))}
      IN ShowsId(td) =>
           \A i \in DOMAIN answer.items :
             IF f.kind = "oneToMany"
             THEN /\ \A r \in RelatedTo(f, i) : \E j \in DOMAIN answer.items :
                       results[j].main = results[i].main /\ r["id"] \in ids(j)
                  /\ ids(i) \subseteq
                       {Null, ""} \cup UNION {{r["id"] : r \in RelatedTo(f, j)} : j \in 1 .. i}
             ELSE f.foreign = "id" => \A r \in RelatedTo(f, i) :
                    r["id"] # "" => f.key \in DOMAIN answer.items[i] /\ idOf(shown(i)) = r["id"]

\* A statement that is sent with the id of a transaction is executed in it:
\* "User has not specified an existing transaction to execute within"
\* (db.go:28) is what a context without an id stands for.
TxHonoured ==
  pc = "Handler" /\ "table" \in DOMAIN ctx /\ "tx" \in DOMAIN req.params =>
    ctx.tx = req.params.tx
=============================================================================
