-------------------------------- MODULE Routes --------------------------------
(***************************************************************************)
(* The routes of internal/app/backend/backend.go, in the order in which    *)
(* appendHandlers registers them: gorilla/mux takes the first one that     *)
(* matches.  A path is a sequence of segments; a segment of a template is  *)
(* literal or a variable.  A route with a query is taken only if the       *)
(* request has that parameter, whatever its value.                         *)
(***************************************************************************)
EXTENDS Naturals, Sequences

Route(name, method, path, query) ==
  [name |-> name, method |-> method, path |-> path, query |-> query]

\* Mutant of Routes: a single resource before the options.
RoutesSingleFirst == <<
  Route("GetSingle", "GET", <<"{table}", "{id}">>, {}),
  Route("GetSingleAsOption", "GET", <<"{table}", "options", "{id}">>, {}),
  Route("GetCollectionAsOptions", "GET", <<"{table}", "options">>, {}),
  Route("GetCollection", "GET", <<"{table}">>, {}) >>

Routes == <<
  Route("GetSingleAsOption", "GET", <<"{table}", "options", "{id}">>, {}),
  Route("GetCollectionAsOptions", "GET", <<"{table}", "options">>, {}),
  Route("GetSingle", "GET", <<"{table}", "{id}">>, {}),
  Route("UpdateSingle", "PATCH", <<"{table}", "{id}">>, {}),
  Route("UpdateSingle", "PATCH", <<"{table}", "{id}">>, {"tx"}),
  Route("GetCollection", "GET", <<"{table}">>, {}),
  Route("CreateSingle", "POST", <<"{table}">>, {}),
  Route("CreateSingle", "POST", <<"{table}">>, {"tx"}),
  Route("DeleteSingle", "DELETE", <<"{table}", "{id}">>, {"tx"}),
  Route("DeleteSingle", "DELETE", <<"{table}", "{id}">>, {}),
  Route("GetDescriptorFile", "GET", <<>>, {}),
  Route("CreateTx", "POST", <<>>, {"begin"}),
  Route("CommitTx", "POST", <<>>, {"commit"}) >>

Variables == {"{table}", "{id}"}

Matches(route, req) ==
  /\ route.method = req.method
  /\ Len(route.path) = Len(req.path)
  /\ \A i \in DOMAIN route.path : route.path[i] \in Variables \/ route.path[i] = req.path[i]
  /\ route.query \subseteq DOMAIN req.params

Matching(req) == {i \in DOMAIN Routes : Matches(Routes[i], req)}
Routed(req) == Matching(req) # {}
RouteOf(req) == Routes[CHOOSE i \in Matching(req) : \A j \in Matching(req) : i <= j]

\* mux.Vars: the variables of the template, and the query's if it has one.
Var(req, v, none) ==
  LET path == RouteOf(req).path
      at == {i \in DOMAIN path : path[i] = v}
  IN IF at = {} THEN none ELSE req.path[CHOOSE i \in at : TRUE]
QueryVar(req, q, none) == IF q \in RouteOf(req).query THEN req.params[q] ELSE none
=============================================================================
