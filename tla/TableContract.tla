---------------------------- MODULE TableContract ----------------------------
(***************************************************************************)
(* What a client of the connector may expect of POST /<table> and of GET,  *)
(* PATCH and DELETE of /<table>/<id>: the table is changed by requests     *)
(* only, by each at most once, in one step, with exactly the data it sent, *)
(* and never after the request was answered.  What is shown of a row is in *)
(* the table at that moment, and 404 means that there is no such row then; *)
(* 201 and 204 are said to who created a row, 200 of a DELETE to who       *)
(* deleted one, and 400 to who changed nothing.                            *)
(***************************************************************************)
CONSTANTS Requests,
          Ids,       \* the unique ids a row can have
          Columns,   \* the other columns
          IdKey,     \* the key of the unique id in the data of a request
          Bodies,    \* the data of POST and PATCH
          Null

VARIABLES table,     \* table[i]: the row with the id i
          method,    \* method[r]: what r asks for; none before it was sent
          data,      \* data[r]: what it sent
          about,     \* about[r]: the id of the row r is about, as far as known
          wrote,     \* the requests that have changed the table
          told       \* told[r]: what r was answered

cvars == <<table, method, data, about, wrote, told>>

NoData == [c \in {} |-> Null]
NotTold == [code |-> "none", row |-> NoData]

CInit ==
  /\ DOMAIN table \subseteq Ids
  /\ method = [r \in Requests |-> "none"] /\ data = [r \in Requests |-> NoData]
  /\ about = [r \in Requests |-> Null]
  /\ wrote = {} /\ told = [r \in Requests |-> NotTold]

Tell(r, code, row) ==
  /\ told[r] = NotTold
  /\ told' = [told EXCEPT ![r] = [code |-> code, row |-> row]]

\* A request is sent; one that makes no sense is refused at once.
CAsk(r, m, i, d) ==
  /\ method[r] = "none" /\ told[r] = NotTold
  /\ method' = [method EXCEPT ![r] = m]
  /\ data' = [data EXCEPT ![r] = d]
  /\ about' = [about EXCEPT ![r] = i]
  /\ UNCHANGED told \/ (m \in {"POST", "PATCH"} /\ Tell(r, "400", NoData))
  /\ UNCHANGED <<table, wrote>>

\* A row with the data that was sent in the place of what it had.
With(row, d) == [c \in Columns |-> IF c \in DOMAIN d THEN d[c] ELSE row[c]]

\* A row is created under the id that was sent, or one that is free; if the
\* database does not say which, or the answer is lost, nothing is shown of it.
CPost(r, i) ==
  /\ method[r] = "POST" /\ i \notin DOMAIN table
  /\ IdKey \in DOMAIN data[r] => i = data[r][IdKey]
  /\ table' = [j \in DOMAIN table \cup {i} |->
                 IF j = i THEN With([c \in Columns |-> Null], data[r]) ELSE table[j]]
  /\ \/ about' = [about EXCEPT ![r] = i] /\ UNCHANGED told
     \/ UNCHANGED about /\ \E code \in {"204", "500"} : Tell(r, code, NoData)

\* A row is written, under the id that was sent if one was.
CPatch(r) ==
  LET from == about[r]
      to == IF IdKey \in DOMAIN data[r] THEN data[r][IdKey] ELSE from
  IN /\ method[r] = "PATCH" /\ from \in DOMAIN table /\ to \notin DOMAIN table \ {from}
     /\ table' = [j \in (DOMAIN table \ {from}) \cup {to} |->
                    IF j = to THEN With(table[from], data[r]) ELSE table[j]]
     /\ UNCHANGED about /\ (UNCHANGED told \/ Tell(r, "500", NoData))

CDelete(r) ==
  /\ method[r] = "DELETE" /\ about[r] \in DOMAIN table
  /\ table' = [j \in DOMAIN table \ {about[r]} |-> table[j]]
  /\ UNCHANGED about /\ \E code \in {"200", "500"} : Tell(r, code, NoData)

CWrite(r) ==
  /\ r \notin wrote /\ told[r] = NotTold
  /\ (\E i \in Ids : CPost(r, i)) \/ CPatch(r) \/ CDelete(r)
  /\ wrote' = wrote \cup {r}
  /\ UNCHANGED <<method, data>>

\* What a row is now: of POST the one it created.
CShow(r) ==
  /\ about[r] \in DOMAIN table
  /\ \/ method[r] \in {"GET", "PATCH"} /\ Tell(r, "200", table[about[r]])
     \/ method[r] = "POST" /\ r \in wrote /\ Tell(r, "201", table[about[r]])
  /\ UNCHANGED <<table, method, data, about, wrote>>

CMissing(r) ==
  /\ method[r] # "none" /\ about[r] \notin DOMAIN table
  /\ (method[r] = "DELETE" => r \notin wrote) /\ (method[r] = "POST" => r \in wrote)
  /\ Tell(r, "404", NoData)
  /\ UNCHANGED <<table, method, data, about, wrote>>

CFails(r) ==
  /\ method[r] # "none" /\ Tell(r, "500", NoData)
  /\ UNCHANGED <<table, method, data, about, wrote>>

CNext ==
  \E r \in Requests :
    \/ \E m \in {"GET", "DELETE"}, i \in Ids : CAsk(r, m, i, NoData)
    \/ \E d \in Bodies \cup {NoData} :
         CAsk(r, "POST", Null, d) \/ \E i \in Ids : CAsk(r, "PATCH", i, d)
    \/ CWrite(r) \/ CShow(r) \/ CMissing(r) \/ CFails(r)

CSpec == CInit /\ [][CNext]_cvars
=============================================================================
