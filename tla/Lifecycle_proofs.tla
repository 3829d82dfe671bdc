-------------------------- MODULE Lifecycle_proofs --------------------------
(***************************************************************************)
(* Proofs about Lifecycle, for every configuration of tables and           *)
(* relationships and every number of requests, starts and failures.        *)
(***************************************************************************)
EXTENDS Lifecycle, SequenceLemmas, FiniteSetTheorems

(***************************************************************************)
(* The inductive invariant, in named parts.                                *)
(***************************************************************************)

\* The loops of SaveSchemaMapping begin at the first table.
LoopsFromTheStart == run \notin {"plain", "joined"} => next = 1

\* What the loops have read: the tables before the one they are at, and after
\* a loop all of them.
ReadSoFar ==
  /\ run = "plain" => \A i \in 1 .. next - 1 : Tables[i] \in DOMAIN mapping
  /\ run \in {"joined", "server", "listen", "serving"} =>
       \A i \in DOMAIN Tables : Tables[i] \in DOMAIN mapping
  /\ run = "joined" =>
       \A i \in 1 .. next - 1 : HasRelationships(Tables[i]) => Tables[i] \in DOMAIN joined
  /\ run \in {"server", "listen", "serving"} =>
       \A i \in DOMAIN Tables : HasRelationships(Tables[i]) => Tables[i] \in DOMAIN joined

\* Where the two goroutines are, seen from App.server: Stop is draining only a
\* server that run has made, and neither outlives the process.
ServerState ==
  /\ server # "nil" => run \in {"listen", "serving", "returned"}
  /\ stop = "draining" => server = "down"
  /\ run = "none" => stop = "none"

IInv == TypeOK /\ LoopsFromTheStart /\ ReadSoFar /\ ServerState

Steps == {"none", "endpoint", "plain", "joined", "server", "listen", "serving", "returned"}

-----------------------------------------------------------------------------

\* The tables are a sequence.
LEMMA TablesAreASequence ==
  /\ Len(Tables) \in Nat /\ DOMAIN Tables = 1 .. Len(Tables)
  /\ Tables = <<>> <=> Len(Tables) = 0
  BY SchemaAssumption

\* The bounds are numbers.
LEMMA Bounds == StartLimit \in Nat \ {0} /\ MaxFailures \in Nat
  BY LifecycleAssumption

\* A map with a new entry has that entry, and all it had.
LEMMA PutDomain ==
  ASSUME NEW m, NEW k, NEW v
  PROVE  DOMAIN Put(m, k, v) = DOMAIN m \cup {k}
  BY DEF Put

\* Nothing has been started.
LEMMA InitHolds == Init => IInv
  <1> SUFFICES ASSUME Init PROVE IInv
    OBVIOUS
  <1>1. TypeOK
    BY LifecycleAssumption DEF Init, TypeOK, RequestTypes
  <1>2. LoopsFromTheStart /\ ReadSoFar /\ ServerState
    BY DEF Init, LoopsFromTheStart, ReadSoFar, ServerState
  <1>3. QED BY <1>1, <1>2 DEF IInv

\* The process ends: nothing is left of it but what the clients were told.
LEMMA ExitHolds ==
  ASSUME IInv, NEW status, Exit(status), failures' \in 0 .. MaxFailures
  PROVE  IInv'
  <1>1. TypeOK'
    <2>1. request' \in RequestTypes
      BY DEF IInv, TypeOK, Exit, RequestTypes
    <2>2. QED BY <2>1 DEF IInv, TypeOK, Exit
  <1>2. LoopsFromTheStart' /\ ReadSoFar' /\ ServerState'
    BY DEF Exit, LoopsFromTheStart, ReadSoFar, ServerState
  <1>3. QED BY <1>1, <1>2 DEF IInv

\* One step of the run goroutine.
LEMMA RunStepHolds ==
  ASSUME IInv, RunStep
  PROVE  IInv'
<1> USE DEF IInv, TypeOK, LoopsFromTheStart, ServerState, Run, manager, clients, database
<1>1. CASE Open
  <2>1. TypeOK'
    BY <1>1, TablesAreASequence DEF Open
  <2>2. ReadSoFar'
    BY <1>1, TablesAreASequence DEF Open, ReadSoFar
  <2>3. QED BY <1>1, <2>1, <2>2 DEF Open
<1>2. CASE StartupFails \/ NoColumns \/ ReadPanics
  <2>1. PICK status \in {1, 2} : Exits(status)
    BY <1>2 DEF StartupFails, NoColumns, ReadPanics
  <2>2. failures' \in 0 .. MaxFailures
    BY <2>1 DEF Exits
  <2>3. QED BY <2>1, <2>2, ExitHolds DEF Exits
<1>3. CASE ReadPlain
  <2>1. DOMAIN mapping' = DOMAIN mapping \cup {Tables[next]}
    BY <1>3, PutDomain DEF ReadPlain
  <2>2. run = "plain" /\ next \in 1 .. Len(Tables) /\ Len(Tables) \in Nat
    BY <1>3, TablesAreASequence DEF ReadPlain, Advance
  <2>3. TypeOK'
    <3>1. next' \in 1 .. Len(Tables) /\ run' \in {"plain", "joined"}
      BY <1>3, <2>2 DEF ReadPlain, Advance
    <3>2. QED BY <1>3, <3>1, TablesAreASequence DEF ReadPlain, Advance
  <2>4. ReadSoFar'
    <3>1. CASE next = Len(Tables)
      <4>1. run' = "joined" /\ next' = 1
        BY <1>3, <3>1 DEF ReadPlain, Advance
      <4>2. \A i \in DOMAIN Tables : i \in 1 .. next - 1 \/ i = next
        BY <2>2, <3>1, TablesAreASequence
      <4>3. \A i \in DOMAIN Tables : Tables[i] \in DOMAIN mapping'
        BY <2>1, <2>2, <4>2 DEF ReadSoFar
      <4>4. QED BY <4>1, <4>3 DEF ReadSoFar
    <3>2. CASE next # Len(Tables)
      <4>1. run' = "plain" /\ next' = next + 1
        BY <1>3, <3>2 DEF ReadPlain, Advance
      <4>2. \A i \in 1 .. next' - 1 : i \in 1 .. next - 1 \/ i = next
        BY <2>2, <4>1
      <4>3. \A i \in 1 .. next' - 1 : Tables[i] \in DOMAIN mapping'
        BY <2>1, <2>2, <4>2 DEF ReadSoFar
      <4>4. QED BY <4>1, <4>3 DEF ReadSoFar
    <3>3. QED BY <3>1, <3>2
  <2>5. QED BY <1>3, <2>2, <2>3, <2>4 DEF ReadPlain, Advance
<1>4. CASE ReadJoined \/ SkipUnrelated
  <2>1. /\ DOMAIN joined \subseteq DOMAIN joined' /\ mapping' = mapping
        /\ HasRelationships(Tables[next]) => Tables[next] \in DOMAIN joined'
    <3>1. CASE ReadJoined
      <4>1. PICK v : joined' = Put(joined, Tables[next], v) /\ mapping' = mapping
        BY <3>1 DEF ReadJoined
      <4>2. DOMAIN joined' = DOMAIN joined \cup {Tables[next]}
        BY <4>1, PutDomain
      <4>3. QED BY <4>1, <4>2
    <3>2. CASE SkipUnrelated
      BY <3>2 DEF SkipUnrelated
    <3>3. QED BY <1>4, <3>1, <3>2
  <2>2. Advance("joined", "server")
    BY <1>4 DEF ReadJoined, SkipUnrelated
  <2>3. run = "joined" /\ next \in 1 .. Len(Tables) /\ Len(Tables) \in Nat
    BY <2>2, TablesAreASequence DEF Advance
  <2>4. leaked' \in Nat /\ server' = server
    BY <1>4 DEF ReadJoined, SkipUnrelated
  <2>5. TypeOK'
    <3>1. next' \in 1 .. Len(Tables) /\ run' \in {"joined", "server"}
      BY <2>2, <2>3 DEF Advance
    <3>2. QED BY <2>2, <2>4, <3>1, TablesAreASequence DEF Advance
  <2>6. \A i : (i \in 1 .. next - 1 \/ i = next) /\ HasRelationships(Tables[i])
                 => Tables[i] \in DOMAIN joined'
    BY <2>1, <2>3 DEF ReadSoFar
  <2>7. ReadSoFar'
    <3>1. CASE next = Len(Tables)
      <4>1. run' = "server" /\ next' = 1
        BY <2>2, <3>1 DEF Advance
      <4>2. \A i \in DOMAIN Tables : i \in 1 .. next - 1 \/ i = next
        BY <2>3, <3>1, TablesAreASequence
      <4>3. QED BY <2>1, <2>3, <2>6, <4>1, <4>2 DEF ReadSoFar
    <3>2. CASE next # Len(Tables)
      <4>1. run' = "joined" /\ next' = next + 1
        BY <2>2, <3>2 DEF Advance
      <4>2. \A i \in 1 .. next' - 1 : i \in 1 .. next - 1 \/ i = next
        BY <2>3, <4>1
      <4>3. QED BY <2>1, <2>3, <2>6, <4>1, <4>2 DEF ReadSoFar
    <3>3. QED BY <3>1, <3>2
  <2>8. QED BY <2>2, <2>3, <2>4, <2>5, <2>7 DEF Advance
<1>5. CASE NewServer
  <2>1. ReadSoFar'
    BY <1>5 DEF NewServer, ReadSoFar
  <2>2. QED BY <1>5, <2>1 DEF NewServer
<1>6. CASE Listen
  <2>1. ReadSoFar'
    BY <1>6 DEF Listen, ReadSoFar
  <2>2. QED BY <1>6, <2>1 DEF Listen
<1>7. CASE ServeReturns
  <2>1. ReadSoFar'
    BY <1>7 DEF ServeReturns, ReadSoFar
  <2>2. QED BY <1>7, <2>1 DEF ServeReturns
<1>8. QED BY <1>1, <1>2, <1>3, <1>4, <1>5, <1>6, <1>7 DEF RunStep

\* The steps of Stop, of the manager, of the clients and of the database.
LEMMA OtherStepHolds ==
  ASSUME IInv, [Next]_vars, ~RunStep
  PROVE  IInv'
<1> USE DEF IInv, TypeOK, LoopsFromTheStart, ServerState, manager, process, clients, database
<1>1. CASE Start
  <2>1. ReadSoFar'
    BY <1>1 DEF Start, ReadSoFar
  <2>2. starts' \in 0 .. StartLimit
    BY <1>1, Bounds DEF Start
  <2>3. QED BY <1>1, <2>1, <2>2 DEF Start
<1>2. CASE IntervalPasses
  <2>1. ReadSoFar'
    BY <1>2 DEF IntervalPasses, ReadSoFar
  <2>2. QED BY <1>2, <2>1, Bounds DEF IntervalPasses
<1>3. CASE ServeFails \/ Killed
  <2>1. PICK status \in {1, 137} : Exit(status)
    BY <1>3 DEF ServeFails, Killed
  <2>2. failures' \in 0 .. MaxFailures
    BY <1>3, Bounds DEF ServeFails, Killed
  <2>3. QED BY <2>1, <2>2, ExitHolds
<1>4. CASE StopPanics \/ StopReturns
  <2>1. PICK status \in {0, 2} : Exits(status)
    BY <1>4 DEF StopPanics, StopReturns
  <2>2. failures' \in 0 .. MaxFailures
    BY <2>1 DEF Exits
  <2>3. QED BY <2>1, <2>2, ExitHolds DEF Exits
<1>5. CASE StopAsked \/ StopBetweenStarts \/ Shutdown
  <2>1. ReadSoFar'
    BY <1>5 DEF StopAsked, StopBetweenStarts, Shutdown, ReadSoFar
  <2>2. QED BY <1>5, <2>1 DEF StopAsked, StopBetweenStarts, Shutdown
<1>6. ASSUME NEW r \in Requests, NEW t \in Range(Tables), Arrive(r, t)
      PROVE  IInv'
  <2>1. ReadSoFar'
    BY <1>6 DEF Arrive, ReadSoFar
  <2>2. request' \in RequestTypes
    BY <1>6 DEF Arrive, RequestTypes
  <2>3. QED BY <1>6, <2>1, <2>2 DEF Arrive
<1>7. ASSUME NEW r \in Requests, Answer(r) \/ AnswerFails(r)
      PROVE  IInv'
  <2>1. PICK state, a : state \in {"200", "500"} /\ Respond(r, state, a)
    BY <1>7 DEF Answer, AnswerFails
  <2>2. ReadSoFar'
    BY <2>1 DEF Respond, ReadSoFar
  <2>3. request' \in RequestTypes
    BY <2>1 DEF Respond, RequestTypes
  <2>4. QED BY <2>1, <2>2, <2>3 DEF Respond
<1>8. ASSUME NEW t \in Range(Tables), NEW cols, Alter(t, cols)
      PROVE  IInv'
  <2>1. ReadSoFar'
    BY <1>8 DEF Alter, ReadSoFar
  <2>2. QED BY <1>8, <2>1 DEF Alter
<1>9. CASE DatabaseGoes \/ DatabaseReturns
  <2>1. ReadSoFar'
    BY <1>9 DEF DatabaseGoes, DatabaseReturns, ReadSoFar
  <2>2. failures' \in 0 .. MaxFailures
    BY <1>9, Bounds DEF DatabaseGoes, DatabaseReturns
  <2>3. QED BY <1>9, <2>1, <2>2 DEF DatabaseGoes, DatabaseReturns
<1>10. CASE UNCHANGED vars
  <2>1. ReadSoFar'
    BY <1>10 DEF vars, ReadSoFar
  <2>2. QED BY <1>10, <2>1 DEF vars
<1>11. ASSUME NEW t \in Range(Tables),
              (\E c \in ColumnNames : AddColumn(t, c)) \/ (\E i \in DOMAIN columns[t] : DropColumn(t, i))
       PROVE  IInv'
  <2>1. PICK cols : Alter(t, cols)
    BY <1>11 DEF AddColumn, DropColumn
  <2>2. QED BY <2>1, <1>8
<1>12. QED
  <2> HIDE DEF IInv
  <2>1. QED
    BY <1>1, <1>2, <1>3, <1>4, <1>5, <1>6, <1>7, <1>9, <1>10, <1>11 DEF Next, StopStep

\* Every step keeps the invariant.
LEMMA StepHolds == IInv /\ [Next]_vars => IInv'
  BY RunStepHolds, OtherStepHolds

\* The invariant holds of every behaviour.
LEMMA InvariantHolds == Spec => []IInv
  <1> QED BY InitHolds, StepHolds, PTL DEF Spec

-----------------------------------------------------------------------------

\* Whatever the manager, the two goroutines, the clients and the database do,
\* the state is one the code can be in: the loops of SaveSchemaMapping never
\* run past the tables, and the starts are counted.
THEOREM TypeCorrect == Spec => []TypeOK
  <1>1. IInv => TypeOK
    BY DEF IInv
  <1>2. QED BY <1>1, InvariantHolds, PTL

\* For every list of tables and every set of relationships, the process serves
\* requests only with the schemas of all of them read (SaveSchemaMapping).
THEOREM ServesWhatItReadTheorem == Spec => []ServesWhatItRead
  <1>1. IInv => ServesWhatItRead
    <2> SUFFICES ASSUME IInv, run = "serving", NEW t \in Range(Tables)
                 PROVE  t \in DOMAIN mapping /\ (HasRelationships(t) => t \in DOMAIN joined)
      BY DEF ServesWhatItRead
    <2>1. PICK i \in DOMAIN Tables : t = Tables[i]
      BY DEF Range
    <2>2. QED BY <2>1 DEF IInv, ReadSoFar
  <1>2. QED BY <1>1, InvariantHolds, PTL

\* A process that Stop is shutting down ends only when every request under
\* way has been answered (main.go:32), unless it is killed or its listener
\* fails: what ends a process that is starting cannot end this one.
THEOREM GracefulStopTheorem == Spec => GracefulStop
  <1>1. IInv /\ [Next]_vars =>
          [stop = "draining" /\ run' = "none" /\ failures' = failures => Waiting = {}]_vars
    <2> SUFFICES ASSUME IInv, Next, stop = "draining", run' = "none", failures' = failures
                 PROVE  Waiting = {}
      OBVIOUS
    <2> USE DEF IInv, ServerState, TypeOK
    <2>1. server = "down" /\ run \in {"listen", "serving", "returned"}
      OBVIOUS
    <2>2. ~StartupFails /\ ~NoColumns /\ ~ReadPanics
      BY <2>1 DEF StartupFails, NoColumns, ReadPanics
    <2>3. ~(Open \/ ReadPlain \/ ReadJoined \/ SkipUnrelated \/ NewServer \/ Listen \/ ServeReturns)
      BY <2>1 DEF Open, ReadPlain, ReadJoined, SkipUnrelated, NewServer, Listen, ServeReturns,
                  Advance, Run
    <2>4. ~ServeFails /\ ~Killed /\ ~DatabaseGoes
      <3>1. failures + 1 # failures
        BY Bounds
      <3>2. QED BY <3>1 DEF ServeFails, Killed, DatabaseGoes
    <2>5. ~Start /\ ~IntervalPasses /\ ~StopAsked /\ ~StopBetweenStarts /\ ~StopPanics
          /\ ~Shutdown /\ ~DatabaseReturns
      BY <2>1 DEF Start, IntervalPasses, StopAsked, StopBetweenStarts, StopPanics, Shutdown,
                  DatabaseReturns, process
    <2>6. /\ \A r \in Requests : /\ \A t \in Range(Tables) : ~Arrive(r, t)
                                /\ ~Answer(r) /\ ~AnswerFails(r)
          /\ \A t, cols : ~Alter(t, cols)
      BY <2>1 DEF Arrive, Answer, AnswerFails, Respond, Alter, process
    <2>7. StopReturns
      BY <2>2, <2>3, <2>4, <2>5, <2>6 DEF Next, RunStep, StopStep, AddColumn, DropColumn
    <2>8. QED BY <2>7 DEF StopReturns
  <1>2. QED BY <1>1, InvariantHolds, PTL DEF Spec, GracefulStop

-----------------------------------------------------------------------------
(***************************************************************************)
(* A second layer: who waits for an answer.                                *)
(***************************************************************************)

\* Requests wait only for a process that serves, or has just stopped to.
WaitingIsServed ==
  /\ run \in {"serving", "returned"} =>
       \A i \in DOMAIN Tables :
         /\ Tables[i] \in DOMAIN mapping
         /\ HasRelationships(Tables[i]) => Tables[i] \in DOMAIN joined
  /\ \A r \in Requests : request[r].state = "waiting" =>
       run \in {"serving", "returned"} /\ request[r].table \in Range(Tables)

\* Nobody waits yet.
LEMMA ServedInit == Init => WaitingIsServed
  BY DEF Init, WaitingIsServed

\* Whoever waits when the process ends is cut off; others stay as they are.
LEMMA ExitCutsOff ==
  ASSUME IInv, NEW status, Exit(status), NEW r \in Requests
  PROVE  /\ request'[r].state \in {request[r].state, "cut off"}
         /\ request'[r].state # "waiting"
  <1>1. request[r] \in [state : {"idle", "waiting", "200", "500", "cut off"},
                        table : Range(Tables) \cup {Null}]
    BY DEF IInv, TypeOK, RequestTypes
  <1>2. CASE request[r].state = "waiting"
    <2>1. request'[r] = [request[r] EXCEPT !.state = "cut off"]
      BY <1>2 DEF Exit
    <2>2. QED BY <1>1, <2>1
  <1>3. CASE request[r].state # "waiting"
    <2>1. request'[r] = request[r]
      BY <1>3 DEF Exit
    <2>2. QED BY <1>3, <2>1
  <1>4. QED BY <1>2, <1>3

\* Every step that ends the process.
Ends ==
  StartupFails \/ NoColumns \/ ReadPanics \/ ServeFails \/ Killed \/ StopPanics \/ StopReturns

\* ... is an exit with some status.
LEMMA EndsByExit ==
  ASSUME Ends
  PROVE  \E status : Exit(status) /\ failures' \in {failures, failures + 1}
  BY DEF Ends, StartupFails, NoColumns, ReadPanics, ServeFails, Killed, StopPanics, StopReturns,
         Exits

\* No step lets a request wait in vain.
LEMMA ServedStep ==
  ASSUME IInv, WaitingIsServed, [Next]_vars
  PROVE  WaitingIsServed'
<1>1. CASE Ends
  <2>1. PICK status : Exit(status)
    BY <1>1, EndsByExit
  <2>2. \A r \in Requests : request'[r].state # "waiting"
    BY <2>1, ExitCutsOff
  <2>3. run' = "none"
    BY <2>1 DEF Exit
  <2>4. QED BY <2>2, <2>3 DEF WaitingIsServed
<1>2. CASE Listen
  BY <1>2 DEF Listen, Run, clients, WaitingIsServed, IInv, ReadSoFar
<1>3. CASE Open \/ ReadPlain \/ ReadJoined \/ SkipUnrelated \/ NewServer \/ Start
  <2>1. run \notin {"serving", "returned"} /\ run' \notin {"serving", "returned"}
        /\ request' = request
    BY <1>3 DEF Open, ReadPlain, ReadJoined, SkipUnrelated, NewServer, Start, Advance, Run, clients
  <2>2. QED BY <2>1 DEF WaitingIsServed
<1>4. CASE \/ ServeReturns \/ IntervalPasses \/ StopAsked \/ StopBetweenStarts \/ Shutdown
           \/ DatabaseGoes \/ DatabaseReturns \/ UNCHANGED vars
           \/ \E t, cols : Alter(t, cols)
  <2>1. UNCHANGED <<request, mapping, joined>>
    BY <1>4 DEF ServeReturns, IntervalPasses, StopAsked, StopBetweenStarts, Shutdown,
                DatabaseGoes, DatabaseReturns, Alter, Run, vars, process, clients
  <2>2. run' = run \/ (run = "serving" /\ run' = "returned")
    BY <1>4 DEF ServeReturns, IntervalPasses, StopAsked, StopBetweenStarts, Shutdown,
                DatabaseGoes, DatabaseReturns, Alter, Run, vars, process
  <2>3. QED BY <2>1, <2>2 DEF WaitingIsServed
<1>5. ASSUME NEW r \in Requests, NEW t \in Range(Tables), Arrive(r, t)
      PROVE  WaitingIsServed'
  <2>1. /\ UNCHANGED <<run, mapping, joined>> /\ run = "serving"
        /\ request' = [request EXCEPT ![r] = [state |-> "waiting", table |-> t]]
    BY <1>5 DEF Arrive, process
  <2>2. \A s \in Requests : \/ request'[s] = request[s]
                            \/ request'[s] = [state |-> "waiting", table |-> t]
    BY <2>1 DEF IInv, TypeOK, RequestTypes
  <2>3. QED BY <2>1, <2>2 DEF WaitingIsServed
<1>6. ASSUME NEW r \in Requests, Answer(r) \/ AnswerFails(r)
      PROVE  WaitingIsServed'
  <2>1. PICK state \in {"200", "500"} : request' = [request EXCEPT ![r].state = state]
    BY <1>6 DEF Answer, AnswerFails, Respond
  <2>2. UNCHANGED <<run, mapping, joined>>
    BY <1>6 DEF Answer, AnswerFails, Respond, process
  <2>3. \A s \in Requests : request'[s] = request[s] \/ request'[s].state = state
    BY <2>1 DEF IInv, TypeOK, RequestTypes
  <2>4. QED BY <2>1, <2>2, <2>3 DEF WaitingIsServed
<1>7. QED
  <2>1. CASE \E t, cols : Alter(t, cols)
    BY <1>4, <2>1
  <2>2. CASE ~\E t, cols : Alter(t, cols)
    BY <1>1, <1>2, <1>3, <1>4, <1>5, <1>6, <2>2
       DEF Next, RunStep, StopStep, Ends, AddColumn, DropColumn
  <2>3. QED BY <2>1, <2>2

\* Requests wait only for a process that serves, in every behaviour.
LEMMA ServedHolds == Spec => []WaitingIsServed
  <1>1. IInv /\ WaitingIsServed /\ [Next]_vars => WaitingIsServed'
    BY ServedStep
  <1>2. QED BY <1>1, ServedInit, InvariantHolds, PTL DEF Spec

-----------------------------------------------------------------------------
(***************************************************************************)
(* A third layer, of what the startup leaves behind: the connections it   *)
(* keeps, and the names it read as long as nothing is altered.             *)
(***************************************************************************)

\* The tables with relationships among the first n.
Joins(n) == {i \in 1 .. n : HasRelationships(Tables[i])}

Reached == IF run = "joined" THEN next - 1
           ELSE IF run \in {"server", "listen", "serving", "returned"} THEN Len(Tables) ELSE 0

\* Each table with relationships that was read keeps one connection.
OneLeakEach == leaked <= Cardinality(Joins(Reached))

\* What was read is what is there.
NothingAltered ==
  alterations = 0 =>
    /\ columns = InitialColumns
    /\ \A t \in DOMAIN mapping : mapping[t] = InitialColumns[t]
    /\ \A t \in DOMAIN joined : DOMAIN joined[t] = DOMAIN JoinColumns(t, InitialColumns)

SteadyInv ==
  /\ alterations \in Nat /\ (failures = 0 => reachable)
  /\ OneLeakEach /\ NothingAltered /\ SteadyService

\* Few tables have relationships, compared with the connections.
EnoughConnections == Cardinality(Joins(Len(Tables))) < Connections

\* How many tables with relationships there are among the first ones.
LEMMA JoinsCounted ==
  ASSUME NEW n \in Nat
  PROVE  /\ Cardinality(Joins(n)) \in Nat
         /\ Cardinality(Joins(n + 1)) =
              IF HasRelationships(Tables[n + 1]) THEN Cardinality(Joins(n)) + 1
                                                 ELSE Cardinality(Joins(n))
  <1>1. IsFiniteSet(Joins(n))
    <2>1. IsFiniteSet(1 .. n)
      BY FS_Interval
    <2>2. QED BY <2>1, FS_Subset DEF Joins
  <1>2. 1 .. n + 1 = (1 .. n) \cup {n + 1} /\ n + 1 \notin 1 .. n
    OBVIOUS
  <1>3. Joins(n + 1) = IF HasRelationships(Tables[n + 1]) THEN Joins(n) \cup {n + 1} ELSE Joins(n)
    BY <1>2 DEF Joins
  <1>4. n + 1 \notin Joins(n)
    BY <1>2 DEF Joins
  <1>5. Cardinality(Joins(n) \cup {n + 1}) = Cardinality(Joins(n)) + 1
    BY <1>1, <1>4, FS_AddElement
  <1>6. QED BY <1>1, <1>3, <1>5, FS_CardinalityType

\* No table is among the first none.
LEMMA NoJoins == 0 <= Cardinality(Joins(0))
  <1>1. Cardinality(Joins(0)) \in Nat
    BY JoinsCounted
  <1>2. QED BY <1>1

\* Nothing has been read or asked for yet.
LEMMA SteadyInit == Init => SteadyInv
  <1> SUFFICES ASSUME Init PROVE SteadyInv
    OBVIOUS
  <1>1. OneLeakEach
    BY NoJoins DEF Init, OneLeakEach, Reached
  <1>2. NothingAltered
    BY DEF Init, NothingAltered, NothingRead
  <1>3. SteadyService
    BY DEF Init, SteadyService
  <1>4. QED BY <1>1, <1>2, <1>3 DEF Init, SteadyInv

\* The process ends, and with it what it kept and who waited for it.
LEMMA SteadyExit ==
  ASSUME IInv, SteadyInv, NEW status, Exit(status), failures' \in {failures, failures + 1}
  PROVE  SteadyInv'
  <1>1. failures \in Nat
    BY Bounds DEF IInv, TypeOK
  <1>2. OneLeakEach'
    BY NoJoins DEF Exit, OneLeakEach, Reached
  <1>3. NothingAltered'
    BY DEF SteadyInv, Exit, NothingAltered, NothingRead
  <1>4. \A r \in Requests : request'[r].state = "500" => request[r].state = "500"
    BY ExitCutsOff
  <1>5. SteadyService'
    <2>1. alterations' = alterations
      BY DEF Exit
    <2>2. failures > 0 => failures' > 0
      BY <1>1
    <2>3. QED BY <1>4, <2>1, <2>2 DEF SteadyInv, SteadyService
  <1>6. alterations' \in Nat /\ (failures' = 0 => reachable')
    <2>1. alterations' = alterations /\ reachable' = reachable
      BY DEF Exit
    <2>2. failures' = 0 => failures = 0
      BY <1>1
    <2>3. QED BY <2>1, <2>2 DEF SteadyInv
  <1>7. QED BY <1>2, <1>3, <1>5, <1>6 DEF SteadyInv

\* The loops of SaveSchemaMapping: one connection for each table that has
\* relationships, and the columns that are there.
LEMMA SteadyRun ==
  ASSUME IInv, SteadyInv, RunStep
  PROVE  SteadyInv'
<1> USE DEF SteadyInv
<1>1. CASE StartupFails \/ NoColumns \/ ReadPanics
  <2>1. PICK status \in {1, 2} : Exits(status)
    BY <1>1 DEF StartupFails, NoColumns, ReadPanics
  <2>2. QED BY <2>1, SteadyExit DEF Exits
<1>2. CASE Open \/ ReadPlain \/ ReadJoined \/ SkipUnrelated \/ NewServer \/ Listen \/ ServeReturns
  <2>1. UNCHANGED <<request, columns, reachable, alterations, failures>>
    BY <1>2 DEF Open, ReadPlain, ReadJoined, SkipUnrelated, NewServer, Listen, ServeReturns,
                Advance, Run, clients, database
  <2>2. SteadyService' /\ alterations' \in Nat /\ (failures' = 0 => reachable')
    BY <2>1 DEF SteadyService
  <2>3. OneLeakEach'
    <3>1. CASE Open \/ ReadPlain
      <4>1. Reached = 0 /\ leaked' = leaked /\ leaked <= Cardinality(Joins(0))
        BY <3>1 DEF Open, ReadPlain, Advance, Run, OneLeakEach, Reached
      <4>2. Reached' = 0
        <5>1. CASE Open
          BY <5>1, TablesAreASequence DEF Open, Run, Reached
        <5>2. CASE ReadPlain
          BY <5>2, TablesAreASequence DEF IInv, TypeOK, ReadPlain, Advance, Run, Reached
        <5>3. QED BY <3>1, <5>1, <5>2
      <4>3. QED BY <4>1, <4>2 DEF OneLeakEach, Joins
    <3>2. CASE ReadJoined \/ SkipUnrelated
      <4>1. run = "joined" /\ next \in 1 .. Len(Tables) /\ Len(Tables) \in Nat
        BY <3>2, TablesAreASequence DEF ReadJoined, SkipUnrelated, Advance, Run, IInv, TypeOK
      <4>2. Reached = next - 1 /\ Reached' = next
        <5>1. CASE next = Len(Tables)
          BY <3>2, <4>1, <5>1 DEF ReadJoined, SkipUnrelated, Advance, Run, Reached
        <5>2. CASE next # Len(Tables)
          BY <3>2, <4>1, <5>2 DEF ReadJoined, SkipUnrelated, Advance, Run, Reached
        <5>3. QED BY <5>1, <5>2
      <4>3. next - 1 \in Nat /\ (next - 1) + 1 = next
        BY <4>1
      <4>4. leaked' = IF HasRelationships(Tables[next]) THEN leaked + 1 ELSE leaked
        BY <3>2 DEF ReadJoined, SkipUnrelated
      <4>5. leaked \in Nat /\ leaked <= Cardinality(Joins(next - 1))
        BY <4>2 DEF OneLeakEach, IInv, TypeOK
      <4>6. /\ Cardinality(Joins(next - 1)) \in Nat
            /\ Cardinality(Joins(next)) =
                 IF HasRelationships(Tables[next]) THEN Cardinality(Joins(next - 1)) + 1
                                                   ELSE Cardinality(Joins(next - 1))
        BY <4>3, JoinsCounted
      <4>7. leaked' <= Cardinality(Joins(next))
        BY <4>4, <4>5, <4>6
      <4>8. QED BY <4>2, <4>7 DEF OneLeakEach, Joins
    <3>3. CASE NewServer \/ Listen \/ ServeReturns
      BY <3>3 DEF NewServer, Listen, ServeReturns, Run, OneLeakEach, Reached, Joins
    <3>4. QED BY <1>2, <3>1, <3>2, <3>3
  <2>4. NothingAltered'
    <3>1. CASE ReadPlain
      <4>1. mapping' = Put(mapping, Tables[next], columns[Tables[next]]) /\ joined' = joined
        BY <3>1 DEF ReadPlain
      <4>2. QED BY <2>1, <4>1 DEF Put, NothingAltered
    <3>2. CASE ReadJoined
      <4> DEFINE t == Tables[next]
                 v == Cut(t, mapping, JoinColumns(t, columns))
      <4>1. joined' = Put(joined, t, v) /\ mapping' = mapping
        BY <3>2 DEF ReadJoined
      <4>2. DOMAIN v = DOMAIN JoinColumns(t, columns)
        BY DEF Cut
      <4>3. QED
        <5> HIDE DEF v, t
        <5>1. QED BY <2>1, <4>1, <4>2 DEF Put, NothingAltered
    <3>3. CASE Open \/ SkipUnrelated \/ NewServer \/ Listen \/ ServeReturns
      BY <2>1, <3>3 DEF Open, SkipUnrelated, NewServer, Listen, ServeReturns, NothingAltered
    <3>4. QED BY <1>2, <3>1, <3>2, <3>3
  <2>5. QED BY <2>2, <2>3, <2>4
<1>3. QED BY <1>1, <1>2 DEF RunStep

\* As long as nothing fails and nothing is altered, a request that waits can
\* be answered with its rows.
LEMMA WaitingIsAnswered ==
  ASSUME IInv, WaitingIsServed, SteadyInv, EnoughConnections, failures = 0, alterations = 0,
         NEW r \in Requests, request[r].state = "waiting"
  PROVE  ~AnswerFails(r)
  <1> DEFINE t == request[r].table
  <1>1. run \in {"serving", "returned"} /\ t \in Range(Tables)
    BY DEF WaitingIsServed
  <1>2. PICK i \in DOMAIN Tables : t = Tables[i]
    BY <1>1 DEF Range
  <1>3. t \in DOMAIN mapping /\ (HasRelationships(t) => t \in DOMAIN joined)
    BY <1>1, <1>2 DEF WaitingIsServed
  <1>4. Answers
    <2>1. leaked <= Cardinality(Joins(Len(Tables)))
      BY <1>1 DEF SteadyInv, OneLeakEach, Reached
    <2>2. Cardinality(Joins(Len(Tables))) \in Nat /\ Connections \in Nat /\ leaked \in Nat
      BY JoinsCounted, TablesAreASequence, LifecycleAssumption DEF IInv, TypeOK
    <2>3. QED BY <2>1, <2>2 DEF SteadyInv, Answers, EnoughConnections
  <1>5. ~ScanFails(NamesFor(t), Result(t))
    <2>1. CASE HasRelationships(t)
      <3>1. DOMAIN joined[t] = DOMAIN JoinColumns(t, columns)
        BY <1>3, <2>1 DEF SteadyInv, NothingAltered
      <3>2. NamesFor(t) = joined[t] /\ Result(t) = JoinColumns(t, columns)
        BY <2>1 DEF NamesFor, Result
      <3>3. QED BY <3>1, <3>2 DEF ScanFails
    <2>2. CASE ~HasRelationships(t)
      <3>1. mapping[t] = columns[t]
        BY <1>3 DEF SteadyInv, NothingAltered
      <3>2. NamesFor(t) = PlainColumns(t, mapping) /\ Result(t) = PlainColumns(t, columns)
        BY <2>2 DEF NamesFor, Result
      <3>3. QED BY <3>1, <3>2 DEF ScanFails, PlainColumns
    <2>3. QED BY <2>1, <2>2
  <1>6. QED BY <1>4, <1>5 DEF AnswerFails

\* The other steps.
LEMMA SteadyOther ==
  ASSUME IInv, WaitingIsServed, SteadyInv, EnoughConnections, [Next]_vars, ~RunStep
  PROVE  SteadyInv'
<1> USE DEF SteadyInv
<1>1. failures \in Nat
  BY Bounds DEF IInv, TypeOK
<1>2. CASE ServeFails \/ Killed \/ StopPanics \/ StopReturns
  <2>1. PICK status \in {0, 1, 2, 137} : Exit(status) /\ failures' \in {failures, failures + 1}
    BY <1>2 DEF ServeFails, Killed, StopPanics, StopReturns, Exits
  <2>2. QED BY <2>1, SteadyExit
<1>3. CASE Start
  <2>1. run = "none" /\ run' \in {"none", "endpoint"}
        /\ UNCHANGED <<request, mapping, joined, leaked, columns, reachable, alterations, failures>>
    BY <1>3 DEF Start, clients
  <2>2. OneLeakEach'
    BY <2>1 DEF OneLeakEach, Reached, Joins
  <2>3. NothingAltered' /\ SteadyService'
    BY <2>1 DEF NothingAltered, SteadyService
  <2>4. QED BY <2>1, <2>2, <2>3
<1>4. CASE \/ IntervalPasses \/ StopAsked \/ StopBetweenStarts \/ Shutdown
           \/ DatabaseReturns \/ UNCHANGED vars
  <2>1. /\ UNCHANGED <<run, next, request, mapping, joined, leaked, columns, alterations, failures>>
        /\ reachable' = reachable \/ reachable' = TRUE
    BY <1>4 DEF IntervalPasses, StopAsked, StopBetweenStarts, Shutdown, DatabaseReturns, vars,
                process, clients, manager, database
  <2>2. OneLeakEach'
    BY <2>1 DEF OneLeakEach, Reached, Joins
  <2>3. NothingAltered' /\ SteadyService'
    BY <2>1 DEF NothingAltered, SteadyService
  <2>4. QED BY <2>1, <2>2, <2>3
<1>5. CASE DatabaseGoes
  <2>1. /\ UNCHANGED <<run, next, request, mapping, joined, leaked, columns, alterations>>
        /\ failures' = failures + 1
    BY <1>5 DEF DatabaseGoes, process, clients
  <2>2. OneLeakEach'
    BY <2>1 DEF OneLeakEach, Reached, Joins
  <2>3. NothingAltered' /\ SteadyService'
    BY <1>1, <2>1 DEF NothingAltered, SteadyService
  <2>4. QED BY <1>1, <2>1, <2>2, <2>3
<1>6. ASSUME NEW r \in Requests, NEW t \in Range(Tables), Arrive(r, t)
      PROVE  SteadyInv'
  <2>1. /\ UNCHANGED <<run, next, mapping, joined, leaked, columns, reachable, alterations, failures>>
        /\ run = "serving"
        /\ request' = [request EXCEPT ![r] = [state |-> "waiting", table |-> t]]
    BY <1>6 DEF Arrive, process, database
  <2>2. OneLeakEach'
    BY <2>1 DEF OneLeakEach, Reached, Joins
  <2>3. \A s \in Requests : \/ request'[s] = request[s]
                            \/ request'[s] = [state |-> "waiting", table |-> t]
    BY <2>1 DEF IInv, TypeOK, RequestTypes
  <2>4. NothingAltered' /\ SteadyService'
    BY <2>1, <2>3 DEF NothingAltered, SteadyService
  <2>5. QED BY <2>1, <2>2, <2>4
<1>7. ASSUME NEW r \in Requests, Answer(r) \/ AnswerFails(r)
      PROVE  SteadyInv'
  <2>1. PICK state \in {"200", "500"} : /\ request' = [request EXCEPT ![r].state = state]
                                        /\ state = "500" => AnswerFails(r)
    BY <1>7 DEF Answer, AnswerFails, Respond
  <2>2. /\ UNCHANGED <<run, next, mapping, joined, leaked, columns, reachable, alterations, failures>>
        /\ request[r].state = "waiting"
    BY <1>7 DEF Answer, AnswerFails, Respond, process, database
  <2>3. OneLeakEach'
    BY <2>2 DEF OneLeakEach, Reached, Joins
  <2>4. failures > 0 \/ alterations > 0 \/ ~AnswerFails(r)
    BY <1>1, <2>2, WaitingIsAnswered
  <2>5. \A s \in Requests : \/ request'[s] = request[s]
                            \/ (s = r /\ request'[s].state = state)
    BY <2>1 DEF IInv, TypeOK, RequestTypes
  <2>6. NothingAltered'
    BY <2>1, <2>2, <2>5 DEF NothingAltered
  <2>7. SteadyService'
    BY <2>1, <2>2, <2>4, <2>5 DEF SteadyService
  <2>8. QED BY <2>2, <2>3, <2>6, <2>7
<1>8. ASSUME NEW t \in Range(Tables), NEW cols, Alter(t, cols)
      PROVE  SteadyInv'
  <2>1. /\ UNCHANGED <<run, next, request, mapping, joined, leaked, reachable, failures>>
        /\ alterations' = alterations + 1
    BY <1>8 DEF Alter, process, clients
  <2>2. OneLeakEach'
    BY <2>1 DEF OneLeakEach, Reached, Joins
  <2>3. NothingAltered' /\ SteadyService'
    BY <2>1 DEF NothingAltered, SteadyService
  <2>4. QED BY <2>1, <2>2, <2>3
<1>9. ASSUME NEW t \in Range(Tables),
             (\E c \in ColumnNames : AddColumn(t, c)) \/ (\E i \in DOMAIN columns[t] : DropColumn(t, i))
      PROVE  SteadyInv'
  <2>1. PICK cols : Alter(t, cols)
    BY <1>9 DEF AddColumn, DropColumn
  <2>2. QED BY <2>1, <1>8
<1>10. QED
  <2> HIDE DEF SteadyInv
  <2>1. QED
    BY <1>2, <1>3, <1>4, <1>5, <1>6, <1>7, <1>9 DEF Next, StopStep

\* With more connections than tables that have relationships, however many
\* tables there are and however they are related, requests are answered with
\* their rows until something fails or is altered: the rows that stay open in
\* addRelationshipsToBackendSchemaMapping cost one connection for each table,
\* and the names read at startup fit the rows read later.
THEOREM SteadyServiceTheorem ==
  ASSUME EnoughConnections
  PROVE  Spec => []SteadyService
  <1>1. IInv /\ WaitingIsServed /\ SteadyInv /\ [Next]_vars => SteadyInv'
    BY SteadyRun, SteadyOther
  <1>2. SteadyInv => SteadyService
    BY DEF SteadyInv
  <1>3. QED BY <1>1, <1>2, SteadyInit, InvariantHolds, ServedHolds, PTL DEF Spec

-----------------------------------------------------------------------------
(***************************************************************************)
(* A fourth layer, of the names: what was read of a table or of a join is  *)
(* what is there, or what was there before one of the tables got a column  *)
(* more or less.  Which of them it was does not matter, but as only one    *)
(* did, the lengths tell: a join is as long as it was only if none of its  *)
(* tables is that one.                                                     *)
(***************************************************************************)

\* A join has its table and the tables that one is related to.
LEMMA JoinedTablesType ==
  ASSUME NEW t \in Range(Tables)
  PROVE  /\ JoinedTables(t) \in Seq(Range(Tables)) /\ Len(JoinedTables(t)) \in Nat
         /\ DOMAIN JoinedTables(t) = 1 .. Len(JoinedTables(t))
         /\ \A i \in 1 .. Len(JoinedTables(t)) : JoinedTables(t)[i] \in Range(Tables)
  <1>1. Relations[t] \in Seq(Range(Tables)) /\ <<t>> \in Seq(Range(Tables))
    BY SchemaAssumption
  <1>2. JoinedTables(t) \in Seq(Range(Tables))
    BY <1>1, ConcatProperties DEF JoinedTables
  <1> HIDE DEF JoinedTables
  <1>3. QED BY <1>2, ElementOfSeq, LenProperties

\* What the tables of a database can have as columns.
TableColumns == [Range(Tables) -> Seq(ColumnNames)]

\* The columns of each table of a join, and the table of each of them.
Parts(t, C) == [i \in DOMAIN JoinedTables(t) |-> PlainColumns(JoinedTables(t)[i], C)]
OwnerParts(t, m) ==
  [i \in DOMAIN JoinedTables(t) |-> [j \in DOMAIN m[JoinedTables(t)[i]] |-> JoinedTables(t)[i]]]

\* A map that has the columns of every table.
ReadAll(m) == \A u \in Range(Tables) : m[u] \in Seq(ColumnNames)

\* A has a sequence for each table of a join, as long as its columns in C.
AsLong(A, t, C) ==
  /\ Len(A) = Len(JoinedTables(t))
  /\ \A i \in 1 .. Len(JoinedTables(t)) : Len(A[i]) = Len(C[JoinedTables(t)[i]])

\* What is at each place of them.
HasColumns(B, t, C) ==
  \A i \in 1 .. Len(JoinedTables(t)) : \A j \in 1 .. Len(C[JoinedTables(t)[i]]) :
    B[i][j] = <<JoinedTables(t)[i], C[JoinedTables(t)[i]][j]>>
HasOwners(A, t, m) ==
  \A i \in 1 .. Len(JoinedTables(t)) : \A j \in 1 .. Len(m[JoinedTables(t)[i]]) :
    A[i][j] = JoinedTables(t)[i]

\* They are sequences as long as the columns of the tables.
LEMMA PartsType ==
  ASSUME NEW t \in Range(Tables), NEW C, ReadAll(C)
  PROVE  /\ Parts(t, C) \in Seq(Seq(Range(Tables) \X ColumnNames))
         /\ AsLong(Parts(t, C), t, C) /\ HasColumns(Parts(t, C), t, C)
  <1> DEFINE n == Len(JoinedTables(t))
             J == JoinedTables(t)
  <1>1. n \in Nat /\ DOMAIN J = 1 .. n /\ \A i \in 1 .. n : J[i] \in Range(Tables)
    BY JoinedTablesType
  <1>2. ASSUME NEW i \in 1 .. n
        PROVE  /\ PlainColumns(J[i], C) \in Seq(Range(Tables) \X ColumnNames)
               /\ Len(PlainColumns(J[i], C)) = Len(C[J[i]])
               /\ \A j \in 1 .. Len(C[J[i]]) : PlainColumns(J[i], C)[j] = <<J[i], C[J[i]][j]>>
    <2>1. J[i] \in Range(Tables) /\ C[J[i]] \in Seq(ColumnNames)
      BY <1>1 DEF ReadAll
    <2> HIDE DEF J
    <2>2. DOMAIN C[J[i]] = 1 .. Len(C[J[i]]) /\ Len(C[J[i]]) \in Nat
          /\ \A j \in 1 .. Len(C[J[i]]) : C[J[i]][j] \in ColumnNames
      BY <2>1
    <2>3. PlainColumns(J[i], C) \in [1 .. Len(C[J[i]]) -> Range(Tables) \X ColumnNames]
      BY <2>1, <2>2 DEF PlainColumns
    <2>4. \A j \in 1 .. Len(C[J[i]]) : PlainColumns(J[i], C)[j] = <<J[i], C[J[i]][j]>>
      BY <2>2 DEF PlainColumns
    <2>5. QED BY <2>2, <2>3, <2>4, IsSequence
  <1>3. Parts(t, C) = [i \in 1 .. n |-> PlainColumns(J[i], C)]
    BY <1>1 DEF Parts
  <1> HIDE DEF n, J
  <1>4. Parts(t, C) \in [1 .. n -> Seq(Range(Tables) \X ColumnNames)]
    BY <1>2, <1>3
  <1>5. Parts(t, C) \in Seq(Seq(Range(Tables) \X ColumnNames)) /\ Len(Parts(t, C)) = n
    BY <1>1, <1>4, IsSequence
  <1>6. ASSUME NEW i \in 1 .. n
        PROVE  /\ Len(Parts(t, C)[i]) = Len(C[J[i]])
               /\ \A j \in 1 .. Len(C[J[i]]) : Parts(t, C)[i][j] = <<J[i], C[J[i]][j]>>
    BY <1>2, <1>3
  <1>7. QED BY <1>5, <1>6 DEF n, J, AsLong, HasColumns

\* ... and so are the tables they belong to.
LEMMA OwnersType ==
  ASSUME NEW t \in Range(Tables), NEW m, ReadAll(m)
  PROVE  /\ OwnerParts(t, m) \in Seq(Seq(Range(Tables)))
         /\ AsLong(OwnerParts(t, m), t, m) /\ HasOwners(OwnerParts(t, m), t, m)
  <1> DEFINE n == Len(JoinedTables(t))
             J == JoinedTables(t)
             P(i) == [j \in DOMAIN m[J[i]] |-> J[i]]
  <1>1. n \in Nat /\ DOMAIN J = 1 .. n /\ \A i \in 1 .. n : J[i] \in Range(Tables)
    BY JoinedTablesType
  <1>2. ASSUME NEW i \in 1 .. n
        PROVE  /\ P(i) \in Seq(Range(Tables)) /\ Len(P(i)) = Len(m[J[i]])
               /\ \A j \in 1 .. Len(m[J[i]]) : P(i)[j] = J[i]
    <2>1. J[i] \in Range(Tables) /\ m[J[i]] \in Seq(ColumnNames)
      BY <1>1 DEF ReadAll
    <2> HIDE DEF J
    <2>2. DOMAIN m[J[i]] = 1 .. Len(m[J[i]]) /\ Len(m[J[i]]) \in Nat
      BY <2>1
    <2>3. P(i) \in [1 .. Len(m[J[i]]) -> Range(Tables)]
      BY <2>1, <2>2
    <2>4. \A j \in 1 .. Len(m[J[i]]) : P(i)[j] = J[i]
      BY <2>2
    <2> HIDE DEF P
    <2>5. QED BY <2>2, <2>3, <2>4, IsSequence
  <1>3. OwnerParts(t, m) = [i \in 1 .. n |-> P(i)]
    BY <1>1 DEF OwnerParts
  <1> HIDE DEF n, J, P
  <1>4. OwnerParts(t, m) \in [1 .. n -> Seq(Range(Tables))]
    BY <1>2, <1>3
  <1>5. OwnerParts(t, m) \in Seq(Seq(Range(Tables))) /\ Len(OwnerParts(t, m)) = n
    BY <1>1, <1>4, IsSequence
  <1>6. ASSUME NEW i \in 1 .. n
        PROVE  /\ Len(OwnerParts(t, m)[i]) = Len(m[J[i]])
               /\ \A j \in 1 .. Len(m[J[i]]) : OwnerParts(t, m)[i][j] = J[i]
    BY <1>2, <1>3
  <1>7. QED BY <1>5, <1>6 DEF n, J, AsLong, HasOwners

\* Two maps that agree on the number of columns of every table but one.
AgreeBut(a, C, D) == \A u \in Range(Tables) \ {a} : Len(C[u]) = Len(D[u])

\* Where only one table can differ, a join is as long as another only if the
\* tables of the join are.
LEMMA JoinTells ==
  ASSUME NEW t \in Range(Tables), NEW C, NEW D, ReadAll(C), ReadAll(D),
         NEW a \in Range(Tables), AgreeBut(a, C, D),
         NEW S, NEW T, NEW A \in Seq(Seq(S)), NEW B \in Seq(Seq(T)),
         AsLong(A, t, C), AsLong(B, t, D), Len(FlattenSeq(A)) = Len(FlattenSeq(B))
  PROVE  \A i \in 1 .. Len(JoinedTables(t)) :
           Len(C[JoinedTables(t)[i]]) = Len(D[JoinedTables(t)[i]])
  <1>1. \A i \in 1 .. Len(JoinedTables(t)) : JoinedTables(t)[i] \in Range(Tables)
    BY JoinedTablesType
  <1>2. \A u \in Range(Tables) : Len(C[u]) \in Nat /\ Len(D[u]) \in Nat
    BY DEF ReadAll
  <1>3. CASE Len(C[a]) <= Len(D[a])
    <2>1. ASSUME NEW u \in Range(Tables)
          PROVE  Len(C[u]) <= Len(D[u])
      <3>1. PICK x \in Nat, y \in Nat : x = Len(C[u]) /\ y = Len(D[u])
        BY <1>2
      <3>2. u = a \/ Len(C[u]) = Len(D[u])
        BY DEF AgreeBut
      <3>3. x <= y
        BY <1>3, <3>1, <3>2
      <3>4. QED BY <3>1, <3>3
    <2>2. Within(A, B)
      BY <1>1, <2>1 DEF Within, AsLong
    <2>3. Level(A, B)
      BY <2>2, SameLengths
    <2>4. QED BY <2>3 DEF Level, AsLong
  <1>4. CASE Len(D[a]) <= Len(C[a])
    <2>1. ASSUME NEW u \in Range(Tables)
          PROVE  Len(D[u]) <= Len(C[u])
      <3>1. PICK x \in Nat, y \in Nat : x = Len(D[u]) /\ y = Len(C[u])
        BY <1>2
      <3>2. u = a \/ Len(D[u]) = Len(C[u])
        BY DEF AgreeBut
      <3>3. x <= y
        BY <1>4, <3>1, <3>2
      <3>4. QED BY <3>1, <3>3
    <2>2. Within(B, A)
      BY <1>1, <2>1 DEF Within, AsLong
    <2>3. Level(B, A)
      BY <2>2, SameLengths
    <2>4. QED BY <2>3 DEF Level, AsLong
  <1>5. QED BY <1>2, <1>3, <1>4

\* What cuts a join at startup has its owners right, if one table at most had
\* other columns when it was read by itself.
LEMMA CutIsExact ==
  ASSUME NEW t \in Range(Tables), NEW m, NEW D, ReadAll(m), ReadAll(D),
         NEW a \in Range(Tables), AgreeBut(a, m, D),
         ~CutPanics(t, m, JoinColumns(t, D))
  PROVE  Cut(t, m, JoinColumns(t, D)) = JoinColumns(t, D)
  <1> DEFINE A == OwnerParts(t, m)
             B == Parts(t, D)
             n == Len(JoinedTables(t))
             Y == Range(Tables) \X ColumnNames
             R == {x \in Range(Tables) \X (Range(Tables) \X ColumnNames) : x[2][1] = x[1]}
  <1>1. A \in Seq(Seq(Range(Tables))) /\ AsLong(A, t, m) /\ HasOwners(A, t, m)
    BY OwnersType, Zenon
  <1>2. B \in Seq(Seq(Y)) /\ AsLong(B, t, D) /\ HasColumns(B, t, D)
    BY PartsType, Zenon
  <1>3. Owners(t, m) = FlattenSeq(A) /\ JoinColumns(t, D) = FlattenSeq(B)
    BY Zenon DEF Owners, JoinColumns, OwnerParts, Parts
  <1>4. \A i \in 1 .. n : /\ JoinedTables(t)[i] \in Range(Tables)
                         /\ D[JoinedTables(t)[i]] \in Seq(ColumnNames)
    BY JoinedTablesType DEF ReadAll
  <1> HIDE DEF A, B
  <1>5. Len(FlattenSeq(A)) = Len(FlattenSeq(B))
    BY <1>3 DEF CutPanics
  <1>6. \A i \in 1 .. n : Len(m[JoinedTables(t)[i]]) = Len(D[JoinedTables(t)[i]])
    <2> HIDE DEF Y, R, n
    <2>1. QED BY <1>1, <1>2, <1>5, JoinTells, Zenon DEF n
  <1>7. Len(A) = n /\ Len(B) = n
    BY <1>1, <1>2 DEF AsLong
  <1>8. ASSUME NEW i \in 1 .. n
        PROVE  /\ Len(A[i]) = Len(B[i])
               /\ \A j \in 1 .. Len(A[i]) : <<A[i][j], B[i][j]>> \in R
    <2> DEFINE u == JoinedTables(t)[i]
    <2>1. Len(A[i]) = Len(D[u]) /\ Len(B[i]) = Len(D[u]) /\ Len(m[u]) = Len(D[u])
      BY <1>1, <1>2, <1>6 DEF AsLong
    <2>2. \A j \in 1 .. Len(D[u]) : A[i][j] = u /\ B[i][j] = <<u, D[u][j]>>
      BY <1>1, <1>2, <2>1 DEF HasOwners, HasColumns
    <2>3. u \in Range(Tables) /\ D[u] \in Seq(ColumnNames)
      BY <1>4
    <2> HIDE DEF u
    <2>4. \A j \in 1 .. Len(D[u]) : <<u, <<u, D[u][j]>>>> \in R
      BY <2>3
    <2> HIDE DEF R
    <2>5. QED BY <2>1, <2>2, <2>4
  <1>9. \A p \in 1 .. Len(FlattenSeq(A)) : <<FlattenSeq(A)[p], FlattenSeq(B)[p]>> \in R
    <2> HIDE DEF R
    <2>1. QED BY <1>1, <1>2, <1>7, <1>8, FlattenRelated
  <1>10. FlattenSeq(B) \in Seq(Range(Tables) \X ColumnNames)
    BY <1>2, FlattenType
  <1> DEFINE f == FlattenSeq(B)
             o == FlattenSeq(A)
  <1> HIDE DEF f, o
  <1>11. \A p \in 1 .. Len(f) : <<o[p], f[p]>> \in R
    BY <1>5, <1>9 DEF f, o
  <1>12. f \in Seq(Range(Tables) \X ColumnNames)
    BY <1>10 DEF f
  <1>13. ASSUME NEW p \in 1 .. Len(f)
         PROVE  <<o[p], f[p][2]>> = f[p]
    <2>1. f[p][1] = o[p]
      BY <1>11
    <2>2. f[p] \in Range(Tables) \X ColumnNames
      BY <1>12
    <2>3. QED BY <2>1, <2>2
  <1>14. [p \in DOMAIN f |-> <<o[p], f[p][2]>>] = f
    BY <1>12, <1>13
  <1>15. QED BY <1>3, <1>14 DEF Cut, f, o

\* One table differs, in the number of its columns.
OneDiffers(C, D) ==
  \E a \in Range(Tables) : /\ Len(C[a]) # Len(D[a])
                           /\ \A u \in Range(Tables) \ {a} : C[u] = D[u]

\* Columns that are as many as before are the same.
LEMMA SameJoin ==
  ASSUME NEW t \in Range(Tables), NEW C, NEW D, ReadAll(C), ReadAll(D), OneDiffers(C, D),
         DOMAIN JoinColumns(t, C) = DOMAIN JoinColumns(t, D)
  PROVE  JoinColumns(t, C) = JoinColumns(t, D)
  <1> DEFINE n == Len(JoinedTables(t))
             X == Range(Tables) \X ColumnNames
  <1>1. PICK a \in Range(Tables) : /\ Len(C[a]) # Len(D[a])
                                   /\ \A u \in Range(Tables) \ {a} : C[u] = D[u]
    BY DEF OneDiffers
  <1>2. AgreeBut(a, C, D)
    BY <1>1 DEF AgreeBut
  <1>3. /\ Parts(t, C) \in Seq(Seq(X)) /\ AsLong(Parts(t, C), t, C)
        /\ Parts(t, D) \in Seq(Seq(X)) /\ AsLong(Parts(t, D), t, D)
    BY PartsType, Zenon
  <1>4. JoinColumns(t, C) = FlattenSeq(Parts(t, C)) /\ JoinColumns(t, D) = FlattenSeq(Parts(t, D))
    BY Zenon DEF JoinColumns, Parts
  <1>5. JoinColumns(t, C) \in Seq(X) /\ JoinColumns(t, D) \in Seq(X)
    BY <1>3, <1>4, FlattenType
  <1>6. Len(JoinColumns(t, C)) = Len(JoinColumns(t, D))
    BY <1>5
  <1>7. \A i \in 1 .. n : Len(C[JoinedTables(t)[i]]) = Len(D[JoinedTables(t)[i]])
    BY <1>2, <1>3, <1>4, <1>6, JoinTells, Zenon
  <1>8. \A i \in DOMAIN JoinedTables(t) : C[JoinedTables(t)[i]] = D[JoinedTables(t)[i]]
    BY <1>1, <1>7, JoinedTablesType
  <1>9. \A i \in DOMAIN JoinedTables(t) :
          PlainColumns(JoinedTables(t)[i], C) = PlainColumns(JoinedTables(t)[i], D)
    BY <1>8 DEF PlainColumns
  <1>10. Parts(t, C) = Parts(t, D)
    BY <1>9, Zenon DEF Parts
  <1>11. QED BY <1>4, <1>10

\* What the startup has read is what the tables had before one of them was
\* altered, C, or what they have now.
ReadFrom(C) ==
  /\ C \in TableColumns /\ (C = columns \/ (altered = 1 /\ OneDiffers(C, columns)))
  /\ \A t \in DOMAIN mapping : mapping[t] \in {C[t], columns[t]}
  /\ \A t \in DOMAIN joined : joined[t] \in {JoinColumns(t, C), JoinColumns(t, columns)}

NamesAsRead ==
  /\ altered \in Nat /\ columns \in TableColumns /\ DOMAIN answer = Requests
  /\ run = "none" => DOMAIN mapping = {} /\ DOMAIN joined = {}
  /\ altered <= 1 => \E C : ReadFrom(C)

\* Nothing has been read.
LEMMA NamesInit == Init => NamesAsRead
  <1> SUFFICES ASSUME Init PROVE NamesAsRead
    OBVIOUS
  <1>1. columns \in TableColumns
    BY LifecycleAssumption DEF Init, TableColumns
  <1>2. DOMAIN mapping = {} /\ DOMAIN joined = {}
    BY DEF Init, NothingRead
  <1>3. ReadFrom(columns)
    BY <1>1, <1>2 DEF ReadFrom
  <1>4. QED BY <1>1, <1>2, <1>3 DEF Init, NamesAsRead

\* While something has been read, what altered <= 1 says of it.
LEMMA ReadFromStays ==
  ASSUME NamesAsRead, UNCHANGED <<columns, altered, answer>>,
         mapping' = mapping \/ DOMAIN mapping' = {}, joined' = joined \/ DOMAIN joined' = {},
         run' = "none" => run = "none" \/ (DOMAIN mapping' = {} /\ DOMAIN joined' = {})
  PROVE  NamesAsRead'
  <1>1. \A C : ReadFrom(C) => ReadFrom(C)'
    BY Zenon DEF ReadFrom
  <1>2. altered' <= 1 => \E C : ReadFrom(C)'
    BY <1>1 DEF NamesAsRead
  <1>3. run' = "none" => DOMAIN mapping' = {} /\ DOMAIN joined' = {}
    BY Zenon DEF NamesAsRead
  <1>4. QED BY <1>2, <1>3 DEF NamesAsRead

\* A column that is added or dropped makes its table differ.
LEMMA AlterationDiffers ==
  ASSUME NamesAsRead, NEW t \in Range(Tables),
         (\E c \in ColumnNames : AddColumn(t, c)) \/ (\E i \in DOMAIN columns[t] : DropColumn(t, i))
  PROVE  \E cols \in Seq(ColumnNames) : Alter(t, cols) /\ Len(cols) # Len(columns[t])
  <1>1. columns[t] \in Seq(ColumnNames)
    BY DEF NamesAsRead, TableColumns
  <1>2. ASSUME NEW c \in ColumnNames, AddColumn(t, c)
        PROVE  \E cols \in Seq(ColumnNames) : Alter(t, cols) /\ Len(cols) # Len(columns[t])
    <2>1. Append(columns[t], c) \in Seq(ColumnNames)
          /\ Len(Append(columns[t], c)) # Len(columns[t])
      BY <1>1
    <2>2. QED BY <1>2, <2>1 DEF AddColumn
  <1>3. ASSUME NEW i \in DOMAIN columns[t], DropColumn(t, i)
        PROVE  \E cols \in Seq(ColumnNames) : Alter(t, cols) /\ Len(cols) # Len(columns[t])
    <2> DEFINE s == columns[t]
    <2>1. s \in Seq(ColumnNames) /\ i \in 1 .. Len(s) /\ Len(s) \in Nat
      BY <1>1
    <2>2. Alter(t, RemoveAt(s, i))
      BY <1>3 DEF DropColumn
    <2> HIDE DEF s
    <2>3. /\ SubSeq(s, 1, i - 1) \in Seq(ColumnNames) /\ Len(SubSeq(s, 1, i - 1)) = i - 1
          /\ SubSeq(s, i + 1, Len(s)) \in Seq(ColumnNames)
          /\ Len(SubSeq(s, i + 1, Len(s))) = Len(s) - i
      BY <2>1
    <2>4. RemoveAt(s, i) = SubSeq(s, 1, i - 1) \o SubSeq(s, i + 1, Len(s))
      BY DEF RemoveAt
    <2>5. RemoveAt(s, i) \in Seq(ColumnNames) /\ Len(RemoveAt(s, i)) = (i - 1) + (Len(s) - i)
      BY <2>3, <2>4, ConcatProperties
    <2>6. Len(RemoveAt(s, i)) # Len(s)
      BY <2>1, <2>5
    <2>7. QED BY <2>2, <2>5, <2>6 DEF s
  <1>4. QED BY <1>2, <1>3

\* What is read of a join is what the database returns for it.
LEMMA ReadJoinedExactly ==
  ASSUME IInv, NamesAsRead, ReadJoined, NEW C, ReadFrom(C)
  PROVE  joined' = Put(joined, Tables[next], JoinColumns(Tables[next], columns))
  <1> DEFINE t == Tables[next]
  <1>1. /\ run = "joined" /\ ~CutPanics(t, mapping, JoinColumns(t, columns))
        /\ joined' = Put(joined, t, Cut(t, mapping, JoinColumns(t, columns)))
    BY DEF ReadJoined, Advance, Run
  <1>2. t \in Range(Tables)
    BY <1>1 DEF IInv, TypeOK, Range
  <1>3. \A u \in Range(Tables) : u \in DOMAIN mapping
    BY <1>1 DEF IInv, ReadSoFar, Range
  <1>4. columns \in TableColumns /\ C \in TableColumns
    BY DEF NamesAsRead, ReadFrom
  <1>5. \A u \in Range(Tables) : mapping[u] \in {C[u], columns[u]}
    BY <1>3 DEF ReadFrom
  <1>6. ReadAll(mapping) /\ ReadAll(columns)
    BY <1>4, <1>5 DEF ReadAll, TableColumns
  <1>7. \E a \in Range(Tables) : AgreeBut(a, mapping, columns)
    <2>1. CASE C = columns
      BY <1>2, <1>5, <2>1 DEF AgreeBut
    <2>2. CASE OneDiffers(C, columns)
      <3>1. PICK a \in Range(Tables) : \A u \in Range(Tables) \ {a} : C[u] = columns[u]
        BY <2>2 DEF OneDiffers
      <3>2. AgreeBut(a, mapping, columns)
        BY <1>5, <3>1 DEF AgreeBut
      <3>3. QED BY <3>2
    <2>3. QED BY <2>1, <2>2 DEF ReadFrom
  <1> HIDE DEF t
  <1>8. Cut(t, mapping, JoinColumns(t, columns)) = JoinColumns(t, columns)
    BY <1>1, <1>2, <1>6, <1>7, CutIsExact
  <1>9. QED BY <1>1, <1>8 DEF t

\* Every step: what has been read stays close to what there is.
LEMMA NamesStep ==
  ASSUME IInv, NamesAsRead, [Next]_vars
  PROVE  NamesAsRead'
<1>1. CASE Ends
  <2>1. PICK status : Exit(status)
    BY <1>1, EndsByExit
  <2>2. /\ UNCHANGED <<columns, altered, answer>>
        /\ DOMAIN mapping' = {} /\ DOMAIN joined' = {}
    BY <2>1 DEF Exit, NothingRead
  <2>3. QED BY <2>2, ReadFromStays
<1>2. CASE Start
  <2>1. /\ run = "none" /\ UNCHANGED <<mapping, joined, columns, answer>>
        /\ altered' \in {0, altered} /\ run' \in {"none", "endpoint"}
        /\ run' # "none" => altered' = 0
    BY <1>2 DEF Start, clients
  <2>2. DOMAIN mapping' = {} /\ DOMAIN joined' = {}
    BY <2>1 DEF NamesAsRead
  <2>3. ReadFrom(columns)'
    BY <2>1, <2>2 DEF ReadFrom, NamesAsRead
  <2>4. QED BY <2>1, <2>2, <2>3 DEF NamesAsRead
<1>3. CASE ReadPlain
  <2>1. /\ mapping' = Put(mapping, Tables[next], columns[Tables[next]])
        /\ UNCHANGED <<joined, columns, altered, answer>> /\ run' # "none"
    BY <1>3 DEF ReadPlain, Advance, Run, database, clients
  <2>2. ASSUME NEW C, ReadFrom(C)
        PROVE  ReadFrom(C)'
    <3>1. \A t \in DOMAIN mapping' : mapping'[t] \in {C[t], columns[t]}
      BY <2>1, <2>2 DEF Put, ReadFrom
    <3>2. QED BY <2>1, <2>2, <3>1 DEF ReadFrom
  <2>3. QED BY <2>1, <2>2 DEF NamesAsRead
<1>4. CASE ReadJoined
  <2>1. UNCHANGED <<mapping, columns, altered, answer>> /\ run' # "none"
    BY <1>4 DEF ReadJoined, Advance, Run, database, clients
  <2>2. ASSUME NEW C, ReadFrom(C)
        PROVE  ReadFrom(C)'
    <3>1. joined' = Put(joined, Tables[next], JoinColumns(Tables[next], columns))
      BY <1>4, <2>2, ReadJoinedExactly
    <3>2. \A t \in DOMAIN joined' : joined'[t] \in {JoinColumns(t, C), JoinColumns(t, columns)}
      BY <2>2, <3>1 DEF Put, ReadFrom
    <3>3. QED BY <2>1, <2>2, <3>2 DEF ReadFrom
  <2>3. QED BY <2>1, <2>2 DEF NamesAsRead
<1>5. ASSUME NEW t \in Range(Tables),
             (\E c \in ColumnNames : AddColumn(t, c)) \/ (\E i \in DOMAIN columns[t] : DropColumn(t, i))
      PROVE  NamesAsRead'
  <2>1. PICK cols \in Seq(ColumnNames) : Alter(t, cols) /\ Len(cols) # Len(columns[t])
    BY <1>5, AlterationDiffers
  <2>2. /\ columns' = [columns EXCEPT ![t] = cols] /\ altered' = altered + 1
        /\ UNCHANGED <<run, mapping, joined, answer>>
    BY <2>1 DEF Alter, process, clients
  <2>3. columns \in TableColumns /\ columns' \in TableColumns
    BY <2>2 DEF NamesAsRead, TableColumns
  <2>4. altered \in Nat
    BY DEF NamesAsRead
  <2>5. ASSUME altered' <= 1
        PROVE  \E C : ReadFrom(C)'
    <3>1. altered = 0 /\ altered' = 1
      BY <2>2, <2>4, <2>5
    <3>2. PICK C : ReadFrom(C)
      BY <3>1 DEF NamesAsRead
    <3>3. C = columns
      BY <3>1, <3>2 DEF ReadFrom
    <3>4. OneDiffers(C, columns')
      <4>1. Len(C[t]) # Len(columns'[t]) /\ \A u \in Range(Tables) \ {t} : C[u] = columns'[u]
        BY <2>1, <2>2, <2>3, <3>3 DEF TableColumns
      <4>2. QED BY <4>1 DEF OneDiffers
    <3>5. /\ \A u \in DOMAIN mapping : mapping[u] = C[u]
          /\ \A u \in DOMAIN joined : joined[u] = JoinColumns(u, C)
      BY <3>2, <3>3 DEF ReadFrom
    <3>6. ReadFrom(C)'
      BY <2>2, <2>3, <3>1, <3>3, <3>4, <3>5 DEF ReadFrom
    <3>7. QED BY <3>6
  <2>6. altered' \in Nat
    BY <2>2, <2>4
  <2>7. QED BY <2>2, <2>3, <2>5, <2>6 DEF NamesAsRead
<1>6. CASE \/ Open \/ SkipUnrelated \/ NewServer \/ Listen \/ ServeReturns \/ IntervalPasses
           \/ StopAsked \/ StopBetweenStarts \/ Shutdown \/ DatabaseGoes \/ DatabaseReturns
           \/ (\E r \in Requests, t \in Range(Tables) : Arrive(r, t)) \/ UNCHANGED vars
  <2>1. UNCHANGED <<mapping, joined, columns, altered, answer>>
    BY <1>6 DEF Open, SkipUnrelated, NewServer, Listen, ServeReturns, IntervalPasses, StopAsked,
                StopBetweenStarts, Shutdown, DatabaseGoes, DatabaseReturns, Arrive, Advance, Run,
                vars, process, clients, database
  <2>2. run' = "none" => run = "none"
    BY <1>6 DEF Open, SkipUnrelated, NewServer, Listen, ServeReturns, IntervalPasses, StopAsked,
                StopBetweenStarts, Shutdown, DatabaseGoes, DatabaseReturns, Arrive, Advance, Run,
                vars, process
  <2>3. QED BY <2>1, <2>2, ReadFromStays
<1>7. ASSUME NEW r \in Requests, Answer(r) \/ AnswerFails(r)
      PROVE  NamesAsRead'
  <2>1. UNCHANGED <<run, mapping, joined, columns, altered>> /\ DOMAIN answer' = DOMAIN answer
    BY <1>7 DEF Answer, AnswerFails, Respond, process, database
  <2>2. \A C : ReadFrom(C) => ReadFrom(C)'
    BY <2>1 DEF ReadFrom
  <2>3. QED BY <2>1, <2>2 DEF NamesAsRead
<1>8. QED BY <1>1, <1>2, <1>3, <1>4, <1>5, <1>6, <1>7 DEF Next, RunStep, StopStep, Ends

\* An answer given with 200 has the columns the database returned.
LEMMA AnsweredExactly ==
  ASSUME WaitingIsServed, NamesAsRead, altered <= 1,
         NEW r \in Requests, Answer(r)
  PROVE  NamesFor(request[r].table) = Result(request[r].table)
  <1> DEFINE t == request[r].table
  <1>1. request[r].state = "waiting" /\ ~ScanFails(NamesFor(t), Result(t))
    BY DEF Answer
  <1>2. run \in {"serving", "returned"} /\ t \in Range(Tables)
    BY <1>1 DEF WaitingIsServed
  <1>3. t \in DOMAIN mapping /\ (HasRelationships(t) => t \in DOMAIN joined)
    BY <1>2 DEF WaitingIsServed, Range
  <1>4. PICK C : ReadFrom(C)
    BY DEF NamesAsRead
  <1>5. columns \in TableColumns /\ C \in TableColumns
    BY <1>4 DEF NamesAsRead, ReadFrom
  <1>6. ReadAll(C) /\ ReadAll(columns)
    BY <1>5 DEF ReadAll, TableColumns
  <1> HIDE DEF t
  <1>7. CASE HasRelationships(t)
    <2>1. NamesFor(t) = joined[t] /\ Result(t) = JoinColumns(t, columns)
      BY <1>7 DEF NamesFor, Result
    <2>2. joined[t] \in {JoinColumns(t, C), JoinColumns(t, columns)}
      BY <1>3, <1>4, <1>7 DEF ReadFrom
    <2>3. CASE joined[t] = JoinColumns(t, columns)
      BY <2>1, <2>3 DEF t
    <2>4. CASE joined[t] = JoinColumns(t, C) /\ C # columns
      <3>1. OneDiffers(C, columns)
        BY <1>4, <2>4 DEF ReadFrom
      <3>2. DOMAIN JoinColumns(t, C) = DOMAIN JoinColumns(t, columns)
        BY <1>1, <2>1, <2>4 DEF ScanFails
      <3>3. JoinColumns(t, C) = JoinColumns(t, columns)
        BY <1>2, <1>6, <3>1, <3>2, SameJoin
      <3>4. QED BY <2>1, <2>4, <3>3 DEF t
    <2>5. QED BY <2>2, <2>3, <2>4
  <1>8. CASE ~HasRelationships(t)
    <2>1. NamesFor(t) = PlainColumns(t, mapping) /\ Result(t) = PlainColumns(t, columns)
      BY <1>8 DEF NamesFor, Result
    <2>2. DOMAIN mapping[t] = DOMAIN columns[t]
      BY <1>1, <2>1 DEF ScanFails, PlainColumns
    <2>3. mapping[t] \in {C[t], columns[t]} /\ (C = columns \/ OneDiffers(C, columns))
      BY <1>3, <1>4 DEF ReadFrom
    <2>4. mapping[t] = columns[t]
      <3>1. CASE mapping[t] = C[t] /\ OneDiffers(C, columns)
        <4>1. PICK a \in Range(Tables) : /\ Len(C[a]) # Len(columns[a])
                                         /\ \A u \in Range(Tables) \ {a} : C[u] = columns[u]
          BY <3>1 DEF OneDiffers
        <4>2. C[t] \in Seq(ColumnNames) /\ columns[t] \in Seq(ColumnNames)
          BY <1>2, <1>6 DEF ReadAll
        <4>3. Len(C[t]) = Len(columns[t])
          BY <2>2, <3>1, <4>2
        <4>4. QED BY <1>2, <3>1, <4>1, <4>3
      <3>2. QED BY <2>3, <3>1
    <2>5. QED BY <2>1, <2>4 DEF PlainColumns, t
  <1>9. QED BY <1>7, <1>8

\* One ALTER TABLE, at whatever moment, never makes an answer give a value the
\* name of another column, for any tables, relationships and columns, although
\* prependTableNameToColumnsInJoinedTables cuts joins by position and
\* rowsToResults names values by position: one table has a column more or
\* less, and so has every join of it.
THEOREM OneAlterationIsNoticedTheorem == Spec => []OneAlterationIsNoticed
  <1>1. Init => OneAlterationIsNoticed
    BY DEF Init, OneAlterationIsNoticed
  <1>2. IInv /\ WaitingIsServed /\ NamesAsRead /\ OneAlterationIsNoticed /\ [Next]_vars
          => OneAlterationIsNoticed'
    <2> SUFFICES ASSUME IInv, WaitingIsServed, NamesAsRead, OneAlterationIsNoticed, [Next]_vars
                 PROVE  OneAlterationIsNoticed'
      OBVIOUS
    <2>1. CASE Ends
      <3>1. PICK status : Exit(status)
        BY <2>1, EndsByExit
      <3>2. \A r \in Requests : request'[r].state \in {request[r].state, "cut off"}
        BY <3>1, ExitCutsOff
      <3>3. answer' = answer
        BY <3>1 DEF Exit
      <3>4. QED BY <3>2, <3>3 DEF OneAlterationIsNoticed
    <2>2. ASSUME NEW r \in Requests, NEW t \in Range(Tables), Arrive(r, t)
          PROVE  OneAlterationIsNoticed'
      <3>1. answer' = answer
            /\ request' = [request EXCEPT ![r] = [state |-> "waiting", table |-> t]]
        BY <2>2 DEF Arrive
      <3>2. \A s \in Requests : request'[s] = request[s] \/ request'[s].state = "waiting"
        BY <3>1 DEF IInv, TypeOK, RequestTypes
      <3>3. QED BY <3>1, <3>2 DEF OneAlterationIsNoticed
    <2>3. ASSUME NEW r \in Requests, Answer(r)
          PROVE  OneAlterationIsNoticed'
      <3> DEFINE t == request[r].table
                 a == [names |-> NamesFor(t), columns |-> Result(t), altered |-> altered]
      <3>1. request' = [request EXCEPT ![r].state = "200"] /\ answer' = [answer EXCEPT ![r] = a]
        BY <2>3 DEF Answer, Respond
      <3>2. altered <= 1 => NamesFor(t) = Result(t)
        BY <2>3, AnsweredExactly
      <3>3. a.altered <= 1 => a.names = a.columns
        BY <3>2
      <3> HIDE DEF a
      <3>4. \A s \in Requests : IF s = r THEN answer'[s] = a
                                ELSE answer'[s] = answer[s] /\ request'[s] = request[s]
        BY <3>1 DEF IInv, TypeOK, RequestTypes, NamesAsRead
      <3>5. QED BY <3>3, <3>4 DEF OneAlterationIsNoticed
    <2>4. ASSUME NEW r \in Requests, AnswerFails(r)
          PROVE  OneAlterationIsNoticed'
      <3>1. request' = [request EXCEPT ![r].state = "500"]
            /\ answer' = [answer EXCEPT ![r] = NoAnswer]
        BY <2>4 DEF AnswerFails, Respond
      <3>2. \A s \in Requests : \/ s = r /\ request'[s].state = "500"
                                \/ answer'[s] = answer[s] /\ request'[s] = request[s]
        BY <3>1 DEF IInv, TypeOK, RequestTypes, NamesAsRead
      <3>3. QED BY <3>2 DEF OneAlterationIsNoticed
    <2>5. CASE UNCHANGED <<request, answer>>
      BY <2>5 DEF OneAlterationIsNoticed
    <2>6. CASE \/ Open \/ ReadPlain \/ ReadJoined \/ SkipUnrelated \/ NewServer \/ Listen
               \/ ServeReturns \/ Start \/ IntervalPasses \/ StopAsked \/ StopBetweenStarts
               \/ Shutdown \/ DatabaseGoes \/ DatabaseReturns \/ UNCHANGED vars
               \/ (\E t, cols : Alter(t, cols))
      <3>1. UNCHANGED <<request, answer>>
        BY <2>6 DEF Open, ReadPlain, ReadJoined, SkipUnrelated, NewServer, Listen, ServeReturns,
                    Start, IntervalPasses, StopAsked, StopBetweenStarts, Shutdown, DatabaseGoes,
                    DatabaseReturns, Alter, Advance, Run, vars, clients
      <3>2. QED BY <2>5, <3>1
    <2>7. CASE \E t, cols : Alter(t, cols)
      BY <2>6, <2>7
    <2>8. CASE ~\E t, cols : Alter(t, cols)
      BY <2>1, <2>2, <2>3, <2>4, <2>6, <2>8
         DEF Next, RunStep, StopStep, Ends, AddColumn, DropColumn
    <2>9. QED BY <2>7, <2>8
  <1>3. IInv /\ NamesAsRead /\ [Next]_vars => NamesAsRead'
    BY NamesStep
  <1>4. QED BY <1>1, <1>2, <1>3, NamesInit, InvariantHolds, ServedHolds, PTL DEF Spec
=============================================================================
