-------------------------- MODULE ChatGatewayProofs --------------------------
(***************************************************************************)
(* Proofs about ChatGateway for every finite set of requests, whatever     *)
(* identifiers they share: the gauge, the answers and the activity rows.   *)
(***************************************************************************)
EXTENDS ChatGateway, FiniteSetTheorems, WellFoundedInduction, TLAPS

-----------------------------------------------------------------------------
(* The error table.                                                        *)

\* A set of natural numbers has a least one, and Min finds it.
LEMMA MinFound ==
    ASSUME NEW T, T \subseteq Nat, T # {}
    PROVE  Min(T) \in T
<1> DEFINE R == OpToRel(<, Nat)
<1>1. IsWellFoundedOn(R, Nat)
  BY NatLessThanWellFounded
<1>2. \A x, y \in Nat : y < x => <<y, x>> \in R
  BY DEF OpToRel
<1> HIDE DEF R
<1>3. PICK x \in T : \A y \in T : ~ (<<y, x>> \in R)
  BY <1>1, WFMin
<1>4. ASSUME NEW y \in T
      PROVE  x <= y
  <2>1. ~ (y < x)
    BY <1>2, <1>3, Zenon
  <2> QED
    BY <2>1
<1> QED
  BY <1>3, <1>4 DEF Min

\* No exception is answered like a success (api/app.py, application_error).
LEMMA ErrorsAreErrors ==
    ASSUME NEW e
    PROVE  application_error(e).status # 200
<1> DEFINE found == {i \in DOMAIN ERRORS : IsInstance(e, ERRORS[i].class)}
<1>1. DOMAIN ERRORS = 1 .. 20
  BY DEF ERRORS
<1>2. \A i \in 1 .. 20 : ERRORS[i].answer.status # 200
  BY DEF ERRORS, Row
<1>3. found # {} => Min(found) \in 1 .. 20
  BY <1>1, MinFound
<1>4. GatewayStatus(e.category) # 200
  BY DEF GatewayStatus
<1> QED
  BY <1>2, <1>3, <1>4 DEF application_error

\* A class without a base of the project's own is only itself.
LEMMA PlainClass ==
    ASSUME NEW c, c \notin DOMAIN Bases
    PROVE  Ancestors(c) = {c}
  BY DEF Ancestors

\* The failures that chat records, by their class.
LEMMA RecordedFailures ==
    ASSUME NEW x \in {Deadline, Invalid} \cup ProviderFailures
    PROVE  /\ x # Ok /\ x # Pending
           /\ Outcome(x) # "returned"
           /\ Outcome(x) = "validation_failed" <=> x = Invalid
           /\ application_error(x).code = "response_validation_failed" <=> x = Invalid
<1>1. /\ "ResponseValidationError" \notin DOMAIN Bases
      /\ "InferenceDeadlineExceededError" \notin DOMAIN Bases
      /\ "ProviderUnavailableError" \notin DOMAIN Bases
      /\ "CompletionRejectedError" \in DOMAIN Bases
      /\ "GatewayError" \in DOMAIN Bases
      /\ "ProviderFailureError" \notin DOMAIN Bases
      /\ Bases["GatewayError"] = {"ProviderFailureError"}
      /\ Bases["CompletionRejectedError"] = {"GatewayError"}
  BY DEF Bases
<1>2. Ancestors("CompletionRejectedError") =
        {"CompletionRejectedError", "GatewayError", "ProviderFailureError"}
  <2> DEFINE Up(S) == S \cup UNION {Bases[y] : y \in S \cap DOMAIN Bases}
  <2>1. Ancestors("CompletionRejectedError") = Up(Up({"CompletionRejectedError"}))
    BY DEF Ancestors
  <2>2. Up({"CompletionRejectedError"}) = {"CompletionRejectedError", "GatewayError"}
    BY <1>1
  <2>3. Up({"CompletionRejectedError", "GatewayError"}) =
          {"CompletionRejectedError", "GatewayError", "ProviderFailureError"}
    BY <1>1
  <2> HIDE DEF Up
  <2> QED
    BY <2>1, <2>2, <2>3
<1>3. CASE x.class = "CompletionRejectedError"
  <2>1. x = [class |-> "CompletionRejectedError", category |-> "gateway_empty_response"]
    BY <1>3 DEF Deadline, Invalid, ProviderFailures, Err
  <2> QED
    BY <1>2, <2>1
       DEF Outcome, IsInstance, application_error, Ok, Pending, Invalid, Err
<1>4. CASE x.class # "CompletionRejectedError"
  <2>1. x = Deadline \/ x = Invalid \/ x = Err("ProviderUnavailableError")
    BY <1>4 DEF ProviderFailures
  <2>2. Ancestors(x.class) = {x.class} /\ x.class # "GatewayError"
    BY <1>1, <2>1, PlainClass DEF Deadline, Invalid, Err
  <2>3. DOMAIN ERRORS = 1 .. 20
    BY DEF ERRORS
  <2>4. /\ \A i \in 1 .. 20 : ERRORS[i].class = "ResponseValidationError" <=> i = 4
        /\ \A i \in 1 .. 20 : ERRORS[i].class = "InferenceDeadlineExceededError" <=> i = 1
        /\ \A i \in 1 .. 20 : ERRORS[i].class = "ProviderUnavailableError" <=> i = 19
        /\ \A i \in 1 .. 20 : ERRORS[i].answer.code = "response_validation_failed" <=> i = 4
    BY DEF ERRORS, Row
  <2>5. PICK k \in {1, 4, 19} : /\ \A i \in 1 .. 20 : ERRORS[i].class = x.class <=> i = k
                                /\ k = 4 <=> x = Invalid
    BY <2>1, <2>4 DEF Deadline, Invalid, Err
  <2>6. {i \in DOMAIN ERRORS : IsInstance(x, ERRORS[i].class)} = {k}
    BY <2>2, <2>3, <2>5 DEF IsInstance
  <2>7. Min({k}) = k
    BY <2>5 DEF Min
  <2>8. application_error(x) = ERRORS[k].answer
    BY <2>2, <2>6, <2>7 DEF application_error, IsInstance
  <2>9. application_error(x).code = "response_validation_failed" <=> x = Invalid
    BY <2>4, <2>5, <2>8
  <2> QED
    BY <2>1, <2>2, <2>9 DEF Outcome, IsInstance, Ok, Pending, Deadline, Invalid, Err
<1> QED
  BY <1>3, <1>4
-----------------------------------------------------------------------------
(* The inductive invariant.                                                *)

Types ==
    /\ pc \in [Requests -> InFlight \cup {"out", "done"}]
    /\ endpoint \in [Requests -> Endpoints \cup {"inference"}]
    /\ rid \in [Requests -> SuppliedIds \cup Requests]
    /\ expired \in [Requests -> BOOLEAN]
    /\ written \in [Requests -> {"none", "success", "failure"}]
    /\ admitted \subseteq Requests
    /\ DOMAIN result = Requests /\ DOMAIN reply = Requests

\* What chat writes a row for.
ToRecord(r) == endpoint[r] \in Chat /\ r \in admitted /\ result[r] \in {Ok} \cup Recorded(r)

HasRow(r) == \E row \in rows : row.id = r /\ row.req = rid[r]

\* How far a request is says what it has by then.
Course(r) ==
    /\ pc[r] \in {"out", "routing", "admitting"} => r \notin admitted
    /\ pc[r] = "executing" => r \in admitted
    /\ pc[r] \in {"out", "routing", "admitting", "executing"} => result[r] = Pending
    /\ pc[r] \notin {"replying", "done"} => written[r] = "none"
    /\ pc[r] \in {"recording", "writing"} => ToRecord(r)
    /\ pc[r] = "done" =>
          reply[r] = Cancelled \/ result[r] = Pending \/ reply[r] = Answer(result[r])
    /\ ToRecord(r) /\ Repository /\ ~ expired[r]
       /\ (pc[r] = "replying" \/ (pc[r] = "done" /\ reply[r] # Cancelled)) =>
          HasRow(r) \/ written[r] = "failure"
    /\ written[r] = "success" => HasRow(r)

\* A row is of a request that is past its write, and tells its result.
Accounts(row) ==
    /\ row.id \in Requests /\ ToRecord(row.id)
    /\ row.req = rid[row.id] /\ row.outcome = Outcome(result[row.id])
    /\ pc[row.id] \in {"replying", "done"}

Inv ==
    /\ Types
    /\ GaugeBalanced
    /\ \A r \in Requests : Course(r)
    /\ \A row \in rows : Accounts(row)

\* The gauge follows the number of requests in flight when one of them goes in,
\* out or on (http_started and http_finished of the middleware).
LEMMA Counting ==
    ASSUME Types, GaugeBalanced, NEW r \in Requests, NEW where,
           pc' = [pc EXCEPT ![r] = where],
           \/ gauge' = gauge /\ (pc[r] \in InFlight <=> where \in InFlight)
           \/ gauge' = gauge + 1 /\ pc[r] \notin InFlight /\ where \in InFlight
           \/ gauge' = gauge - 1 /\ pc[r] \in InFlight /\ where \notin InFlight
    PROVE  GaugeBalanced'
<1> DEFINE Busy == {x \in Requests : pc[x] \in InFlight}
           Now == {x \in Requests : pc'[x] \in InFlight}
<1>1. \A x \in Requests : pc'[x] = IF x = r THEN where ELSE pc[x]
  BY DEF Types
<1>2. IsFiniteSet(Busy) /\ Cardinality(Busy) \in Nat
  BY FS_Subset, FS_CardinalityType, GatewayAssumption
<1>3. gauge = Cardinality(Busy)
  BY DEF GaugeBalanced
<1>4. CASE gauge' = gauge /\ (pc[r] \in InFlight <=> where \in InFlight)
  <2>1. Now = Busy
    BY <1>1, <1>4
  <2> QED
    BY <1>3, <1>4, <2>1 DEF GaugeBalanced
<1>5. CASE gauge' = gauge + 1 /\ pc[r] \notin InFlight /\ where \in InFlight
  <2>1. Now = Busy \cup {r} /\ r \notin Busy
    BY <1>1, <1>5
  <2>2. Cardinality(Now) = Cardinality(Busy) + 1
    BY <1>2, <2>1, FS_AddElement
  <2> QED
    BY <1>3, <1>5, <2>2 DEF GaugeBalanced
<1>6. CASE gauge' = gauge - 1 /\ pc[r] \in InFlight /\ where \notin InFlight
  <2>1. Now = Busy \ {r} /\ r \in Busy
    BY <1>1, <1>6
  <2>2. Cardinality(Now) = Cardinality(Busy) - 1
    BY <1>2, <2>1, FS_RemoveElement
  <2> QED
    BY <1>3, <1>6, <2>2 DEF GaugeBalanced
<1> QED
  BY <1>4, <1>5, <1>6

-----------------------------------------------------------------------------
\* Results are told apart by their class.
LEMMA PendingIsNoResult == \A r : Pending \notin {Ok} \cup Recorded(r)
  BY DEF Pending, Ok, Recorded, Deadline, Invalid, ProviderFailures, Err

\* Steps of one request before its row is written.
LEMMA EarlySteps ==
    ASSUME Inv, NEW r \in Requests,
           \/ ArriveInvalidId(r)
           \/ \E e \in Endpoints : Arrive(r, e)
           \/ Refuse(r) \/ AskAdmission(r) \/ Admit(r) \/ NotAdmitted(r)
           \/ \E x \in ExecutionResults : Executed(r, x)
    PROVE  Inv'
<1> USE DEF Inv, Goto, Gives, InFlight, Awaiting
<1>0. rows' = rows
  BY DEF ArriveInvalidId, Arrive, Refuse, AskAdmission, Admit, NotAdmitted, Executed
<1>1. pc[r] \notin {"replying", "done"} /\ \A row \in rows : row.id # r
  BY DEF ArriveInvalidId, Arrive, Refuse, AskAdmission, Admit, NotAdmitted, Executed,
         Accounts
<1>2. Types'
  BY DEF ArriveInvalidId, Arrive, Refuse, AskAdmission, Admit, NotAdmitted, Executed,
         Types
<1>3. GaugeBalanced'
  BY Counting
     DEF ArriveInvalidId, Arrive, Refuse, AskAdmission, Admit, NotAdmitted, Executed
<1>4. ASSUME NEW x \in Requests, x # r
      PROVE  /\ pc'[x] = pc[x] /\ endpoint'[x] = endpoint[x] /\ rid'[x] = rid[x]
             /\ expired'[x] = expired[x] /\ result'[x] = result[x]
             /\ written'[x] = written[x] /\ reply'[x] = reply[x]
             /\ x \in admitted' <=> x \in admitted
  BY <1>4 DEF ArriveInvalidId, Arrive, Refuse, AskAdmission, Admit, NotAdmitted,
              Executed, Types
<1>5. ASSUME NEW x \in Requests, x # r
      PROVE  Course(x)'
  BY <1>0, <1>4, <1>5 DEF Course, ToRecord, HasRow, Recorded
<1>6. \A row \in rows' : Accounts(row)'
  BY <1>0, <1>1, <1>4 DEF Accounts, ToRecord, Recorded
<1>7. Course(r)'
  <2>1. CASE ArriveInvalidId(r)
    BY <2>1, <1>0, PendingIsNoResult DEF ArriveInvalidId, Course, ToRecord, HasRow, Types
  <2>2. ASSUME NEW e \in Endpoints, Arrive(r, e)
        PROVE  Course(r)'
    BY <2>2, <1>0 DEF Arrive, Course, ToRecord, HasRow, Types
  <2>3. CASE Refuse(r)
    BY <2>3, <1>0 DEF Refuse, Course, ToRecord, HasRow, Types
  <2>4. CASE AskAdmission(r)
    BY <2>4, <1>0 DEF AskAdmission, Course, ToRecord, HasRow, Types
  <2>5. CASE Admit(r)
    BY <2>5, <1>0 DEF Admit, Course, ToRecord, HasRow, Types
  <2>6. CASE NotAdmitted(r)
    BY <2>6, <1>0 DEF NotAdmitted, Course, ToRecord, HasRow, Types
  <2>7. ASSUME NEW x \in ExecutionResults, Executed(r, x)
        PROVE  Course(r)'
    BY <2>7, <1>0 DEF Executed, Course, ToRecord, HasRow, Types, Recorded
  <2> QED
    BY <2>1, <2>2, <2>3, <2>4, <2>5, <2>6, <2>7
<1> QED
  BY <1>2, <1>3, <1>5, <1>6, <1>7
\* The activity row and the answer: skipping, writing, losing, replying, and a
\* client or a deadline that does not wait.
LEMMA LateSteps ==
    ASSUME Inv, NEW r \in Requests,
           \/ SkipWrite(r) \/ StartWrite(r) \/ WriteSucceeds(r) \/ WriteFails(r)
           \/ Reply(r) \/ Expire(r) \/ Cancel(r)
    PROVE  Inv'
<1> USE DEF Inv, Goto, InFlight, Awaiting
<1>1. Types'
  <2> USE DEF Types
  <2>1. CASE SkipWrite(r) \/ StartWrite(r)
    BY <2>1 DEF SkipWrite, StartWrite
  <2>2. CASE WriteSucceeds(r)
    BY <2>2 DEF WriteSucceeds
  <2>3. CASE WriteFails(r)
    <3>1. /\ pc' = [pc EXCEPT ![r] = "replying"]
          /\ written' = [written EXCEPT ![r] = "failure"]
          /\ UNCHANGED <<endpoint, rid, expired, result, admitted, reply>>
      BY <2>3 DEF WriteFails
    <3> QED
      BY <3>1
  <2>4. CASE Reply(r)
    BY <2>4 DEF Reply
  <2>5. CASE Expire(r)
    BY <2>5 DEF Expire
  <2>6. CASE Cancel(r)
    <3>1. /\ pc' = [pc EXCEPT ![r] = "done"]
          /\ reply' = [reply EXCEPT ![r] = Cancelled]
          /\ UNCHANGED <<endpoint, rid, expired, result, written, admitted>>
      BY <2>6 DEF Cancel
    <3> QED
      BY <3>1
  <2> QED
    BY <2>1, <2>2, <2>3, <2>4, <2>5, <2>6
<1>2. GaugeBalanced'
  <2>1. CASE Expire(r)
    BY <2>1 DEF Expire, GaugeBalanced
  <2> QED
    BY <2>1, Counting
       DEF SkipWrite, StartWrite, WriteSucceeds, WriteFails, Reply, Cancel
<1>3. /\ endpoint' = endpoint /\ rid' = rid /\ result' = result /\ admitted' = admitted
      /\ \A x \in Requests \ {r} :
            /\ pc'[x] = pc[x] /\ expired'[x] = expired[x]
            /\ written'[x] = written[x] /\ reply'[x] = reply[x]
  BY DEF SkipWrite, StartWrite, WriteSucceeds, WriteFails, Reply, Expire, Cancel, Types
<1>4. \/ rows' = rows
      \/ /\ rows' = rows \cup {Activity(r)}
         /\ pc[r] = "writing" /\ pc'[r] \in {"replying", "done"}
  BY DEF SkipWrite, StartWrite, WriteSucceeds, WriteFails, Reply, Expire, Cancel, Types
<1>5. rows \subseteq rows'
  BY <1>4
<1>6. \A row \in rows' : Accounts(row)'
  <2>1. pc[r] \in {"replying", "done"} => pc'[r] \in {"replying", "done"}
    BY DEF SkipWrite, StartWrite, WriteSucceeds, WriteFails, Reply, Expire, Cancel, Types
  <2>2. \A row \in rows : Accounts(row)'
    BY <1>3, <2>1 DEF Accounts, ToRecord, Recorded
  <2>3. ASSUME NEW row, row = Activity(r), pc[r] = "writing", pc'[r] \in {"replying", "done"}
        PROVE  Accounts(row)'
    BY <1>3, <2>3 DEF Accounts, ToRecord, Recorded, Activity, Course
  <2> QED
    BY <1>4, <2>2, <2>3
<1>7. \A x \in Requests \ {r} : Course(x)'
  BY <1>3, <1>5 DEF Course, ToRecord, Recorded, HasRow
<1>8. Course(r)'
  <2> USE <1>3, <1>5 DEF Course, ToRecord, Recorded, HasRow, Types
  <2>1. CASE SkipWrite(r)
    BY <2>1 DEF SkipWrite
  <2>2. CASE StartWrite(r)
    BY <2>2 DEF StartWrite
  <2>3. CASE WriteSucceeds(r)
    BY <2>3 DEF WriteSucceeds, Activity
  <2>4. CASE WriteFails(r)
    BY <2>4 DEF WriteFails
  <2>5. CASE Reply(r)
    BY <2>5 DEF Reply
  <2>6. CASE Expire(r)
    BY <2>6 DEF Expire
  <2>7. CASE Cancel(r)
    BY <2>7 DEF Cancel
  <2> QED
    BY <2>1, <2>2, <2>3, <2>4, <2>5, <2>6, <2>7
<1> QED
  BY <1>1, <1>2, <1>6, <1>7, <1>8

\* Inv holds in every state, however the requests interleave.
LEMMA Invariant == Spec => []Inv
<1>1. Init => Inv
  <2> SUFFICES ASSUME Init PROVE Inv
    OBVIOUS
  <2>1. Types
    BY DEF Init, Types
  <2>2. {r \in Requests : pc[r] \in InFlight} = {}
    BY DEF Init, InFlight, Awaiting
  <2>3. GaugeBalanced
    BY <2>2, FS_EmptySet DEF GaugeBalanced, Init
  <2>4. \A r \in Requests : Course(r)
    BY DEF Init, Course, ToRecord
  <2> QED
    BY <2>1, <2>3, <2>4 DEF Inv, Init
<1>2. Inv /\ [Next]_vars => Inv'
  <2> SUFFICES ASSUME Inv, [Next]_vars PROVE Inv'
    OBVIOUS
  <2>1. ASSUME NEW r \in Requests, RequestStep(r) \/ Expire(r) \/ Cancel(r)
        PROVE  Inv'
    BY <2>1, EarlySteps, LateSteps DEF RequestStep
  <2>2. CASE UNCHANGED vars
    BY <2>2 DEF vars, Inv, Types, GaugeBalanced, Course, Accounts, ToRecord, Recorded,
                HasRow
  <2> QED
    BY <2>1, <2>2 DEF Next
<1> QED
  BY <1>1, <1>2, PTL DEF Spec

-----------------------------------------------------------------------------
(* The theorems.                                                           *)

\* The gauge never leaves 0 .. the number of requests, rows have outcomes of
\* the schema, and every request is somewhere in the middleware.
THEOREM TypeCorrect == Spec => []TypeOK
<1>1. Inv => TypeOK
  <2> SUFFICES ASSUME Inv PROVE TypeOK
    OBVIOUS
  <2> DEFINE Busy == {r \in Requests : pc[r] \in InFlight}
  <2>1. Cardinality(Busy) \in Nat /\ Cardinality(Busy) <= Cardinality(Requests)
    BY GatewayAssumption, FS_Subset, FS_CardinalityType
  <2>2. Cardinality(Requests) \in Nat
    BY GatewayAssumption, FS_CardinalityType
  <2>3. gauge \in 0 .. Cardinality(Requests)
    BY <2>1, <2>2 DEF Inv, GaugeBalanced
  <2>4. \A x : Outcome(x) \in {"returned", "provider_failure",
                               "validation_failed", "deadline_exceeded"}
    BY DEF Outcome
  <2> QED
    BY <2>3, <2>4 DEF Inv, Types, TypeOK, Accounts
<1> QED
  BY Invariant, <1>1, PTL

\* However requests interleave, fail or are cancelled, the in-progress gauge is
\* the number of requests in progress (api/app.py, the middleware's finally).
THEOREM GaugeExact == Spec => []GaugeBalanced
  BY Invariant, PTL DEF Inv

\* The answer is what execution gave, the row agrees with the answer, and a row
\* that is missing was counted or had no time left: telemetry decides nothing,
\* and no other request with the same identifier does (application/chat.py).
THEOREM AnswersAgree == Spec => []AnswersAndRowsAgree
<1>1. \A x : Answer(x).status = 200 <=> x = Ok
  BY ErrorsAreErrors DEF Answer, Ok, Err
<1>2. Inv => AnswerIsResult
  BY <1>1 DEF Inv, Course, AnswerIsResult
<1>3. Inv => RowTellsAnswer
  <2> SUFFICES ASSUME Inv, NEW row \in rows
               PROVE  LET r == row.id
                      IN  /\ r \in admitted /\ endpoint[r] \in Chat /\ row.req = rid[r]
                          /\ pc[r] = "done" /\ reply[r] # Cancelled =>
                                /\ (row.outcome = "returned") <=> (reply[r].status = 200)
                                /\ (row.outcome = "validation_failed") <=>
                                      (reply[r].code = "response_validation_failed")
    BY DEF RowTellsAnswer
  <2> DEFINE r == row.id
  <2>1. Accounts(row) /\ r \in Requests /\ Course(r)
    BY DEF Inv, Accounts
  <2>2. SUFFICES ASSUME pc[r] = "done", reply[r] # Cancelled
                 PROVE  /\ (row.outcome = "returned") <=> (reply[r].status = 200)
                        /\ (row.outcome = "validation_failed") <=>
                              (reply[r].code = "response_validation_failed")
    BY <2>1 DEF Accounts, ToRecord
  <2>3. result[r] \in {Ok} \cup Recorded(r) /\ row.outcome = Outcome(result[r])
    BY <2>1 DEF Accounts, ToRecord
  <2>4. reply[r] = Answer(result[r])
    BY <2>1, <2>2, <2>3, PendingIsNoResult DEF Course
  <2>5. CASE result[r] = Ok
    <3>1. reply[r] = [status |-> 200, code |-> "ok"]
      BY <2>4, <2>5 DEF Answer, Ok, Err
    <3>2. Ancestors("none") = {"none"}
      BY PlainClass DEF Bases
    <3>3. row.outcome = "returned"
      BY <2>3, <2>5, <3>2 DEF Outcome, IsInstance, Ok
    <3> QED
      BY <3>1, <3>3
  <2>6. CASE result[r] # Ok
    <3>1. result[r] \in {Deadline, Invalid} \cup ProviderFailures
      BY <2>3, <2>6 DEF Recorded
    <3>2. result[r] # Err("RequestValidationError")
      BY <3>1 DEF Deadline, Invalid, ProviderFailures, Err
    <3>3. reply[r] = application_error(result[r])
      BY <2>4, <2>6, <3>2 DEF Answer
    <3>4. /\ Outcome(result[r]) # "returned"
          /\ Outcome(result[r]) = "validation_failed" <=> result[r] = Invalid
          /\ application_error(result[r]).code = "response_validation_failed" <=>
                result[r] = Invalid
      BY <3>1, RecordedFailures
    <3>5. application_error(result[r]).status # 200
      BY ErrorsAreErrors
    <3> QED
      BY <2>3, <3>3, <3>4, <3>5
  <2> QED
    BY <2>5, <2>6
<1>4. Inv => LostRowsAreCounted
  BY DEF Inv, Course, LostRowsAreCounted, ToRecord, HasRow
<1> QED
  BY Invariant, <1>2, <1>3, <1>4, PTL DEF AnswersAndRowsAgree
=============================================================================
