----------------------- MODULE ResourceServers_proofs -----------------------
(***************************************************************************)
(* Theorems about HrServer and ItServer, for any number of employees,      *)
(* requests, cubicles, assets and resets; about ToolPath, the contract by  *)
(* which calls reach them, for any roles and number of messages; and about *)
(* the two caches that the calls' tokens go through: KeyCache, for any     *)
(* number of validations and keys and every time to live, transit and      *)
(* leeway, and ActorToken, for every number of callers, cap and delay.     *)
(***************************************************************************)
EXTENDS HrServer, ItServer, ToolPath, KeyCache, ActorToken, FiniteSetTheorems, TLAPS

-----------------------------------------------------------------------------
(* What a step of the HR server does to each part of the store.              *)

LeavePart ==
  \/ UNCHANGED <<balance, request, counter, told>>
  \/ \E s \in Employees, t \in Types, d \in Lengths : ApplyLeave(s, t, d)
  \/ \E r \in Employees, i \in Ids : Approved(r, i) /\ UNCHANGED counter
  \/ \E r \in Employees, i \in Ids : Rejected(r, i) /\ UNCHANGED <<balance, counter>>
  \/ Seeded

PeoplePart ==
  \/ UNCHANGED <<known, met>>
  \/ \E s \in Employees : Authenticate(s)
  \/ \E s \in Employees : known' = Ensured(s, FALSE) /\ UNCHANGED met
  \/ Seeded

HolderPart ==
  \/ UNCHANGED holder
  \/ \E c \in Cubicles, n \in Usernames : holder' = Occupied(c, n, Lookup(n))
  \/ Seeded

RestPart == reading' \subseteq Employees \X {"apply", "reject"} /\ resets' \in 0 .. MaxResets

Parts == LeavePart /\ PeoplePart /\ HolderPart /\ RestPart

\* Each step touches one part of the store and leaves the others alone.
LEMMA StepParts == HrTypeOK /\ [HrNext]_hrVars => Parts
<1> SUFFICES ASSUME HrTypeOK, [HrNext]_hrVars PROVE Parts
  OBVIOUS
<1> USE HrAssumption
<1> USE DEF Parts, LeavePart, PeoplePart, HolderPart, RestPart
<1>1. reading \subseteq Employees \X {"apply", "reject"} /\ resets \in 0 .. MaxResets
  BY DEF HrTypeOK
<1>2. ASSUME NEW s \in Employees, McpBalance(s) \/ McpHistory(s) \/ RestOwn(s) \/ RestReports(s) PROVE Parts
  BY <1>1, <1>2 DEF McpBalance, McpHistory, McpOwn, RestOwn, RestReports, RestOnly
<1>3. ASSUME NEW s \in Employees, Reset(s) PROVE Parts
  BY <1>1, <1>3 DEF Reset
<1>4. ASSUME NEW s \in Employees, NEW op \in {"apply", "reject"}, RestBody(s, op) PROVE Parts
  <2>1. reading' = reading \cup {<<s, op>>} /\ Authenticate(s)
        /\ UNCHANGED <<balance, request, counter, holder, resets, told>>
    BY <1>4 DEF RestBody
  <2>2. reading' \subseteq Employees \X {"apply", "reject"}
    BY <1>1, <2>1
  <2> QED
    BY <1>1, <2>1, <2>2
<1>5. ASSUME NEW s \in Employees, NEW op \in {"apply", "reject"}, RestBodyBad(s, op) PROVE Parts
  BY <1>1, <1>5 DEF RestBodyBad
<1>6. ASSUME NEW s \in Employees, NEW t \in Types, NEW d \in Lengths, McpApply(s, t, d) \/ RestApply(s, t, d)
      PROVE  Parts
  <2>1. ApplyLeave(s, t, d) /\ reading' \subseteq reading
    BY <1>6 DEF McpApply, RestApply
  <2> QED
    BY <1>1, <2>1 DEF ApplyLeave
<1>7. ASSUME NEW r \in Employees, NEW i \in Ids, McpApprove(r, i) \/ RestApprove(r, i) PROVE Parts
  BY <1>1, <1>7 DEF McpApprove, RestApprove
<1>8. ASSUME NEW r \in Employees, NEW i \in Ids, McpReject(r, i) \/ RestReject(r, i) PROVE Parts
  BY <1>1, <1>8 DEF McpReject, RestReject
<1>9. ASSUME NEW r \in Employees, NEW c \in Cubicles, NEW n \in Usernames, AssignCubicle(r, c, n) PROVE Parts
  BY <1>1, <1>9 DEF AssignCubicle
<1>10. CASE UNCHANGED hrVars
  BY <1>1, <1>10 DEF hrVars
<1> QED
  BY <1>2, <1>3, <1>4, <1>5, <1>6, <1>7, <1>8, <1>9, <1>10 DEF HrNext

-----------------------------------------------------------------------------
(* Types, part by part.                                                      *)

\* Registering a caller keeps the type of the users.
LEMMA EnsuredType ==
  ASSUME HrTypeOK, NEW s \in Employees, NEW named \in BOOLEAN
  PROVE  /\ Ensured(s, named) \in [Employees -> {"no", "bare", "named"}]
         /\ \A e \in Employees : known[e] = "named" => Ensured(s, named)[e] = "named"
         /\ named /\ UserOf[s] # NoName => Ensured(s, named)[s] = "named"
  BY DEF HrTypeOK, Ensured

\* Whoever is found under a username is the one whose it is.
LEMMA LookupType ==
  ASSUME NEW n \in Usernames
  PROVE  Lookup(n) = NoName \/ (Lookup(n) \in Employees /\ UserOf[Lookup(n)] = n)
<1>1. CASE \E s \in Employees : known[s] = "named" /\ UserOf[s] = n
  BY <1>1 DEF Lookup
<1>2. CASE ~\E s \in Employees : known[s] = "named" /\ UserOf[s] = n
  BY <1>2 DEF Lookup
<1> QED
  BY <1>1, <1>2

\* What a decision is about, and writes.
LEMMA DecidedType ==
  ASSUME HrTypeOK, NEW r \in Employees, NEW i \in Ids, NEW verdict \in Verdicts,
         Open(i), Decided(r, i, verdict), UNCHANGED counter
  PROVE  /\ request[i] \in Request /\ request'[i] \in Request
         /\ request'[i].status = verdict /\ request'[i].by = r
         /\ request' \in [Ids -> Request \cup {NoRequest}]
         /\ \A j \in Ids : j # i => request'[j] = request[j]
         /\ \A j \in Ids : request'[j] # NoRequest <=> j <= counter'
<1>1. i <= counter /\ request[i] # NoRequest /\ request[i] \in Request
  BY DEF HrTypeOK, Open, Ids
<1>2. request' = [request EXCEPT ![i] = [request[i] EXCEPT !.status = verdict, !.by = r]]
  BY DEF Decided, HrTypeOK
<1>3. [request[i] EXCEPT !.status = verdict, !.by = r] \in Request
  BY <1>1 DEF Request
<1>4. request'[i] = [request[i] EXCEPT !.status = verdict, !.by = r]
  BY <1>2 DEF HrTypeOK
<1>5. request'[i].status = verdict /\ request'[i].by = r
  BY <1>1, <1>4 DEF Request
<1>6. request'[i] # NoRequest
  BY <1>5 DEF NoRequest, Verdicts
<1> QED
  BY <1>1, <1>2, <1>3, <1>4, <1>5, <1>6 DEF HrTypeOK

LeaveType ==
  /\ balance \in [Employees -> [Types -> Int]]
  /\ request \in [Ids -> Request \cup {NoRequest}]
  /\ counter \in 0 .. MaxRequests
  /\ \A i \in Ids : request[i] # NoRequest <=> i <= counter
  /\ told \subseteq [id : Ids, verdict : Verdicts, by : Employees]

\* A reset leaves no request and no promise.
LEMMA SeededLeave == Seeded => LeaveType' /\ AnswersStand'
<1> SUFFICES ASSUME Seeded PROVE LeaveType' /\ AnswersStand'
  OBVIOUS
<1>1. \A i \in Ids : request'[i] = NoRequest /\ ~(i <= counter')
  BY DEF Seeded, Ids
<1>2. LeaveType'
  BY <1>1, HrAssumption DEF Seeded, LeaveType, Ids
<1>3. AnswersStand'
  BY DEF Seeded, AnswersStand
<1> QED
  BY <1>2, <1>3

\* A decision of a pending request is the only one that is answered with success.
LEMMA DecisionStands ==
  ASSUME HrTypeOK, AnswersStand, NEW r \in Employees, NEW i \in Ids, NEW verdict \in Verdicts,
         Open(i), Decided(r, i, verdict), UNCHANGED counter
  PROVE  AnswersStand'
<1>1. ASSUME NEW a \in told'
      PROVE  a.id \in 1 .. counter' /\ request'[a.id].status = a.verdict /\ request'[a.id].by = a.by
  <2>1. CASE a \in told
    <3>1. a.id \in 1 .. counter /\ request[a.id].status = a.verdict /\ request[a.id].by = a.by
      BY <2>1 DEF AnswersStand, LeaveReport
    <3>2. a.id \in Ids /\ a.verdict \in Verdicts
      BY <2>1 DEF HrTypeOK
    <3>3. a.id # i
      BY <3>1, <3>2 DEF Open, Verdicts
    <3> QED
      BY <3>1, <3>2, <3>3, DecidedType
  <2>2. CASE a = [id |-> i, verdict |-> verdict, by |-> r]
    BY <2>2, DecidedType DEF Open
  <2> QED
    BY <2>1, <2>2 DEF Decided
<1> QED
  BY <1>1 DEF AnswersStand, LeaveReport

\* Requests and decisions keep their types, and decisions that were told stand.
LEMMA LeaveKeeps == HrTypeOK /\ AnswersStand /\ LeavePart => LeaveType' /\ AnswersStand'
<1> SUFFICES ASSUME HrTypeOK, AnswersStand, LeavePart PROVE LeaveType' /\ AnswersStand'
  OBVIOUS
<1> USE HrAssumption
<1>1. CASE UNCHANGED <<balance, request, counter, told>>
  BY <1>1 DEF HrTypeOK, LeaveType, AnswersStand, LeaveReport
<1>2. ASSUME NEW s \in Employees, NEW t \in Types, NEW d \in Lengths, ApplyLeave(s, t, d)
      PROVE  LeaveType' /\ AnswersStand'
  <2>1. CASE UNCHANGED <<counter, request>>
    BY <1>2, <2>1 DEF ApplyLeave, HrTypeOK, LeaveType, AnswersStand, LeaveReport
  <2>2. CASE ~UNCHANGED <<counter, request>>
    <3> DEFINE new == [status |-> "Pending", of |-> s, type |-> t, days |-> d, by |-> NoName]
    <3>1. counter < MaxRequests /\ counter' = counter + 1 /\ UNCHANGED <<balance, told>>
          /\ request' = [request EXCEPT ![counter + 1] = new]
      BY <1>2, <2>2 DEF ApplyLeave
    <3>2. counter \in Nat /\ counter + 1 \in Ids /\ counter' \in 0 .. MaxRequests
      BY <3>1 DEF HrTypeOK, Ids
    <3>3. new \in Request /\ new # NoRequest
      BY DEF Request, NoRequest
    <3>4. request'[counter + 1] = new /\ \A j \in Ids : j # counter + 1 => request'[j] = request[j]
      BY <3>1, <3>2 DEF HrTypeOK
    <3>5. request' \in [Ids -> Request \cup {NoRequest}]
      BY <3>1, <3>2, <3>3 DEF HrTypeOK
    <3> HIDE DEF new
    <3>6. \A j \in Ids : request'[j] # NoRequest <=> j <= counter'
      BY <3>1, <3>2, <3>3, <3>4 DEF HrTypeOK, Ids
    <3>7. LeaveType'
      BY <3>1, <3>2, <3>5, <3>6 DEF HrTypeOK, LeaveType
    <3>8. \A a \in told : a.id \in 1 .. counter' /\ request'[a.id] = request[a.id]
      BY <3>1, <3>2, <3>4 DEF AnswersStand, LeaveReport, HrTypeOK, Ids
    <3>9. AnswersStand'
      BY <3>1, <3>8 DEF AnswersStand, LeaveReport
    <3> QED
      BY <3>7, <3>9
  <2> QED
    BY <2>1, <2>2
<1>3. ASSUME NEW r \in Employees, NEW i \in Ids, Approved(r, i), UNCHANGED counter
      PROVE  LeaveType' /\ AnswersStand'
  <2>1. CASE Open(i) /\ Covers(i)
    <3>1. Decided(r, i, "Approved") /\ "Approved" \in Verdicts
          /\ balance' = [balance EXCEPT ![request[i].of][request[i].type] = @ - request[i].days]
      BY <1>3, <2>1 DEF Approved, Verdicts
    <3>2. request[i] \in Request /\ request[i].days \in Int
      BY <1>3, <2>1, <3>1, DecidedType DEF Request
    <3>3. balance' \in [Employees -> [Types -> Int]]
      BY <3>1, <3>2 DEF HrTypeOK, Request
    <3>4. told' \subseteq [id : Ids, verdict : Verdicts, by : Employees]
      BY <3>1 DEF Decided, HrTypeOK
    <3> QED
      BY <1>3, <2>1, <3>1, <3>3, <3>4, DecidedType, DecisionStands DEF LeaveType, HrTypeOK
  <2>2. CASE ~(Open(i) /\ Covers(i))
    BY <1>3, <2>2, <1>1 DEF Approved
  <2> QED
    BY <2>1, <2>2
<1>4. ASSUME NEW r \in Employees, NEW i \in Ids, Rejected(r, i), UNCHANGED <<balance, counter>>
      PROVE  LeaveType' /\ AnswersStand'
  <2>1. CASE Open(i)
    <3>1. Decided(r, i, "Rejected") /\ "Rejected" \in Verdicts
      BY <1>4, <2>1 DEF Rejected, Verdicts
    <3>2. told' \subseteq [id : Ids, verdict : Verdicts, by : Employees]
      BY <3>1 DEF Decided, HrTypeOK
    <3> QED
      BY <1>4, <2>1, <3>1, <3>2, DecidedType, DecisionStands DEF LeaveType, HrTypeOK
  <2>2. CASE ~Open(i)
    BY <1>4, <2>2, <1>1 DEF Rejected
  <2> QED
    BY <2>1, <2>2
<1> QED
  BY <1>1, <1>2, <1>3, <1>4, SeededLeave DEF LeavePart

-----------------------------------------------------------------------------
(* Cubicles.                                                                 *)

\* Whom a row names, and what the record of an employee met by a REST call has.
RowInv ==
  \A c \in Cubicles : holder[c] # NoHolder =>
    /\ holder[c].name \in Usernames
    /\ holder[c].sub = NoName \/ UserOf[holder[c].sub] = holder[c].name

MetInv == \A s \in met : UserOf[s] # NoName => known[s] = "named"

HrInv == HrTypeOK /\ AnswersStand /\ RowInv /\ MetInv

\* Registering callers keeps who is known, and whoever was met is known by name.
LEMMA PeopleKeep ==
  HrInv /\ PeoplePart => known' \in [Employees -> {"no", "bare", "named"}] /\ met' \subseteq Employees /\ MetInv'
<1> SUFFICES ASSUME HrInv, PeoplePart
             PROVE  known' \in [Employees -> {"no", "bare", "named"}] /\ met' \subseteq Employees /\ MetInv'
  OBVIOUS
<1>1. CASE UNCHANGED <<known, met>>
  BY <1>1 DEF HrInv, HrTypeOK, MetInv
<1>2. ASSUME NEW s \in Employees, Authenticate(s)
      PROVE  known' \in [Employees -> {"no", "bare", "named"}] /\ met' \subseteq Employees /\ MetInv'
  BY <1>2, EnsuredType DEF HrInv, HrTypeOK, MetInv, Authenticate
<1>3. ASSUME NEW s \in Employees, known' = Ensured(s, FALSE), UNCHANGED met
      PROVE  known' \in [Employees -> {"no", "bare", "named"}] /\ met' \subseteq Employees /\ MetInv'
  BY <1>3, EnsuredType DEF HrInv, HrTypeOK, MetInv
<1>4. CASE Seeded
  BY <1>4 DEF Seeded, MetInv
<1> QED
  BY <1>1, <1>2, <1>3, <1>4 DEF PeoplePart

HolderType == holder \in [Cubicles -> [name : Usernames \cup {NoName}, sub : Employees \cup {NoName}]]

\* Assigning a cubicle keeps the rows right.
LEMMA HolderKeep == HrInv /\ HolderPart => HolderType' /\ RowInv'
<1> SUFFICES ASSUME HrInv, HolderPart PROVE HolderType' /\ RowInv'
  OBVIOUS
<1>1. CASE UNCHANGED holder
  BY <1>1 DEF HrInv, HrTypeOK, HolderType, RowInv
<1>2. ASSUME NEW c \in Cubicles, NEW n \in Usernames, holder' = Occupied(c, n, Lookup(n))
      PROVE  HolderType' /\ RowInv'
  <2>1. CASE c \in Vacant
    <3>1. PICK s \in Employees \cup {NoName} :
            s = Lookup(n) /\ (s = NoName \/ UserOf[s] = n)
      BY LookupType
    <3>2. holder' = [holder EXCEPT ![c] = [name |-> n, sub |-> s]]
      BY <1>2, <2>1, <3>1 DEF Occupied
    <3>3. holder'[c] = [name |-> n, sub |-> s] /\ \A d \in Cubicles : d # c => holder'[d] = holder[d]
      BY <3>2 DEF HrInv, HrTypeOK
    <3>4. HolderType'
      BY <3>2 DEF HrInv, HrTypeOK, HolderType
    <3>5. RowInv'
      BY <3>1, <3>3 DEF HrInv, RowInv
    <3> QED
      BY <3>4, <3>5
  <2>2. CASE c \notin Vacant
    BY <1>1, <1>2, <2>2 DEF Occupied
  <2> QED
    BY <2>1, <2>2
<1>3. CASE Seeded
  BY <1>3 DEF Seeded, HolderType, RowInv, NoHolder
<1> QED
  BY <1>1, <1>2, <1>3 DEF HolderPart

-----------------------------------------------------------------------------
(* Balances.                                                                 *)

\* BalancesAddUp counts days; so the days counted are finitely many.
DaysInv ==
  \A s \in Employees, t \in Types :
    /\ IsFiniteSet(DaysTaken(s, t))
    /\ balance[s][t] >= 0
    /\ balance[s][t] + Cardinality(DaysTaken(s, t)) = Allowance[t]

\* The days depend on which leaves are approved, and on how long these are.
LEMMA SameDays ==
  ASSUME NEW s, NEW t,
         ApprovedLeaves(s, t)' = ApprovedLeaves(s, t),
         \A j \in ApprovedLeaves(s, t) : request'[j].days = request[j].days
  PROVE  DaysTaken(s, t)' = DaysTaken(s, t)
  BY DEF DaysTaken

\* There are n numbers from 1 to n.
LEMMA UpTo ==
  ASSUME NEW n \in Nat
  PROVE  IsFiniteSet(1 .. n) /\ Cardinality(1 .. n) = n
  BY FS_Interval

\* A leave that is approved adds as many days as it has.
LEMMA MoreDays ==
  ASSUME NEW s, NEW t, NEW i, i \notin ApprovedLeaves(s, t), request'[i].days \in Nat,
         ApprovedLeaves(s, t)' = ApprovedLeaves(s, t) \cup {i},
         \A j \in ApprovedLeaves(s, t) : request'[j].days = request[j].days,
         IsFiniteSet(DaysTaken(s, t))
  PROVE  /\ IsFiniteSet(DaysTaken(s, t)')
         /\ Cardinality(DaysTaken(s, t)') = Cardinality(DaysTaken(s, t)) + request'[i].days
<1> DEFINE n == request'[i].days
           new == {i} \X (1 .. n)
           old == DaysTaken(s, t)
<1>1. DaysTaken(s, t)' = old \cup new
  BY DEF DaysTaken
<1>2. old \cap new = {}
  BY DEF DaysTaken
<1>3. IsFiniteSet(1 .. n) /\ Cardinality(1 .. n) = n /\ n \in Nat
  BY UpTo
<1>4. IsFiniteSet({i}) /\ Cardinality({i}) = 1
  BY FS_Singleton
<1>5. IsFiniteSet(new) /\ Cardinality(new) = n
  <2>1. IsFiniteSet(new) /\ Cardinality(new) = Cardinality({i}) * Cardinality(1 .. n)
    BY <1>3, <1>4, FS_Product
  <2> QED
    BY <1>3, <1>4, <2>1
<1> HIDE DEF new, old
<1>6. IsFiniteSet(old)
  BY DEF old
<1>7. /\ IsFiniteSet(old \cup new)
      /\ Cardinality(old \cup new) = Cardinality(old) + Cardinality(new) - Cardinality(old \cap new)
  BY <1>5, <1>6, FS_Union
<1>8. Cardinality(old) \in Nat /\ Cardinality(old \cap new) = 0
  BY <1>2, <1>6, FS_CardinalityType, FS_EmptySet
<1> QED
  BY <1>1, <1>3, <1>5, <1>7, <1>8 DEF old

\* Nothing is taken of an allowance when no leave is approved.
LEMMA NoDays ==
  ASSUME NEW s, NEW t, ApprovedLeaves(s, t) = {}
  PROVE  IsFiniteSet(DaysTaken(s, t)) /\ Cardinality(DaysTaken(s, t)) = 0
<1>1. DaysTaken(s, t) = {}
  BY DEF DaysTaken
<1> QED
  BY <1>1, FS_EmptySet

\* A request that is refused, or cannot be decided, changes no balance and no leave.
LEMMA SameLeaves ==
  ASSUME DaysInv, UNCHANGED balance,
         \A s \in Employees, t \in Types : ApprovedLeaves(s, t)' = ApprovedLeaves(s, t),
         \A s \in Employees, t \in Types : \A j \in ApprovedLeaves(s, t) :
           request'[j].days = request[j].days
  PROVE  DaysInv'
<1> SUFFICES ASSUME NEW s \in Employees, NEW t \in Types
             PROVE  /\ IsFiniteSet(DaysTaken(s, t)')
                    /\ balance'[s][t] >= 0
                    /\ balance'[s][t] + Cardinality(DaysTaken(s, t)') = Allowance[t]
  BY DEF DaysInv
<1>1. /\ ApprovedLeaves(s, t)' = ApprovedLeaves(s, t)
      /\ \A j \in ApprovedLeaves(s, t) : request'[j].days = request[j].days
  OBVIOUS
<1>2. DaysTaken(s, t)' = DaysTaken(s, t)
  BY <1>1, SameDays
<1> QED
  BY <1>2 DEF DaysInv

\* A decision is about a pending request, and changes its status and nothing of
\* what it asks for.
LEMMA DecisionAsks ==
  ASSUME HrTypeOK, NEW r \in Employees, NEW i \in Ids, NEW verdict \in Verdicts, Open(i),
         Decided(r, i, verdict), UNCHANGED counter
  PROVE  /\ 1 .. counter \subseteq Ids
         /\ i \in 1 .. counter
         /\ request[i].status = "Pending"
         /\ request[i] \in Request
         /\ request'[i].status = verdict
         /\ request'[i].of = request[i].of
         /\ request'[i].type = request[i].type
         /\ request'[i].days = request[i].days
         /\ \A j \in Ids : j # i => request'[j] = request[j]
<1>1. request[i] \in Request /\ \A j \in Ids : j # i => request'[j] = request[j]
  BY DecidedType
<1>2. request' = [request EXCEPT ![i] = [request[i] EXCEPT !.status = verdict, !.by = r]]
  BY DEF Decided, HrTypeOK
<1>3. request'[i] = [request[i] EXCEPT !.status = verdict, !.by = r]
  BY <1>2 DEF HrTypeOK
<1>4. 1 .. counter \subseteq Ids
  BY HrAssumption DEF HrTypeOK, Ids
<1>5. /\ request'[i].status = verdict
      /\ request'[i].of = request[i].of
      /\ request'[i].type = request[i].type
      /\ request'[i].days = request[i].days
  BY <1>1, <1>3 DEF Request
<1> QED
  BY <1>1, <1>4, <1>5 DEF Open

\* A step that leaves requests and balances alone takes no day.
LEMMA NothingDecided ==
  ASSUME DaysInv, UNCHANGED <<balance, request, counter>>
  PROVE  DaysInv'
<1>1. \A s \in Employees, t \in Types : ApprovedLeaves(s, t)' = ApprovedLeaves(s, t)
  BY DEF ApprovedLeaves, MyLeaves
<1> QED
  BY <1>1, SameLeaves

\* Whatever happens to requests, DaysInv holds on.
LEMMA BalancesKeep == HrTypeOK /\ DaysInv /\ LeavePart => DaysInv'
<1> SUFFICES ASSUME HrTypeOK, DaysInv, LeavePart PROVE DaysInv'
  OBVIOUS
<1> USE HrAssumption
<1>1. CASE UNCHANGED <<balance, request, counter, told>>
  BY <1>1, NothingDecided
<1>2. ASSUME NEW s \in Employees, NEW t \in Types, NEW d \in Lengths, ApplyLeave(s, t, d) PROVE DaysInv'
  <2>1. CASE UNCHANGED <<counter, request>>
    BY <1>2, <2>1, NothingDecided DEF ApplyLeave
  <2>2. CASE ~UNCHANGED <<counter, request>>
    <3>1. /\ counter < MaxRequests /\ counter' = counter + 1 /\ UNCHANGED balance
          /\ request' = [request EXCEPT ![counter + 1] =
               [status |-> "Pending", of |-> s, type |-> t, days |-> d, by |-> NoName]]
      BY <1>2, <2>2 DEF ApplyLeave
    <3>2. counter \in Nat /\ counter + 1 \in Ids /\ 1 .. counter \subseteq Ids
      BY <3>1 DEF HrTypeOK, Ids
    <3>3. request'[counter + 1].status = "Pending"
      BY <3>1, <3>2 DEF HrTypeOK
    <3>4. \A j \in 1 .. counter : request'[j] = request[j]
      BY <3>1, <3>2 DEF HrTypeOK
    <3>5. 1 .. counter' = (1 .. counter) \cup {counter + 1}
      BY <3>1, <3>2
    <3>6. \A e \in Employees, y \in Types : ApprovedLeaves(e, y)' = ApprovedLeaves(e, y)
      BY <3>3, <3>4, <3>5 DEF ApprovedLeaves, MyLeaves
    <3>7. \A e \in Employees, y \in Types : ApprovedLeaves(e, y) \subseteq 1 .. counter
      BY DEF ApprovedLeaves, MyLeaves
    <3> QED
      BY <3>1, <3>4, <3>6, <3>7, SameLeaves
  <2> QED
    BY <2>1, <2>2
<1>4. ASSUME NEW r \in Employees, NEW i \in Ids, Approved(r, i), UNCHANGED counter PROVE DaysInv'
  <2>1. CASE Open(i) /\ Covers(i)
    <3> DEFINE of == request[i].of
               type == request[i].type
               n == request[i].days
    <3>1. Decided(r, i, "Approved") /\ "Approved" \in Verdicts
          /\ balance' = [balance EXCEPT ![of][type] = @ - n] /\ balance[of][type] >= n
      BY <1>4, <2>1 DEF Approved, Covers, Verdicts
    <3>2. /\ 1 .. counter \subseteq Ids /\ i \in 1 .. counter /\ request[i].status = "Pending"
          /\ request[i] \in Request
          /\ request'[i].status = "Approved" /\ request'[i].of = of
          /\ request'[i].type = type /\ request'[i].days = n
          /\ \A j \in Ids : j # i => request'[j] = request[j]
      BY <1>4, <2>1, <3>1, DecisionAsks
    <3>3. of \in Employees /\ type \in Types /\ n \in Nat
      BY <3>2 DEF Request
    <3> HIDE DEF of, type, n
    <3>4. /\ balance'[of][type] = balance[of][type] - n
          /\ \A s \in Employees, t \in Types :
               s # of \/ t # type => balance'[s][t] = balance[s][t]
      BY <3>1, <3>3 DEF HrTypeOK
    <3>5. ASSUME NEW s \in Employees, NEW t \in Types
          PROVE  /\ IsFiniteSet(DaysTaken(s, t)')
                 /\ balance'[s][t] >= 0
                 /\ balance'[s][t] + Cardinality(DaysTaken(s, t)') = Allowance[t]
      <4>1. \A j \in ApprovedLeaves(s, t) : j \in Ids /\ j # i /\ request'[j] = request[j]
        BY <3>2 DEF ApprovedLeaves, MyLeaves
      <4>2. /\ IsFiniteSet(DaysTaken(s, t)) /\ balance[s][t] >= 0
            /\ balance[s][t] + Cardinality(DaysTaken(s, t)) = Allowance[t]
            /\ balance[s][t] \in Int /\ Allowance[t] \in Nat
        BY DEF DaysInv, HrTypeOK
      <4>3. CASE s = of /\ t = type
        <5>1. ApprovedLeaves(s, t)' = ApprovedLeaves(s, t) \cup {i}
          BY <1>4, <3>2, <4>1, <4>3 DEF ApprovedLeaves, MyLeaves
        <5>2. IsFiniteSet(DaysTaken(s, t)')
              /\ Cardinality(DaysTaken(s, t)') = Cardinality(DaysTaken(s, t)) + request'[i].days
          BY <3>2, <3>3, <4>1, <4>2, <5>1, MoreDays
        <5>3. Cardinality(DaysTaken(s, t)) \in Nat
          BY <4>2, FS_CardinalityType
        <5> QED
          BY <3>1, <3>2, <3>3, <3>4, <4>2, <4>3, <5>2, <5>3
      <4>4. CASE s # of \/ t # type
        <5>1. ApprovedLeaves(s, t)' = ApprovedLeaves(s, t)
          BY <1>4, <3>2, <4>1, <4>4 DEF ApprovedLeaves, MyLeaves, of, type
        <5>2. DaysTaken(s, t)' = DaysTaken(s, t)
          BY <4>1, <5>1, SameDays
        <5> QED
          BY <3>4, <4>2, <4>4, <5>2
      <4> QED
        BY <4>3, <4>4
    <3> QED
      BY <3>5 DEF DaysInv
  <2>2. CASE ~(Open(i) /\ Covers(i))
    BY <1>4, <2>2, NothingDecided DEF Approved
  <2> QED
    BY <2>1, <2>2
<1>5. ASSUME NEW r \in Employees, NEW i \in Ids, Rejected(r, i), UNCHANGED <<balance, counter>> PROVE DaysInv'
  <2>1. CASE Open(i)
    <3>1. Decided(r, i, "Rejected") /\ "Rejected" \in Verdicts
      BY <1>5, <2>1 DEF Rejected, Verdicts
    <3>2. /\ 1 .. counter \subseteq Ids /\ request[i].status = "Pending"
          /\ request'[i].status = "Rejected"
          /\ \A j \in Ids : j # i => request'[j] = request[j]
      BY <1>5, <2>1, <3>1, DecisionAsks
    <3>3. \A s \in Employees, t \in Types : ApprovedLeaves(s, t)' = ApprovedLeaves(s, t)
      BY <1>5, <3>2 DEF ApprovedLeaves, MyLeaves
    <3>4. \A s \in Employees, t \in Types : \A j \in ApprovedLeaves(s, t) : request'[j] = request[j]
      BY <3>2 DEF ApprovedLeaves, MyLeaves
    <3> QED
      BY <1>5, <3>3, <3>4, SameLeaves
  <2>2. CASE ~Open(i)
    BY <1>5, <2>2, NothingDecided DEF Rejected
  <2> QED
    BY <2>1, <2>2
<1>6. CASE Seeded
  <2> SUFFICES ASSUME NEW s \in Employees, NEW t \in Types
               PROVE  /\ IsFiniteSet(DaysTaken(s, t)')
                      /\ balance'[s][t] >= 0
                      /\ balance'[s][t] + Cardinality(DaysTaken(s, t)') = Allowance[t]
    BY DEF DaysInv
  <2>1. balance'[s][t] = Allowance[t] /\ counter' = 0
    BY <1>6 DEF Seeded
  <2>2. DaysTaken(s, t)' = {}
    BY <2>1 DEF DaysTaken, ApprovedLeaves, MyLeaves
  <2> QED
    BY <2>1, <2>2, FS_EmptySet
<1> QED
  BY <1>1, <1>2, <1>4, <1>5, <1>6 DEF LeavePart

-----------------------------------------------------------------------------

\* The invariant of HrServer: types, decisions that stand, whom cubicle rows name
\* and what the store knows of those it has met.
THEOREM HrInductive == HrSpec => []HrInv
<1>1. HrInit => HrInv
  <2> SUFFICES ASSUME HrInit PROVE HrInv
    OBVIOUS
  <2>1. HrTypeOK
    BY HrAssumption DEF HrInit, HrTypeOK, Ids, NoHolder
  <2>2. AnswersStand /\ MetInv
    BY DEF HrInit, AnswersStand, MetInv
  <2>3. RowInv
    BY DEF HrInit, RowInv
  <2> QED
    BY <2>1, <2>2, <2>3 DEF HrInv
<1>2. HrInv /\ [HrNext]_hrVars => HrInv'
  <2> SUFFICES ASSUME HrInv, [HrNext]_hrVars PROVE HrInv'
    OBVIOUS
  <2>1. Parts
    BY StepParts DEF HrInv
  <2>2. LeaveType' /\ AnswersStand'
    BY <2>1, LeaveKeeps DEF HrInv, Parts
  <2>3. known' \in [Employees -> {"no", "bare", "named"}] /\ met' \subseteq Employees /\ MetInv'
    BY <2>1, PeopleKeep DEF Parts
  <2>4. HolderType' /\ RowInv'
    BY <2>1, HolderKeep DEF Parts
  <2> QED
    BY <2>1, <2>2, <2>3, <2>4 DEF HrInv, HrTypeOK, LeaveType, HolderType, Parts, RestPart
<1> QED
  BY <1>1, <1>2, PTL DEF HrSpec

\* What an approver was told of a request stays so until a reset, whichever door
\* and however many approvers (approve_leave_request, reject_leave_request).
THEOREM DecisionsStand == HrSpec => []AnswersStand
<1>1. HrInv => AnswersStand
  BY DEF HrInv
<1> QED
  BY <1>1, HrInductive, PTL

\* No balance is overdrawn, and what is left of an allowance and what the approved
\* leaves took of it add up, in whatever order requests are made and decided
\* (apply_leave, approve_leave_request).
THEOREM BalancesHold == HrSpec => []BalancesAddUp
<1>1. HrInit => DaysInv
  <2> SUFFICES ASSUME HrInit, NEW s \in Employees, NEW t \in Types
               PROVE  /\ IsFiniteSet(DaysTaken(s, t))
                      /\ balance[s][t] >= 0
                      /\ balance[s][t] + Cardinality(DaysTaken(s, t)) = Allowance[t]
    BY DEF DaysInv
  <2>1. ApprovedLeaves(s, t) = {}
    BY DEF HrInit, ApprovedLeaves, MyLeaves
  <2> QED
    BY <2>1, NoDays, HrAssumption DEF HrInit
<1>2. HrInv /\ DaysInv /\ [HrNext]_hrVars => DaysInv'
  <2> SUFFICES ASSUME HrInv, DaysInv, [HrNext]_hrVars PROVE DaysInv'
    OBVIOUS
  <2>1. HrTypeOK /\ LeavePart
    BY StepParts DEF HrInv, Parts
  <2> QED
    BY <2>1, BalancesKeep
<1>3. DaysInv => BalancesAddUp
  <2> SUFFICES ASSUME DaysInv, NEW s \in Employees, NEW t \in Types
               PROVE  LeaveBalance(s, t) >= 0 /\ LeaveBalance(s, t) + Taken(s, t) = Allowance[t]
    BY DEF BalancesAddUp
  <2>1. LeaveBalance(s, t) = balance[s][t] /\ Taken(s, t) = Cardinality(DaysTaken(s, t))
    BY DEF LeaveBalance, Taken
  <2> QED
    BY <2>1 DEF DaysInv
<1> QED
  BY <1>1, <1>2, <1>3, HrInductive, PTL DEF HrSpec

\* A loop over the cubicles meets one of several first.
LEMMA FirstExists ==
  ASSUME NEW S \in SUBSET Cubicles, S # {}
  PROVE  \E c \in S : \A d \in S : c <= d
<1> DEFINE T == {1 .. c : c \in S}
<1>1. IsWellFoundedOn(StrictSubsetOrdering(Cubicles), SUBSET Cubicles)
  <2>1. IsFiniteSet(Cubicles)
    BY FS_Interval, HrAssumption DEF Cubicles
  <2>2. FiniteSubsetsOf(Cubicles) = SUBSET Cubicles
    BY ONLY <2>1, FS_FiniteSubsetsOfFinite
  <2>3. IsWellFoundedOn(StrictSubsetOrdering(Cubicles), FiniteSubsetsOf(Cubicles))
    BY ONLY FS_StrictSubsetOrderingWellFounded
  <2> QED
    BY ONLY <2>2, <2>3
<1>2. S \subseteq Nat /\ \A c \in S : 1 .. c \subseteq Cubicles
  <2>1. NumCubicles \in Nat
    BY HrAssumption
  <2>2. \A c \in S : c \in Nat /\ c <= NumCubicles
    BY <2>1 DEF Cubicles
  <2>3. ASSUME NEW c \in S, NEW d \in 1 .. c PROVE d \in 1 .. NumCubicles
    BY <2>1, <2>2, <2>3
  <2> QED
    BY <2>2, <2>3 DEF Cubicles
<1>3. T \subseteq SUBSET Cubicles /\ T # {}
  BY <1>2
<1>4. \E x \in T : \A y \in T : <<y, x>> \notin StrictSubsetOrdering(Cubicles)
  <2> HIDE DEF T
  <2> QED
    BY <1>1, <1>3, WFMin
<1>5. PICK c \in S : \A d \in S : <<1 .. d, 1 .. c>> \notin StrictSubsetOrdering(Cubicles)
  BY <1>4
<1>6. ASSUME NEW d \in S, d < c PROVE FALSE
  <2>1. 1 .. d \subseteq 1 .. c /\ c \in 1 .. c /\ c \notin 1 .. d
    BY <1>2, <1>6 DEF Cubicles
  <2>2. <<1 .. d, 1 .. c>> \in StrictSubsetOrdering(Cubicles)
    BY <1>2, <2>1 DEF StrictSubsetOrdering
  <2> QED
    BY <1>5, <2>2
<1> QED
  BY <1>2, <1>6

\* Nobody finds another's cubicle, and an employee met by a REST call finds the
\* first of the cubicles reported under the employee's name (get_my_cubicle,
\* assign_cubicle).
THEOREM CubiclesAreFound == HrSpec => []CubicleFound
<1>1. HrInv => CubicleFound
  <2> SUFFICES ASSUME HrInv, NEW s \in Employees, NEW claimed \in {NoName, UserOf[s]}
               PROVE  LET own == {c \in Cubicles : <<c, UserOf[s]>> \in Assignments}
                      IN  /\ MyCubicle(s, claimed) \subseteq own
                          /\ s \in met /\ own # {} =>
                               \E c \in own : MyCubicle(s, claimed) = {c} /\ \A d \in own : c <= d
    BY DEF CubicleFound, McpCubicle, RestCubicle
  <2> DEFINE own == {c \in Cubicles : <<c, UserOf[s]>> \in Assignments}
             name == IF claimed = NoName /\ known[s] = "named" THEN UserOf[s] ELSE claimed
             mine == {c \in Cubicles \ Vacant :
                        holder[c].sub = s \/ (name # NoName /\ holder[c].name = name)}
  <2>1. \A c \in Cubicles : c \in own <=> holder[c] # NoHolder /\ holder[c].name = UserOf[s]
    BY DEF Assignments, Vacant
  <2>2. \A c \in Cubicles : c \in mine <=>
          holder[c] # NoHolder /\ (holder[c].sub = s \/ (name # NoName /\ holder[c].name = name))
    BY DEF Vacant
  <2>3. name = UserOf[s] \/ name = NoName
    OBVIOUS
  <2>4. s # NoName
    BY HrAssumption
  <2>5. \A c \in Cubicles : holder[c] # NoHolder =>
          /\ holder[c].name # NoName
          /\ holder[c].sub = s => UserOf[s] = holder[c].name
    BY <2>4 DEF HrInv, RowInv, Usernames
  <2>6. s \in met /\ UserOf[s] # NoName => name = UserOf[s]
    BY DEF HrInv, MetInv
  <2>7. own \subseteq Cubicles /\ mine \subseteq Cubicles /\ MyCubicle(s, claimed) = First(mine)
    BY DEF MyCubicle
  <2> HIDE DEF own, name, mine
  <2>8. mine \subseteq own
    BY <2>1, <2>2, <2>3, <2>5, <2>7
  <2>9. s \in met => mine = own
    BY <2>1, <2>2, <2>5, <2>6, <2>7, <2>8
  <2>10. ASSUME own # {}
         PROVE  \E c \in own : First(own) = {c} /\ \A d \in own : c <= d
    <3>1. PICK c \in own : \A d \in own : c <= d
      BY <2>7, <2>10, FirstExists
    <3>2. own \subseteq Nat
      BY <2>7 DEF Cubicles
    <3>3. ASSUME NEW d \in First(own) PROVE d = c
      BY <3>1, <3>2, <3>3 DEF First
    <3>4. First(own) = {c}
      BY <3>1, <3>3 DEF First
    <3> QED
      BY <3>1, <3>4
  <2>11. MyCubicle(s, claimed) \subseteq mine
    BY <2>7 DEF First
  <2> QED
    BY <2>7, <2>8, <2>9, <2>10, <2>11 DEF own
<1> QED
  BY <1>1, HrInductive, PTL

\* The variables of HrServer keep their types: requests are numbered from 1 to the
\* counter without a gap.
THEOREM HrTypeCorrect == HrSpec => []HrTypeOK
<1>1. HrInv => HrTypeOK
  BY DEF HrInv
<1> QED
  BY <1>1, HrInductive, PTL

-----------------------------------------------------------------------------
(* The IT server.                                                            *)

\* What the record of an employee met by a REST call has.
GreetedInv == \A s \in greeted : NameOf[s] # Nobody => user[s] = "named"

ItInv == ItTypeOK /\ StockAddsUp /\ GreetedInv

\* The invariant of ItServer: types, the stock, and what the store knows of those
\* it has met.
THEOREM ItInductive == ItSpec => []ItInv
<1> USE ItAssumption
<1>1. ItInit => ItInv
  <2> SUFFICES ASSUME ItInit PROVE ItInv
    OBVIOUS
  <2>1. available \in [DOMAIN Catalogue -> Nat]
    BY DEF ItInit
  <2> QED
    BY <2>1 DEF ItInit, ItInv, ItTypeOK, StockAddsUp, GreetedInv
<1>2. ItInv /\ [ItNext]_itVars => ItInv'
  <2> SUFFICES ASSUME ItInv, [ItNext]_itVars PROVE ItInv'
    OBVIOUS
  <2>1. ASSUME NEW s \in Staff, ItRestCall(s) PROVE ItInv'
    BY <2>1 DEF ItRestCall, ItInv, ItTypeOK, StockAddsUp, GreetedInv
  <2>2. ASSUME NEW a \in Assets, NEW n \in StaffNames, IssueAsset(a, n) PROVE ItInv'
    <3>1. /\ asset' = [asset EXCEPT ![a] = n] /\ available' = Withdrawn(a) /\ UNCHANGED <<user, greeted>>
          /\ n # Nobody
      BY <2>2 DEF IssueAsset, Recorded, StaffNames
    <3>2. /\ asset' \in [Assets -> StaffNames \cup {Nobody}] /\ asset'[a] = n
          /\ \A b \in Assets : b # a => asset'[b] = asset[b]
      BY <3>1 DEF ItInv, ItTypeOK
    <3>3. \A b \in DOMAIN Catalogue : available[b] \in Nat /\ Catalogue[b] \in Nat \ {0} /\ b \in Assets
      BY DEF ItInv, ItTypeOK
    <3>4. CASE asset[a] = Nobody /\ a \in DOMAIN Catalogue
      <4>1. available[a] = Catalogue[a] /\ available[a] > 0
        BY <3>3, <3>4 DEF ItInv, StockAddsUp
      <4>2. available' = [available EXCEPT ![a] = available[a] - 1]
        BY <3>1, <3>4, <4>1 DEF Withdrawn
      <4>3. available' \in [DOMAIN Catalogue -> Nat]
        BY <3>3, <3>4, <4>1, <4>2 DEF ItInv, ItTypeOK
      <4>4. StockAddsUp'
        BY <3>1, <3>2, <3>3, <3>4, <4>1, <4>2 DEF ItInv, ItTypeOK, StockAddsUp
      <4> QED
        BY <3>1, <3>2, <4>3, <4>4 DEF ItInv, ItTypeOK, GreetedInv
    <3>5. CASE ~(asset[a] = Nobody /\ a \in DOMAIN Catalogue)
      <4>1. available' = available
        BY <3>1, <3>5 DEF Withdrawn
      <4>2. StockAddsUp'
        BY <3>1, <3>2, <3>3, <3>5, <4>1 DEF ItInv, StockAddsUp
      <4> QED
        BY <3>1, <3>2, <4>1, <4>2 DEF ItInv, ItTypeOK, GreetedInv
    <3> QED
      BY <3>4, <3>5
  <2>3. CASE UNCHANGED itVars
    BY <2>3 DEF itVars, ItInv, ItTypeOK, StockAddsUp, GreetedInv
  <2> QED
    BY <2>1, <2>2, <2>3 DEF ItNext
<1> QED
  BY <1>1, <1>2, PTL DEF ItSpec

\* What the catalogue offers and what is assigned add up to the stock, however
\* often an asset is issued (record_issuance).
THEOREM StockIsKept == ItSpec => []StockAddsUp
<1>1. ItInv => StockAddsUp
  BY DEF ItInv
<1> QED
  BY <1>1, ItInductive, PTL

\* An employee met by a REST call finds exactly the assets reported under the
\* employee's name, through either door (get_my_assets).
THEOREM AssetsAreFound == ItSpec => []AssetsFound
<1>1. ItInv => AssetsFound
  <2> SUFFICES ASSUME ItInv, NEW s \in Staff, NEW claimed \in {Nobody, NameOf[s]}
               PROVE  LET own == {a \in Assets : <<a, NameOf[s]>> \in AllAssignments}
                      IN  MyAssets(s, claimed) \subseteq own /\ (s \in greeted => MyAssets(s, claimed) = own)
    BY DEF AssetsFound, McpAssets, RestAssets
  <2> DEFINE own == {a \in Assets : <<a, NameOf[s]>> \in AllAssignments}
  <2>1. \A a \in Assets : a \in own <=> asset[a] # Nobody /\ asset[a] = NameOf[s]
    BY DEF AllAssignments
  <2>2. \A a \in Assets : a \in MyAssets(s, claimed) <=>
          NameFor(s, claimed) # Nobody /\ asset[a] = NameFor(s, claimed)
    BY DEF MyAssets, AssetsNamed
  <2>3. NameFor(s, claimed) \in {Nobody, NameOf[s]}
        /\ (s \in greeted /\ NameOf[s] # Nobody => NameFor(s, claimed) = NameOf[s])
    BY DEF NameFor, ItInv, GreetedInv
  <2>4. own \subseteq Assets /\ MyAssets(s, claimed) \subseteq Assets
    BY DEF MyAssets, AssetsNamed
  <2> HIDE DEF own
  <2>5. MyAssets(s, claimed) \subseteq own /\ (s \in greeted => own \subseteq MyAssets(s, claimed))
    BY <2>1, <2>2, <2>3, <2>4
  <2> QED
    BY <2>5 DEF own
<1> QED
  BY <1>1, ItInductive, PTL

\* The variables of ItServer keep their types: no count goes below zero.
THEOREM ItTypeCorrect == ItSpec => []ItTypeOK
<1>1. ItInv => ItTypeOK
  BY DEF ItInv
<1> QED
  BY <1>1, ItInductive, PTL

-----------------------------------------------------------------------------
(* The path of a tool call.                                                  *)

\* There are thirteen rules.
LEMMA RuleCount == DOMAIN Rules = 1 .. 13
  BY DEF Rules

\* The rules, one by one.
LEMMA RuleTable ==
  /\ Rules[1].cue = "my cubicle" /\ Rules[1].agent = "hr" /\ Rules[1].tool = "hr.cubicle_lookup_self"
  /\ Rules[2].cue = "vacant cubicles" /\ Rules[2].agent = "hr" /\ Rules[2].tool = "hr.cubicle_summary"
  /\ Rules[3].cue = "floor" /\ Rules[3].agent = "hr" /\ Rules[3].tool = "hr.cubicle_list_floor"
  /\ Rules[4].cue = "assign cubicle" /\ Rules[4].agent = "hr" /\ Rules[4].tool = "hr.cubicle_assign"
  /\ Rules[5].cue = "cubicle" /\ Rules[5].agent = "hr" /\ Rules[5].tool = "hr.cubicle_summary"
  /\ Rules[6].cue = "leave requests" /\ Rules[6].agent = "hr" /\ Rules[6].tool = "hr.read_all_leaves"
  /\ Rules[7].cue = "approve" /\ Rules[7].agent = "hr" /\ Rules[7].tool = "hr.approve_leave"
  /\ Rules[8].cue = "issue" /\ Rules[8].agent = "it" /\ Rules[8].tool = "it.issue_asset"
  /\ Rules[9].cue = "annual leave from" /\ Rules[9].agent = "hr" /\ Rules[9].tool = "hr.apply_leave"
  /\ Rules[10].cue = "leave policy" /\ Rules[10].agent = "hr" /\ Rules[10].tool = "hr.read_policy"
  /\ Rules[11].cue = "leave" /\ Rules[11].agent = "hr" /\ Rules[11].tool = "hr.read_balance"
  /\ Rules[12].cue = "my laptop" /\ Rules[12].agent = "it" /\ Rules[12].tool = "it.get_my_assets"
  /\ Rules[13].cue = "laptop" /\ Rules[13].agent = "it" /\ Rules[13].tool = "it.list_available_assets"
<1> USE DEF Rules, HR, IT
<1>1. Rules[1].cue = "my cubicle" /\ Rules[1].agent = "hr" /\ Rules[1].tool = "hr.cubicle_lookup_self"
  OBVIOUS
<1>2. Rules[2].cue = "vacant cubicles" /\ Rules[2].agent = "hr" /\ Rules[2].tool = "hr.cubicle_summary"
  OBVIOUS
<1>3. Rules[3].cue = "floor" /\ Rules[3].agent = "hr" /\ Rules[3].tool = "hr.cubicle_list_floor"
  OBVIOUS
<1>4. Rules[4].cue = "assign cubicle" /\ Rules[4].agent = "hr" /\ Rules[4].tool = "hr.cubicle_assign"
  OBVIOUS
<1>5. Rules[5].cue = "cubicle" /\ Rules[5].agent = "hr" /\ Rules[5].tool = "hr.cubicle_summary"
  OBVIOUS
<1>6. Rules[6].cue = "leave requests" /\ Rules[6].agent = "hr" /\ Rules[6].tool = "hr.read_all_leaves"
  OBVIOUS
<1>7. Rules[7].cue = "approve" /\ Rules[7].agent = "hr" /\ Rules[7].tool = "hr.approve_leave"
  OBVIOUS
<1>8. Rules[8].cue = "issue" /\ Rules[8].agent = "it" /\ Rules[8].tool = "it.issue_asset"
  OBVIOUS
<1>9. Rules[9].cue = "annual leave from" /\ Rules[9].agent = "hr" /\ Rules[9].tool = "hr.apply_leave"
  OBVIOUS
<1>10. Rules[10].cue = "leave policy" /\ Rules[10].agent = "hr" /\ Rules[10].tool = "hr.read_policy"
  OBVIOUS
<1>11. Rules[11].cue = "leave" /\ Rules[11].agent = "hr" /\ Rules[11].tool = "hr.read_balance"
  OBVIOUS
<1>12. Rules[12].cue = "my laptop" /\ Rules[12].agent = "it" /\ Rules[12].tool = "it.get_my_assets"
  OBVIOUS
<1>13. Rules[13].cue = "laptop" /\ Rules[13].agent = "it" /\ Rules[13].tool = "it.list_available_assets"
  OBVIOUS
<1> QED
  BY ONLY <1>1, <1>2, <1>3, <1>4, <1>5, <1>6, <1>7, <1>8, <1>9, <1>10, <1>11, <1>12, <1>13, Zenon

\* A rule has one of the thirteen numbers.
LEMMA RuleNumber ==
  ASSUME NEW i \in 1 .. 13
  PROVE  \/ i = 1 \/ i = 2 \/ i = 3 \/ i = 4 \/ i = 5 \/ i = 6 \/ i = 7
         \/ i = 8 \/ i = 9 \/ i = 10 \/ i = 11 \/ i = 12 \/ i = 13
  OBVIOUS

\* Each rule names an agent and a registered tool.
LEMMA RuleFacts ==
  ASSUME NEW i \in 1 .. 13
  PROVE  Rules[i].tool \in ToolNames /\ Rules[i].agent \in {"hr", "it"}
<1> USE RuleTable DEF ToolNames, HrTools, ItTools
<1>1. CASE i = 1
  BY <1>1
<1>2. CASE i = 2
  BY <1>2
<1>3. CASE i = 3
  BY <1>3
<1>4. CASE i = 4
  BY <1>4
<1>5. CASE i = 5
  BY <1>5
<1>6. CASE i = 6
  BY <1>6
<1>7. CASE i = 7
  BY <1>7
<1>8. CASE i = 8
  BY <1>8
<1>9. CASE i = 9
  BY <1>9
<1>10. CASE i = 10
  BY <1>10
<1>11. CASE i = 11
  BY <1>11
<1>12. CASE i = 12
  BY <1>12
<1>13. CASE i = 13
  BY <1>13
<1> QED
  BY ONLY RuleNumber, i \in 1 .. 13, <1>1, <1>2, <1>3, <1>4, <1>5, <1>6, <1>7, <1>8, <1>9, <1>10, <1>11, <1>12, <1>13

\* What the router looks for in a message is what the agent passes on.
LEMMA InlineFacts == \A tool \in ToolNames : InlineArgs(tool) \subseteq ArgNames
<1>1. ASSUME NEW tool \in ToolNames PROVE InlineArgs(tool) \subseteq Registry(tool).passes
  <2>1. CASE tool = "hr.apply_leave"
    <3>1. Registry("hr.apply_leave").passes = {"leave_type", "start_date", "end_date", "reason"}
      BY DEF Registry, HrTools, HrRegistry, Entry
    <3>2. InlineArgs("hr.apply_leave") = {"leave_type", "start_date", "end_date"}
      BY DEF InlineArgs
    <3> QED
      BY ONLY <2>1, <3>1, <3>2
  <2>2. CASE tool = "hr.approve_leave"
    <3>1. Registry("hr.approve_leave").passes = {"leave_id"}
      BY DEF Registry, HrTools, HrRegistry, Entry
    <3>2. InlineArgs("hr.approve_leave") = {"leave_id"}
      BY DEF InlineArgs
    <3> QED
      BY ONLY <2>2, <3>1, <3>2
  <2>3. CASE tool = "it.issue_asset"
    <3>1. Registry("it.issue_asset").passes = {"asset_id", "employee_id"}
      BY DEF Registry, HrTools, ItRegistry, Entry
    <3>2. InlineArgs("it.issue_asset") = {"asset_id", "employee_id"}
      BY DEF InlineArgs
    <3> QED
      BY ONLY <2>3, <3>1, <3>2
  <2>4. CASE tool = "hr.cubicle_list_floor"
    <3>1. Registry("hr.cubicle_list_floor").passes = {"floor", "no such floor"}
      BY DEF Registry, HrTools, HrRegistry, Entry
    <3>2. InlineArgs("hr.cubicle_list_floor") = {"floor", "no such floor"}
      BY DEF InlineArgs
    <3> QED
      BY ONLY <2>4, <3>1, <3>2
  <2>5. CASE tool = "hr.cubicle_assign"
    <3>1. Registry("hr.cubicle_assign").passes = {"cubicle_id", "employee_username", "employee_email"}
      BY DEF Registry, HrTools, HrRegistry, Entry
    <3>2. InlineArgs("hr.cubicle_assign") = {"cubicle_id", "employee_username"}
      BY DEF InlineArgs
    <3> QED
      BY ONLY <2>5, <3>1, <3>2
  <2>6. CASE tool = "hr.read_all_leaves"
    <3>1. Registry("hr.read_all_leaves").passes = {"status", "employee_name"}
      BY DEF Registry, HrTools, HrRegistry, Entry
    <3>2. InlineArgs("hr.read_all_leaves") = {"status"}
      BY DEF InlineArgs
    <3> QED
      BY ONLY <2>6, <3>1, <3>2
  <2>7. CASE tool \notin {"hr.apply_leave", "hr.approve_leave", "it.issue_asset",
                         "hr.cubicle_list_floor", "hr.cubicle_assign", "hr.read_all_leaves"}
    <3>1. InlineArgs(tool) = {}
      BY ONLY <2>7 DEF InlineArgs
    <3> QED
      BY ONLY <3>1
  <2> QED
    BY ONLY <2>1, <2>2, <2>3, <2>4, <2>5, <2>6, <2>7
<1> QED
  BY <1>1 DEF ArgNames

\* An agent gets one call of a message at most; so a message makes two at most.
LEMMA TwoCalls ==
  ASSUME NEW c
  PROVE  \/ Chosen(c) = {}
         \/ \E i \in 1 .. 13 : Chosen(c) = {i}
         \/ \E i, j \in 1 .. 13 : i < j /\ Chosen(c) = {i, j}
<1>1. \A i, j \in Chosen(c) : Rules[i].agent = Rules[j].agent => i = j
  <2> SUFFICES ASSUME NEW i \in Chosen(c), NEW j \in Chosen(c), i < j
               PROVE  Rules[i].agent # Rules[j].agent
    BY RuleCount, RuleFacts DEF Chosen
  <2> QED
    BY RuleCount, RuleFacts DEF Chosen
<1>2. Chosen(c) \subseteq 1 .. 13 /\ \A i \in Chosen(c) : Rules[i].agent \in {"hr", "it"}
  BY RuleCount, RuleFacts DEF Chosen
<1>3. \A i, j, k \in Chosen(c) : i = j \/ j = k \/ i = k
  BY <1>1, <1>2
<1>4. ASSUME NEW i \in Chosen(c), NEW j \in Chosen(c), i < j
      PROVE  \E h, k \in 1 .. 13 : h < k /\ Chosen(c) = {h, k}
  <2>1. i \in 1 .. 13 /\ j \in 1 .. 13 /\ i # j
    BY <1>2, <1>4
  <2>2. \A k \in Chosen(c) : k = i \/ k = j
    BY <1>3, <2>1
  <2>3. Chosen(c) = {i, j}
    BY <2>2
  <2> QED
    BY <1>4, <2>1, <2>3
<1>5. ASSUME NEW i \in Chosen(c), \A j \in Chosen(c) : j = i PROVE Chosen(c) = {i} /\ i \in 1 .. 13
  BY <1>2, <1>5
<1>6. CASE Chosen(c) # {}
  <2>1. PICK i \in Chosen(c) : TRUE
    BY <1>6
  <2>2. ASSUME NEW j \in Chosen(c), j # i PROVE i < j \/ j < i
    BY <1>2, <2>2
  <2>3. CASE \A j \in Chosen(c) : j = i
    BY <1>5, <2>1, <2>3, Zenon
  <2>4. ASSUME NEW j \in Chosen(c), j # i PROVE \E h, k \in 1 .. 13 : h < k /\ Chosen(c) = {h, k}
    BY <1>4, <2>1, <2>2, <2>4, Zenon
  <2> QED
    BY <2>3, <2>4, Zenon
<1> QED
  BY <1>6, Zenon

\* The n-th of the rules chosen is one of them.
LEMMA NthChosen ==
  ASSUME NEW c, NEW n \in 1 .. Cardinality(Chosen(c))
  PROVE  Nth(c, n) \in Chosen(c)
<1> DEFINE Found == \E i \in Chosen(c) : Cardinality({h \in Chosen(c) : h < i}) = n - 1
<1> SUFFICES Found
  BY DEF Nth
<1>1. CASE Chosen(c) = {}
  BY <1>1, FS_EmptySet
<1>2. ASSUME NEW i \in 1 .. 13, Chosen(c) = {i}
      PROVE  Cardinality({h \in Chosen(c) : h < i}) = n - 1
  <2>1. Cardinality({i}) = 1 /\ Cardinality({}) = 0
    BY FS_Singleton, FS_EmptySet
  <2>2. {h \in Chosen(c) : h < i} = {}
    BY <1>2
  <2> QED
    BY <1>2, <2>1, <2>2
<1>3. ASSUME NEW i \in 1 .. 13, NEW j \in 1 .. 13, i < j, Chosen(c) = {i, j}
      PROVE  \/ Cardinality({h \in Chosen(c) : h < i}) = n - 1
             \/ Cardinality({h \in Chosen(c) : h < j}) = n - 1
  <2>1. Cardinality({i}) = 1 /\ IsFiniteSet({i}) /\ Cardinality({}) = 0
    BY FS_Singleton, FS_EmptySet
  <2>2. Cardinality({i} \cup {j}) = 2
    <3>1. j \notin {i} /\ IsFiniteSet({i})
      BY <1>3, <2>1
    <3>2. Cardinality({i} \cup {j}) = IF j \in {i} THEN Cardinality({i}) ELSE Cardinality({i}) + 1
      BY <3>1, FS_AddElement
    <3> QED
      BY <2>1, <3>1, <3>2
  <2>3. Chosen(c) = {i} \cup {j}
    BY <1>3
  <2>4. {h \in Chosen(c) : h < i} = {} /\ {h \in Chosen(c) : h < j} = {i}
    BY <1>3
  <2> QED
    BY <2>1, <2>2, <2>3, <2>4
<1>4. ASSUME NEW i \in 1 .. 13, Chosen(c) = {i} PROVE Found
  BY <1>2, <1>4
<1>5. ASSUME NEW i \in 1 .. 13, NEW j \in 1 .. 13, i < j, Chosen(c) = {i, j} PROVE Found
  BY <1>3, <1>5
<1> HIDE DEF Found
<1> QED
  BY <1>1, <1>4, <1>5, TwoCalls, Zenon

\* A plan by keywords is a sequence of calls.
LEMMA KeywordPlanType ==
  ASSUME NEW c, NEW details
  PROVE  KeywordPlan(c, details) \in Seq(Call)
<1>1. Cardinality(Chosen(c)) \in Nat
  <2>1. IsFiniteSet(Chosen(c))
    <3> QED
      <4>1. CASE Chosen(c) = {}
        BY <4>1, FS_EmptySet
      <4>2. ASSUME NEW i \in 1 .. 13, Chosen(c) = {i} PROVE IsFiniteSet(Chosen(c))
        BY <4>2, FS_Singleton
      <4>3. ASSUME NEW i \in 1 .. 13, NEW j \in 1 .. 13, Chosen(c) = {i, j} PROVE IsFiniteSet(Chosen(c))
        <5>1. IsFiniteSet({i} \cup {j})
          BY FS_Singleton, FS_AddElement
        <5>2. Chosen(c) = {i} \cup {j}
          BY <4>3
        <5> QED
          BY <5>1, <5>2
      <4> QED
        BY <4>1, <4>2, <4>3, TwoCalls
  <2> QED
    BY <2>1, FS_CardinalityType
<1>2. ASSUME NEW n \in 1 .. Cardinality(Chosen(c)) PROVE Rules[Nth(c, n)].tool \in ToolNames
  <2>1. Nth(c, n) \in 1 .. 13
    BY NthChosen, RuleCount, RuleFacts DEF Chosen
  <2> QED
    BY <2>1, RuleCount, RuleFacts
<1>3. \A tool \in ToolNames : [tool |-> tool, args |-> InlineArgs(tool) \cap details] \in Call
  BY InlineFacts DEF Call
<1>4. KeywordPlan(c, details) \in [1 .. Cardinality(Chosen(c)) -> Call]
  BY <1>2, <1>3 DEF KeywordPlan
<1> QED
  BY <1>1, <1>4

\* No two rules have the same cue: the cue tells the rule's number.
LEMMA CuesDiffer ==
  ASSUME NEW i \in 1 .. 13, NEW j \in 1 .. 13, Rules[i].cue = Rules[j].cue
  PROVE  i = j
<1> DEFINE Number(cue) ==
    CASE cue = "my cubicle" -> 1
      [] cue = "vacant cubicles" -> 2
      [] cue = "floor" -> 3
      [] cue = "assign cubicle" -> 4
      [] cue = "cubicle" -> 5
      [] cue = "leave requests" -> 6
      [] cue = "approve" -> 7
      [] cue = "issue" -> 8
      [] cue = "annual leave from" -> 9
      [] cue = "leave policy" -> 10
      [] cue = "leave" -> 11
      [] cue = "my laptop" -> 12
      [] cue = "laptop" -> 13
<1>1. Number(Rules[1].cue) = 1
  <2>1. Rules[1].cue = "my cubicle"
    BY DEF Rules, HR, IT
  <2> QED
    BY ONLY <2>1
<1>2. Number(Rules[2].cue) = 2
  <2>1. Rules[2].cue = "vacant cubicles"
    BY DEF Rules, HR, IT
  <2> QED
    BY ONLY <2>1
<1>3. Number(Rules[3].cue) = 3
  <2>1. Rules[3].cue = "floor"
    BY DEF Rules, HR, IT
  <2> QED
    BY ONLY <2>1
<1>4. Number(Rules[4].cue) = 4
  <2>1. Rules[4].cue = "assign cubicle"
    BY DEF Rules, HR, IT
  <2> QED
    BY ONLY <2>1
<1>5. Number(Rules[5].cue) = 5
  <2>1. Rules[5].cue = "cubicle"
    BY DEF Rules, HR, IT
  <2> QED
    BY ONLY <2>1
<1>6. Number(Rules[6].cue) = 6
  <2>1. Rules[6].cue = "leave requests"
    BY DEF Rules, HR, IT
  <2> QED
    BY ONLY <2>1
<1>7. Number(Rules[7].cue) = 7
  <2>1. Rules[7].cue = "approve"
    BY DEF Rules, HR, IT
  <2> QED
    BY ONLY <2>1
<1>8. Number(Rules[8].cue) = 8
  <2>1. Rules[8].cue = "issue"
    BY DEF Rules, HR, IT
  <2> QED
    BY ONLY <2>1
<1>9. Number(Rules[9].cue) = 9
  <2>1. Rules[9].cue = "annual leave from"
    BY DEF Rules, HR, IT
  <2> QED
    BY ONLY <2>1
<1>10. Number(Rules[10].cue) = 10
  <2>1. Rules[10].cue = "leave policy"
    BY DEF Rules, HR, IT
  <2> QED
    BY ONLY <2>1
<1>11. Number(Rules[11].cue) = 11
  <2>1. Rules[11].cue = "leave"
    BY DEF Rules, HR, IT
  <2> QED
    BY ONLY <2>1
<1>12. Number(Rules[12].cue) = 12
  <2>1. Rules[12].cue = "my laptop"
    BY DEF Rules, HR, IT
  <2> QED
    BY ONLY <2>1
<1>13. Number(Rules[13].cue) = 13
  <2>1. Rules[13].cue = "laptop"
    BY DEF Rules, HR, IT
  <2> QED
    BY ONLY <2>1
<1> HIDE DEF Number
<1>14. ASSUME NEW h \in 1 .. 13 PROVE Number(Rules[h].cue) = h
  BY ONLY RuleNumber, h \in 1 .. 13, <1>1, <1>2, <1>3, <1>4, <1>5, <1>6, <1>7, <1>8, <1>9, <1>10, <1>11, <1>12, <1>13
<1>15. i = Number(Rules[i].cue) /\ j = Number(Rules[j].cue)
  BY <1>14
<1> QED
  BY ONLY <1>15, Rules[i].cue = Rules[j].cue

\* Whoever says the keyword of one rule does not get an earlier rule, nor another
\* agent's.
LEMMA ImpliedLater ==
  ASSUME NEW i \in 1 .. 13, NEW j \in 1 .. 13, Rules[j].cue \in Implied(Rules[i].cue)
  PROVE  i <= j /\ Rules[j].agent = Rules[i].agent
<1>0. /\ \A h \in {1, 2, 4, 5, 6, 9, 10, 11} : Rules[h].agent = "hr"
      /\ \A h \in {12, 13} : Rules[h].agent = "it"
  <2>1. /\ Rules[1].agent = "hr" /\ Rules[2].agent = "hr" /\ Rules[4].agent = "hr"
        /\ Rules[5].agent = "hr" /\ Rules[6].agent = "hr" /\ Rules[9].agent = "hr"
        /\ Rules[10].agent = "hr" /\ Rules[11].agent = "hr"
    BY ONLY RuleTable
  <2>2. Rules[12].agent = "it" /\ Rules[13].agent = "it"
    BY ONLY RuleTable
  <2> QED
    BY ONLY <2>1, <2>2
<1>1. CASE i \in {1, 2, 4}
  <2>1. Rules[j].cue = Rules[i].cue \/ Rules[j].cue = Rules[5].cue
    BY <1>1, RuleTable DEF Implied
  <2> QED
    BY <1>1, <2>1, CuesDiffer, <1>0
<1>2. CASE i \in {6, 9, 10}
  <2>1. Rules[j].cue = Rules[i].cue \/ Rules[j].cue = Rules[11].cue
    BY <1>2, RuleTable DEF Implied
  <2> QED
    BY <1>2, <2>1, CuesDiffer, <1>0
<1>3. CASE i = 12
  <2>1. Rules[j].cue = Rules[i].cue \/ Rules[j].cue = Rules[13].cue
    BY <1>3, RuleTable DEF Implied
  <2> QED
    BY <1>3, <2>1, CuesDiffer, <1>0
<1>4. CASE i \notin {1, 2, 4, 6, 9, 10, 12}
  <2>1. Rules[j].cue = Rules[i].cue
    BY <1>4, RuleTable, RuleNumber DEF Implied
  <2> QED
    BY <2>1, CuesDiffer
<1> QED
  BY <1>1, <1>2, <1>3, <1>4

\* A message with one cue gets the rule that its table says.
LEMMA OneRule ==
  ASSUME NEW i \in 1 .. 13
  PROVE  Chosen({Rules[i].cue}) = {i} /\ ToolFor(Rules[i].cue) = {Rules[i].tool}
<1> DEFINE c == {Rules[i].cue}
<1>1. \A j \in 1 .. 13 : Rules[j].cue = Rules[i].cue => i = j
  BY CuesDiffer
<1>2. Rules[i].cue \in Implied(Rules[i].cue)
  BY DEF Implied
<1>3. Says(c) = Implied(Rules[i].cue)
  BY DEF Says
<1> HIDE DEF c
<1>4. i \in Chosen(c)
  <2>1. ASSUME NEW h \in 1 .. i - 1, Rules[h].cue \in Says(c) PROVE FALSE
    BY <1>3, <2>1, ImpliedLater
  <2> QED
    BY <1>2, <1>3, <2>1, RuleCount DEF Chosen
<1>5. ASSUME NEW j \in Chosen(c) PROVE j = i
  <2>1. j \in 1 .. 13 /\ i <= j /\ Rules[j].agent = Rules[i].agent
    BY <1>3, <1>5, ImpliedLater, RuleCount, RuleFacts DEF Chosen
  <2>2. i \in 1 .. j - 1 => Rules[i].agent # Rules[j].agent
    BY <1>2, <1>3, <1>5 DEF Chosen
  <2> QED
    BY <2>1, <2>2
<1>6. ToolFor(Rules[i].cue) = {Rules[i].tool}
  BY <1>1, RuleCount, RuleFacts DEF ToolFor
<1> QED
  BY <1>4, <1>5, <1>6 DEF c

\* A message that says what one rule is for is planned as that rule's tool.
LEMMA PlanOfOne ==
  ASSUME NEW c \in Cues, NEW details
  PROVE  {KeywordPlan({c}, details)[i].tool : i \in DOMAIN KeywordPlan({c}, details)} = ToolFor(c)
<1>1. PICK i \in 1 .. 13 : c = Rules[i].cue
  BY RuleCount, RuleFacts DEF Cues
<1>2. Chosen({c}) = {i} /\ ToolFor(c) = {Rules[i].tool}
  BY <1>1, OneRule
<1>3. Cardinality(Chosen({c})) = 1
  BY <1>2, FS_Singleton
<1>4. Nth({c}, 1) = i
  BY <1>2, <1>3, NthChosen
<1>5. DOMAIN KeywordPlan({c}, details) = {1} /\ KeywordPlan({c}, details)[1].tool = Rules[i].tool
  BY <1>3, <1>4 DEF KeywordPlan
<1> QED
  BY <1>2, <1>5

Unchecked == {"hr.cubicle_assign", "hr.cubicle_list_floor"}

\* The method takes what the agent passes, the scope the agent asks for is the
\* one the server wants, and what the agent requires and fills in is what the
\* server demands, but of the two tools.
Fits(tool) ==
  LET path == Method(tool).path
      passes == Registry(tool).passes
  IN /\ passes \subseteq Method(tool).takes
     /\ ScopeOf(tool) = EndpointScope(path)
     /\ tool \notin Unchecked =>
          /\ Demanded(path) \subseteq passes \cap (RequiredArgs(tool) \cup Defaults)
          /\ "no such floor" \notin passes

\* The tables fit for each tool.
LEMMA EveryToolFits == \A tool \in ToolNames : Fits(tool)
<1>1. Fits("hr.read_policy")
  <2>1. /\ Registry("hr.read_policy").method = "get_leave_policy" /\ ScopeOf("hr.read_policy") = "hr_basic_rest"
        /\ Registry("hr.read_policy").passes = {}
    BY DEF Registry, ScopeOf, HrTools, Entry, HrRegistry
  <2>2. /\ Method("hr.read_policy").path = "get_leave_policy"
        /\ Method("hr.read_policy").takes = {}
    BY ONLY <2>1 DEF Method, Post, ItTools, HrLeavePosts
  <2>3. EndpointScope("get_leave_policy") = "hr_basic_rest" /\ Demanded("get_leave_policy") = {}
    <3>1. EndpointScope("get_leave_policy") = "hr_basic_rest"
      BY DEF EndpointScope, LeaveScopes, SeatPaths, AssetPaths
    <3>2. Demanded("get_leave_policy") = {}
      BY DEF Demanded, LeaveDemands, SeatDemands, AssetDemands
    <3> QED
      BY ONLY <3>1, <3>2
  <2> QED
    BY ONLY <2>1, <2>2, <2>3 DEF Fits
<1>2. Fits("hr.read_balance")
  <2>1. /\ Registry("hr.read_balance").method = "get_leave_balance" /\ ScopeOf("hr.read_balance") = "hr_self_rest"
        /\ Registry("hr.read_balance").passes = {}
    BY DEF Registry, ScopeOf, HrTools, Entry, HrRegistry
  <2>2. /\ Method("hr.read_balance").path = "get_leave_balance"
        /\ Method("hr.read_balance").takes = {}
    BY ONLY <2>1 DEF Method, Post, ItTools, HrLeavePosts
  <2>3. EndpointScope("get_leave_balance") = "hr_self_rest" /\ Demanded("get_leave_balance") = {}
    <3>1. EndpointScope("get_leave_balance") = "hr_self_rest"
      BY DEF EndpointScope, LeaveScopes, SeatPaths, AssetPaths
    <3>2. Demanded("get_leave_balance") = {}
      BY DEF Demanded, LeaveDemands, SeatDemands, AssetDemands
    <3> QED
      BY ONLY <3>1, <3>2
  <2> QED
    BY ONLY <2>1, <2>2, <2>3 DEF Fits
<1>3. Fits("hr.read_history")
  <2>1. /\ Registry("hr.read_history").method = "get_leave_history" /\ ScopeOf("hr.read_history") = "hr_self_rest"
        /\ Registry("hr.read_history").passes = {}
    BY DEF Registry, ScopeOf, HrTools, Entry, HrRegistry
  <2>2. /\ Method("hr.read_history").path = "get_leave_history"
        /\ Method("hr.read_history").takes = {}
    BY ONLY <2>1 DEF Method, Post, ItTools, HrLeavePosts
  <2>3. EndpointScope("get_leave_history") = "hr_self_rest" /\ Demanded("get_leave_history") = {}
    <3>1. EndpointScope("get_leave_history") = "hr_self_rest"
      BY DEF EndpointScope, LeaveScopes, SeatPaths, AssetPaths
    <3>2. Demanded("get_leave_history") = {}
      BY DEF Demanded, LeaveDemands, SeatDemands, AssetDemands
    <3> QED
      BY ONLY <3>1, <3>2
  <2> QED
    BY ONLY <2>1, <2>2, <2>3 DEF Fits
<1>4. Fits("hr.apply_leave")
  <2>1. /\ Registry("hr.apply_leave").method = "apply_leave" /\ ScopeOf("hr.apply_leave") = "hr_self_rest"
        /\ Registry("hr.apply_leave").passes = {"leave_type", "start_date", "end_date", "reason"}
    BY DEF Registry, ScopeOf, HrTools, Entry, HrRegistry
  <2>2. /\ Method("hr.apply_leave").path = "apply_leave"
        /\ Method("hr.apply_leave").takes = {"leave_type", "start_date", "end_date", "reason"}
    BY ONLY <2>1 DEF Method, Post, ItTools, HrLeavePosts
  <2>3. EndpointScope("apply_leave") = "hr_self_rest" /\ Demanded("apply_leave") = {"leave_type", "start_date", "end_date"}
    <3>1. EndpointScope("apply_leave") = "hr_self_rest"
      BY DEF EndpointScope, LeaveScopes, SeatPaths, AssetPaths
    <3>2. Demanded("apply_leave") = {"leave_type", "start_date", "end_date"}
      BY DEF Demanded, LeaveDemands, SeatDemands, AssetDemands
    <3> QED
      BY ONLY <3>1, <3>2
  <2>4. {"leave_type", "start_date", "end_date"} \subseteq RequiredArgs("hr.apply_leave")
    BY DEF RequiredArgs, HrRequiredArgs
  <2> DEFINE demanded == {"leave_type", "start_date", "end_date"}
             passes == {"leave_type", "start_date", "end_date", "reason"}
  <2>5. demanded \subseteq passes /\ "no such floor" \notin passes
    OBVIOUS
  <2> HIDE DEF demanded, passes
  <2>6. /\ Registry("hr.apply_leave").passes = passes /\ Method("hr.apply_leave").takes = passes
        /\ Demanded("apply_leave") = demanded
    BY ONLY <2>1, <2>2, <2>3 DEF demanded, passes
  <2>7. demanded \subseteq RequiredArgs("hr.apply_leave")
    BY ONLY <2>4 DEF demanded
  <2>8. Method("hr.apply_leave").path = "apply_leave" /\ ScopeOf("hr.apply_leave") = EndpointScope("apply_leave")
    BY ONLY <2>1, <2>2, <2>3
  <2> QED
    BY ONLY <2>5, <2>6, <2>7, <2>8 DEF Fits
<1>5. Fits("hr.approve_leave")
  <2>1. /\ Registry("hr.approve_leave").method = "approve_leave" /\ ScopeOf("hr.approve_leave") = "hr_approve_rest"
        /\ Registry("hr.approve_leave").passes = {"leave_id"}
    BY DEF Registry, ScopeOf, HrTools, Entry, HrRegistry
  <2>2. /\ Method("hr.approve_leave").path = "approve_leave"
        /\ Method("hr.approve_leave").takes = {"leave_id"}
    BY ONLY <2>1 DEF Method, Post, ItTools, HrReviewPosts
  <2>3. EndpointScope("approve_leave") = "hr_approve_rest" /\ Demanded("approve_leave") = {"leave_id"}
    <3>1. EndpointScope("approve_leave") = "hr_approve_rest"
      BY DEF EndpointScope, LeaveScopes, SeatPaths, AssetPaths
    <3>2. Demanded("approve_leave") = {"leave_id"}
      BY DEF Demanded, LeaveDemands, SeatDemands, AssetDemands
    <3> QED
      BY ONLY <3>1, <3>2
  <2>4. {"leave_id"} \subseteq RequiredArgs("hr.approve_leave")
    BY DEF RequiredArgs, HrRequiredArgs
  <2> QED
    BY ONLY <2>1, <2>2, <2>3, <2>4 DEF Fits
<1>6. Fits("hr.reject_leave")
  <2>1. /\ Registry("hr.reject_leave").method = "reject_leave" /\ ScopeOf("hr.reject_leave") = "hr_approve_rest"
        /\ Registry("hr.reject_leave").passes = {"leave_id", "reason"}
    BY DEF Registry, ScopeOf, HrTools, Entry, HrRegistry
  <2>2. /\ Method("hr.reject_leave").path = "reject_leave"
        /\ Method("hr.reject_leave").takes = {"leave_id", "reason"}
    BY ONLY <2>1 DEF Method, Post, ItTools, HrReviewPosts
  <2>3. EndpointScope("reject_leave") = "hr_approve_rest" /\ Demanded("reject_leave") = {"leave_id", "reason"}
    <3>1. EndpointScope("reject_leave") = "hr_approve_rest"
      BY DEF EndpointScope, LeaveScopes, SeatPaths, AssetPaths
    <3>2. Demanded("reject_leave") = {"leave_id", "reason"}
      BY DEF Demanded, LeaveDemands, SeatDemands, AssetDemands
    <3> QED
      BY ONLY <3>1, <3>2
  <2>4. {"leave_id", "reason"} \subseteq RequiredArgs("hr.reject_leave")
    BY DEF RequiredArgs, HrRequiredArgs
  <2> QED
    BY ONLY <2>1, <2>2, <2>3, <2>4 DEF Fits
<1>7. Fits("hr.cubicle_summary")
  <2>1. /\ Registry("hr.cubicle_summary").method = "get_cubicle_summary" /\ ScopeOf("hr.cubicle_summary") = "hr_read_rest"
        /\ Registry("hr.cubicle_summary").passes = {}
    BY DEF Registry, ScopeOf, HrTools, Entry, HrRegistry
  <2>2. /\ Method("hr.cubicle_summary").path = "get_cubicle_summary"
        /\ Method("hr.cubicle_summary").takes = {}
    BY ONLY <2>1 DEF Method, Post, ItTools, HrSeatPosts
  <2>3. EndpointScope("get_cubicle_summary") = "hr_read_rest" /\ Demanded("get_cubicle_summary") = {}
    <3>1. EndpointScope("get_cubicle_summary") = "hr_read_rest"
      BY DEF EndpointScope, SeatScopes, SeatPaths, AssetPaths
    <3>2. Demanded("get_cubicle_summary") = {}
      BY DEF Demanded, LeaveDemands, SeatDemands, AssetDemands
    <3> QED
      BY ONLY <3>1, <3>2
  <2> QED
    BY ONLY <2>1, <2>2, <2>3 DEF Fits
<1>8. Fits("hr.cubicle_list_floor")
  <2>1. /\ Registry("hr.cubicle_list_floor").method = "get_vacant_cubicles_on_floor" /\ ScopeOf("hr.cubicle_list_floor") = "hr_read_rest"
        /\ Registry("hr.cubicle_list_floor").passes = {"floor", "no such floor"}
    BY DEF Registry, ScopeOf, HrTools, Entry, HrRegistry
  <2>2. /\ Method("hr.cubicle_list_floor").path = "get_vacant_cubicles_on_floor"
        /\ Method("hr.cubicle_list_floor").takes = {"floor", "no such floor"}
    BY ONLY <2>1 DEF Method, Post, ItTools, HrSeatPosts
  <2>3. EndpointScope("get_vacant_cubicles_on_floor") = "hr_read_rest" /\ Demanded("get_vacant_cubicles_on_floor") = {"floor"}
    <3>1. EndpointScope("get_vacant_cubicles_on_floor") = "hr_read_rest"
      BY DEF EndpointScope, SeatScopes, SeatPaths, AssetPaths
    <3>2. Demanded("get_vacant_cubicles_on_floor") = {"floor"}
      BY DEF Demanded, LeaveDemands, SeatDemands, AssetDemands
    <3> QED
      BY ONLY <3>1, <3>2
  <2> QED
    BY ONLY <2>1, <2>2, <2>3 DEF Fits, Unchecked
<1>9. Fits("hr.cubicle_assign")
  <2>1. /\ Registry("hr.cubicle_assign").method = "assign_cubicle" /\ ScopeOf("hr.cubicle_assign") = "hr_assets_write_rest"
        /\ Registry("hr.cubicle_assign").passes = {"cubicle_id", "employee_username", "employee_email"}
    BY DEF Registry, ScopeOf, HrTools, Entry, HrRegistry
  <2>2. /\ Method("hr.cubicle_assign").path = "assign_cubicle"
        /\ Method("hr.cubicle_assign").takes = {"cubicle_id", "employee_username", "employee_email"}
    BY ONLY <2>1 DEF Method, Post, ItTools, HrSeatPosts
  <2>3. EndpointScope("assign_cubicle") = "hr_assets_write_rest" /\ Demanded("assign_cubicle") = {"cubicle_id", "employee_username"}
    <3>1. EndpointScope("assign_cubicle") = "hr_assets_write_rest"
      BY DEF EndpointScope, SeatScopes, SeatPaths, AssetPaths
    <3>2. Demanded("assign_cubicle") = {"cubicle_id", "employee_username"}
      BY DEF Demanded, LeaveDemands, SeatDemands, AssetDemands
    <3> QED
      BY ONLY <3>1, <3>2
  <2> QED
    BY ONLY <2>1, <2>2, <2>3 DEF Fits, Unchecked
<1>10. Fits("hr.cubicle_lookup_self")
  <2>1. /\ Registry("hr.cubicle_lookup_self").method = "get_my_cubicle" /\ ScopeOf("hr.cubicle_lookup_self") = "hr_self_rest"
        /\ Registry("hr.cubicle_lookup_self").passes = {}
    BY DEF Registry, ScopeOf, HrTools, Entry, HrRegistry
  <2>2. /\ Method("hr.cubicle_lookup_self").path = "get_my_cubicle"
        /\ Method("hr.cubicle_lookup_self").takes = {}
    BY ONLY <2>1 DEF Method, Post, ItTools, HrSeatPosts
  <2>3. EndpointScope("get_my_cubicle") = "hr_self_rest" /\ Demanded("get_my_cubicle") = {}
    <3>1. EndpointScope("get_my_cubicle") = "hr_self_rest"
      BY DEF EndpointScope, SeatScopes, SeatPaths, AssetPaths
    <3>2. Demanded("get_my_cubicle") = {}
      BY DEF Demanded, LeaveDemands, SeatDemands, AssetDemands
    <3> QED
      BY ONLY <3>1, <3>2
  <2> QED
    BY ONLY <2>1, <2>2, <2>3 DEF Fits
<1>11. Fits("hr.read_all_leaves")
  <2>1. /\ Registry("hr.read_all_leaves").method = "get_all_leaves" /\ ScopeOf("hr.read_all_leaves") = "hr_approve_rest"
        /\ Registry("hr.read_all_leaves").passes = {"status", "employee_name"}
    BY DEF Registry, ScopeOf, HrTools, Entry, HrRegistry
  <2>2. /\ Method("hr.read_all_leaves").path = "get_all_leave_requests"
        /\ Method("hr.read_all_leaves").takes = {"status", "employee_name"}
    BY ONLY <2>1 DEF Method, Post, ItTools, HrSeatPosts
  <2>3. EndpointScope("get_all_leave_requests") = "hr_approve_rest" /\ Demanded("get_all_leave_requests") = {}
    <3>1. EndpointScope("get_all_leave_requests") = "hr_approve_rest"
      BY DEF EndpointScope, AllLeavesScope, SeatPaths, AssetPaths
    <3>2. Demanded("get_all_leave_requests") = {}
      BY DEF Demanded, LeaveDemands, SeatDemands, AssetDemands
    <3> QED
      BY ONLY <3>1, <3>2
  <2> QED
    BY ONLY <2>1, <2>2, <2>3 DEF Fits
<1>12. Fits("it.list_available_assets")
  <2>1. /\ Registry("it.list_available_assets").method = "list_available_assets" /\ ScopeOf("it.list_available_assets") = "it_assets_read_rest"
        /\ Registry("it.list_available_assets").passes = {"asset_type"}
    BY DEF Registry, ScopeOf, HrTools, Entry, ItRegistry
  <2>2. /\ Method("it.list_available_assets").path = "list_available_assets"
        /\ Method("it.list_available_assets").takes = {"asset_type"}
    BY ONLY <2>1 DEF Method, Post, ItTools, ItPosts
  <2>3. EndpointScope("list_available_assets") = "it_assets_read_rest" /\ Demanded("list_available_assets") = {}
    <3>1. EndpointScope("list_available_assets") = "it_assets_read_rest"
      BY DEF EndpointScope, AssetScopes, SeatPaths, AssetPaths
    <3>2. Demanded("list_available_assets") = {}
      BY DEF Demanded, LeaveDemands, SeatDemands, AssetDemands
    <3> QED
      BY ONLY <3>1, <3>2
  <2> QED
    BY ONLY <2>1, <2>2, <2>3 DEF Fits
<1>13. Fits("it.get_my_assets")
  <2>1. /\ Registry("it.get_my_assets").method = "get_my_assets" /\ ScopeOf("it.get_my_assets") = "it_assets_self_rest"
        /\ Registry("it.get_my_assets").passes = {}
    BY DEF Registry, ScopeOf, HrTools, Entry, ItRegistry
  <2>2. /\ Method("it.get_my_assets").path = "get_my_assets"
        /\ Method("it.get_my_assets").takes = {}
    BY ONLY <2>1 DEF Method, Post, ItTools, ItPosts
  <2>3. EndpointScope("get_my_assets") = "it_assets_self_rest" /\ Demanded("get_my_assets") = {}
    <3>1. EndpointScope("get_my_assets") = "it_assets_self_rest"
      BY DEF EndpointScope, AssetScopes, SeatPaths, AssetPaths
    <3>2. Demanded("get_my_assets") = {}
      BY DEF Demanded, LeaveDemands, SeatDemands, AssetDemands
    <3> QED
      BY ONLY <3>1, <3>2
  <2> QED
    BY ONLY <2>1, <2>2, <2>3 DEF Fits
<1>14. Fits("it.issue_asset")
  <2>1. /\ Registry("it.issue_asset").method = "issue_asset" /\ ScopeOf("it.issue_asset") = "it_assets_write_rest"
        /\ Registry("it.issue_asset").passes = {"asset_id", "employee_id"}
    BY DEF Registry, ScopeOf, HrTools, Entry, ItRegistry
  <2>2. /\ Method("it.issue_asset").path = "issue_asset"
        /\ Method("it.issue_asset").takes = {"asset_id", "employee_id"}
    BY ONLY <2>1 DEF Method, Post, ItTools, ItPosts
  <2>3. EndpointScope("issue_asset") = "it_assets_write_rest" /\ Demanded("issue_asset") = {"asset_id", "employee_id"}
    <3>1. EndpointScope("issue_asset") = "it_assets_write_rest"
      BY DEF EndpointScope, AssetScopes, SeatPaths, AssetPaths
    <3>2. Demanded("issue_asset") = {"asset_id", "employee_id"}
      BY DEF Demanded, LeaveDemands, SeatDemands, AssetDemands
    <3> QED
      BY ONLY <3>1, <3>2
  <2>4. {"asset_id", "employee_id"} \subseteq RequiredArgs("it.issue_asset")
    BY DEF RequiredArgs, ItRequiredArgs
  <2> QED
    BY ONLY <2>1, <2>2, <2>3, <2>4 DEF Fits
<1> QED
  BY ONLY <1>1, <1>2, <1>3, <1>4, <1>5, <1>6, <1>7, <1>8, <1>9, <1>10, <1>11, <1>12, <1>13, <1>14, Zenon DEF ToolNames, HrTools, ItTools

\* So a call that has what the agent requires is refused for its body only, and
\* only one of the two tools.
LEMMA CallFits ==
  ASSUME NEW c \in Call, RequiredArgs(c.tool) \subseteq c.args
  PROVE  \/ Refusal(c, ScopeOf(c.tool)) = "none"
         \/ Refusal(c, ScopeOf(c.tool)) = "malformed" /\ c.tool \in Unchecked
<1>1. c.tool \in ToolNames
  BY DEF Call
<1>2. Fits(c.tool)
  BY <1>1, EveryToolFits
<1>3. CASE c.tool \in Unchecked
  BY <1>2, <1>3 DEF Fits, Refusal, RequestOf
<1>4. CASE c.tool \notin Unchecked
  <2> DEFINE path == Method(c.tool).path
             passes == Registry(c.tool).passes
  <2>1. RequestOf(c).path = path /\ RequestOf(c).body = passes \cap (c.args \cup Defaults)
    BY DEF RequestOf
  <2>2. Takes(c) /\ ScopeOf(c.tool) = EndpointScope(path)
        /\ Demanded(path) \subseteq passes \cap (RequiredArgs(c.tool) \cup Defaults)
        /\ "no such floor" \notin passes
    BY <1>2, <1>4 DEF Fits, Takes
  <2> HIDE DEF path, passes
  <2>3. Refusal(c, ScopeOf(c.tool)) = "none"
    BY <2>1, <2>2 DEF Refusal
  <2> QED
    BY <2>3
<1> QED
  BY <1>3, <1>4

-----------------------------------------------------------------------------
(* The invariant of ToolPath: a call on its way has what the agent requires. *)

UnderwayInv ==
  at # "next" => next <= Len(plan) /\ RequiredArgs(Made.tool) \subseteq Made.args

PlanInv == plan \in Seq(Call) /\ \A c \in Cues : cues = {c} => {plan[i].tool : i \in DOMAIN plan} = ToolFor(c)

VainInv == \A v \in vain : v.why = "malformed" /\ v.tool \in Unchecked

TpInv == TpTypeOK /\ PlanInv /\ UnderwayInv /\ VainInv

\* A new plan starts at its first call.
LEMMA PlanningKeeps ==
  ASSUME TpInv, NEW p \in Seq(Call), NewPlan(p), cues' \subseteq Cues,
         \A c \in Cues : cues' = {c} => {p[i].tool : i \in DOMAIN p} = ToolFor(c)
  PROVE  TpInv'
<1>1. /\ at = "next" /\ turns < MaxTurns /\ turns' = turns + 1 /\ plan' = p /\ next' = 1
      /\ UNCHANGED <<role, at, tokens, vain>>
  BY DEF NewPlan, Idle
<1>2. turns' \in 0 .. MaxTurns
  BY <1>1, ToolPathAssumption DEF TpInv, TpTypeOK
<1>3. Len(p) \in Nat /\ DOMAIN p = 1 .. Len(p) /\ \A i \in DOMAIN p : p[i] \in Call
  OBVIOUS
<1>4. TpTypeOK'
  BY <1>1, <1>2, <1>3 DEF TpInv, TpTypeOK
<1>5. PlanInv' /\ UnderwayInv' /\ VainInv'
  BY <1>1 DEF TpInv, PlanInv, UnderwayInv, VainInv
<1> QED
  BY <1>4, <1>5 DEF TpInv

\* The call that is made is one of the plan.
LEMMA MadeType ==
  ASSUME TpInv, next <= Len(plan)
  PROVE  Made \in Call /\ Made.tool \in ToolNames /\ Scope \in {ScopeOf(t) : t \in ToolNames}
         /\ next \in 1 .. Len(plan) /\ next + 1 \in 1 .. Len(plan) + 1 /\ Len(plan) \in Nat
<1>1. Len(plan) \in Nat /\ DOMAIN plan = 1 .. Len(plan)
  BY DEF TpInv, PlanInv
<1>2. next \in 1 .. Len(plan) /\ next + 1 \in 1 .. Len(plan) + 1
  BY <1>1 DEF TpInv, TpTypeOK
<1>3. Made \in Call
  BY <1>1, <1>2 DEF TpInv, TpTypeOK, Made
<1> QED
  BY <1>1, <1>2, <1>3 DEF Call, Scope

\* Every step keeps the invariant of ToolPath.
LEMMA TpStep == TpInv /\ [TpNext]_tpVars => TpInv'
<1> SUFFICES ASSUME TpInv, [TpNext]_tpVars PROVE TpInv'
  OBVIOUS
<1>1. ASSUME NEW c \in Messages, NEW details, PlanByKeyword(c, details) PROVE TpInv'
  <2>1. cues' = c /\ NewPlan(KeywordPlan(c, details))
    BY <1>1 DEF PlanByKeyword
  <2>2. c \subseteq Cues
    BY DEF Messages
  <2>3. KeywordPlan(c, details) \in Seq(Call)
    BY KeywordPlanType
  <2>4. \A d \in Cues : cues' = {d} =>
          {KeywordPlan(c, details)[i].tool : i \in DOMAIN KeywordPlan(c, details)} = ToolFor(d)
    BY <2>1, PlanOfOne
  <2> QED
    BY <2>1, <2>2, <2>3, <2>4, PlanningKeeps
<1>2. ASSUME NEW tool \in Nameable, NEW args \in SUBSET Offered[tool], PlanByModel(tool, args) PROVE TpInv'
  <2> DEFINE p == <<[tool |-> tool, args |-> args]>>
  <2>1. cues' = {} /\ NewPlan(p)
    BY <1>2 DEF PlanByModel
  <2>2. tool \in ToolNames /\ args \subseteq ArgNames
    BY DEF Nameable, Offered, ArgNames
  <2>3. [tool |-> tool, args |-> args] \in Call
    BY <2>2 DEF Call
  <2>4. p \in Seq(Call)
    BY <2>3
  <2> HIDE DEF p
  <2> QED
    BY <2>1, <2>4, PlanningKeeps
<1>3. CASE AgentTakes
  <2>1. /\ at = "next" /\ next <= Len(plan) /\ UNCHANGED <<role, turns, cues, plan, tokens, vain>>
    BY <1>3 DEF AgentTakes
  <2>2. /\ \/ RequiredArgs(Made.tool) \subseteq Made.args /\ at' \in {"cached", "asking"} /\ next' = next
           \/ next' = next + 1 /\ at' = "next"
    BY <1>3 DEF AgentTakes, CallOver
  <2>3. TpTypeOK' /\ PlanInv' /\ VainInv'
    BY <2>1, <2>2, MadeType DEF TpInv, TpTypeOK, PlanInv, VainInv
  <2>4. UnderwayInv'
    BY <2>1, <2>2 DEF UnderwayInv, Made
  <2> QED
    BY <2>3, <2>4 DEF TpInv
<1>4. CASE Consent
  <2>1. /\ at = "asking" /\ UNCHANGED <<role, turns, cues, plan, tokens, vain>>
        /\ \/ next' = next /\ at' = "granted"
           \/ next' = next + 1 /\ at' = "next"
    <3>1. /\ at = "asking" /\ UNCHANGED <<role, turns, cues, plan, tokens, vain>>
          /\ (at' = "granted" /\ UNCHANGED next) \/ CallOver
      BY <1>4 DEF Consent
    <3> QED
      BY <3>1 DEF CallOver
  <2>2. next <= Len(plan) /\ RequiredArgs(Made.tool) \subseteq Made.args
    BY <2>1 DEF TpInv, UnderwayInv
  <2>3. TpTypeOK' /\ PlanInv' /\ VainInv'
    BY <2>1, <2>2, MadeType DEF TpInv, TpTypeOK, PlanInv, VainInv
  <2>4. UnderwayInv'
    BY <2>1, <2>2 DEF UnderwayInv, Made
  <2> QED
    BY <2>3, <2>4 DEF TpInv
<1>5. CASE ServerAnswers
  <2> DEFINE why == Refusal(Made, Scope)
  <2>1. at \in {"granted", "cached"} /\ UNCHANGED <<role, turns, cues, plan>>
    BY <1>5 DEF ServerAnswers
  <2>2. next <= Len(plan) /\ RequiredArgs(Made.tool) \subseteq Made.args
    BY <2>1 DEF TpInv, UnderwayInv
  <2>3. Made \in Call /\ Made.tool \in ToolNames
    BY <2>2, MadeType
  <2>4. why = "none" \/ (why = "malformed" /\ Made.tool \in Unchecked)
    BY <2>2, <2>3, CallFits DEF Scope
  <2> HIDE DEF why
  <2>5. /\ \/ next' = next + 1 /\ at' = "next"
           \/ next' = next /\ at' = "asking"
        /\ tokens' \subseteq tokens \cup {Scope}
        /\ \/ vain' = vain
           \/ why # "none" /\ vain' = vain \cup {[tool |-> Made.tool, why |-> why]}
    BY <1>5 DEF ServerAnswers, CallOver, why
  <2>6. TpTypeOK' /\ PlanInv'
    BY <2>1, <2>2, <2>3, <2>4, <2>5, MadeType DEF TpInv, TpTypeOK, PlanInv
  <2>7. VainInv'
    BY <2>4, <2>5 DEF TpInv, VainInv
  <2>8. UnderwayInv'
    BY <2>1, <2>2, <2>5 DEF UnderwayInv, Made
  <2> QED
    BY <2>6, <2>7, <2>8 DEF TpInv
<1>6. CASE UNCHANGED tpVars
  BY <1>6 DEF tpVars, TpInv, TpTypeOK, PlanInv, UnderwayInv, VainInv, Made
<1> QED
  BY <1>1, <1>2, <1>3, <1>4, <1>5, <1>6 DEF TpNext

\* The invariant of ToolPath: types, plans that are sequences of calls, and calls
\* under way that have every argument the agent requires.
THEOREM TpInductive == TpSpec => []TpInv
<1>1. TpInit => TpInv
  <2> SUFFICES ASSUME TpInit PROVE TpInv
    OBVIOUS
  <2>1. plan = <<>> /\ cues = {} /\ next = 1 /\ at = "next" /\ vain = {} /\ tokens = {} /\ turns = 0 /\ role \in Roles
    BY DEF TpInit
  <2>2. plan \in Seq(Call) /\ Len(plan) = 0 /\ DOMAIN plan = {}
    BY <2>1
  <2> QED
    BY <2>1, <2>2, ToolPathAssumption DEF TpInv, TpTypeOK, PlanInv, UnderwayInv, VainInv
<1> QED
  BY <1>1, TpStep, PTL DEF TpSpec

\* What the user consents to is not refused by the server, but for the two tools
\* whose arguments the agent does not require; and a message that says what one
\* rule is for is planned as that rule's tool (KeywordRouter.route, the tool
\* registries, the clients and the servers' endpoints).
THEOREM ConsentsFit == TpSpec => []ConsentFitsCall
<1>1. TpInv => ConsentFitsCall
  BY DEF TpInv, PlanInv, VainInv, Unchecked, ConsentFitsCall
<1> QED
  BY <1>1, TpInductive, PTL

\* The variables of ToolPath keep their types.
THEOREM TpTypeCorrect == TpSpec => []TpTypeOK
<1>1. TpInv => TpTypeOK
  BY DEF TpInv
<1> QED
  BY <1>1, TpInductive, PTL

-----------------------------------------------------------------------------
(* KeyCache.                                                                 *)

Deciding == {"look", "stale", "miss"}
Flying == {"stale", "miss"}

\* What is known of the keys in an answer that was given at time t: none is one
\* that the identity server has not published yet, or had retired by then.
ReadAt(K, t) == \A k \in K : published[k] # "later" /\ (published[k] = "retired" => retiredAt[k] >= t)

\* An answer in flight is not older than Transit, and has every key that has been
\* live since its validation began.
AnswerInv ==
  \A c \in Calls : InFlight(c) =>
    /\ call[c].since \in Times /\ call[c].since <= clock /\ clock <= call[c].since + Transit
    /\ ReadAt(call[c].fetched, call[c].since)
    /\ call[c].steady \subseteq call[c].fetched

\* The cached set was read Transit before it landed, or later.
CacheInv ==
  /\ fetchedAt <= clock
  /\ ReadAt(keys, fetchedAt - Transit)

\* What a validation counts on is live; what it has decided stands.
CallInv ==
  \A c \in Calls :
    /\ call[c] # NoCall => published[call[c].kid] # "later"
    /\ call[c].at \in Deciding => call[c].steady \subseteq Live
    /\ call[c].at = "honoured" => call[c].when <= clock

\* A key that is retired was retired at a time that has passed.
RetiredInv == \A k \in Kids : retiredAt[k] <= clock

KcInv == KcTypeOK /\ AnswerInv /\ CacheInv /\ CallInv /\ RetiredInv /\ PublishedKeyFound /\ TrustEnds

-----------------------------------------------------------------------------

\* Nothing is cached, no validation has begun: the invariant holds.
LEMMA KcInitInv == KcInit => KcInv
  BY KeyCacheAssumption
  DEF KcInit, KcInv, KcTypeOK, AnswerInv, CacheInv, CallInv, RetiredInv, PublishedKeyFound, TrustEnds,
      InFlight, ReadAt, Prewarmed, Live, Times, NoCall, Deciding

\* A validation's fields.
LEMMA CallFields ==
  ASSUME KcTypeOK, NEW c \in Calls, call[c].at # "new"
  PROVE  call[c] \in Validation
  BY DEF KcTypeOK, NoCall

\* The fields of every validation, or none.
LEMMA Fields ==
  ASSUME KcTypeOK, NEW c \in Calls
  PROVE  \/ call[c] = NoCall /\ call[c].at = "new"
         \/ /\ call[c] \in Validation /\ call[c] # NoCall /\ call[c].at # "new"
            /\ call[c].kid \in Kids /\ call[c].fetched \subseteq Kids /\ call[c].steady \subseteq Kids
            /\ call[c].when \in Times /\ call[c].since \in Times \cup {-1}
<1>1. CASE call[c] = NoCall
  BY <1>1 DEF NoCall
<1>2. CASE call[c] # NoCall
  <2>1. call[c] \in Validation
    BY <1>2 DEF KcTypeOK
  <2>2. call[c].at \in {"look", "stale", "miss", "honoured", "unknown", "expired", "failed"}
    BY <2>1 DEF Validation
  <2> QED
    BY <1>2, <2>1, <2>2 DEF Validation
<1> QED
  BY <1>1, <1>2

\* What a step of one validation has to give, when the rest stands still but
\* perhaps the cache.
LEMMA OneCall ==
  ASSUME KcInv, NEW c \in Calls, NEW v \in Validation,
         call' = [call EXCEPT ![c] = v],
         UNCHANGED <<ages, clock, published, retiredAt>>,
         keys' \subseteq Kids, fetchedAt' \in Times \cup {-TTL}, CacheInv',
         published[v.kid] # "later",
         v.at \in Deciding => v.steady \subseteq Live,
         v.at \in Flying /\ v.since # -1 =>
           /\ v.since \in Times /\ v.since <= clock /\ clock <= v.since + Transit
           /\ ReadAt(v.fetched, v.since) /\ v.steady \subseteq v.fetched,
         v.at = "honoured" =>
           /\ v.when = clock /\ v.when < v.exp + Allowed
           /\ ages /\ published[v.kid] = "retired" => v.when < retiredAt[v.kid] + TTL + Transit,
         v.at = "unknown" => v.kid \notin v.steady
  PROVE  KcInv'
<1>1. call' \in [Calls -> Validation \cup {NoCall}] /\ call'[c] = v /\ \A d \in Calls : d # c => call'[d] = call[d]
  BY DEF KcInv, KcTypeOK
<1>2. KcTypeOK'
  BY <1>1 DEF KcInv, KcTypeOK
<1>3. \A K, t : ReadAt(K, t)' <=> ReadAt(K', t')
  BY DEF ReadAt
<1>4. AnswerInv'
  BY <1>1 DEF KcInv, AnswerInv, InFlight, Flying, ReadAt
<1>5. CallInv'
  BY <1>1 DEF KcInv, CallInv, Live, Times, KcTypeOK
<1>6. RetiredInv'
  BY DEF KcInv, RetiredInv
<1>7. PublishedKeyFound'
  BY <1>1 DEF KcInv, PublishedKeyFound
<1>8. TrustEnds'
  BY <1>1 DEF KcInv, TrustEnds, Allowed
<1> QED
  BY <1>2, <1>4, <1>5, <1>6, <1>7, <1>8 DEF KcInv

\* What judging and refusing give.
LEMMA Outcomes ==
  ASSUME KcTypeOK, NEW c \in Calls, call[c] \in Validation
  PROVE  /\ Judged(c) \in Validation /\ Judged(c).kid = call[c].kid /\ Judged(c).at \in {"honoured", "expired"}
         /\ Judged(c).when = clock /\ Judged(c).exp = call[c].exp
         /\ Judged(c).at = "honoured" => clock < call[c].exp + Allowed
         /\ \A why \in {"unknown", "failed"} :
              /\ Refused(c, why) \in Validation /\ Refused(c, why).kid = call[c].kid
              /\ Refused(c, why).at = why /\ Refused(c, why).steady = call[c].steady
         /\ \A why \in Flying :
              /\ Fetching(c, why) \in Validation /\ Fetching(c, why).kid = call[c].kid
              /\ Fetching(c, why).at = why /\ Fetching(c, why).since = -1
              /\ Fetching(c, why).steady = call[c].steady
  BY DEF KcTypeOK, Validation, Judged, Refused, Fetching, Flying, Times

-----------------------------------------------------------------------------
(* The identity server, and time.                                            *)

\* A new key keeps the invariant.
LEMMA PublishKeeps == ASSUME NEW k \in Kids PROVE KcInv /\ Publish(k) => KcInv'
<1> SUFFICES ASSUME KcInv, Publish(k) PROVE KcInv'
  OBVIOUS
<1>1. /\ published' \in [Kids -> {"later", "live", "retired"}]
      /\ \A h \in Kids : h # k => published'[h] = published[h]
      /\ published'[k] = "live" /\ published[k] = "later"
      /\ UNCHANGED <<clock, retiredAt, ages, keys, fetchedAt, call>>
  BY DEF KcInv, KcTypeOK, Publish, cache
<1>2. KcTypeOK'
  BY <1>1 DEF KcInv, KcTypeOK
<1>3. AnswerInv' /\ CacheInv' /\ RetiredInv'
  <2>1. \A K \in SUBSET Kids, t \in Int : ReadAt(K, t) => ReadAt(K, t)'
    BY <1>1 DEF ReadAt
  <2>2. AnswerInv'
    BY <1>1, <2>1, Fields DEF KcInv, AnswerInv, InFlight, Times, ReadAt
  <2>3. CacheInv' /\ RetiredInv'
    BY <1>1, KeyCacheAssumption DEF KcInv, KcTypeOK, CacheInv, RetiredInv, ReadAt
  <2> QED
    BY <2>2, <2>3
<1>4. CallInv'
  <2> SUFFICES ASSUME NEW c \in Calls
               PROVE  /\ call[c] # NoCall => published'[call[c].kid] # "later"
                      /\ call[c].at \in Deciding => call[c].steady \subseteq Live'
                      /\ call[c].at = "honoured" => call[c].when <= clock
    BY <1>1 DEF CallInv
  <2>1. call[c] # NoCall => call[c].kid \in Kids
    BY Fields DEF KcInv
  <2>2. Live \subseteq Live'
    BY <1>1 DEF Live
  <2> QED
    BY <1>1, <2>1, <2>2 DEF KcInv, CallInv
<1>5. PublishedKeyFound' /\ TrustEnds'
  <2>1. PublishedKeyFound'
    BY <1>1 DEF KcInv, PublishedKeyFound
  <2>2. \A c \in Calls : call[c].at = "honoured" => call[c].kid \in Kids
    BY Fields DEF KcInv
  <2>3. TrustEnds'
    BY <1>1, <2>2 DEF KcInv, TrustEnds, Allowed
  <2> QED
    BY <2>1, <2>3
<1> QED
  BY <1>2, <1>3, <1>4, <1>5 DEF KcInv

\* A retired key keeps the invariant: it was live until now.
LEMMA RetireKeeps == ASSUME NEW k \in Kids PROVE KcInv /\ Retire(k) => KcInv'
<1> SUFFICES ASSUME KcInv, Retire(k) PROVE KcInv'
  OBVIOUS
<1> USE KeyCacheAssumption
<1>1. /\ published' \in [Kids -> {"later", "live", "retired"}] /\ retiredAt' \in [Kids -> Times]
      /\ \A h \in Kids : h # k => published'[h] = published[h] /\ retiredAt'[h] = retiredAt[h]
      /\ published'[k] = "retired" /\ published[k] = "live" /\ retiredAt'[k] = clock
      /\ UNCHANGED <<clock, ages, keys, fetchedAt>>
      /\ clock \in Nat
  BY DEF KcInv, KcTypeOK, Retire, cache, Times
<1>2. \A c \in Calls :
        /\ call[c].at \in Deciding => call'[c] = [call[c] EXCEPT !.steady = @ \ {k}] /\ call[c] \in Validation
        /\ call[c].at \notin Deciding => call'[c] = call[c]
  BY CallFields DEF KcInv, Retire, Deciding
<1>3. \A c \in Calls : call[c].at \in Deciding =>
        /\ call'[c] \in Validation /\ call'[c].at = call[c].at /\ call'[c].kid = call[c].kid
        /\ call'[c].since = call[c].since /\ call'[c].fetched = call[c].fetched
        /\ call'[c].steady = call[c].steady \ {k}
        /\ call[c].fetched \subseteq Kids /\ call[c].kid \in Kids
        /\ call[c].since \in Times \cup {-1}
  <2> SUFFICES ASSUME NEW c \in Calls, call[c].at \in Deciding
               PROVE  /\ call'[c] \in Validation /\ call'[c].at = call[c].at /\ call'[c].kid = call[c].kid
                      /\ call'[c].since = call[c].since /\ call'[c].fetched = call[c].fetched
                      /\ call'[c].steady = call[c].steady \ {k}
                      /\ call[c].fetched \subseteq Kids /\ call[c].kid \in Kids
                      /\ call[c].since \in Times \cup {-1}
    OBVIOUS
  <2>1. call'[c] = [call[c] EXCEPT !.steady = @ \ {k}] /\ call[c] \in Validation
    BY <1>2
  <2>2. [call[c] EXCEPT !.steady = @ \ {k}] \in Validation
    BY <2>1 DEF Validation
  <2>3. call'[c].at = call[c].at /\ call'[c].kid = call[c].kid
        /\ call'[c].since = call[c].since /\ call'[c].fetched = call[c].fetched
        /\ call'[c].steady = call[c].steady \ {k}
    BY <2>1 DEF Validation
  <2> QED
    BY <2>1, <2>2, <2>3 DEF Validation
<1>4. KcTypeOK'
  <2>1. call' = [c \in Calls |-> call'[c]]
    BY DEF Retire
  <2>2. \A c \in Calls : call'[c] \in Validation \cup {NoCall}
    BY <1>2, <1>3 DEF KcInv, KcTypeOK
  <2> QED
    BY <1>1, <2>1, <2>2 DEF KcInv, KcTypeOK
<1>5. AnswerInv'
  <2> SUFFICES ASSUME NEW c \in Calls, InFlight(c)'
               PROVE  /\ call'[c].since \in Times /\ call'[c].since <= clock'
                      /\ clock' <= call'[c].since + Transit
                      /\ ReadAt(call[c].fetched, call[c].since)'
                      /\ call'[c].steady \subseteq call'[c].fetched
    BY DEF AnswerInv
  <2>1. call[c].at \in Deciding /\ InFlight(c)
    BY <1>2, <1>3 DEF InFlight, Deciding
  <2>2. /\ call[c].since \in Times /\ call[c].since <= clock /\ clock <= call[c].since + Transit
        /\ ReadAt(call[c].fetched, call[c].since) /\ call[c].steady \subseteq call[c].fetched
    BY <2>1 DEF KcInv, AnswerInv
  <2>3. ReadAt(call[c].fetched, call[c].since)'
    BY <1>1, <1>3, <2>1, <2>2 DEF ReadAt, Times
  <2> QED
    BY <1>1, <1>3, <2>1, <2>2, <2>3
<1>6. CacheInv' /\ RetiredInv'
  BY <1>1 DEF KcInv, KcTypeOK, CacheInv, RetiredInv, ReadAt, Times
<1>7. CallInv'
  <2> SUFFICES ASSUME NEW c \in Calls
               PROVE  /\ call'[c] # NoCall => published'[call'[c].kid] # "later"
                      /\ call'[c].at \in Deciding => call'[c].steady \subseteq Live'
                      /\ call'[c].at = "honoured" => call'[c].when <= clock'
    BY DEF CallInv
  <2>1. CASE call[c].at \in Deciding
    <3>1. call[c] # NoCall /\ call[c].steady \subseteq Live /\ published[call[c].kid] # "later"
      BY <2>1 DEF KcInv, CallInv, Deciding, NoCall
    <3>2. \A h \in Live : h # k => h \in Live'
      BY <1>1 DEF Live
    <3> QED
      BY <1>1, <1>3, <2>1, <3>1, <3>2 DEF Deciding
  <2>2. CASE call[c].at \notin Deciding
    <3>1. call'[c] = call[c]
      BY <1>2, <2>2
    <3>2. call[c] # NoCall => call[c].kid \in Kids
      BY Fields DEF KcInv
    <3> QED
      BY <1>1, <2>2, <3>1, <3>2 DEF KcInv, CallInv
  <2> QED
    BY <2>1, <2>2
<1>8. PublishedKeyFound'
  BY <1>2, <1>3 DEF KcInv, PublishedKeyFound, Deciding
<1>9. TrustEnds'
  <2> SUFFICES ASSUME NEW c \in Calls, call'[c].at = "honoured"
               PROVE  /\ call'[c].when < call'[c].exp + Allowed'
                      /\ ages' /\ published'[call'[c].kid] = "retired"
                           => call'[c].when < retiredAt'[call'[c].kid] + TTL + Transit
    BY DEF TrustEnds
  <2>1. call'[c] = call[c] /\ call[c].at = "honoured" /\ call[c] \in Validation
    BY <1>2, <1>3, CallFields DEF KcInv, Deciding
  <2>2. call[c].kid \in Kids /\ call[c].when \in Nat /\ call[c].when <= clock
    BY <2>1 DEF KcInv, CallInv, Validation, Times
  <2> QED
    BY <1>1, <2>1, <2>2 DEF KcInv, TrustEnds, Allowed
<1> QED
  BY <1>4, <1>5, <1>6, <1>7, <1>8, <1>9 DEF KcInv

\* Time keeps the invariant: whoever is due goes first.
LEMMA TickKeeps == KcInv /\ KcTick => KcInv'
<1> SUFFICES ASSUME KcInv, KcTick PROVE KcInv'
  OBVIOUS
<1> USE KeyCacheAssumption
<1>1. clock \in Nat /\ clock' = clock + 1 /\ clock' \in Times
      /\ UNCHANGED <<ages, published, retiredAt, keys, fetchedAt, call>>
  BY DEF KcInv, KcTypeOK, KcTick, Times, cache
<1>2. KcTypeOK'
  BY <1>1 DEF KcInv, KcTypeOK
<1>3. AnswerInv'
  BY <1>1 DEF KcInv, KcTick, AnswerInv, InFlight, ReadAt, Times
<1>4. CacheInv' /\ RetiredInv'
  BY <1>1 DEF KcInv, KcTypeOK, CacheInv, RetiredInv, ReadAt, Times
<1>5. CallInv'
  <2> SUFFICES ASSUME NEW c \in Calls, call[c].at = "honoured" PROVE call[c].when <= clock'
    BY <1>1 DEF KcInv, CallInv, Live
  <2> QED
    BY <1>1, CallFields DEF KcInv, CallInv, Validation, Times
<1>6. PublishedKeyFound' /\ TrustEnds'
  BY <1>1 DEF KcInv, PublishedKeyFound, TrustEnds, Allowed
<1> QED
  BY <1>2, <1>3, <1>4, <1>5, <1>6 DEF KcInv

-----------------------------------------------------------------------------
(* The steps of a validation.                                                *)

\* A validation that begins keeps the invariant.
LEMMA ArriveKeeps ==
  ASSUME NEW c \in Calls, NEW k \in Kids, NEW x \in Expiries PROVE KcInv /\ Arrive(c, k, x) => KcInv'
<1> SUFFICES ASSUME KcInv, Arrive(c, k, x) PROVE KcInv'
  OBVIOUS
<1> DEFINE v == [at |-> "look", kid |-> k, exp |-> x, steady |-> Live, fetched |-> {}, since |-> -1, when |-> 0]
<1>1. v \in Validation
  BY KeyCacheAssumption DEF Validation, Live, Times
<1>2. v.at = "look" /\ v.kid = k /\ v.steady = Live
  OBVIOUS
<1>3. call' = [call EXCEPT ![c] = v] /\ UNCHANGED <<ages, clock, published, retiredAt, keys, fetchedAt>>
      /\ published[k] # "later"
  BY DEF Arrive, cache
<1>4. CacheInv' /\ keys' \subseteq Kids /\ fetchedAt' \in Times \cup {-TTL}
  BY <1>3 DEF KcInv, KcTypeOK, CacheInv, ReadAt
<1> HIDE DEF v
<1> QED
  BY <1>1, <1>2, <1>3, <1>4, OneCall DEF Flying, Deciding

\* A look at the cache keeps the invariant.
LEMMA LookKeeps == ASSUME NEW c \in Calls PROVE KcInv /\ Look(c) => KcInv'
<1> SUFFICES ASSUME KcInv, Look(c) PROVE KcInv'
  OBVIOUS
<1> USE KeyCacheAssumption
<1>1. /\ call[c].at = "look" /\ call[c] \in Validation /\ call[c].kid \in Kids
      /\ published[call[c].kid] # "later" /\ call[c].steady \subseteq Live
      /\ UNCHANGED <<ages, clock, published, retiredAt, keys, fetchedAt>>
  BY CallFields DEF KcInv, CallInv, Look, cache, Deciding, Validation, NoCall
<1>2. CacheInv' /\ keys' \subseteq Kids /\ fetchedAt' \in Times \cup {-TTL}
  BY <1>1 DEF KcInv, KcTypeOK, CacheInv, ReadAt
<1>3. CASE Stale \/ call[c].kid \notin keys
  <2>1. PICK why \in Flying : call' = [call EXCEPT ![c] = Fetching(c, why)]
    BY <1>3 DEF Look, Flying
  <2> QED
    BY <1>1, <1>2, <2>1, Outcomes, OneCall DEF KcInv, Flying, Deciding
<1>4. CASE ~Stale /\ call[c].kid \in keys
  <2>1. call' = [call EXCEPT ![c] = Judged(c)]
    BY <1>4 DEF Look
  <2>2. ASSUME ages, published[call[c].kid] = "retired"
        PROVE  clock < retiredAt[call[c].kid] + TTL + Transit
    <3>1. clock - fetchedAt < TTL
      BY <1>4, <2>2 DEF Stale, KcInv, KcTypeOK, Times
    <3>2. retiredAt[call[c].kid] >= fetchedAt - Transit
      BY <1>4, <2>2 DEF KcInv, CacheInv, ReadAt
    <3>3. retiredAt[call[c].kid] \in Int /\ fetchedAt \in Int /\ clock \in Int
      BY <1>1 DEF KcInv, KcTypeOK, Times
    <3> QED
      BY <3>1, <3>2, <3>3
  <2> QED
    BY <1>1, <1>2, <2>1, <2>2, Outcomes, OneCall DEF KcInv, Flying, Deciding
<1> QED
  BY <1>3, <1>4

\* The answer of the identity server keeps the invariant.
LEMMA AnswerKeeps == ASSUME NEW c \in Calls PROVE KcInv /\ Answer(c) => KcInv'
<1> SUFFICES ASSUME KcInv, Answer(c) PROVE KcInv'
  OBVIOUS
<1> USE KeyCacheAssumption
<1> DEFINE v == [call[c] EXCEPT !.fetched = Live, !.since = clock]
<1>1. /\ call[c].at \in Flying /\ call[c] \in Validation /\ published[call[c].kid] # "later"
      /\ call[c].steady \subseteq Live /\ clock \in Times
      /\ UNCHANGED <<ages, clock, published, retiredAt, keys, fetchedAt>>
  BY CallFields DEF KcInv, KcTypeOK, CallInv, Answer, cache, Deciding, Flying, Validation, NoCall
<1>2. v \in Validation /\ v.at = call[c].at /\ v.kid = call[c].kid /\ v.steady = call[c].steady
      /\ v.fetched = Live /\ v.since = clock
  BY <1>1 DEF Validation, Live
<1>3. call' = [call EXCEPT ![c] = v]
  BY <1>1 DEF Answer, KcInv, KcTypeOK
<1>4. CacheInv' /\ keys' \subseteq Kids /\ fetchedAt' \in Times \cup {-TTL}
  BY <1>1 DEF KcInv, KcTypeOK, CacheInv, ReadAt
<1>5. ReadAt(Live, clock)
  BY DEF ReadAt, Live
<1>6. clock <= clock + Transit
  <2>1. clock \in 0 .. ClockMax /\ ClockMax \in Nat /\ Transit \in Nat
    BY <1>1 DEF Times
  <2> QED BY ONLY <2>1
<1>7. v.at # "honoured" /\ v.at # "unknown"
  BY <1>1, <1>2 DEF Flying
<1>8. ReadAt(v.fetched, v.since) /\ v.steady \subseteq v.fetched /\ v.since \in Times
      /\ v.since <= clock /\ clock <= v.since + Transit /\ published[v.kid] # "later" /\ v.steady \subseteq Live
  BY <1>1, <1>2, <1>5, <1>6 DEF Times
<1> HIDE DEF v
<1> QED
  BY <1>1, <1>2, <1>3, <1>4, <1>7, <1>8, OneCall

\* An answer that lands replaces the cache and keeps the invariant.
LEMMA LandKeeps == ASSUME NEW c \in Calls PROVE KcInv /\ Land(c) => KcInv'
<1> SUFFICES ASSUME KcInv, Land(c) PROVE KcInv'
  OBVIOUS
<1> USE KeyCacheAssumption
<1>1. /\ call[c].at \in Flying /\ call[c] \in Validation /\ call[c].kid \in Kids
      /\ published[call[c].kid] # "later" /\ call[c].steady \subseteq Live
      /\ UNCHANGED <<ages, clock, published, retiredAt>> /\ clock \in Times
  BY CallFields DEF KcInv, KcTypeOK, CallInv, Land, InFlight, Deciding, Flying, Validation, NoCall
<1>2. /\ keys' = call[c].fetched /\ fetchedAt' = clock /\ keys' \subseteq Kids
      /\ call[c].since \in Times /\ call[c].since <= clock /\ clock <= call[c].since + Transit
      /\ ReadAt(keys', call[c].since) /\ call[c].steady \subseteq keys'
  BY <1>1 DEF KcInv, AnswerInv, Land, Landed, InFlight, Validation
<1>3. CacheInv'
  BY <1>1, <1>2 DEF CacheInv, ReadAt, Times, KcInv, KcTypeOK
<1>4. CASE call[c].kid \in keys'
  <2>1. call' = [call EXCEPT ![c] = Judged(c)]
    BY <1>4 DEF Land, AfterFetch
  <2>2. published[call[c].kid] = "retired" => clock < retiredAt[call[c].kid] + TTL + Transit
    BY <1>1, <1>2, <1>4 DEF ReadAt, Times, KcInv, KcTypeOK
  <2> QED
    BY <1>1, <1>2, <1>3, <2>1, <2>2, Outcomes, OneCall DEF KcInv, Flying, Deciding
<1>5. CASE call[c].kid \notin keys' /\ call[c].at = "stale"
  <2>1. call' = [call EXCEPT ![c] = Fetching(c, "miss")]
    BY <1>5 DEF Land, AfterFetch
  <2> QED
    BY <1>1, <1>2, <1>3, <2>1, Outcomes, OneCall DEF KcInv, Flying, Deciding
<1>6. CASE call[c].kid \notin keys' /\ call[c].at # "stale"
  <2>1. call' = [call EXCEPT ![c] = Refused(c, "unknown")]
    BY <1>6 DEF Land, AfterFetch
  <2> QED
    BY <1>1, <1>2, <1>3, <1>6, <2>1, Outcomes, OneCall DEF KcInv, Flying, Deciding
<1> QED
  BY <1>4, <1>5, <1>6

\* A fetch that fails keeps the invariant.
LEMMA FailKeeps == ASSUME NEW c \in Calls PROVE KcInv /\ FetchFails(c) => KcInv'
<1> SUFFICES ASSUME KcInv, FetchFails(c) PROVE KcInv'
  OBVIOUS
<1>1. /\ call[c] \in Validation /\ published[call[c].kid] # "later"
      /\ UNCHANGED <<ages, clock, published, retiredAt, keys, fetchedAt>>
      /\ call' = [call EXCEPT ![c] = Refused(c, "failed")]
  BY CallFields DEF KcInv, CallInv, FetchFails, cache, Validation, NoCall
<1>2. CacheInv' /\ keys' \subseteq Kids /\ fetchedAt' \in Times \cup {-TTL}
  BY <1>1 DEF KcInv, KcTypeOK, CacheInv, ReadAt
<1> QED
  BY <1>1, <1>2, Outcomes, OneCall DEF KcInv, Flying, Deciding

-----------------------------------------------------------------------------

\* The invariant of KeyCache: how old answers and the cached set are, and which
\* keys they have.
THEOREM KcInductive == KcSpec => []KcInv
<1>1. KcInv /\ [KcNext]_kcVars => KcInv'
  <2> SUFFICES ASSUME KcInv, [KcNext]_kcVars PROVE KcInv'
    OBVIOUS
  <2>1. CASE KcTick
    BY <2>1, TickKeeps
  <2>2. ASSUME NEW k \in Kids, Publish(k) \/ Retire(k) PROVE KcInv'
    BY <2>2, PublishKeeps, RetireKeeps
  <2>3. ASSUME NEW c \in Calls, NEW k \in Kids, NEW x \in Expiries, Arrive(c, k, x) PROVE KcInv'
    BY <2>3, ArriveKeeps
  <2>4. ASSUME NEW c \in Calls, Look(c) \/ Answer(c) \/ Land(c) \/ FetchFails(c) PROVE KcInv'
    BY <2>4, LookKeeps, AnswerKeeps, LandKeeps, FailKeeps
  <2>5. CASE UNCHANGED kcVars
    BY <2>5 DEF kcVars, KcInv, KcTypeOK, AnswerInv, CacheInv, CallInv, RetiredInv, PublishedKeyFound,
       TrustEnds, InFlight, ReadAt, Live, Allowed
  <2> QED
    BY <2>1, <2>2, <2>3, <2>4, <2>5 DEF KcNext
<1> QED
  BY KcInitInv, <1>1, PTL DEF KcSpec

\* A token is refused for an unknown key only when its key was not published all
\* the time, however fetches overtake each other (get_key, refresh).
THEOREM PublishedKeysAreFound == KcSpec => []PublishedKeyFound
<1>1. KcInv => PublishedKeyFound
  BY DEF KcInv
<1> QED
  BY <1>1, KcInductive, PTL

\* A retired key is trusted for no longer than the time to live and the transit of
\* an answer, and no token beyond its leeway, for every value of these.
THEOREM TrustIsBounded == KcSpec => []TrustEnds
<1>1. KcInv => TrustEnds
  BY DEF KcInv
<1> QED
  BY <1>1, KcInductive, PTL

\* The variables of KeyCache keep their types.
THEOREM KcTypeCorrect == KcSpec => []KcTypeOK
<1>1. KcInv => KcTypeOK
  BY DEF KcInv
<1> QED
  BY <1>1, KcInductive, PTL

-----------------------------------------------------------------------------
(* ActorToken.                                                               *)

\* Who mints holds the lock, which has one owner.
LockInv ==
  /\ \A c \in Callers : asker[c].at \in Minting <=> c \in lockOwner
  /\ \A c, d \in lockOwner : c = d

\* A mint is under way only while no cached token can be shared.
NeededInv == \A c \in lockOwner : ~FreshToken(cachedToken)

\* A token was issued before the agent was deactivated.
InTime(issued) == issued \in Ticks /\ issued <= tick /\ (deactivated # Never => issued <= deactivated)

\* A token reaches its caller within the delay, and is cached for the cap at most.
AgeInv ==
  /\ deactivated # Never => deactivated <= tick
  /\ cachedToken # NoToken =>
       InTime(cachedToken.issued) /\ cachedToken.until <= cachedToken.issued + Delay + CacheMax
  /\ \A c \in Callers : At(c, "issued") => InTime(asker[c].issued) /\ tick <= asker[c].issued + Delay
  /\ \A c \in Callers : asker[c].when <= tick

AtInv == AtTypeOK /\ LockInv /\ NeededInv /\ AgeInv /\ DeactivationLag

\* Nobody asks, nothing is cached: the invariant holds.
LEMMA InitInv == AtInit => AtInv
  BY ActorTokenAssumption
  DEF AtInit, AtInv, AtTypeOK, LockInv, NeededInv, AgeInv, DeactivationLag, Minting, Ticks, Never,
      NoToken, Token, At

\* Time passes, or the agent is deactivated: no caller moves.
LEMMA TimeKeeps == AtInv /\ (AtTick \/ Deactivate) => AtInv'
<1> SUFFICES ASSUME AtInv, AtTick \/ Deactivate PROVE AtInv'
  OBVIOUS
<1> USE ActorTokenAssumption
<1>1. tick \in Nat /\ tick' \in Nat /\ tick <= tick' /\ asker' = asker /\ cachedToken' = cachedToken
  BY DEF AtInv, AtTypeOK, AtTick, Deactivate, Ticks
<1>2. AtTypeOK'
  BY DEF AtInv, AtTypeOK, AtTick, Deactivate, Ticks, Token, NoToken, Never
<1>3. LockInv'
  BY DEF AtInv, LockInv, AtTick, Deactivate
<1>4. NeededInv'
  BY <1>1 DEF AtInv, AtTypeOK, NeededInv, FreshToken, AtTick, Deactivate, Token, NoToken, Ticks, Never
<1>5. AgeInv'
  BY <1>1 DEF AtInv, AtTypeOK, AgeInv, InTime, At, AtTick, Deactivate, Ticks, Token, NoToken, Never
<1>6. DeactivationLag'
  BY <1>1 DEF AtInv, AtTypeOK, AgeInv, DeactivationLag, At, AtTick, Deactivate, Ticks, Never
<1> QED
  BY <1>2, <1>3, <1>4, <1>5, <1>6 DEF AtInv

\* A caller that is handed a token: only the caller changes.
LEMMA HandedFields ==
  ASSUME AtTypeOK, NEW c \in Callers, NEW t, t.issued \in Ticks, asker' = [asker EXCEPT ![c] = Handed(c, t)]
  PROVE  /\ asker' \in [Callers -> [at : {"idle", "locking", "handed", "failed"} \cup Minting,
                                   step : 0 .. MaxSteps, issued : Ticks \cup {Never}, when : Ticks]]
         /\ asker'[c].at = "handed" /\ asker'[c].issued = t.issued /\ asker'[c].when = tick
         /\ \A d \in Callers : d # c => asker'[d] = asker[d]
<1>1. Handed(c, t) \in [at : {"idle", "locking", "handed", "failed"} \cup Minting,
                       step : 0 .. MaxSteps, issued : Ticks \cup {Never}, when : Ticks]
  BY DEF AtTypeOK, Handed
<1>2. Handed(c, t).at = "handed" /\ Handed(c, t).issued = t.issued /\ Handed(c, t).when = tick
  BY DEF AtTypeOK, Handed
<1> HIDE DEF Handed
<1> QED
  BY <1>1, <1>2 DEF AtTypeOK

\* The cached token is handed out, while it is fresh.
LEMMA CachedHanded ==
  ASSUME AtInv, NEW c \in Callers, asker[c].at \notin Minting, FreshToken(cachedToken),
         asker' = [asker EXCEPT ![c] = Handed(c, cachedToken)],
         UNCHANGED <<tick, deactivated, cachedToken, lockOwner>>
  PROVE  AtInv'
<1> USE ActorTokenAssumption
<1>1. cachedToken \in Token /\ cachedToken.issued \in Ticks /\ tick < cachedToken.until - Buffer
      /\ cachedToken.until \in Nat /\ tick \in Nat
  BY DEF AtInv, AtTypeOK, FreshToken, Token, Ticks
<1>2. /\ asker' \in [Callers -> [at : {"idle", "locking", "handed", "failed"} \cup Minting,
                               step : 0 .. MaxSteps, issued : Ticks \cup {Never}, when : Ticks]]
      /\ asker'[c].at = "handed" /\ asker'[c].issued = cachedToken.issued /\ asker'[c].when = tick
      /\ \A d \in Callers : d # c => asker'[d] = asker[d]
  BY <1>1, HandedFields DEF AtInv
<1>3. AtTypeOK'
  BY <1>2 DEF AtInv, AtTypeOK
<1>4. LockInv' /\ NeededInv'
  BY <1>2 DEF AtInv, LockInv, NeededInv, FreshToken, Minting
<1>5. AgeInv'
  BY <1>1, <1>2 DEF AtInv, AgeInv, InTime, At, Ticks
<1>6. DeactivationLag'
  BY <1>1, <1>2 DEF AtInv, AtTypeOK, AgeInv, InTime, DeactivationLag, At, Ticks, Never, NoToken, FreshToken
<1> QED
  BY <1>3, <1>4, <1>5, <1>6 DEF AtInv

\* A caller takes the cached token, or queues for the lock.
LEMMA AskKeeps == ASSUME NEW c \in Callers PROVE AtInv /\ Ask(c) => AtInv'
<1> SUFFICES ASSUME AtInv, Ask(c) PROVE AtInv'
  OBVIOUS
<1>1. CASE FreshToken(cachedToken)
  BY <1>1, CachedHanded DEF Ask, At, Minting
<1>2. CASE ~FreshToken(cachedToken)
  BY <1>2, ActorTokenAssumption
  DEF AtInv, AtTypeOK, LockInv, NeededInv, AgeInv, InTime, DeactivationLag, Ask, At, FreshToken, Minting
<1> QED
  BY <1>1, <1>2

\* Whoever gets the lock has seen the cache since.
LEMMA LockKeeps == ASSUME NEW c \in Callers PROVE AtInv /\ Lock(c) => AtInv'
<1> SUFFICES ASSUME AtInv, Lock(c) PROVE AtInv'
  OBVIOUS
<1>1. CASE SecondLook
  BY <1>1, CachedHanded DEF Lock, SecondLook, At, Minting
<1>2. CASE ~SecondLook
  BY <1>2, ActorTokenAssumption
  DEF AtInv, AtTypeOK, LockInv, NeededInv, AgeInv, InTime, DeactivationLag, Lock, SecondLook, At,
      FreshToken, Minting
<1> QED
  BY <1>1, <1>2

\* The requests of a mint, and its failure.
LEMMA MintKeeps ==
  ASSUME NEW c \in Callers
  PROVE  AtInv /\ (Authorized(c) \/ OneMoreStep(c) \/ LoggedIn(c) \/ Issued(c) \/ MintFails(c)) => AtInv'
<1> SUFFICES ASSUME AtInv, Authorized(c) \/ OneMoreStep(c) \/ LoggedIn(c) \/ Issued(c) \/ MintFails(c) PROVE AtInv'
  OBVIOUS
<1> USE ActorTokenAssumption
<1>1. CASE Authorized(c) \/ OneMoreStep(c) \/ LoggedIn(c)
  BY <1>1
  DEF AtInv, AtTypeOK, LockInv, NeededInv, AgeInv, InTime, DeactivationLag, Authorized, Authn, OneMoreStep, LoggedIn, Goes, At,
      FreshToken, Minting, Ticks, Never
<1>2. CASE Issued(c)
  <2>1. AtTypeOK'
    <3>1. tick \in Ticks /\ asker \in [Callers -> [at : {"idle", "locking", "handed", "failed"} \cup Minting,
                                                  step : 0 .. MaxSteps, issued : Ticks \cup {Never}, when : Ticks]]
      BY DEF AtInv, AtTypeOK
    <3>2. /\ asker' = [asker EXCEPT ![c].at = "issued", ![c].issued = tick]
          /\ "issued" \in {"idle", "locking", "handed", "failed"} \cup Minting
      BY <1>2 DEF Issued, Minting
    <3>3. asker' \in [Callers -> [at : {"idle", "locking", "handed", "failed"} \cup Minting,
                                  step : 0 .. MaxSteps, issued : Ticks \cup {Never}, when : Ticks]]
      BY ONLY c \in Callers, <3>1, <3>2
    <3> QED
      BY <1>2, <3>3 DEF AtInv, AtTypeOK, Issued
  <2>2. LockInv' /\ NeededInv'
    BY <1>2 DEF AtInv, AtTypeOK, LockInv, NeededInv, Issued, At, FreshToken, Minting
  <2>3. AgeInv'
    BY <1>2 DEF AtInv, AtTypeOK, AgeInv, InTime, Issued, At, Ticks
  <2>4. DeactivationLag'
    BY <1>2 DEF AtInv, AtTypeOK, DeactivationLag, Issued, At
  <2> QED
    BY <2>1, <2>2, <2>3, <2>4 DEF AtInv
<1>3. CASE MintFails(c)
  BY <1>3
  DEF AtInv, AtTypeOK, LockInv, NeededInv, AgeInv, InTime, DeactivationLag, MintFails, At, FreshToken,
      Minting, Ticks, Never
<1> QED
  BY <1>1, <1>2, <1>3

\* The token arrives.
LEMMA MintedKeeps == ASSUME NEW c \in Callers PROVE AtInv /\ Minted(c) => AtInv'
<1> SUFFICES ASSUME AtInv, Minted(c) PROVE AtInv'
  OBVIOUS
<1> USE ActorTokenAssumption
<1>1. /\ lockOwner = {c} /\ lockOwner' = {} /\ tick' = tick /\ deactivated' = deactivated
      /\ tick \in Ticks /\ Capped \in Nat /\ Capped <= tick + CacheMax /\ Capped <= LastTick + Lifetime + CacheMax
      /\ InTime(asker[c].issued) /\ tick <= asker[c].issued + Delay
  BY DEF AtInv, AtTypeOK, LockInv, AgeInv, Minted, At, Minting, Capped, Ticks
<1> DEFINE token == [issued |-> asker[c].issued]
<1>2. token.issued \in Ticks /\ token.issued = asker[c].issued
  BY <1>1 DEF InTime
<1>3. /\ asker' \in [Callers -> [at : {"idle", "locking", "handed", "failed"} \cup Minting,
                               step : 0 .. MaxSteps, issued : Ticks \cup {Never}, when : Ticks]]
      /\ asker'[c].at = "handed" /\ asker'[c].when = tick
      /\ \A d \in Callers : d # c => asker'[d] = asker[d]
  BY <1>2, HandedFields DEF AtInv, Minted
<1> HIDE DEF token
<1>4. AtTypeOK'
  BY <1>1, <1>3 DEF AtInv, AtTypeOK, Minted, InTime, Token, Ticks
<1>5. LockInv' /\ NeededInv'
  BY <1>1, <1>3 DEF AtInv, LockInv, NeededInv, Minting
<1>6. AgeInv'
  BY <1>1, <1>3 DEF AtInv, AtTypeOK, LockInv, AgeInv, InTime, Minted, At, Ticks, Minting
<1>7. DeactivationLag'
  BY <1>1, <1>3 DEF AtInv, AtTypeOK, InTime, DeactivationLag, At, Ticks, Never
<1> QED
  BY <1>4, <1>5, <1>6, <1>7 DEF AtInv

\* The invariant of ActorToken: lock discipline, and how old what is cached, on its
\* way or handed out may be.
THEOREM AtInductive == AtSpec => []AtInv
<1>1. AtInv /\ [AtNext]_atVars => AtInv'
  <2> SUFFICES ASSUME AtInv, [AtNext]_atVars PROVE AtInv'
    OBVIOUS
  <2>1. CASE AtTick \/ Deactivate
    BY <2>1, TimeKeeps
  <2>2. ASSUME NEW c \in Callers, Ask(c) PROVE AtInv'
    BY <2>2, AskKeeps
  <2>3. ASSUME NEW c \in Callers, Lock(c) PROVE AtInv'
    BY <2>3, LockKeeps
  <2>4. ASSUME NEW c \in Callers, Authorized(c) \/ OneMoreStep(c) \/ LoggedIn(c) \/ Issued(c) \/ MintFails(c) PROVE AtInv'
    BY <2>4, MintKeeps
  <2>5. ASSUME NEW c \in Callers, Minted(c) PROVE AtInv'
    BY <2>5, MintedKeeps
  <2>6. CASE UNCHANGED atVars
    BY <2>6 DEF atVars, AtInv, AtTypeOK, LockInv, NeededInv, AgeInv, InTime, DeactivationLag, FreshToken, At
  <2> QED
    BY <2>1, <2>2, <2>3, <2>4, <2>5, <2>6 DEF AtNext
<1> QED
  BY InitInv, <1>1, PTL DEF AtSpec

\* However many calls find the token expired at once, one of them mints, and
\* only while no shareable token is cached (ensure_valid_token).
THEOREM OneMintAtATime == AtSpec => []SingleFlight
<1>1. AtInv => SingleFlight
  <2> SUFFICES ASSUME AtInv PROVE SingleFlight
    OBVIOUS
  <2> DEFINE minters == {c \in Callers : asker[c].at \in Minting}
  <2>1. CASE minters = {}
    BY <2>1, FS_EmptySet DEF SingleFlight
  <2>2. CASE minters # {}
    <3>1. PICK c \in Callers : minters = {c}
      BY <2>2 DEF AtInv, LockInv
    <3>2. Cardinality(minters) = 1
      BY <3>1, FS_Singleton
    <3> QED
      BY <3>2 DEF AtInv, LockInv, NeededInv, SingleFlight
  <2> QED
    BY <2>1, <2>2
<1> QED
  BY <1>1, AtInductive, PTL

\* A deactivated agent is handed a token for at most the cap and the time that an
\* answer took, for every cap, buffer, delay and token life (_mint).
THEOREM DeactivationIsBounded == AtSpec => []DeactivationLag
<1>1. AtInv => DeactivationLag
  BY DEF AtInv
<1> QED
  BY <1>1, AtInductive, PTL

\* The variables of ActorToken keep their types.
THEOREM AtTypeCorrect == AtSpec => []AtTypeOK
<1>1. AtInv => AtTypeOK
  BY DEF AtInv
<1> QED
  BY <1>1, AtInductive, PTL

==============================================================================
