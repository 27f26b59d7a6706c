------------------------------ MODULE HrServer ------------------------------
(***************************************************************************)
(* The HR resource server: the in-memory store (hr_server/service/         *)
(* store.py), the functions on it (hr_service.py) and its two doors: the   *)
(* MCP tools, called by the HR agent with a token that names only the sub  *)
(* (mcp/tools.py), and the REST endpoints, called by the orchestrator with *)
(* the user's own token (rest_api/server.py).                              *)
(*                                                                         *)
(* No function of hr_service awaits, so a call is one step; the two REST   *)
(* calls that read a body after they have authenticated are two.           *)
(***************************************************************************)
EXTENDS Integers, FiniteSets

CONSTANTS
  Employees,     \* the subs that call, or are named
  UserOf,        \* a sub's username: the local part of an email, or NoName
  NoName,
  Granted,       \* the scopes of a sub's tokens
  Types,         \* leave types
  Allowance,     \* _DEFAULT_LEAVE_BALANCE
  Lengths,       \* days a request may ask for
  NumCubicles,   \* length of store.cubicles
  MaxRequests,   \* bound of the requests between two resets
  MaxResets      \* bound of the resets

Scopes == {"hr_self_rest", "hr_read_rest", "hr_approve_rest", "hr_assets_write_rest"}

\* The username is the email's local part; no two users share one.
ASSUME HrAssumption ==
  /\ NoName \notin Employees
  /\ Granted \in [Employees -> SUBSET Scopes]
  /\ DOMAIN UserOf = Employees
  /\ \A s, t \in Employees : UserOf[s] = UserOf[t] => s = t \/ UserOf[s] = NoName
  /\ Allowance \in [Types -> Nat]
  /\ Lengths \subseteq Nat \ {0}
  /\ {NumCubicles, MaxRequests, MaxResets} \subseteq Nat

Ids == 1 .. MaxRequests

\* By their place in store.cubicles.
Cubicles == 1 .. NumCubicles

Usernames == {UserOf[s] : s \in Employees} \ {NoName}

VARIABLES
  known,      \* store.users: no record, one without a username, or a full one
  balance,    \* leave_balances (untouched until there is a record)
  request,    \* leave_requests, by number
  counter,    \* leave_request_counter
  holder,     \* cubicles: whom each is assigned to
  reading,    \* REST calls that have authenticated and wait for their body
  resets,
  met,        \* history: whom a REST call has authenticated since the reset
  told        \* history: the decisions answered with success since the reset

hrVars == <<known, balance, request, counter, holder, reading, resets, met, told>>

NoRequest == [status |-> "none"]
Verdicts == {"Approved", "Rejected"}
Request == [status : {"Pending"} \cup Verdicts, of : Employees, type : Types,
            days : Lengths, by : Employees \cup {NoName}]
NoHolder == [name |-> NoName, sub |-> NoName]

HrTypeOK ==
  /\ known \in [Employees -> {"no", "bare", "named"}]
  /\ balance \in [Employees -> [Types -> Int]]
  /\ request \in [Ids -> Request \cup {NoRequest}]
  /\ counter \in 0 .. MaxRequests
  /\ \A i \in Ids : request[i] # NoRequest <=> i <= counter
  /\ holder \in [Cubicles -> [name : Usernames \cup {NoName}, sub : Employees \cup {NoName}]]
  /\ reading \subseteq Employees \X {"apply", "reject"}
  /\ resets \in 0 .. MaxResets
  /\ met \subseteq Employees
  /\ told \subseteq [id : Ids, verdict : Verdicts, by : Employees]

Seeded ==
  /\ known' = [s \in Employees |-> "no"]
  /\ balance' = [s \in Employees |-> Allowance]
  /\ request' = [i \in Ids |-> NoRequest]
  /\ counter' = 0
  /\ holder' = [c \in Cubicles |-> NoHolder]
  /\ met' = {} /\ told' = {}

HrInit ==
  /\ known = [s \in Employees |-> "no"]
  /\ balance = [s \in Employees |-> Allowance]
  /\ request = [i \in Ids |-> NoRequest]
  /\ counter = 0
  /\ holder = [c \in Cubicles |-> NoHolder]
  /\ reading = {} /\ resets = 0 /\ met = {} /\ told = {}

-----------------------------------------------------------------------------
(* What the calls read.                                                      *)

\* get_my_leave_balance, for whom there is a record
LeaveBalance(s, t) == balance[s][t]

\* get_my_leave_requests
MyLeaves(s) == {i \in 1 .. counter : request[i].of = s}

\* get_all_leave_requests, of one status
LeaveReport(status) == {i \in 1 .. counter : request[i].status = status}

\* get_vacant_cubicles_on_floor, of all floors
Vacant == {c \in Cubicles : holder[c] = NoHolder}

\* get_all_cubicle_assignments: the report names no sub.
Assignments == {<<c, holder[c].name>> : c \in Cubicles \ Vacant}

\* The row a loop over store.cubicles meets first, of the rows S.
First(S) == {c \in S : \A d \in S : c <= d}

\* get_my_cubicle: the first row that matches the sub, or the username, if there
\* is one; a name that the token does not bring is looked up in the caller's
\* record.
MyCubicle(s, claimed) ==
  LET name == IF claimed = NoName /\ known[s] = "named" THEN UserOf[s] ELSE claimed
  IN First({c \in Cubicles \ Vacant :
              holder[c].sub = s \/ (name # NoName /\ holder[c].name = name)})

\* The two doors: a token of the MCP door may name the user or not.
McpCubicle(s) == {MyCubicle(s, claimed) : claimed \in {NoName, UserOf[s]}}
RestCubicle(s) == MyCubicle(s, UserOf[s])

\* lookup_employee, by username or email: only records with a name are found.
Lookup(n) ==
  IF \E s \in Employees : known[s] = "named" /\ UserOf[s] = n
  THEN CHOOSE s \in Employees : known[s] = "named" /\ UserOf[s] = n
  ELSE NoName

-----------------------------------------------------------------------------
(* ensure_user, and the two ways to it.                                      *)

\* Mutant of Ensured: a record is written once and never completed.
EnsuredOnce(s, named) ==
  [known EXCEPT ![s] = IF @ # "no" THEN @ ELSE IF named /\ UserOf[s] # NoName THEN "named" ELSE "bare"]

\* ensure_user with or without the profile claims: creates the record, and
\* completes one that was created without them.
Ensured(s, named) ==
  [known EXCEPT ![s] = IF named /\ UserOf[s] # NoName THEN "named" ELSE IF @ = "no" THEN "bare" ELSE @]

\* _authenticate, of every REST call: also of one that is then refused a scope.
Authenticate(s) == known' = Ensured(s, TRUE) /\ met' = met \cup {s}

Has(s, scope) == scope \in Granted[s]

\* The tools that read the caller's own record register the caller by sub.
McpOwn(s) ==
  /\ Has(s, "hr_self_rest")
  /\ known' = Ensured(s, FALSE)
  /\ UNCHANGED <<balance, request, counter, holder, reading, resets, met, told>>

McpBalance(s) == McpOwn(s)
McpHistory(s) == McpOwn(s)

RestOnly(s) ==
  Authenticate(s) /\ UNCHANGED <<balance, request, counter, holder, reading, resets, told>>

\* The REST calls that read: what is the caller's own, and the reports (the
\* scope is looked at after the caller is registered).
RestOwn(s) == RestOnly(s)
RestReports(s) == RestOnly(s)

\* A REST call with a body: authenticated and let through, it awaits the body.
RestBody(s, op) ==
  /\ Has(s, IF op = "apply" THEN "hr_self_rest" ELSE "hr_approve_rest")
  /\ Authenticate(s)
  /\ <<s, op>> \notin reading
  /\ reading' = reading \cup {<<s, op>>}
  /\ UNCHANGED <<balance, request, counter, holder, resets, told>>

\* The body is no JSON, or misses a field: 400.
RestBodyBad(s, op) ==
  /\ <<s, op>> \in reading
  /\ reading' = reading \ {<<s, op>>}
  /\ UNCHANGED <<known, balance, request, counter, holder, resets, met, told>>

-----------------------------------------------------------------------------
(* Leave.                                                                    *)

\* apply_leave: the balance must cover the days, but they are not reserved.
\* An unknown type, bad dates or short notice leave only the caller's record.
ApplyLeave(s, t, d) ==
  /\ known' = Ensured(s, FALSE)
  /\ \/ /\ balance[s][t] >= d
        /\ counter < MaxRequests
        /\ counter' = counter + 1
        /\ request' = [request EXCEPT ![counter + 1] =
             [status |-> "Pending", of |-> s, type |-> t, days |-> d, by |-> NoName]]
     \/ UNCHANGED <<counter, request>>
  /\ UNCHANGED <<balance, holder, resets, met, told>>

McpApply(s, t, d) ==
  /\ Has(s, "hr_self_rest")
  /\ ApplyLeave(s, t, d) /\ UNCHANGED reading

RestApply(s, t, d) ==
  /\ <<s, "apply">> \in reading
  /\ reading' = reading \ {<<s, "apply">>}
  /\ ApplyLeave(s, t, d)

\* Mutant of Covers: a request that had cover when it was made still has.
CoversAny(i) == TRUE

\* approve_leave_request checks the balance again.
Covers(i) == balance[request[i].of][request[i].type] >= request[i].days

\* Mutant of Open: a decided request can be decided again.
OpenAny(i) == i \in 1 .. counter

Open(i) == i \in 1 .. counter /\ request[i].status = "Pending"

Decided(r, i, verdict) ==
  /\ request' = [request EXCEPT ![i].status = verdict, ![i].by = r]
  /\ told' = told \cup {[id |-> i, verdict |-> verdict, by |-> r]}

\* approve_leave_request: deducts the days and decides, or refuses.
Approved(r, i) ==
  IF Open(i) /\ Covers(i)
  THEN /\ Decided(r, i, "Approved")
       /\ balance' = [balance EXCEPT ![request[i].of][request[i].type] = @ - request[i].days]
  ELSE UNCHANGED <<request, told, balance>>

\* reject_leave_request
Rejected(r, i) == IF Open(i) THEN Decided(r, i, "Rejected") ELSE UNCHANGED <<request, told>>

McpApprove(r, i) ==
  /\ Has(r, "hr_approve_rest")
  /\ Approved(r, i)
  /\ UNCHANGED <<known, counter, holder, reading, resets, met>>

McpReject(r, i) ==
  /\ Has(r, "hr_approve_rest")
  /\ Rejected(r, i)
  /\ UNCHANGED <<known, balance, counter, holder, reading, resets, met>>

RestApprove(r, i) ==
  /\ Has(r, "hr_approve_rest")
  /\ Authenticate(r)
  /\ Approved(r, i)
  /\ UNCHANGED <<counter, holder, reading, resets>>

RestReject(r, i) ==
  /\ <<r, "reject">> \in reading
  /\ reading' = reading \ {<<r, "reject">>}
  /\ Rejected(r, i)
  /\ UNCHANGED <<known, balance, counter, holder, resets, met>>

-----------------------------------------------------------------------------
(* Cubicles, and the reset.                                                  *)

\* assign_cubicle of hr_service: an occupied cubicle stays as it is, whoever
\* holds it.
Occupied(c, n, s) ==
  IF c \in Vacant THEN [holder EXCEPT ![c] = [name |-> n, sub |-> s]] ELSE holder

\* assign_cubicle, the tool: the name is the email's local part; the sub is
\* looked up.
AssignCubicle(admin, c, n) ==
  /\ Has(admin, "hr_assets_write_rest")
  /\ holder' = Occupied(c, n, Lookup(n))
  /\ UNCHANGED <<known, balance, request, counter, reading, resets, met, told>>

\* POST /reset: everything the store knows is gone, numbers start again.
Reset(r) ==
  /\ Has(r, "hr_approve_rest")
  /\ resets < MaxResets
  /\ resets' = resets + 1
  /\ Seeded /\ UNCHANGED reading

HrNext ==
  \/ \E s \in Employees : McpBalance(s) \/ McpHistory(s) \/ RestOwn(s) \/ RestReports(s) \/ Reset(s)
  \/ \E s \in Employees, op \in {"apply", "reject"} : RestBody(s, op) \/ RestBodyBad(s, op)
  \/ \E s \in Employees, t \in Types, d \in Lengths : McpApply(s, t, d) \/ RestApply(s, t, d)
  \/ \E r \in Employees, i \in Ids :
       McpApprove(r, i) \/ McpReject(r, i) \/ RestApprove(r, i) \/ RestReject(r, i)
  \/ \E r \in Employees, c \in Cubicles, n \in Usernames : AssignCubicle(r, c, n)

HrSpec == HrInit /\ [][HrNext]_hrVars

-----------------------------------------------------------------------------
(* Properties.                                                               *)

ApprovedLeaves(s, t) ==
  {i \in MyLeaves(s) : request[i].status = "Approved" /\ request[i].type = t}

\* The days of the approved leaves that an employee is shown, of one type.
DaysTaken(s, t) == UNION {{i} \X (1 .. request[i].days) : i \in ApprovedLeaves(s, t)}

Taken(s, t) == Cardinality(DaysTaken(s, t))

\* However many requests are pending at once and in whatever order they are
\* decided, no balance is overdrawn, and the balance an employee is shown and
\* the approved leaves the employee is shown add up to the allowance.
BalancesAddUp ==
  \A s \in Employees, t \in Types :
    LeaveBalance(s, t) >= 0 /\ LeaveBalance(s, t) + Taken(s, t) = Allowance[t]

\* Two approvers, two doors: what an approver was told is so, and stays so until
\* a reset.  No second decision is answered with success.
AnswersStand ==
  \A a \in told : a.id \in LeaveReport(a.verdict) /\ request[a.id].by = a.by

\* Nobody finds another's cubicle; and an employee whom a REST call has met since
\* the reset and who has cubicles in the report, under the employee's name, finds
\* the first of them and no other, through either door, whether the assignments
\* or the first call came first.
CubicleFound ==
  \A s \in Employees :
    LET own == {c \in Cubicles : <<c, UserOf[s]>> \in Assignments}
    IN \A found \in McpCubicle(s) \cup {RestCubicle(s)} :
         /\ found \subseteq own
         /\ s \in met /\ own # {} => \E c \in own : found = {c} /\ \A d \in own : c <= d

=============================================================================
