------------------------------ MODULE ToolPath ------------------------------
(***************************************************************************)
(* The contract that a tool call crosses, kept in five places: the planner *)
(* names a tool and its arguments (orchestrator/chat/keyword_fallback.py,  *)
(* llm/router.py), the agent picks the scope to ask consent for and the    *)
(* client method (hr_agent and it_agent ciba/orchestrator.py), the client  *)
(* builds the body (mcp/client.py), and the server demands a scope and     *)
(* fields (hr_server and it_server mcp/tools.py).                          *)
(*                                                                         *)
(* One user, whose calls run one after the other.  An argument is its      *)
(* name; "no such floor" is a floor argument out of range.                 *)
(***************************************************************************)
EXTENDS Integers, Sequences, FiniteSets

CONSTANTS
  Roles,     \* scopes the identity server grants, per kind of user
  MaxCues,   \* bound of what one message asks for
  MaxTurns   \* bound of the messages

ASSUME ToolPathAssumption == {MaxCues, MaxTurns} \subseteq Nat

-----------------------------------------------------------------------------
(* The keyword rules, in the order of DEFAULT_RULES.  A cue stands for the   *)
(* keywords of one rule.                                                     *)

HR(cue, tool) == [cue |-> cue, agent |-> "hr", tool |-> tool]
IT(cue, tool) == [cue |-> cue, agent |-> "it", tool |-> tool]

Rules ==
  << HR("my cubicle", "hr.cubicle_lookup_self"), HR("vacant cubicles", "hr.cubicle_summary"),
     HR("floor", "hr.cubicle_list_floor"), HR("assign cubicle", "hr.cubicle_assign"),
     HR("cubicle", "hr.cubicle_summary"), HR("leave requests", "hr.read_all_leaves"),
     HR("approve", "hr.approve_leave"), IT("issue", "it.issue_asset"),
     HR("annual leave from", "hr.apply_leave"), HR("leave policy", "hr.read_policy"),
     HR("leave", "hr.read_balance"), IT("my laptop", "it.get_my_assets"),
     IT("laptop", "it.list_available_assets") >>

Cues == {Rules[i].cue : i \in DOMAIN Rules}

\* What a message may ask for.
Messages == {c \in SUBSET Cues : Cardinality(c) \in 1 .. MaxCues}

\* Keywords are found anywhere in a message: whoever says the long phrase says
\* the short one.
Implied(cue) ==
  CASE cue \in {"my cubicle", "vacant cubicles", "assign cubicle"} -> {cue, "cubicle"}
    [] cue \in {"leave requests", "annual leave from", "leave policy"} -> {cue, "leave"}
    [] cue = "my laptop" -> {cue, "laptop"}
    [] OTHER -> {cue}

Says(cues) == UNION {Implied(c) : c \in cues}

\* route: per agent, the first rule that matches.
Chosen(cues) ==
  {i \in DOMAIN Rules :
     /\ Rules[i].cue \in Says(cues)
     /\ \A h \in 1 .. i - 1 : Rules[h].cue \in Says(cues) => Rules[h].agent # Rules[i].agent}

\* _extract_inline_args: what is looked for in the message of a tool's rule.
InlineArgs(tool) ==
  CASE tool = "hr.apply_leave" -> {"leave_type", "start_date", "end_date"}
    [] tool = "hr.approve_leave" -> {"leave_id"}
    [] tool = "it.issue_asset" -> {"asset_id", "employee_id"}
    [] tool = "hr.cubicle_list_floor" -> {"floor", "no such floor"}
    [] tool = "hr.cubicle_assign" -> {"cubicle_id", "employee_username"}
    [] tool = "hr.read_all_leaves" -> {"status"}
    [] OTHER -> {}

\* The n-th of the rules chosen.
Nth(cues, n) == CHOOSE i \in Chosen(cues) : Cardinality({h \in Chosen(cues) : h < i}) = n - 1

\* A message of the given cues that brings some of these details.
KeywordPlan(cues, details) ==
  [n \in 1 .. Cardinality(Chosen(cues)) |->
     LET tool == Rules[Nth(cues, n)].tool IN [tool |-> tool, args |-> InlineArgs(tool) \cap details]]

-----------------------------------------------------------------------------
(* The agents.  A tool: the client method, the scope to ask for instead of   *)
(* the agent's own, and the arguments passed to the method.                  *)

Entry(method, scope, passes) == [method |-> method, scope |-> scope, passes |-> passes]

HrTools ==
  {"hr.read_policy", "hr.read_balance", "hr.read_history", "hr.apply_leave", "hr.approve_leave",
   "hr.reject_leave", "hr.cubicle_summary", "hr.cubicle_list_floor", "hr.cubicle_assign",
   "hr.cubicle_lookup_self", "hr.read_all_leaves"}

\* _TOOL_REGISTRY of the HR agent; hr.lookup_employee is never planned.
HrRegistry(tool) ==
  CASE tool = "hr.read_policy" -> Entry("get_leave_policy", "hr_basic_rest", {})
    [] tool = "hr.read_balance" -> Entry("get_leave_balance", "", {})
    [] tool = "hr.read_history" -> Entry("get_leave_history", "", {})
    [] tool = "hr.apply_leave" -> Entry("apply_leave", "hr_self_rest", {"leave_type", "start_date", "end_date", "reason"})
    [] tool = "hr.approve_leave" -> Entry("approve_leave", "hr_approve_rest", {"leave_id"})
    [] tool = "hr.reject_leave" -> Entry("reject_leave", "hr_approve_rest", {"leave_id", "reason"})
    [] tool = "hr.cubicle_summary" -> Entry("get_cubicle_summary", "hr_read_rest", {})
    [] tool = "hr.cubicle_list_floor" -> Entry("get_vacant_cubicles_on_floor", "hr_read_rest", {"floor", "no such floor"})
    [] tool = "hr.cubicle_assign" -> Entry("assign_cubicle", "hr_assets_write_rest", {"cubicle_id", "employee_username", "employee_email"})
    [] tool = "hr.cubicle_lookup_self" -> Entry("get_my_cubicle", "", {})
    [] tool = "hr.read_all_leaves" -> Entry("get_all_leaves", "hr_approve_rest", {"status", "employee_name"})

ItTools == {"it.list_available_assets", "it.get_my_assets", "it.issue_asset"}

\* _TOOL_REGISTRY of the IT agent
ItRegistry(tool) ==
  CASE tool = "it.list_available_assets" -> Entry("list_available_assets", "", {"asset_type"})
    [] tool = "it.get_my_assets" -> Entry("get_my_assets", "it_assets_self_rest", {})
    [] tool = "it.issue_asset" -> Entry("issue_asset", "it_assets_write_rest", {"asset_id", "employee_id"})

Registry(tool) == IF tool \in HrTools THEN HrRegistry(tool) ELSE ItRegistry(tool)
ToolNames == HrTools \cup ItTools

\* Mutant of ScopeOf: the agent asks for its own scope whatever the tool.
ScopeOfAgent(tool) == IF tool \in HrTools THEN "hr_self_rest" ELSE "it_assets_read_rest"

\* tool_scope_override or deps.ciba_scope
ScopeOf(tool) ==
  IF Registry(tool).scope # "" THEN Registry(tool).scope
  ELSE IF tool \in HrTools THEN "hr_self_rest" ELSE "it_assets_read_rest"

\* _REQUIRED_ARGS of the HR agent, and of the IT agent
HrRequiredArgs(tool) ==
  CASE tool = "hr.approve_leave" -> {"leave_id"}
    [] tool = "hr.reject_leave" -> {"leave_id", "reason"}
    [] tool = "hr.apply_leave" -> {"leave_type", "start_date", "end_date"}
    [] OTHER -> {}

ItRequiredArgs(tool) == IF tool = "it.issue_asset" THEN {"asset_id", "employee_id"} ELSE {}

RequiredArgs(tool) == HrRequiredArgs(tool) \cup ItRequiredArgs(tool)

\* The builders of keyword arguments fill in what may be missing.
Defaults == {"floor", "reason", "employee_email"}

-----------------------------------------------------------------------------
(* The clients.  A method: the path it posts to, and the fields it takes     *)
(* and puts in the body.                                                     *)

Post(path, takes) == [path |-> path, takes |-> takes]

HrLeavePosts(method) ==
  CASE method \in {"get_leave_policy", "get_leave_balance", "get_leave_history"} -> Post(method, {})
    [] method = "apply_leave" -> Post(method, {"leave_type", "start_date", "end_date", "reason"})

HrReviewPosts(method) ==
  CASE method = "approve_leave" -> Post(method, {"leave_id"})
    [] method = "reject_leave" -> Post(method, {"leave_id", "reason"})

HrSeatPosts(method) ==
  CASE method \in {"get_cubicle_summary", "get_my_cubicle"} -> Post(method, {})
    [] method = "get_vacant_cubicles_on_floor" -> Post(method, {"floor", "no such floor"})
    [] method = "assign_cubicle" -> Post(method, {"cubicle_id", "employee_username", "employee_email"})
    [] method = "get_all_leaves" -> Post("get_all_leave_requests", {"status", "employee_name"})

ItPosts(method) ==
  CASE method = "list_available_assets" -> Post(method, {"asset_type"})
    [] method = "get_my_assets" -> Post(method, {})
    [] method = "issue_asset" -> Post(method, {"asset_id", "employee_id"})

Method(tool) ==
  LET method == Registry(tool).method IN
  CASE tool \in ItTools -> ItPosts(method)
    [] tool \in {"hr.approve_leave", "hr.reject_leave"} -> HrReviewPosts(method)
    [] tool \in {"hr.read_policy", "hr.read_balance", "hr.read_history", "hr.apply_leave"} -> HrLeavePosts(method)
    [] OTHER -> HrSeatPosts(method)

\* The request of a call, if the method takes what it is passed.
Takes(call) == Registry(call.tool).passes \subseteq Method(call.tool).takes
RequestOf(call) ==
  [path |-> Method(call.tool).path,
   body |-> Registry(call.tool).passes \cap (call.args \cup Defaults)]

-----------------------------------------------------------------------------
(* The servers: by path, the scope required, and the fields that the model   *)
(* of the body demands.                                                      *)

LeaveScopes(path) ==
  CASE path = "get_leave_policy" -> "hr_basic_rest"
    [] path \in {"get_leave_balance", "get_leave_history", "apply_leave"} -> "hr_self_rest"
    [] path \in {"approve_leave", "reject_leave"} -> "hr_approve_rest"

SeatPaths == {"get_cubicle_summary", "get_vacant_cubicles_on_floor", "get_my_cubicle", "assign_cubicle"}

SeatScopes(path) ==
  CASE path \in {"get_cubicle_summary", "get_vacant_cubicles_on_floor"} -> "hr_read_rest"
    [] path = "get_my_cubicle" -> "hr_self_rest"
    [] path = "assign_cubicle" -> "hr_assets_write_rest"

AllLeavesScope == "hr_approve_rest"

AssetPaths == {"list_available_assets", "get_my_assets", "issue_asset"}

AssetScopes(path) ==
  CASE path = "list_available_assets" -> "it_assets_read_rest"
    [] path = "get_my_assets" -> "it_assets_self_rest"
    [] path = "issue_asset" -> "it_assets_write_rest"

EndpointScope(path) ==
  CASE path \in SeatPaths -> SeatScopes(path)
    [] path \in AssetPaths -> AssetScopes(path)
    [] path = "get_all_leave_requests" -> AllLeavesScope
    [] OTHER -> LeaveScopes(path)

LeaveDemands(path) ==
  CASE path = "apply_leave" -> {"leave_type", "start_date", "end_date"}
    [] path = "approve_leave" -> {"leave_id"}
    [] path = "reject_leave" -> {"leave_id", "reason"}
    [] OTHER -> {}

SeatDemands(path) ==
  CASE path = "get_vacant_cubicles_on_floor" -> {"floor"}
    [] path = "assign_cubicle" -> {"cubicle_id", "employee_username"}
    [] OTHER -> {}

AssetDemands(path) == IF path = "issue_asset" THEN {"asset_id", "employee_id"} ELSE {}

Demanded(path) == LeaveDemands(path) \cup SeatDemands(path) \cup AssetDemands(path)

\* The body is judged before the token: 422, else 401.
Refusal(call, scope) ==
  LET request == RequestOf(call) IN
  IF \/ ~Takes(call) \/ ~(Demanded(request.path) \subseteq request.body)
     \/ "no such floor" \in request.body THEN "malformed"
  ELSE IF scope # EndpointScope(request.path) THEN "forbidden"
  ELSE "none"

-----------------------------------------------------------------------------

VARIABLES
  role,     \* the user's scopes
  turns,
  cues,     \* what the keyword router was asked, {} if the model planned
  plan,     \* the calls of the message
  next,     \* the call that is next, or is made
  at,       \* where it is
  tokens,   \* scopes of the tokens the agents have cached
  vain      \* history: calls refused by the server right after a consent

tpVars == <<role, turns, cues, plan, next, at, tokens, vain>>

ArgNames == UNION {Registry(t).passes : t \in ToolNames}
Call == [tool : ToolNames, args : SUBSET ArgNames]

TpTypeOK ==
  /\ role \in Roles /\ turns \in 0 .. MaxTurns /\ cues \subseteq Cues
  /\ \A i \in DOMAIN plan : plan[i] \in Call
  /\ next \in 1 .. Len(plan) + 1
  /\ at \in {"next", "asking", "granted", "cached"}
  /\ tokens \subseteq {ScopeOf(t) : t \in ToolNames}
  /\ vain \subseteq [tool : ToolNames, why : {"malformed", "forbidden"}]

TpInit ==
  /\ role \in Roles /\ turns = 0 /\ cues = {} /\ plan = <<>> /\ next = 1
  /\ at = "next" /\ tokens = {} /\ vain = {}

Made == plan[next]
Scope == ScopeOf(Made.tool)

Idle == at = "next" /\ next > Len(plan) /\ turns < MaxTurns

NewPlan(p) ==
  /\ Idle
  /\ turns' = turns + 1 /\ plan' = p /\ next' = 1
  /\ UNCHANGED <<role, at, tokens, vain>>

\* resolve_tool_calls without a model, or after it failed or named no valid tool.
PlanByKeyword(c, details) == cues' = c /\ NewPlan(KeywordPlan(c, details))

\* The catalogue of tools and arguments that the model is offered, from the cards;
\* they list the arguments that the registry passes on.
Offered == [tool \in ToolNames |-> Registry(tool).passes]

\* The model's client drops a name that is not in the catalogue.
Nameable == DOMAIN Offered

\* _validate: a call with arguments that the card lists, whatever others the model
\* made up.
PlanByModel(tool, args) ==
  /\ args \subseteq Offered[tool]
  /\ cues' = {} /\ NewPlan(<<[tool |-> tool, args |-> args]>>)

CallOver == next' = next + 1 /\ at' = "next"

\* __call__: a call that misses an argument is refused before any consent
\* (ERR-AGENT-002); a cached token is used.
AgentTakes ==
  /\ at = "next" /\ next <= Len(plan)
  /\ IF RequiredArgs(Made.tool) \subseteq Made.args
     THEN at' = (IF Scope \in tokens THEN "cached" ELSE "asking") /\ UNCHANGED next
     ELSE CallOver
  /\ UNCHANGED <<role, turns, cues, plan, tokens, vain>>

\* The user consents; a scope that the role has not is refused, by the identity
\* server or, when it issued a token without it, by the server.
Consent ==
  /\ at = "asking"
  /\ \/ Scope \in role /\ at' = "granted" /\ UNCHANGED next
     \/ CallOver
  /\ UNCHANGED <<role, turns, cues, plan, tokens, vain>>

\* The server answers, or refuses: then a cached token is dropped and consent is
\* asked; a fresh one is lost with the call.
ServerAnswers ==
  LET why == Refusal(Made, Scope) IN
  /\ at \in {"granted", "cached"}
  /\ IF why = "none" THEN CallOver /\ tokens' = tokens \cup {Scope} /\ UNCHANGED vain
     ELSE IF at = "cached" THEN at' = "asking" /\ tokens' = tokens \ {Scope} /\ UNCHANGED <<next, vain>>
     ELSE CallOver /\ vain' = vain \cup {[tool |-> Made.tool, why |-> why]} /\ UNCHANGED tokens
  /\ UNCHANGED <<role, turns, cues, plan>>

TpNext ==
  \/ Idle /\ \E c \in Messages :
       \E details \in SUBSET UNION {InlineArgs(Rules[i].tool) : i \in Chosen(c)} : PlanByKeyword(c, details)
  \/ Idle /\ \E tool \in Nameable : \E args \in SUBSET Offered[tool] : PlanByModel(tool, args)
  \/ AgentTakes \/ Consent \/ ServerAnswers

TpSpec == TpInit /\ [][TpNext]_tpVars

-----------------------------------------------------------------------------
(* Property.                                                                 *)

ToolFor(cue) == {Rules[i].tool : i \in {h \in DOMAIN Rules : Rules[h].cue = cue}}

\* A message that says what one rule is for is planned as that rule's tool, and
\* what the user then consents to is not refused: the consent is for the scope
\* the server wants, and the body has what it demands.  Two tools are known to
\* be asked consent for with a body that the server cannot take: their
\* arguments are not in _REQUIRED_ARGS.
ConsentFitsCall ==
  /\ \A c \in Cues : cues = {c} => {plan[i].tool : i \in DOMAIN plan} = ToolFor(c)
  /\ \A v \in vain : v.why = "malformed" /\ v.tool \in {"hr.cubicle_assign", "hr.cubicle_list_floor"}

=============================================================================
