------------------------------ MODULE ItServer ------------------------------
(***************************************************************************)
(* The IT resource server: assignments of assets and the counts of the     *)
(* catalogue (it_server/service/store.py, it_service.py), issued through   *)
(* an MCP tool (mcp/tools.py) and read through that door by sub or through *)
(* REST by username (rest_api/server.py).  Every call is one step; the     *)
(* store lives as long as the process.                                     *)
(***************************************************************************)
EXTENDS Integers

CONSTANTS
  Staff,       \* the subs that call
  NameOf,      \* a sub's username: the local part of an email, or Nobody
  Nobody,
  Assets,      \* asset ids, catalogued or not
  Catalogue    \* available_count of the catalogued ones at start

ASSUME ItAssumption ==
  /\ Nobody \notin Staff
  /\ DOMAIN NameOf = Staff
  /\ \A s, t \in Staff : NameOf[s] = NameOf[t] => s = t \/ NameOf[s] = Nobody
  /\ DOMAIN Catalogue \subseteq Assets
  /\ Catalogue \in [DOMAIN Catalogue -> Nat \ {0}]

StaffNames == {NameOf[s] : s \in Staff} \ {Nobody}

VARIABLES
  user,        \* store.users: no record, one without a username, or a full one
  asset,       \* store.assets: the username each issued asset is assigned to
  available,   \* available_count of the catalogue
  greeted      \* history: whom a REST call has authenticated

itVars == <<user, asset, available, greeted>>

ItTypeOK ==
  /\ user \in [Staff -> {"no", "bare", "named"}]
  /\ asset \in [Assets -> StaffNames \cup {Nobody}]
  /\ available \in [DOMAIN Catalogue -> Nat]
  /\ greeted \subseteq Staff

ItInit ==
  /\ user = [s \in Staff |-> "no"]
  /\ asset = [a \in Assets |-> Nobody]
  /\ available = Catalogue
  /\ greeted = {}

\* get_assets_for_username: an exact match.
AssetsNamed(n) == {a \in Assets : n # Nobody /\ asset[a] = n}

\* Mutant of NameFor: the record is asked only when the token brings a name.
NameForClaim(s, claimed) == claimed

\* get_my_assets: a name that the token does not bring is looked up by sub.
NameFor(s, claimed) ==
  IF claimed = Nobody /\ user[s] = "named" THEN NameOf[s] ELSE claimed

MyAssets(s, claimed) == AssetsNamed(NameFor(s, claimed))

\* The two doors: a token of the MCP door may name the user or not.
McpAssets(s) == {MyAssets(s, claimed) : claimed \in {Nobody, NameOf[s]}}
RestAssets(s) == MyAssets(s, NameOf[s])

\* get_all_asset_assignments, of the Devices report
AllAssignments == {<<a, asset[a]>> : a \in {b \in Assets : asset[b] # Nobody}}

\* _authenticate and ensure_user, of every REST call, answered or refused.
ItRestCall(s) ==
  /\ user' = [user EXCEPT ![s] = IF NameOf[s] # Nobody THEN "named" ELSE "bare"]
  /\ greeted' = greeted \cup {s}
  /\ UNCHANGED <<asset, available>>

\* Mutant of Withdrawn: also an asset that only changes hands is counted.
WithdrawnAlways(a) ==
  IF a \in DOMAIN Catalogue /\ available[a] > 0
  THEN [available EXCEPT ![a] = @ - 1]
  ELSE available

\* A new assignment of a catalogued asset takes one from the count.
Withdrawn(a) ==
  IF asset[a] = Nobody /\ a \in DOMAIN Catalogue /\ available[a] > 0
  THEN [available EXCEPT ![a] = @ - 1]
  ELSE available

\* record_issuance: an asset has one holder; issuing it again moves it.
Recorded(a, n) ==
  /\ asset' = [asset EXCEPT ![a] = n]
  /\ available' = Withdrawn(a)

\* issue_asset: the name is an email's local part.
IssueAsset(a, n) ==
  /\ Recorded(a, n)
  /\ UNCHANGED <<user, greeted>>

ItNext ==
  \/ \E s \in Staff : ItRestCall(s)
  \/ \E a \in Assets, n \in StaffNames : IssueAsset(a, n)

ItSpec == ItInit /\ [][ItNext]_itVars

-----------------------------------------------------------------------------
(* Properties.                                                               *)

\* However often an asset is issued, to the same person or from hand to hand,
\* what the catalogue still offers and what is assigned add up to the stock.
StockAddsUp ==
  \A a \in DOMAIN Catalogue :
    available[a] + (IF asset[a] = Nobody THEN 0 ELSE 1) = Catalogue[a]

\* An employee whom a REST call has met finds exactly the assets that the report
\* has under the employee's name, through either door; nobody finds another's.
AssetsFound ==
  \A s \in Staff :
    LET own == {a \in Assets : <<a, NameOf[s]>> \in AllAssignments}
    IN \A found \in McpAssets(s) \cup {RestAssets(s)} :
         found \subseteq own /\ (s \in greeted => found = own)

=============================================================================
