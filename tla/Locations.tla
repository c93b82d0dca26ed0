------------------------------ MODULE Locations ------------------------------
(***************************************************************************)
(* Locations, workspaces and access (core/api/locations.py,                *)
(* core/workspaces.py, core/access_control.py).  Every location lies in a  *)
(* workspace and may have a parent location.  A request names a workspace, *)
(* by id or by slug, and brings roles, direct capabilities and perhaps a   *)
(* workspace that it is restricted to, all of them in headers.             *)
(*                                                                         *)
(* The handlers never suspend and commit once: a request is one step.      *)
(* What the last request was allowed and shown is kept in "answer".        *)
(***************************************************************************)
EXTENDS FiniteSets

CONSTANTS
    Ids,            \* ids of locations
    Workspaces,     \* ids of workspaces
    Default,        \* the workspace with the slug "default"
    DevMode,        \* whether XYN_AUTH_MODE may be dev, simple or local
    NoId

ASSUME LocationsAssumption ==
    /\ Default \in Workspaces
    /\ NoId \notin Ids \union Workspaces
    /\ DevMode \subseteq BOOLEAN

VARIABLES
    workspaces,     \* the workspaces that exist
    locations,      \* the locations rows, by id
    answer          \* the last request: its principal, its workspace and the
                    \* locations that its answer shows

locationVars == <<workspaces, locations, answer>>

-----------------------------------------------------------------------------
(* Roles and capabilities, as far as the locations ask for them.           *)
Read == "app.read"
Manage == "app.campaigns.manage"
ROLE_CAPABILITY_MAP ==
    [application_admin  |-> {Read, Manage},
     campaign_operator  |-> {Read, Manage},
     read_only_analyst  |-> {Read}]

_dev_default_roles(dev) == IF dev THEN {"application_admin"} ELSE {}

(* The headers of a request name roles, of which those that are unknown    *)
(* count as roles but grant nothing, direct capabilities, and a scope.     *)
Headers ==
    [roles : SUBSET (DOMAIN ROLE_CAPABILITY_MAP \union {"unknown"}),
     capabilities : SUBSET {Read, Manage}, scope : Workspaces \union {NoId}]

resolve_effective_capabilities(roles, direct) ==
    direct \union
    UNION {ROLE_CAPABILITY_MAP[r] : r \in roles \intersect DOMAIN ROLE_CAPABILITY_MAP}

principal_from_request(headers, dev) ==
    [capabilities |-> resolve_effective_capabilities(
         IF headers.roles = {} THEN _dev_default_roles(dev) ELSE headers.roles,
         headers.capabilities),
     scope |-> headers.scope]

Principals == {principal_from_request(h, dev) : h \in Headers, dev \in DevMode}

assert_access(p, required, workspace) ==
    /\ required \in p.capabilities
    /\ p.scope \in {NoId, workspace}

(* The workspace of a request: the id decides, and the slug where there is *)
(* none; but the slug "default" also stands in for an id that is unknown,  *)
(* and creates the default workspace.  "id" and "slug" are workspaces.     *)
Resolves(id, slug, workspace) ==
    \/ id # NoId /\ id \in workspaces /\ workspace = id
    \/ id = NoId /\ slug # NoId /\ slug \in workspaces /\ workspace = slug
    \/ slug = Default /\ workspace = Default
       /\ IF id = NoId THEN Default \notin workspaces ELSE id \notin workspaces

-----------------------------------------------------------------------------
LocationInit ==
    /\ workspaces \in SUBSET Workspaces
    /\ locations = << >>
    /\ answer = [principal |-> [capabilities |-> {}, scope |-> NoId],
                 workspace |-> NoId, shown |-> {}]

Rows == DOMAIN locations
InWorkspace(w) == {l \in Rows : locations[l].workspace = w}

\* Mutant: the parent must exist, wherever it is.
_validate_parent_exists(w, parent) == parent # NoId => parent \in Rows

(* The parent, if any, exists and lies in the workspace.                   *)
_validate_parent_workspace(w, parent) ==
    parent # NoId => parent \in Rows /\ locations[parent].workspace = w

(* A request by p that the workspace admits with the capability.  The      *)
(* default workspace is created even if the access is then refused.        *)
Request(p, w, required, shown) ==
    /\ \E id, slug \in Workspaces \union {NoId} : Resolves(id, slug, w)
    /\ assert_access(p, required, w)
    /\ workspaces' = workspaces \union {w}
    /\ answer' = [principal |-> p, workspace |-> w, shown |-> shown]

RefusedRequest(p, w, required) ==
    /\ \E id, slug \in Workspaces \union {NoId} : Resolves(id, slug, w)
    /\ required \in p.capabilities /\ ~assert_access(p, required, w)
    /\ w \notin workspaces
    /\ workspaces' = workspaces \union {w}
    /\ UNCHANGED <<locations, answer>>

list_locations(p, w) ==
    /\ \E shown \in SUBSET InWorkspace(w) : Request(p, w, Read, shown)
    /\ UNCHANGED locations

create_location(p, w, l, parent) ==
    /\ l \notin Rows
    /\ Request(p, w, Manage, {l})
    /\ _validate_parent_workspace(w, parent)
    /\ locations' = [m \in Rows \union {l} |->
                        IF m = l THEN [workspace |-> w, parent |-> parent]
                        ELSE locations[m]]

get_location(p, w, l) ==
    /\ l \in InWorkspace(w)
    /\ Request(p, w, Read, {l})
    /\ UNCHANGED locations

(* A location may not become its own parent, but may become the parent of  *)
(* an ancestor.                                                            *)
patch_location(p, w, l, parent) ==
    /\ l \in InWorkspace(w)
    /\ Request(p, w, Manage, {l})
    /\ parent # l /\ _validate_parent_workspace(w, parent)
    /\ locations' = [locations EXCEPT ![l].parent = parent]

delete_location(p, w, l) ==
    /\ l \in InWorkspace(w)
    /\ Request(p, w, Manage, {l})
    /\ \A m \in InWorkspace(w) : locations[m].parent # l
    /\ locations' = [m \in Rows \ {l} |-> locations[m]]

LocationNext ==
    \E p \in Principals, w \in Workspaces :
        \/ list_locations(p, w)
        \/ \E l \in Ids : \/ get_location(p, w, l)
                          \/ delete_location(p, w, l)
        \/ \E l \in Ids, parent \in Ids \union {NoId} :
               \/ create_location(p, w, l, parent)
               \/ patch_location(p, w, l, parent)
        \/ \E required \in {Read, Manage} : RefusedRequest(p, w, required)

LocationSpec == LocationInit /\ [][LocationNext]_locationVars

-----------------------------------------------------------------------------
LocationTypeOK ==
    /\ workspaces \subseteq Workspaces
    /\ Rows \subseteq Ids
    /\ locations \in [Rows -> [workspace : Workspaces, parent : Ids \union {NoId}]]

(***************************************************************************)
(* Tenancy: whatever is created, moved and deleted, a location and its     *)
(* parent exist and lie in one workspace that exists, and a request is     *)
(* shown locations of the workspace only that it was admitted to, which is *)
(* the one it is restricted to, if it is restricted.                       *)
(***************************************************************************)
ParentsAreLocal ==
    \A l \in Rows :
        /\ locations[l].workspace \in workspaces
        /\ locations[l].parent # NoId =>
               /\ locations[l].parent \in Rows
               /\ locations[locations[l].parent].workspace = locations[l].workspace

AnswersAreScoped ==
    /\ answer.principal.scope \in {NoId, answer.workspace} \/ answer.shown = {}
    /\ \A l \in answer.shown \intersect Rows : locations[l].workspace = answer.workspace

TenancyHolds == ParentsAreLocal /\ AnswersAreScoped
=============================================================================
