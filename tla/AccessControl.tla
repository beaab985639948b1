---------------------------- MODULE AccessControl ----------------------------
(***************************************************************************)
(* Who may do what: the permission catalogue, what each role is granted,   *)
(* the two guards in front of every handler, and the routes of the API with *)
(* the permission each one asks for and the tables it reads and writes.    *)
(*                                                                         *)
(* A permission "campaign:write" is the pair <<"campaign", "write">>.      *)
(***************************************************************************)
CONSTANT None

Keys(head, subs) == {<<head, sub>> : sub \in subs}

OrgPermissions ==
    Keys("org", {"read", "update", "delete"})
    \cup Keys("member", {"invite", "remove", "role:update"})
    \cup Keys("workspace", {"create", "delete"})
    \cup Keys("billing", {"view", "manage"})
    \cup Keys("audit", {"view"})

WorkspacePermissions ==
    Keys("workspace", {"read", "update"})
    \cup Keys("bisu", {"connect", "rotate", "disconnect"})
    \cup Keys("adaccount", {"read", "connect"})
    \cup Keys("campaign", {"read", "write", "delete"})
    \cup Keys("adset", {"write", "delete"}) \cup Keys("ad", {"write", "delete"})
    \cup Keys("budget", {"edit"})
    \cup Keys("creative", {"read", "write", "delete"})
    \cup Keys("template", {"read", "write"}) \cup Keys("brandkit", {"read", "write"})
    \cup Keys("automation", {"read", "write", "enable"})
    \cup Keys("abtest", {"read", "write"})
    \cup Keys("insights", {"read"}) \cup Keys("report", {"read", "export"})
    \cup Keys("ai", {"use"}) \cup Keys("lead", {"read", "export"})

\* Mutant: the head of the key alone decides.
ScopeByHead(p) ==
    IF p[1] \in {"org", "member", "workspace", "billing", "audit"}
    THEN "organization" ELSE "workspace"

permissionScope(p) ==
    IF \/ p[1] \in {"org", "member", "billing", "audit"}
       \/ p \in {<<"workspace", "create">>, <<"workspace", "delete">>}
    THEN "organization" ELSE "workspace"

-----------------------------------------------------------------------------
(* Roles.                                                                  *)

WsAdminKeys == WorkspacePermissions

\* Mutant: managers are granted what administrators are, but for the connection.
ManagerDeletes == WsAdminKeys \ Keys("bisu", {"connect", "rotate", "disconnect"})

WsManagerKeys ==
    Keys("workspace", {"read"}) \cup Keys("campaign", {"read", "write"})
    \cup Keys("adset", {"write"}) \cup Keys("ad", {"write"}) \cup Keys("budget", {"edit"})
    \cup Keys("creative", {"read", "write"}) \cup Keys("template", {"read", "write"})
    \cup Keys("brandkit", {"read"}) \cup Keys("automation", {"read", "write", "enable"})
    \cup Keys("abtest", {"read", "write"}) \cup Keys("insights", {"read"})
    \cup Keys("report", {"read", "export"}) \cup Keys("ai", {"use"}) \cup Keys("lead", {"read"})

WsViewerKeys ==
    {<<x, "read">> : x \in {"workspace", "campaign", "adaccount", "creative", "template",
                            "brandkit", "automation", "abtest", "insights", "report", "lead"}}
    \cup Keys("report", {"export"})

OrgOwnerKeys == OrgPermissions \cup WorkspacePermissions
OrgAdminKeys == OrgOwnerKeys \ Keys("billing", {"view", "manage"})
OrgMemberKeys == {<<"org", "read">>}

\* effectivePermissions of a user with these two roles (None: no membership).
Granted(org, ws) ==
    (CASE org = "OWNER" -> OrgOwnerKeys
       [] org = "ADMIN" -> OrgAdminKeys
       [] org = "MEMBER" -> OrgMemberKeys
       [] OTHER -> {})
    \cup
    (CASE ws = "ADMIN" -> WsAdminKeys
       [] ws = "MANAGER" -> WsManagerKeys
       [] ws = "VIEWER" -> WsViewerKeys
       [] OTHER -> {})

-----------------------------------------------------------------------------
(* Guards.                                                                 *)

\* Mutant: membership of the organization is enough.
EntersAsMember(org, ws) == org # None

\* WorkspaceAccessGuard: 404 outside the caller's organizations; without a
\* membership of the workspace only the owner gets in.
EntersWorkspace(org, ws) == org # None /\ (ws # None \/ org = "OWNER")

\* PermissionGuard: a workspace permission needs the workspace that the first
\* guard put into the request, and is looked up for it; another needs the
\* organization in the address, and is looked up for that alone.
HasPermission(route, org, ws) ==
    \/ route.needs = None
    \/ /\ route.at = permissionScope(route.needs)
       /\ route.needs \in Granted(org, IF route.at = "workspace" THEN ws ELSE None)

\* The guards of a route, in the order in which its controller lists them.
Allowed(route, org, ws) ==
    /\ route.at = "workspace" => EntersWorkspace(org, ws)
    /\ HasPermission(route, org, ws)

-----------------------------------------------------------------------------
(* Routes: at which address, which permission, which tables are read and   *)
(* which are written.  A sync, a creation and a change write what they are *)
(* named for; foreign keys carry the deletion of an ad account down to the *)
(* insights, and that of a creative to the ads that refer to it.           *)

Ws(head, sub, reads, writes) ==
    [at |-> "workspace", needs |-> <<head, sub>>, reads |-> reads, writes |-> writes]
Org(head, sub, reads, writes) ==
    [at |-> "organization", needs |-> <<head, sub>>, reads |-> reads, writes |-> writes]
Own(reads, writes) ==
    [at |-> "user", needs |-> None, reads |-> reads, writes |-> writes]

Campaigns ==
    [list   |-> Ws("campaign", "read", {"campaigns"}, {}),
     create |-> Ws("campaign", "write", {}, {"campaigns"}),
     update |-> Ws("campaign", "write", {}, {"campaigns"}),
     delete |-> Ws("campaign", "delete", {}, {"campaigns"}),
     sync   |-> Ws("campaign", "read", {}, {"campaigns"}),
     detail |-> Ws("campaign", "read", {"campaigns"}, {}),
     campaignInsights |-> Ws("insights", "read", {"campaign insights"}, {})]

WorkspaceInsights ==
    [list |-> Ws("insights", "read", {"campaign insights"}, {}),
     sync |-> Ws("insights", "read", {}, {"campaign insights"})]

AdSetsOfCampaign ==
    [list   |-> Ws("campaign", "read", {"ad sets"}, {}),
     sync   |-> Ws("campaign", "read", {}, {"ad sets"}),
     create |-> Ws("adset", "write", {}, {"ad sets"})]

AdSets ==
    [detail       |-> Ws("campaign", "read", {"ad sets"}, {}),
     insightsList |-> Ws("insights", "read", {"ad set insights"}, {}),
     insightsSync |-> Ws("insights", "read", {}, {"ad set insights"}),
     update       |-> Ws("adset", "write", {}, {"ad sets"}),
     delete       |-> Ws("adset", "delete", {}, {"ad sets"})]

AdsOfAdSet ==
    [list   |-> Ws("campaign", "read", {"ads"}, {}),
     sync   |-> Ws("campaign", "read", {}, {"ads"}),
     create |-> Ws("ad", "write", {}, {"ads"})]

Ads ==
    [detail       |-> Ws("campaign", "read", {"ads"}, {}),
     insightsList |-> Ws("insights", "read", {"ad insights"}, {}),
     insightsSync |-> Ws("insights", "read", {}, {"ad insights"}),
     update       |-> Ws("ad", "write", {}, {"ads"}),
     delete       |-> Ws("ad", "delete", {}, {"ads"})]

CreativesOfAccount ==
    [list |-> Ws("creative", "read", {"creatives"}, {}),
     sync |-> Ws("creative", "read", {}, {"creatives"})]

Creatives ==
    [list   |-> Ws("creative", "read", {"creatives"}, {}),
     detail |-> Ws("creative", "read", {"creatives"}, {}),
     create |-> Ws("creative", "write", {}, {"creatives"}),
     delete |-> Ws("creative", "delete", {}, {"creatives", "ads"})]

Meta ==
    [current     |-> Ws("workspace", "read", {"connection"}, {}),
     initConnect |-> Ws("bisu", "connect", {}, {}),
     callback    |-> Ws("bisu", "connect", {}, {"connection"}),
     rotate      |-> Ws("bisu", "rotate", {}, {"connection"}),
     disconnect  |-> Ws("bisu", "disconnect", {}, {"connection"}),
     syncAdAccounts |->
        Ws("adaccount", "read", {},
           {"accounts", "campaigns", "ad sets", "ads", "creatives",
            "campaign insights", "ad set insights", "ad insights"}),
     listAdAccounts |-> Ws("adaccount", "read", {"accounts"}, {})]

\* The callback that does not know its workspace: it asks for no permission.
MetaCallback == [callback |-> Own({}, {"connection"})]

Organizations ==
    [current     |-> Own({"organization", "workspaces", "members"}, {}),
     listMembers |-> Org("org", "read", {"members", "workspaces", "user"}, {}),
     update      |-> Org("org", "update", {}, {"organization"}),
     invite      |-> Org("member", "invite", {}, {"invitations"}),
     createWorkspace |-> Org("workspace", "create", {}, {"workspaces", "members"})]

Workspaces ==
    [get    |-> Ws("workspace", "read", {"workspaces", "members"}, {}),
     update |-> Ws("workspace", "update", {}, {"workspaces"})]

Users ==
    [permissions |-> Own({"members"}, {}),
     me          |-> Own({"user"}, {}),
     updateMe    |-> Own({}, {"user"}),
     regenerateBackupCodes |-> Own({}, {"backup codes"}),
     disableMfa  |-> Own({}, {"user", "backup codes"})]

AuthSessions ==
    [listSessions  |-> Own({"sessions"}, {}),
     revokeSession |-> Own({}, {"sessions"}),
     logoutAll     |-> Own({}, {"sessions"}),
     changePassword |-> Own({}, {"sessions"})]
=============================================================================
