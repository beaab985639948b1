------------------------- MODULE MCPermissionCache --------------------------
(***************************************************************************)
(* PermissionCache on small instances, for TLC, with the pages of the web  *)
(* client and the routes of the API in front of it: the roles that users   *)
(* come to have decide what they are shown and what they are let do.       *)
(***************************************************************************)
EXTENDS PermissionCache, TLC

W == INSTANCE WebPages

\* The routes that ask for no permission are those that have None for it.
ASSUME PermissionsAssumption == None \notin W!OrgPermissions \cup W!WorkspacePermissions

Symmetry == Permutations(User) \cup Permutations(Workspace) \cup Permutations(Request)

-----------------------------------------------------------------------------

RolePairs == (OrgRole \cup {None}) \X (WsRole \cup {None})

\* Managers lack adaccount:read; two pages ask for the ad accounts regardless.
LacksAccounts(org, ws) == org = "MEMBER" /\ ws = "MANAGER"
AsksForAccounts == {"campaigns", "creatives"}

ServedInWorkspace ==
    {pair \in RolePairs :
        \A page \in DOMAIN W!WorkspacePage :
            \/ page \in AsksForAccounts /\ LacksAccounts(pair[1], pair[2])
            \/ W!Works(W!WorkspacePage[page], pair[1], pair[2])}

ServedOutside ==
    {org \in OrgRole : \A page \in DOMAIN W!OwnPage : W!Works(W!OwnPage[page], org, None)}

\* For everybody whom WorkspaceAccessGuard lets into a workspace, the owner who
\* is no member of it included, every query a page makes and every button it
\* shows is one that PermissionGuard lets pass; and the same for the pages of
\* the organization (use-can.ts, permission.guard.ts, role-permissions.ts).
PagesWork ==
    \A u \in User :
        /\ orgRole[u] # None => orgRole[u] \in ServedOutside
        /\ \A w \in exists :
            W!EntersWorkspace(orgRole[u], wsRole[w][u]) =>
                <<orgRole[u], wsRole[w][u]>> \in ServedInWorkspace

\* What deletes at Meta, and what throws rows of ours away: the sync of the ad
\* accounts drops them all, and with them, by foreign keys, everything below.
Deletions == {W!Campaigns.delete, W!AdSets.delete, W!Ads.delete, W!Creatives.delete}
Replacing == {W!Meta.syncAdAccounts}
Connecting == {W!Meta.initConnect, W!Meta.callback, W!Meta.rotate, W!Meta.disconnect}
Edits ==
    {W!Campaigns.create, W!Campaigns.update, W!AdSetsOfCampaign.create, W!AdSets.update,
     W!AdsOfAdSet.create, W!Ads.update, W!Creatives.create, W!Workspaces.update}

DutyPairs ==
    {pair \in RolePairs :
        LET Can(routes) == \E x \in routes : W!Allowed(x, pair[1], pair[2])
            runsOrg == pair[1] \in {"OWNER", "ADMIN"}
        IN
        /\ Can(Deletions \cup Connecting) => runsOrg \/ pair[2] = "ADMIN"
        /\ Can(Edits) => runsOrg \/ pair[2] \in {"ADMIN", "MANAGER"}
        /\ Can(Replacing) => runsOrg \/ pair[2] \in {"ADMIN", "VIEWER"}}

\* Whatever memberships invitations and creations have led to: only those who run
\* the workspace or the organization delete campaigns, ad sets, ads and creatives
\* or start, rotate and end the connection to Meta, and a viewer edits nothing
\* (docs/02: a VIEWER gets 403 for campaign:write).  A manager "can edit but not
\* destroy" (PROGRESS.md), the sync of the ad accounts included.  A viewer is not
\* kept from that one: it asks for adaccount:read only, and drops the rows of the
\* accounts with all that hangs on them (meta.controller.ts:195).
DutiesAreSplit ==
    \A u \in User, w \in exists : <<orgRole[u], wsRole[w][u]>> \in DutyPairs
=============================================================================
