------------------------------ MODULE WebPages ------------------------------
(***************************************************************************)
(* The pages of the web client: which queries each one makes, under which  *)
(* key react-query keeps the answer, which controls it shows to whom, which *)
(* route a control calls and which keys it invalidates when the call has   *)
(* succeeded.  Layout and wording are left out.                            *)
(*                                                                         *)
(* A key is the sequence of its parts, "slug", "id" and the like standing  *)
(* for the values of the page.                                             *)
(***************************************************************************)
EXTENDS AccessControl, Sequences, SequencesExt

\* can: the useCan() that enables the query or shows the control, None without
\* one; after: the keys whose answers must be there before it is made or shown.
QueryOf(key, route, can, after) ==
    [key |-> key, route |-> route, can |-> can, after |-> after]
Control(route, can, after, invalidates) ==
    [route |-> route, can |-> can, after |-> after, invalidates |-> invalidates]

\* A component that is rendered only when `keys` have been answered.
Below(keys, panel) ==
    [queries  |-> {[q EXCEPT !.after = @ \cup keys] : q \in panel.queries},
     controls |-> {[c EXCEPT !.after = @ \cup keys] : c \in panel.controls}]

Together(panels) ==
    [queries  |-> UNION {p.queries : p \in panels},
     controls |-> UNION {p.controls : p \in panels}]

\* invalidateQueries matches every key that starts with the one given.
Invalidates(c, key) == \E prefix \in c.invalidates : IsPrefix(prefix, key)

CurrentOrg == QueryOf(<<"organizations", "current">>, Organizations.current, None, {})
Connection == QueryOf(<<"meta", "slug", "connection">>, Meta.current, None, {})
Accounts(can) ==
    QueryOf(<<"meta", "slug", "ad-accounts", "connectionId">>, Meta.listAdAccounts, can,
          {Connection.key})
CampaignList(after) == QueryOf(<<"campaigns", "slug">>, Campaigns.list, None, after)
CreativeList(can) == QueryOf(<<"creatives", "slug">>, Creatives.list, can, {})

-----------------------------------------------------------------------------
(* Campaign, ad set and ad pages.                                          *)

AdSetList == <<"adsets", "slug", "campaignId">>

AdSetCreateDialog ==
    {Control(AdSetsOfCampaign.create, <<"adset", "write">>, {}, {AdSetList})}

\* Mutant: the bin is shown to whoever can write.
AdSetRowsOfWriters ==
    {Control(AdSets.delete, <<"adset", "write">>, {AdSetList}, {AdSetList})}

AdSetRows == {Control(AdSets.delete, <<"adset", "delete">>, {AdSetList}, {AdSetList})}

AdSetsPanel ==
    [queries  |-> {QueryOf(AdSetList, AdSetsOfCampaign.list, None, {})},
     controls |-> {Control(AdSetsOfCampaign.sync, None, {}, {AdSetList})}
                  \cup AdSetCreateDialog \cup AdSetRows]

AdList == <<"ads", "slug", "adsetId">>

\* An ad needs one of the creatives.
AdCreateDialog ==
    {Control(AdsOfAdSet.create, <<"ad", "write">>, {CreativeList(None).key}, {AdList})}

AdRows == {Control(Ads.delete, <<"ad", "delete">>, {AdList}, {AdList})}

AdsPanel ==
    [queries  |-> {QueryOf(AdList, AdsOfAdSet.list, None, {}), CreativeList(<<"ad", "write">>)},
     controls |-> {Control(AdsOfAdSet.sync, None, {}, {AdList})}
                  \cup AdCreateDialog \cup AdRows]

InsightsCard(name, reads, syncs) ==
    LET key == <<name, "slug", "id">> IN
    [queries  |-> {QueryOf(key \o <<"from", "to">>, reads, None, {})},
     controls |-> {Control(syncs, None, {}, {key})}]

\* The panels below a detail are rendered when the detail is there.
AdSetDetail ==
    LET key == <<"adset", "slug", "id">> IN
    Together({[queries |-> {QueryOf(key, AdSets.detail, None, {})}, controls |-> {}],
              Below({key}, AdsPanel),
              Below({key}, InsightsCard("adset-insights", AdSets.insightsList,
                                        AdSets.insightsSync))})

AdDetail ==
    LET key == <<"ad", "slug", "id">> IN
    Together({[queries |-> {QueryOf(key, Ads.detail, None, {})}, controls |-> {}],
              Below({key}, InsightsCard("ad-insights", Ads.insightsList, Ads.insightsSync))})

\* The form offers the accounts of the connection; the dialog is there for those
\* who can write, who need not be able to read the accounts.
CreateCampaignDialog ==
    [queries  |-> {Accounts(<<"campaign", "write">>)},
     controls |-> {Control(Campaigns.create, <<"campaign", "write">>,
                           {Accounts(None).key}, {<<"campaigns", "slug">>})}]

CampaignsClient ==
    Together({[queries  |-> {Connection, CampaignList({Connection.key})}, controls |-> {}],
              Below({Connection.key}, CreateCampaignDialog),
              Below({Connection.key},
                    [queries  |-> {},
                     controls |-> {Control(Campaigns.sync, None, {}, {<<"campaigns", "slug">>})}])})

OneCampaign == <<"campaign", "slug", "id">>

CampaignEditDialog ==
    {Control(Campaigns.update, <<"campaign", "write">>, {OneCampaign},
             {OneCampaign, <<"campaigns", "slug">>})}

\* After a deletion the page is left for the list.
CampaignDeleteDialog ==
    {Control(Campaigns.delete, <<"campaign", "delete">>, {OneCampaign},
             {<<"campaigns", "slug">>})}

CampaignDetail ==
    Together({[queries  |-> {QueryOf(OneCampaign, Campaigns.detail, None, {}),
                             QueryOf(<<"campaign-insights", "slug", "id", "from", "to">>,
                                   Campaigns.campaignInsights, None, {})},
               controls |-> CampaignEditDialog \cup CampaignDeleteDialog],
              Below({OneCampaign}, AdSetsPanel)})

InsightsClient ==
    [queries  |-> {CampaignList({}),
                   QueryOf(<<"insights", "slug", "from", "to">>, WorkspaceInsights.list, None, {})},
     controls |-> {Control(WorkspaceInsights.sync, None, {}, {<<"insights", "slug">>})}]

-----------------------------------------------------------------------------
(* Creatives and the connection.                                           *)

\* Another key for the accounts than everywhere else.
CreativeAccounts ==
    QueryOf(<<"meta-adaccounts", "slug", "connectionId">>, Meta.listAdAccounts, None,
          {<<"meta-connection", "slug">>})

CreativeCreateDialog ==
    {Control(Creatives.create, <<"creative", "write">>, {CreativeAccounts.key},
             {CreativeList(None).key})}

CreativeRows ==
    {Control(Creatives.delete, <<"creative", "delete">>, {CreativeList(None).key},
             {CreativeList(None).key})}

CreativesClient ==
    [queries  |-> {QueryOf(<<"meta-connection", "slug">>, Meta.current, None, {}),
                   CreativeAccounts, CreativeList(None)},
     controls |-> {Control(CreativesOfAccount.sync, None, {CreativeAccounts.key},
                           {CreativeList(None).key})}
                  \cup CreativeCreateDialog \cup CreativeRows]

\* Leaves the page for Meta's.
ConnectCard == {Control(Meta.initConnect, <<"bisu", "connect">>, {Connection.key}, {})}

AccountLists == <<"meta", "slug", "ad-accounts">>

ConnectionCard ==
    {Control(Meta.rotate, <<"bisu", "rotate">>, {Connection.key}, {Connection.key}),
     Control(Meta.disconnect, <<"bisu", "disconnect">>, {Connection.key},
             {Connection.key, AccountLists})}

AccountsCard ==
    {Control(Meta.syncAdAccounts, <<"adaccount", "read">>, {Connection.key}, {AccountLists})}

MetaConnectionClient ==
    [queries  |-> {Connection, Accounts(<<"adaccount", "read">>)},
     controls |-> ConnectCard \cup ConnectionCard \cup AccountsCard]

-----------------------------------------------------------------------------
(* Workspace, organization and user.                                       *)

OneWorkspace == QueryOf(<<"workspace", "slug">>, Workspaces.get, None, {})

WorkspaceHome == [queries |-> {OneWorkspace}, controls |-> {}]

WorkspaceSettings ==
    [queries  |-> {OneWorkspace},
     controls |-> {Control(Workspaces.update, <<"workspace", "update">>, {OneWorkspace.key},
                           {OneWorkspace.key, CurrentOrg.key})}]

\* Around every page under /w/<slug>.
WorkspaceLayout(page) ==
    Together({[queries |-> {OneWorkspace}, controls |-> {}], Below({OneWorkspace.key}, page)})

CreateWorkspaceDialog ==
    {Control(Organizations.createWorkspace, <<"workspace", "create">>, {CurrentOrg.key},
             {CurrentOrg.key})}

OrganizationClient ==
    [queries  |-> {CurrentOrg},
     controls |-> {Control(Organizations.update, <<"org", "update">>, {CurrentOrg.key},
                           {CurrentOrg.key})}
                  \cup CreateWorkspaceDialog]

Members ==
    QueryOf(<<"organizations", "orgId", "members">>, Organizations.listMembers, None,
          {CurrentOrg.key})

InviteMemberDialog ==
    {Control(Organizations.invite, <<"member", "invite">>, {CurrentOrg.key, Members.key},
             {Members.key})}

MembersClient == [queries |-> {CurrentOrg, Members}, controls |-> InviteMemberDialog]

SessionsClient ==
    LET key == <<"auth", "sessions">> IN
    [queries  |-> {QueryOf(key, AuthSessions.listSessions, None, {})},
     controls |-> {Control(AuthSessions.revokeSession, None, {key}, {key}),
                   Control(AuthSessions.logoutAll, None, {key}, {key})}]

ProfileForm ==
    [queries |-> {}, controls |-> {Control(Users.updateMe, None, {}, {CurrentOrg.key})}]

ChangePasswordForm ==
    [queries |-> {}, controls |-> {Control(AuthSessions.changePassword, None, {}, {})}]

MfaSection ==
    [queries  |-> {},
     controls |-> {Control(Users.regenerateBackupCodes, None, {}, {}),
                   Control(Users.disableMfa, None, {}, {<< >>})}]

DashboardClient == [queries |-> {CurrentOrg}, controls |-> {}]

\* In the bar above every page.
WorkspaceSwitcher == [queries |-> {CurrentOrg}, controls |-> {}]

-----------------------------------------------------------------------------

InWorkspace(page) == Together({WorkspaceSwitcher, WorkspaceLayout(page)})
OutsideWorkspaces(page) == Together({WorkspaceSwitcher, page})

\* The pages under /w/<slug>.
WorkspacePage ==
    [home      |-> InWorkspace(WorkspaceHome),
     campaigns |-> InWorkspace(CampaignsClient),
     campaign  |-> InWorkspace(CampaignDetail),
     adset     |-> InWorkspace(AdSetDetail),
     ad        |-> InWorkspace(AdDetail),
     creatives |-> InWorkspace(CreativesClient),
     insights  |-> InWorkspace(InsightsClient),
     settings  |-> InWorkspace(WorkspaceSettings),
     meta      |-> InWorkspace(MetaConnectionClient)]

\* The pages of the organization and of the user.
OwnPage ==
    [dashboard    |-> OutsideWorkspaces(DashboardClient),
     organization |-> OutsideWorkspaces(OrganizationClient),
     members      |-> OutsideWorkspaces(MembersClient),
     sessions     |-> OutsideWorkspaces(SessionsClient),
     security     |-> OutsideWorkspaces(Together({ChangePasswordForm, MfaSection})),
     profile      |-> OutsideWorkspaces(ProfileForm)]

\* useCan: what GET /users/me/permissions answers for the page's workspace, or,
\* on the other pages, for the organization.
Shown(x, org, ws) == x.can = None \/ x.can \in Granted(org, ws)

\* Whatever a page asks for and offers, the API grants.
Works(page, org, ws) ==
    \A x \in page.queries \cup page.controls :
        Shown(x, org, ws) => Allowed(x.route, org, ws)
=============================================================================
