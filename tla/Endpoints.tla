------------------------------ MODULE Endpoints ------------------------------
(***************************************************************************)
(* claude_ai/methods: one class per endpoint of the web API.  A class is   *)
(* data: the verb, which decides whether RetryMiddleware may repeat the    *)
(* request; the identifiers the request must carry (path placeholders,     *)
(* and organization or conversation identifiers sent in the query or the   *)
(* body), which decide whether the client needs an organization and which  *)
(* server resource the request touches; the way the session sends it; and  *)
(* what _parse makes of the reply.                                         *)
(***************************************************************************)

\* BaseMethod: an ordinary request, unless __is_stream__ or __is_multipart__.
Endpoint(verb, ids, reply) ==
    [verb |-> verb, ids |-> ids, reply |-> reply, mode |-> "request"]

\* methods/account
AcceptLegalDocs == Endpoint("PUT", {}, "none")
GetAccess == Endpoint("GET", {"org"}, "model")
GetInvites == Endpoint("GET", {"account"}, "raw")
GetProfile == Endpoint("GET", {}, "model")
GetRavenEligible == Endpoint("GET", {}, "model")
PatchAccountSettings == Endpoint("PATCH", {}, "none")
SetEmailConsent == Endpoint("PUT", {}, "none")
UpdateProfile == Endpoint("PUT", {}, "model")
UpdateAccountSettings == Endpoint("PUT", {}, "raw")

\* methods/artifact
DownloadFile == Endpoint("GET", {"org", "conv"}, "bytes")
GetVersions == Endpoint("GET", {"org", "conv"}, "raw")
UploadFile == [Endpoint("POST", {"org", "conv"}, "model") EXCEPT !.mode = "multipart"]

\* methods/auth
ExchangeNonceForCode == Endpoint("POST", {}, "model")
GetLoginMethods == Endpoint("GET", {}, "model")
SendMagicLink == Endpoint("POST", {}, "model")
VerifyGoogle == Endpoint("POST", {}, "none")
VerifyMagicLink == Endpoint("POST", {}, "model")

\* methods/billing
CreateStripeIntent == Endpoint("POST", {"org"}, "model")
GetConsumerPricing == Endpoint("POST", {"org"}, "model")
GetGiftEligibility == Endpoint("GET", {"org"}, "model")
GetPlanPricing == Endpoint("POST", {"org"}, "model")
GetStripeRegion == Endpoint("GET", {"org"}, "model")

\* methods/bootstrap
GetAppStart == Endpoint("GET", {"org"}, "raw")
GetCurrentUserAccess == Endpoint("GET", {"org"}, "model")
GetEdgeBootstrap == Endpoint("GET", {}, "raw")
GetMcpBootstrap == Endpoint("GET", {"org"}, "raw")

\* methods/claude_code
GetClaudeCodeSettings == Endpoint("GET", {"org"}, "raw")
UpdateClaudeCodeSettings == Endpoint("PUT", {"org"}, "model")

\* methods/conversation
CreateConversation == Endpoint("POST", {"org"}, "model")
DeleteConversation == Endpoint("DELETE", {"org", "conv"}, "none")
DeleteMany == Endpoint("POST", {"org", "conv"}, "none")
GenerateTitle == Endpoint("POST", {"org", "conv"}, "raw")
GetConversation == Endpoint("GET", {"org", "conv"}, "model")
ListConversations == Endpoint("GET", {"org"}, "model")
SendMessage == [Endpoint("POST", {"org", "conv"}, "raw") EXCEPT !.mode = "stream"]
UpdateConversation == Endpoint("PUT", {"org", "conv"}, "none")

\* methods/misc
CheckTeamSignupEligibility == Endpoint("GET", {"check"}, "model")
CheckTeamTrialEligibility == Endpoint("GET", {"check"}, "model")
GetReferral == Endpoint("GET", {}, "raw")

\* methods/organization
GetCoworkSettings == Endpoint("GET", {"org"}, "model")
GetCredits == Endpoint("GET", {"org"}, "model")
GetExperiences == Endpoint("GET", {"org"}, "model")
GetMemory == Endpoint("GET", {"org"}, "model")
GetMemorySettings == Endpoint("GET", {"org"}, "model")
GetModelConfig == Endpoint("GET", {"org", "model"}, "model")
GetNotificationPreferences == Endpoint("GET", {"org"}, "model")
GetOrganization == Endpoint("GET", {"org"}, "model")
GetOverageSpendLimit == Endpoint("GET", {"org"}, "raw")
GetPausedSubscription == Endpoint("GET", {"org"}, "model")
GetPaymentMethod == Endpoint("GET", {"org"}, "model")
GetPendingDomainClaim == Endpoint("GET", {"org"}, "raw")
GetStyles == Endpoint("GET", {"org"}, "raw")
GetSubscription == Endpoint("GET", {"org"}, "model")
ListDiscoverable == Endpoint("GET", {}, "model")
ListMarketplaces == Endpoint("GET", {"org"}, "model")
ListSkills == Endpoint("GET", {"org"}, "model")

\* methods/project
AddDoc == Endpoint("POST", {"org", "project"}, "model")
GetProjectConversations == Endpoint("GET", {"org", "project"}, "model")
GetKBStats == Endpoint("GET", {"org", "project"}, "model")
GetMembers == Endpoint("GET", {"org", "project"}, "raw")
GetPermissions == Endpoint("GET", {"org", "project"}, "model")
GetProject == Endpoint("GET", {"org", "project"}, "model")
ListDocs == Endpoint("GET", {"org", "project"}, "raw")
ListFiles == Endpoint("GET", {"org", "project"}, "raw")
ListProjects == Endpoint("GET", {"org"}, "model")
SyncProject == Endpoint("POST", {"org", "project"}, "none")
UpdateProject == Endpoint("PUT", {"org", "project"}, "none")

\* methods/sync
GetSyncAuthStatus == Endpoint("GET", {"org", "provider"}, "model")
GetSyncSettings == Endpoint("GET", {"org"}, "model")

\* What discover() finds: every method class that the group packages export.
Methods == {
    AcceptLegalDocs, GetAccess, GetInvites, GetProfile, GetRavenEligible,
    PatchAccountSettings, SetEmailConsent, UpdateProfile,
    UpdateAccountSettings, DownloadFile, GetVersions, UploadFile,
    ExchangeNonceForCode, GetLoginMethods, SendMagicLink, VerifyGoogle,
    VerifyMagicLink, CreateStripeIntent, GetConsumerPricing,
    GetGiftEligibility, GetPlanPricing, GetStripeRegion, GetAppStart,
    GetCurrentUserAccess, GetEdgeBootstrap, GetMcpBootstrap,
    GetClaudeCodeSettings, UpdateClaudeCodeSettings, CreateConversation,
    DeleteConversation, DeleteMany, GenerateTitle, GetConversation,
    ListConversations, SendMessage, UpdateConversation,
    CheckTeamSignupEligibility, CheckTeamTrialEligibility, GetReferral,
    GetCoworkSettings, GetCredits, GetExperiences, GetMemory,
    GetMemorySettings, GetModelConfig, GetNotificationPreferences,
    GetOrganization, GetOverageSpendLimit, GetPausedSubscription,
    GetPaymentMethod, GetPendingDomainClaim, GetStyles, GetSubscription,
    ListDiscoverable, ListMarketplaces, ListSkills, AddDoc,
    GetProjectConversations, GetKBStats, GetMembers, GetPermissions,
    GetProject, ListDocs, ListFiles, ListProjects, SyncProject,
    UpdateProject, GetSyncAuthStatus, GetSyncSettings}

=============================================================================
