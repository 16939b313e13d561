-------------------------------- MODULE Client --------------------------------
(***************************************************************************)
(* ClaudeAIClient (claude_ai/client.py): the calls of the web API, sent    *)
(* through one HttpSession, and the cache some of them go through.  What   *)
(* the server keeps is one version number per resource; the value of a     *)
(* resource is its version.                                                *)
(***************************************************************************)
EXTENDS HttpSession, Endpoints

CONSTANTS Ops,   \* the client calls that are made, a subset of ClientOps
          TTL,   \* default_ttl of the cache
          None   \* no key, no entry

VARIABLES
    org,     \* whether client.org_uuid is set
    cache,   \* the cache, per key
    server,  \* the version of every resource (external)
    val,     \* per call: the version in the reply
    effect,  \* per call: how often the server applied it (external)
    acked,   \* per key: the newest version a dropping update has made (history)
    raced    \* the calls whose key an update dropped meanwhile (history)

clientVars == <<org, cache, server, val, effect, acked, raced>>
vars == <<sessionVars, clientVars>>

Keys == {"conv", "project", "list"}

---------------------------------------------------------------------------
(* The calls.  A call is what its endpoint says, the cache key it asks     *)
(* first, the one it fills with the reply and the one it drops afterwards. *)

Resource(e) == IF "conv" \in e.ids THEN "conv"
               ELSE IF "project" \in e.ids THEN "project" ELSE None

Plain(e) == [verb |-> e.verb, mode |-> e.mode, reply |-> e.reply,
             org |-> "org" \in e.ids, res |-> Resource(e),
             asks |-> None, fills |-> None, drops |-> None, login |-> FALSE]

Asking(e, key) == [Plain(e) EXCEPT !.asks = key, !.fills = key, !.res = key]
Dropping(e, key) == [Plain(e) EXCEPT !.drops = key, !.res = key]

list_conversations   == Asking(ListConversations, "list")
get_conversation     == Asking(GetConversation, "conv")
create_conversation  == [Plain(CreateConversation) EXCEPT !.fills = "conv", !.res = "conv"]
update_conversation  == Dropping(UpdateConversation, "conv")
delete_conversation  == Dropping(DeleteConversation, "conv")
delete_conversations == Dropping(DeleteMany, "conv")
generate_title       == Plain(GenerateTitle)
send_message         == Plain(SendMessage)
list_projects        == Plain(ListProjects)
get_project          == Asking(GetProject, "project")
update_project       == Dropping(UpdateProject, "project")

\* MagicLinkLogin.complete: verify_magic_link, then the organization is set
\* if the account names one.
login_complete == [Plain(VerifyMagicLink) EXCEPT !.login = TRUE]

\* open() on its own: the client's context manager, ClaudeOrchestrator.add,
\* MagicLinkLogin.open.  It sends nothing.
open_client == [verb |-> "none", mode |-> "open", reply |-> "opened", org |-> FALSE,
                res |-> None, asks |-> None, fills |-> None, drops |-> None,
                login |-> FALSE]

AuthCalls == {Plain(e) : e \in {GetLoginMethods, SendMagicLink, VerifyMagicLink,
                                ExchangeNonceForCode, VerifyGoogle}}
AccountCalls == {Plain(e) : e \in {GetProfile, GetAccess, GetRavenEligible,
    UpdateAccountSettings, SetEmailConsent, PatchAccountSettings, AcceptLegalDocs,
    UpdateProfile, GetInvites}}
OrganizationCalls == {Plain(e) : e \in {GetOrganization, GetSubscription,
    GetModelConfig, GetCredits, GetStyles, GetMemory, GetPaymentMethod,
    GetPausedSubscription, ListDiscoverable, GetCoworkSettings, GetExperiences,
    ListMarketplaces, GetMemorySettings, GetNotificationPreferences, ListSkills,
    GetOverageSpendLimit, GetPendingDomainClaim}}
BillingCalls == {Plain(e) : e \in {GetStripeRegion, GetGiftEligibility,
    GetConsumerPricing, GetPlanPricing, CreateStripeIntent}}
ClaudeCodeCalls == {Plain(e) : e \in {GetClaudeCodeSettings, UpdateClaudeCodeSettings}}
BootstrapCalls == {Plain(e) : e \in {GetCurrentUserAccess, GetMcpBootstrap,
    GetEdgeBootstrap, GetAppStart}}
MiscCalls == {Plain(e) : e \in {GetReferral, CheckTeamSignupEligibility,
    CheckTeamTrialEligibility}}
ConversationCalls == {list_conversations, get_conversation, create_conversation,
    update_conversation, delete_conversation, delete_conversations, generate_title,
    send_message}
ProjectCalls == {list_projects, get_project, update_project} \cup
    {Plain(e) : e \in {GetMembers, GetPermissions, ListDocs, AddDoc, ListFiles,
                       GetProjectConversations, GetKBStats, SyncProject}}
ArtifactCalls == {Plain(e) : e \in {GetVersions, UploadFile, DownloadFile}}
SyncCalls == {Plain(e) : e \in {GetSyncSettings, GetSyncAuthStatus}}

ClientOps == AuthCalls \cup AccountCalls \cup OrganizationCalls \cup BillingCalls
    \cup ClaudeCodeCalls \cup BootstrapCalls \cup MiscCalls \cup ConversationCalls
    \cup ProjectCalls \cup ArtifactCalls \cup SyncCalls \cup {login_complete, open_client}

\* The calls of the run are calls of the client.  HttpSession.stream() sends
\* every stream as a POST, which is the verb of the endpoints it is used for.
\* The key a call fills or drops is the resource its endpoint is about.
ASSUME ClientAssumption ==
    /\ Ops \subseteq ClientOps /\ TTL \in Nat /\ None \notin Keys
    /\ \A op \in ClientOps : {op.fills, op.drops} \subseteq {None, op.res} /\ op.res \in Keys \cup {None}
    /\ \A op \in ClientOps : op.mode \notin {"request", "open"} => op.verb = "POST"

---------------------------------------------------------------------------
Init ==
    /\ SessionInit
    /\ org \in BOOLEAN
    /\ cache = [k \in Keys |-> None]
    /\ server = [k \in Keys |-> 0]
    /\ val = [c \in Calls |-> 0]
    /\ effect = [c \in Calls |-> 0]
    /\ acked = [k \in Keys |-> 0]
    /\ raced = {}

\* _require_org raises while the arguments are built, before the session.
Issue(c, op) ==
    IF op.org /\ ~org
    THEN /\ call' = [call EXCEPT ![c].op = op, ![c].pc = "done", ![c].out = "ValueError"]
         /\ last' = last
    ELSE Enter(c, op)

UnderWay(c) == call[c].pc \notin {"idle", "done"}

\* A call that begins beside open() on its own, or the other way round, is
\* recorded.
Begin(c, op) ==
    /\ call[c].pc = "idle"
    /\ IF op.asks = None THEN Issue(c, op)
       ELSE call' = [call EXCEPT ![c].op = op, ![c].pc = "lookup"] /\ last' = last
    /\ strayed' = IF \E d \in Calls : UnderWay(d) /\ "open" \in {op.mode, call[d].op.mode}
                  THEN strayed \cup {"open"} ELSE strayed
    /\ UNCHANGED <<opened, jar, store, writes, version, now, storage, clientVars>>

\* MagicLinkLogin.complete: the link has neither nonce nor code, or no email.
BadLink(c, op) ==
    /\ call[c].pc = "idle" /\ op.login
    /\ call' = [call EXCEPT ![c].op = op, ![c].pc = "done", ![c].out = "LoginError"]
    /\ UNCHANGED <<opened, jar, store, writes, version, last, now, storage, strayed, clientVars>>

Set(k, v) == cache' = [cache EXCEPT ![k] = v]

\* cache.get: memory drops an expired entry at once, SQLite and MongoDB with
\* a statement of their own, by which time the row may be a fresh one.  In the
\* tick in which an entry expires both may happen.
Lookup(c) ==
    LET k == call[c].op.asks
    IN /\ call[c].pc = "lookup"
       /\ \/ /\ cache[k] = None
             /\ Issue(c, call[c].op) /\ UNCHANGED cache
          \/ /\ cache[k] # None /\ now <= cache[k].expires
             /\ call' = [call EXCEPT ![c].pc = "done", ![c].out = "hit"]
             /\ UNCHANGED <<cache, last>>
          \/ /\ cache[k] # None /\ cache[k].expires <= now
             /\ IF storage = "lock" THEN Set(k, None) /\ Issue(c, call[c].op)
                ELSE /\ call' = [call EXCEPT ![c].pc = "purge"]
                     /\ UNCHANGED <<cache, last>>
       /\ UNCHANGED <<opened, jar, store, writes, version, now, storage, strayed,
                      org, server, val, effect, acked, raced>>

Purge(c) ==
    /\ call[c].pc = "purge"
    /\ Set(call[c].op.asks, None)
    /\ Issue(c, call[c].op)
    /\ UNCHANGED <<opened, jar, store, writes, version, now, storage, strayed,
                   org, server, val, effect, acked, raced>>

---------------------------------------------------------------------------
(* The server (external) applies a request, or not, and its answer gets    *)
(* back, or not: a 5xx and a lost answer may both follow an applied one.   *)

Serve(c, applied) ==
    LET op == call[c].op
        s  == IF op.res # None /\ op.verb # "GET" /\ applied
              THEN [server EXCEPT ![op.res] = @ + 1] ELSE server
    IN /\ server' = s
       /\ effect' = [effect EXCEPT ![c] = IF applied /\ op.verb # "GET" THEN @ + 1 ELSE @]
       /\ val' = IF op.res = None THEN val ELSE [val EXCEPT ![c] = s[op.res]]

Answered(c) ==
    /\ \E status \in Statuses, applied \in BOOLEAN,
          names \in SetCookies :
          /\ status = "ok" => applied
          /\ status = "denied" => ~applied
          /\ Answer(c, status, names)
          /\ Serve(c, applied)
    /\ UNCHANGED <<org, cache, acked, raced>>

Lost(c) ==
    /\ \E applied \in BOOLEAN : Lose(c) /\ Serve(c, applied)
    /\ UNCHANGED <<org, cache, acked, raced>>

---------------------------------------------------------------------------
\* What is left of the client's method: raise, touch the cache, or return.
Finish(c) ==
    LET op == call[c].op
    IN /\ call[c].pc = "parse"
       /\ \E out \in Parsed(c) :
            /\ call' = [call EXCEPT
                 ![c].out = out, ![c].status = "none",
                 ![c].pc = IF out = "error" THEN "done"
                           ELSE IF op.fills # None THEN "fill"
                           ELSE IF op.drops # None THEN "drop" ELSE "done"]
            /\ \E member \in BOOLEAN :  \* does the account name an organization?
                 org' = (org \/ (op.login /\ out # "error" /\ member))
       /\ UNCHANGED <<opened, jar, store, writes, version, last, now, storage, strayed,
                      cache, server, val, effect, acked, raced>>

\* _cache_set; who made the entry is history.
Fill(c) ==
    LET k == call[c].op.fills
    IN /\ call[c].pc = "fill"
       /\ Set(k, [val |-> val[c], expires |-> now + TTL, by |-> c])
       /\ call' = [call EXCEPT ![c].pc = "done"]
       /\ UNCHANGED <<opened, jar, store, writes, version, last, now, storage, strayed,
                      org, server, val, effect, acked, raced>>

Readers(k) == {c \in Calls : UnderWay(c) /\ call[c].op.fills = k}

\* Mutant of Drop: the update leaves the cached value alone.
DropKeeps(c) ==
    LET k == call[c].op.drops
    IN /\ call[c].pc = "drop"
       /\ acked' = [acked EXCEPT ![k] = Later(@, val[c])]
       /\ raced' = raced \cup Readers(k)
       /\ call' = [call EXCEPT ![c].pc = "done"]
       /\ UNCHANGED <<opened, jar, store, writes, version, last, now, storage, strayed,
                      org, cache, server, val, effect>>

\* update_conversation, update_project and the deletions: cache.delete.  The
\* reads of the entry that are under way are recorded.
Drop(c) ==
    LET k == call[c].op.drops
    IN /\ call[c].pc = "drop"
       /\ Set(k, None)
       /\ acked' = [acked EXCEPT ![k] = Later(@, val[c])]
       /\ raced' = raced \cup Readers(k)
       /\ call' = [call EXCEPT ![c].pc = "done"]
       /\ UNCHANGED <<opened, jar, store, writes, version, last, now, storage, strayed,
                      org, server, val, effect>>

---------------------------------------------------------------------------
Local(c) == (OpenLoad(c) \/ OpenAssign(c) \/ OpenUpdate(c) \/ Send(c) \/ SendAgain(c))
            /\ UNCHANGED clientVars

Step(c) == Local(c) \/ Lookup(c) \/ Purge(c) \/ Answered(c) \/ Lost(c)
           \/ Finish(c) \/ Fill(c) \/ Drop(c)

Next == \/ \E c \in Calls : Step(c) \/ \E op \in Ops : Begin(c, op) \/ BadLink(c, op)
        \/ (Land \/ Tick \/ Close) /\ UNCHANGED clientVars

Spec == Init /\ [][Next]_vars

---------------------------------------------------------------------------
Jars == UNION {[N -> 0..MaxVersion] : N \in SUBSET CookieNames}

\* Type correctness of the session and the client.
TypeOK ==
    /\ opened \in BOOLEAN /\ org \in BOOLEAN
    /\ jar \in Jars /\ store \in Jars
    /\ version \in 0..MaxVersion
    /\ \A c \in Calls : call[c].attempt <= MaxRetries + 1

Idle == \A c \in Calls : call[c].pc \in {"idle", "done"}

Saved(c) == call[c].out \notin {"none", "hit", "lost", "ValueError", "LoginError"}

\* Its answer, if any, did not reach _persist_cookies.
Unsaved(c) == \/ call[c].out = "lost"
              \/ call[c].pc # "idle" /\ call[c].op.mode = "stream"

\* http.py:127, 177: when no call is under way and none was cut off, the
\* storage holds the jar in memory, whatever requests overlapped, whoever of
\* them opened the session and whether it was closed meanwhile.  Two orders
\* break it and are left out: open() on its own beside another call, which
\* replaces the jar and saves nothing afterwards, and writes that MongoDB
\* carries out in another order than they were made.
CookiesAgree ==
    Idle /\ (\E c \in Calls : Saved(c)) /\ ~(\E c \in Calls : Unsaved(c)) /\ strayed = {}
      => store = jar

Slotted(c) == call[c].slot > 0

\* rate_limit.py:27: the slots of two calls are min_interval apart, also when
\* the second call comes while the first one still waits for its slot.
SlotsSpaced ==
    \A c, d \in Calls : c # d /\ Slotted(c) /\ Slotted(d) =>
        \/ call[c].slot + MinInterval <= call[d].slot
        \/ call[d].slot + MinInterval <= call[c].slot

\* retry.py:36: a POST or PATCH takes effect at most once, whatever statuses,
\* lost answers and retries it meets; a stream is never sent twice either.
EffectOnce == \A c \in Calls : call[c].pc # "idle" =>
    (call[c].op.verb \in {"POST", "PATCH"} => effect[c] <= 1)

\* client.py:742: an entry older than an update that drops it, and that has
\* returned, is there only because the read that made it was under way when
\* the update dropped the entry; no entry and no later read is ever that old.
\* send_message and generate_title change a conversation and drop nothing:
\* their changes are not spoken of.
NoStaleSurvivor ==
    \A k \in Keys : cache[k] # None /\ cache[k].val < acked[k] => cache[k].by \in raced

=============================================================================
