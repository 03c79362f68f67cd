----------------------------- MODULE LiveSettings -----------------------------
(***************************************************************************)
(* Settings an admin changes while turns start and tools are called:       *)
(*  - PUT /api/admin/llm (api/routers/admin_llm.py), which sets the LLM of *)
(*    the engine and then registers it with the agent server;              *)
(*  - the cache of the agent settings (openhands_engine.py);               *)
(*  - the requests of api/routers/admin_projects.py that change the MCP    *)
(*    servers of a project: PATCH .../mcp, which stores their table and    *)
(*    then asks each of them for its tools (investigation/registry/        *)
(*    mcp_tools.py), one after the other, and PUT and DELETE of the        *)
(*    project, which ask nobody;                                           *)
(*  - the policy (investigation/policy/strategy.py), which treats a tool   *)
(*    that is not on the list of its server as unknown.                    *)
(*                                                                         *)
(* An action is what one request does between two awaits.  Names that      *)
(* begin with Settings are those other modules have, too.                  *)
(***************************************************************************)
EXTENDS FiniteSets, Naturals

CONSTANTS Llms,       \* LLM connections (model, key, URL)
          FirstLlm,   \* the one deepticket.yaml names at first
          Servers,    \* MCP servers of the project
          Versions,   \* what the command of a server may be
          YamlServers, \* mcp.servers of deepticket.yaml
          IsDefault,  \* whether the project is the default one
          ToolsOf,    \* the tools of each version
          Tools,
          ToolRules,  \* tool_governance.tools: the decision of some tools
          McpRules,   \* tool_governance.mcp: the rule of some servers
          GlobalRule, \* tool_governance.global
          Puts, Patches, Turns, \* requests and turns that may be at work at once
          NoCache, NoVersion,
          MaxChanges  \* bound on PUTs, PATCHes, DELETEs and restarts

Decisions == {"allow", "deny", "require_approval"}
\* What a document says of a server; one that says neither is left out.
Specs == [command : Versions \cup {NoVersion}, enabled : {"yes", "no", "unsaid"}]

Rules == [default : Decisions, unknown_tool_mode : {"allow", "audit", "deny"}]

ASSUME SettingsAssumption ==
    /\ FirstLlm \in Llms
    /\ ToolsOf \in [Versions -> SUBSET Tools]
    /\ DOMAIN ToolRules \subseteq Tools /\ ToolRules \in [DOMAIN ToolRules -> Decisions]
    /\ DOMAIN McpRules \subseteq Servers /\ McpRules \in [DOMAIN McpRules -> Rules]
    /\ GlobalRule \in Rules
    /\ NoVersion \notin Versions
    /\ YamlServers \in [Servers -> Specs]
    /\ IsDefault \in BOOLEAN
    /\ MaxChanges \in Nat

VARIABLES
    \* the LLM
    yaml,      \* deepticket.yaml
    llm,       \* engine.llm_model, llm_api_key, llm_base_url
    shown,     \* AppState.llm, which GET /api/admin/llm shows
    put,       \* what each PUT that waits for the agent server sets
    \* the cache of the settings
    cache,     \* _settings_cache_key and _settings_cache_value
    turn,      \* where each turn is in _load_agent_settings_cached()
    asked,     \* the MCP servers it asks for, and the LLM when it asked
    got,       \* the settings it was handed
    \* the MCP servers
    stored,    \* mcp.servers of the project's document
    recorded,  \* whether there is one
    listed,    \* mcp_tools: the version whose tools are cached
    patch,     \* the servers each PATCH has yet to ask for their tools
    body,      \* the servers of its request
    \* observation only
    changes,
    muddled,   \* a PUT failed, or two were at work at once
    doubtful,  \* servers whose list could not be had, or was asked for twice
    unasked    \* servers whose version was changed by a request that did not ask them

model        == <<yaml, llm, shown, put>>
settings     == <<cache, turn, asked, got>>
registry     == <<stored, recorded, listed, patch, body>>
observed     == <<changes, muddled, doubtful, unasked>>
settingsVars == <<model, settings, registry, observed>>

Setups == [mcp : [Servers -> Versions \cup {NoVersion}], llm : Llms]

SettingsTypeOK ==
    /\ yaml \in Llms
    /\ llm \in Llms
    /\ shown \in Llms
    /\ put \in [Puts -> {{}} \cup {{l} : l \in Llms}]
    /\ cache \in {NoCache} \cup [key : Setups, value : Setups]
    /\ turn \in [Turns -> {"new", "loading", "ready"}]
    /\ asked \in [Turns -> Setups]
    /\ got \in [Turns -> Setups]
    /\ stored \in [Servers -> Specs]
    /\ recorded \in BOOLEAN
    /\ listed \in [Servers -> Versions \cup {NoVersion}]
    /\ patch \in [Patches -> SUBSET Servers]
    /\ body \in [Patches -> [Servers -> Specs]]
    /\ changes \in 0..MaxChanges
    /\ muddled \in BOOLEAN
    /\ doubtful \subseteq Servers
    /\ unasked \subseteq Servers

NoSpecs   == [s \in Servers |-> [command |-> NoVersion, enabled |-> "unsaid"]]
NoServers == [s \in Servers |-> NoVersion]
NoSetup   == [mcp |-> NoServers, llm |-> FirstLlm]

SettingsInit ==
    /\ yaml = FirstLlm
    /\ llm = FirstLlm
    /\ shown = FirstLlm
    /\ put = [u \in Puts |-> {}]
    /\ cache = NoCache
    /\ turn = [t \in Turns |-> "new"]
    /\ asked = [t \in Turns |-> NoSetup]
    /\ got = [t \in Turns |-> NoSetup]
    /\ stored = NoSpecs
    /\ recorded = FALSE
    /\ listed = NoServers
    /\ patch = [p \in Patches |-> {}]
    /\ body = [p \in Patches |-> NoSpecs]
    /\ changes = 0
    /\ muddled = FALSE
    /\ doubtful = {}
    /\ unasked = {}
-----------------------------------------------------------------------------
(***************************************************************************)
(* PUT /api/admin/llm.                                                     *)
(***************************************************************************)

\* A fault: registering the profile leaves the cache as it is.
InvalidateMutant == cache' = cache

\* _invalidate_settings_cache()
Invalidate == cache' = NoCache

\* The file is written and the engine changed, before the first await.
PutLlm(u, l) ==
    /\ put[u] = {}
    /\ changes < MaxChanges
    /\ changes' = changes + 1
    /\ yaml' = l
    /\ llm' = l
    /\ Invalidate
    /\ put' = [put EXCEPT ![u] = {l}]
    /\ muddled' = \E v \in Puts : put[v] # {}
    /\ UNCHANGED <<shown, turn, asked, got, registry, doubtful, unasked>>

\* A fault: AppState.set_llm() is forgotten.
PutSucceedsMutant(u) ==
    /\ put[u] # {}
    /\ put' = [put EXCEPT ![u] = {}]
    /\ UNCHANGED <<yaml, llm, shown, settings, registry, observed>>

\* The agent server has the profile.
PutSucceeds(u) ==
    /\ put[u] # {}
    /\ shown' \in put[u]
    /\ put' = [put EXCEPT ![u] = {}]
    /\ UNCHANGED <<yaml, llm, settings, registry, observed>>

\* 502: what has been changed stays changed.
PutFails(u) ==
    /\ put[u] # {}
    /\ put' = [put EXCEPT ![u] = {}]
    /\ muddled' = TRUE
    /\ UNCHANGED <<yaml, llm, shown, settings, registry, changes, doubtful, unasked>>
-----------------------------------------------------------------------------
(***************************************************************************)
(* A turn loads the settings: _load_agent_settings_cached().               *)
(***************************************************************************)

\* deep_merge(): field by field, what is said on top hides what is said below.
Merged(below, top) ==
    [s \in Servers |->
        [command |-> IF top[s].command # NoVersion THEN top[s].command ELSE below[s].command,
         enabled |-> IF top[s].enabled # "unsaid" THEN top[s].enabled ELSE below[s].enabled]]

\* ProjectConfigStore.resolve(): the document over the YAML file.
Resolved(doc) == Merged(YamlServers, doc)
Version(doc, s) == Resolved(doc)[s].command

\* filter_enabled_servers() of the resolved record: what ProjectContext.runtime()
\* gives a turn.
EnabledServers ==
    [s \in Servers |->
        IF Resolved(stored)[s].enabled = "no" THEN NoVersion ELSE Version(stored, s)]

\* runtime() raises when a server that is enabled has no command, and there is no
\* runtime of a project that is not stored, the default one excepted.
HasRuntime ==
    /\ recorded \/ IsDefault
    /\ \A s \in Servers : Resolved(stored)[s].enabled = "yes" => Version(stored, s) # NoVersion

\* The key is made of what is asked for and of the LLM of this moment.
Ask(t) ==
    /\ turn[t] = "new"
    /\ HasRuntime
    /\ LET key == [mcp |-> EnabledServers, llm |-> llm] IN
        /\ asked' = [asked EXCEPT ![t] = key]
        /\ IF cache # NoCache /\ cache.key = key
           THEN /\ turn' = [turn EXCEPT ![t] = "ready"]
                /\ got' = [got EXCEPT ![t] = cache.value]
           ELSE turn' = [turn EXCEPT ![t] = "loading"] /\ got' = got
    /\ UNCHANGED <<model, cache, registry, observed>>

\* The agent server answers: the LLM is that of now, and so may be another
\* than the one in the key.
Load(t) ==
    /\ turn[t] = "loading"
    /\ LET value == [mcp |-> asked[t].mcp, llm |-> llm] IN
        /\ got' = [got EXCEPT ![t] = value]
        /\ cache' = [key |-> asked[t], value |-> value]
    /\ turn' = [turn EXCEPT ![t] = "ready"]
    /\ UNCHANGED <<model, asked, registry, observed>>

\* The request fails, or the turn goes on with what it got and ends.
TurnEnds(t) ==
    /\ turn[t] # "new"
    /\ turn' = [turn EXCEPT ![t] = "new"]
    /\ asked' = [asked EXCEPT ![t] = NoSetup]
    /\ got' = [got EXCEPT ![t] = NoSetup]
    /\ UNCHANGED <<model, cache, registry, observed>>
-----------------------------------------------------------------------------
(***************************************************************************)
(* The MCP servers of the project.                                         *)
(***************************************************************************)

\* Servers that some PATCH has yet to ask.
Asking == UNION {patch[p] : p \in Patches}

\* filter_enabled_servers() of a request.
EnabledIn(to) == {s \in Servers : to[s] # NoSpecs[s] /\ to[s].enabled # "no"}

\* A fault: servers whose tools are cached are not asked again.
ToAskMutant(to) == {s \in EnabledIn(to) : listed[s] = NoVersion}

\* refresh_project_servers() asks the servers of the request that are enabled; the
\* lists of the others stay.
ToAsk(to) == EnabledIn(to)

\* The document becomes doc; on are the servers the request is to ask.
Store(doc, on) ==
    /\ changes < MaxChanges
    /\ changes' = changes + 1
    /\ stored' = doc
    /\ unasked' = (unasked \ on) \cup
                     {s \in Servers \ on : Version(doc, s) # Version(stored, s)}
    /\ doubtful' = (doubtful \ on) \cup (on \cap Asking)
    /\ UNCHANGED <<model, settings, listed, muddled>>

\* PATCH .../mcp: the table is replaced, and the YAML file fills up what it leaves
\* out.  The servers of the request are asked, not those of the record.
PatchMcp(p, to) ==
    /\ patch[p] = {}
    /\ Store(to, EnabledIn(to))
    /\ recorded' = TRUE
    /\ patch' = [patch EXCEPT ![p] = ToAsk(to)]
    /\ body' = [body EXCEPT ![p] = IF ToAsk(to) = {} THEN NoSpecs ELSE to]

\* The rest of the record does not validate: the table has been stored, the answer
\* is 400, and nobody is asked.
PatchRejected(to) ==
    /\ Store(to, {})
    /\ recorded' = TRUE
    /\ UNCHANGED <<patch, body>>

\* PUT /api/admin/projects/{id}: save() merges the body into the document.
PutProject(to) ==
    /\ Store(Merged(stored, to), {})
    /\ recorded' = TRUE
    /\ UNCHANGED <<patch, body>>

\* DELETE /api/admin/projects/{id}: the lists of its servers stay.
RemoveProject ==
    /\ recorded /\ ~IsDefault
    /\ Store(NoSpecs, {})
    /\ recorded' = FALSE
    /\ UNCHANGED <<patch, body>>

\* One server has been asked.
Asked(p, s) ==
    /\ s \in patch[p]
    /\ patch' = [patch EXCEPT ![p] = @ \ {s}]
    /\ body' = IF patch[p] = {s} THEN [body EXCEPT ![p] = NoSpecs] ELSE body
    /\ UNCHANGED <<model, settings, stored, recorded>>

\* tools/list has come back.
Lists(p, s) ==
    /\ Asked(p, s)
    /\ body[p][s].command # NoVersion
    /\ listed' = [listed EXCEPT ![s] = body[p][s].command]
    /\ UNCHANGED observed

\* It failed, or the request has no command for the server, or one that is not
\* asked: nothing is stored.  (An exception the handler does not expect ends it:
\* the rest fails, too.)
ListFails(p, s) ==
    /\ Asked(p, s)
    /\ doubtful' = doubtful \cup {s}
    /\ UNCHANGED <<listed, changes, muddled, unasked>>

\* The process restarts: the engine reads the file, nobody asks again.
Restart ==
    /\ changes < MaxChanges
    /\ changes' = changes + 1
    /\ llm' = yaml
    /\ shown' = yaml
    /\ put' = [u \in Puts |-> {}]
    /\ cache' = NoCache
    /\ turn' = [t \in Turns |-> "new"]
    /\ asked' = [t \in Turns |-> NoSetup]
    /\ got' = [t \in Turns |-> NoSetup]
    /\ patch' = [p \in Patches |-> {}]
    /\ body' = [p \in Patches |-> NoSpecs]
    /\ muddled' = FALSE
    /\ doubtful' = doubtful \cup Asking
    /\ UNCHANGED <<yaml, stored, recorded, listed, unasked>>
-----------------------------------------------------------------------------
(***************************************************************************)
(* The policy.                                                             *)
(***************************************************************************)

\* McpToolRegistry.get_tools()
Cached(s) == IF listed[s] = NoVersion THEN {} ELSE ToolsOf[listed[s]]

\* ToolGovernanceGate._is_known_tool(): without a list every tool is known.
IsKnown(s, t) == Cached(s) # {} => t \in Cached(s)

\* What a rule decides: an unknown tool is denied, or let through and recorded
\* ("audit"), or treated as any other.
ByRule(rule, known) ==
    IF known \/ rule.unknown_tool_mode = "allow" THEN rule.default
    ELSE IF rule.unknown_tool_mode = "deny" THEN "deny" ELSE "allow"

\* YamlToolGovernanceStrategy.evaluate(): the rule of the tool, of its server,
\* of all.
Decide(s, t, known) ==
    IF t \in DOMAIN ToolRules THEN ToolRules[t]
    ELSE IF s \in DOMAIN McpRules THEN ByRule(McpRules[s], known)
    ELSE ByRule(GlobalRule, known)

Evaluate(s, t) == Decide(s, t, IsKnown(s, t))
-----------------------------------------------------------------------------
SettingsNext ==
    \/ \E u \in Puts : PutSucceeds(u) \/ PutFails(u) \/ \E l \in Llms : PutLlm(u, l)
    \/ \E t \in Turns : Ask(t) \/ Load(t) \/ TurnEnds(t)
    \/ \E to \in [Servers -> Specs] :
          PatchRejected(to) \/ PutProject(to) \/ \E p \in Patches : PatchMcp(p, to)
    \/ RemoveProject
    \/ \E p \in Patches, s \in Servers : Lists(p, s) \/ ListFails(p, s)
    \/ Restart

SettingsSpec == SettingsInit /\ [][SettingsNext]_settingsVars
-----------------------------------------------------------------------------
(***************************************************************************)
(* Properties.                                                             *)
(***************************************************************************)

\* A turn is handed the MCP servers it asked for and the LLM the engine has at
\* that moment, from the cache as well as from the agent server: although the
\* key may name another LLM than the value, no such entry is ever hit.
TurnsGetCurrent ==
    [][\A t \in Turns : turn[t] # "ready" /\ turn'[t] = "ready" =>
          got'[t] = [mcp |-> asked'[t].mcp, llm |-> llm]]_settingsVars

\* The connection shown to the admin is the one in use and the one a restart
\* would read, when no PUT is at work, unless the last one failed or two have
\* overlapped.
ShownIsUsed ==
    /\ llm = yaml
    /\ (\A u \in Puts : put[u] = {}) /\ ~muddled => shown = llm

\* A tool that an enabled server has is decided by its own rule, or the default
\* of its server or of all, never as an unknown tool, whatever requests have
\* changed the servers before, except while the server is being asked, or if its
\* list could not be had or was asked for twice at a time (doubtful), or its
\* version was changed since by a request that asks nobody (unasked): PUT or
\* DELETE of the project, a PATCH answered 400, or one that leaves the server to
\* the YAML file.  The list may then be that of another version, and the default
\* mode for unknown tools lets through what the server's default would have
\* denied.
KnownToolsDecided ==
    \A s \in Servers \ (doubtful \cup unasked \cup Asking) :
        EnabledServers[s] # NoVersion =>
            \A t \in ToolsOf[EnabledServers[s]] : Evaluate(s, t) = Decide(s, t, TRUE)
=============================================================================
