---------------------------- MODULE ProjectAccess ----------------------------
(***************************************************************************)
(* Users, projects and who may use them: auth/user_store.py,               *)
(* projects/store.py and projects/permissions.py, with the handlers of     *)
(* api/routers/auth.py and admin_projects.py and the bootstrap of          *)
(* service.py.                                                             *)
(*                                                                         *)
(* The handlers run on the event loop without an await, so one is at work  *)
(* at a time; but each makes several writes, get_project_context() reads   *)
(* in a thread between any two of them, and a failure of the storage or of *)
(* the process loses the rest.  todo is what the handler has yet to write, *)
(* one kind of write after the other (Rank).  Who calls a handler (the     *)
(* admin, for the projects) is left open.                                  *)
(***************************************************************************)
EXTENDS FiniteSets, Naturals

CONSTANTS Uids,       \* user identifiers (uuid4().hex)
          Names,      \* lower-case user names
          Bootstrap,  \* auth.bootstrap_username
          Projects,   \* project identifiers
          Default,    \* _DEFAULT_PROJECT_ID
          NoUser, NoName,
          MaxFaults   \* bound on failures and crashes

ASSUME ConstantsAssumption ==
    /\ NoUser \notin Uids
    /\ NoName \notin Names
    /\ Bootstrap \in Names
    /\ Default \in Projects
    /\ MaxFaults \in Nat

VARIABLES
    \* the storage
    users,      \* users: the name in the document of a uid
    names,      \* users_by_name: the uid a name leads to
    sessions,   \* auth_tokens: users with a token that has not expired
    config,     \* project_configs
    index,      \* project_index
    members,    \* project_members
    projectsOf, \* user_projects
    \* the process
    up,         \* the service accepts requests
    todo,       \* writes the handler at work has yet to make
    \* observation only
    faults,
    lost,       \* writes to both sides of a membership that a fault has undone
    torn        \* projects for which config and index were not both written

accounts == <<users, names, sessions>>
catalog  == <<config, index>>
access   == <<members, projectsOf>>
history  == <<faults, lost, torn>>
vars     == <<accounts, catalog, access, up, todo, history>>

\* "bad" is a configuration that ProjectConfigRecord does not accept.
Configs == {"none", "on", "off", "bad"}

Writes ==
    [kind : {"user", "name"}, uid : Uids, name : Names]
        \cup [kind : {"config"}, project : Projects, to : Configs]
        \cup [kind : {"index"}, project : Projects, listed : BOOLEAN]
        \cup [kind : {"check", "up"}]
        \cup [kind : {"members"}, project : Projects, uids : SUBSET Uids]
        \cup [kind : {"grant", "revoke"}, project : Projects, uid : Uids]

\* A fault: the name is taken before there is a user behind it.
RankMutant ==
    [user |-> 2, name |-> 1, config |-> 3, index |-> 4, check |-> 5, members |-> 6,
     grant |-> 7, revoke |-> 8, up |-> 9]

\* A fault: users are granted access before they are entered in the list of members.
RankMutantGrants ==
    [user |-> 1, name |-> 2, config |-> 3, index |-> 4, check |-> 5, grant |-> 6,
     members |-> 7, revoke |-> 8, up |-> 9]

\* The order in which every handler makes its writes.
Rank ==
    [user |-> 1, name |-> 2, config |-> 3, index |-> 4, check |-> 5, members |-> 6,
     grant |-> 7, revoke |-> 8, up |-> 9]

TypeOK ==
    /\ users \in [Uids -> Names \cup {NoName}]
    /\ names \in [Names -> Uids \cup {NoUser}]
    /\ sessions \subseteq Uids
    /\ config \in [Projects -> Configs]
    /\ index \subseteq Projects
    /\ members \in [Projects -> SUBSET Uids]
    /\ projectsOf \in [Uids -> SUBSET Projects]
    /\ up \in BOOLEAN
    /\ todo \subseteq Writes
    /\ faults \in 0..MaxFaults
    /\ lost \subseteq [kind : {"grant", "revoke"}, project : Projects, uid : Uids]
    /\ torn \subseteq Projects

Init ==
    /\ users = [u \in Uids |-> NoName]
    /\ names = [n \in Names |-> NoUser]
    /\ sessions = {}
    /\ config = [p \in Projects |-> "none"]
    /\ index = {}
    /\ members = [p \in Projects |-> {}]
    /\ projectsOf = [u \in Uids |-> {}]
    /\ up = FALSE
    /\ todo = {}
    /\ faults = 0
    /\ lost = {}
    /\ torn = {}
-----------------------------------------------------------------------------
(***************************************************************************)
(* What the handlers write.                                                *)
(***************************************************************************)
Grant(u, p)  == [kind |-> "grant", project |-> p, uid |-> u]
Revoke(u, p) == [kind |-> "revoke", project |-> p, uid |-> u]

\* A fault: only the users who were not members before are granted access.
SetMembersMutant(p, next) ==
    {[kind |-> "members", project |-> p, uids |-> next]}
        \cup {Grant(u, p) : u \in next \ members[p]}
        \cup {Revoke(u, p) : u \in members[p] \ next}

\* ProjectPermissionStore.set_members(): the list of the project, then the
\* projects of each member, then those of each former one.
SetMembers(p, next) ==
    {[kind |-> "members", project |-> p, uids |-> next]}
        \cup {Grant(u, p) : u \in next}
        \cup {Revoke(u, p) : u \in members[p] \ next}

EnsureDefaultAccess(u) ==
    IF u \in members[Default] THEN {Grant(u, Default)}
    ELSE SetMembers(Default, members[Default] \cup {u})

\* UserStore.register(), ensure_bootstrap_user(): the user, then the name.
NewUser(u, n) == {[kind |-> k, uid |-> u, name |-> n] : k \in {"user", "name"}}

Listed(p, isListed) == [kind |-> "index", project |-> p, listed |-> isListed]

\* A fault: a project is entered in the index when it is created, only.
SavedMutant(p, to) ==
    {[kind |-> "config", project |-> p, to |-> to]}
        \cup (IF config[p] = "none" THEN {Listed(p, TRUE)} ELSE {})

\* apply_patch(), patch_mcp(): the configuration, then _ensure_index_entry().
Saved(p, to) == {[kind |-> "config", project |-> p, to |-> to], Listed(p, TRUE)}

\* What resolve() takes for the stored configuration: the default project has
\* the fallback of the YAML file.
Effective(p) == IF p = Default /\ config[p] = "none" THEN "on" ELSE config[p]

\* ProjectRegistry.user_can_access(), which get_project_context() asks in a
\* thread, for a user who is not an admin.
CanAccess(u, p) == p \in projectsOf[u] /\ Effective(p) = "on"

\* list_summaries() resolves every project of the index, and raises for whoever
\* asks when one of them does not validate.
ListRaises == \E p \in index : Effective(p) = "bad"

\* list_summaries_for_user(), for a user who is not an admin.
ListsFor(u) ==
    IF ListRaises THEN {}
    ELSE {p \in index : p \in projectsOf[u] /\ Effective(p) = "on"}

\* A handler begins: it has decided what to write.
Begins(writes) ==
    /\ up
    /\ todo = {}
    /\ todo' = writes
    /\ UNCHANGED <<accounts, catalog, access, up, history>>

\* POST /api/auth/register
Register(u, n) ==
    /\ names[n] = NoUser
    /\ users[u] = NoName
    /\ Begins(NewUser(u, n) \cup EnsureDefaultAccess(u))

\* PUT /api/admin/projects/{id}: the body has been validated.
SaveProject(p, to) == to \in {"on", "off"} /\ Begins(Saved(p, to))

\* What a patch makes of the stored configuration, or of nothing.
Patched(p, to) == IF config[p] = "bad" THEN "bad" ELSE to

\* PATCH of name, description and enabled.
PatchMeta(p, to) ==
    /\ to \in {"on", "off"}
    /\ Begins(Saved(p, Patched(p, to)))

\* PATCH .../knowledge: repositories that do not validate are stored first,
\* and the request is rejected afterwards; good ones repair what was stored.
PatchKnowledge(p, to) ==
    /\ to # "none"
    /\ \/ to = "bad" \/ config[p] \in {"bad", to}
       \/ config[p] = "none" /\ to = "on"
    /\ Begins(Saved(p, to))

\* PATCH .../mcp and .../extensions
PatchOther(p) ==
    Begins(Saved(p, IF config[p] = "none" THEN "on" ELSE config[p]))

\* DELETE /api/admin/projects/{id}: the members stay.
DeleteProject(p) ==
    /\ p # Default
    /\ config[p] # "none"
    /\ Begins({[kind |-> "config", project |-> p, to |-> "none"], Listed(p, FALSE)})

\* PUT .../members: every name has to lead to a user.
PutMembers(p, next) ==
    /\ Effective(p) \in {"on", "off"}
    /\ \A u \in next : \E n \in Names : names[n] = u /\ users[u] # NoName
    /\ Begins(SetMembers(p, next))

\* POST /api/auth/login; logout, and a token that has expired, found by
\* resolve_token() in its thread.
Login(n) ==
    /\ up
    /\ todo = {}
    /\ names[n] # NoUser
    /\ users[names[n]] # NoName
    /\ sessions' = sessions \cup {names[n]}
    /\ UNCHANGED <<users, names, catalog, access, up, todo, history>>

TokenEnds(u) ==
    /\ up
    /\ u \in sessions
    /\ sessions' = sessions \ {u}
    /\ UNCHANGED <<users, names, catalog, access, up, todo, history>>
-----------------------------------------------------------------------------
(***************************************************************************)
(* One write takes effect.                                                 *)
(***************************************************************************)
Done(w) ==
    /\ w \in todo
    /\ \A x \in todo : Rank[w.kind] <= Rank[x.kind]
    /\ todo' = todo \ {w}

WriteUser(w) ==
    /\ w.kind = "user"
    /\ users' = [users EXCEPT ![w.uid] = w.name]
    /\ Done(w)
    /\ UNCHANGED <<names, sessions, catalog, access, up, history>>

WriteName(w) ==
    /\ w.kind = "name"
    /\ names' = [names EXCEPT ![w.name] = w.uid]
    /\ Done(w)
    /\ UNCHANGED <<users, sessions, catalog, access, up, history>>

\* The grants that follow repeat what a fault had lost; a revoke that was
\* lost is never tried again, unless the user becomes a member once more.
WriteMembers(w) ==
    /\ w.kind = "members"
    /\ members' = [members EXCEPT ![w.project] = w.uids]
    /\ lost' = {l \in lost : l.project = w.project =>
                                l.kind = "revoke" /\ l.uid \notin w.uids}
    /\ Done(w)
    /\ UNCHANGED <<accounts, catalog, projectsOf, up, faults, torn>>

WriteGrant(w) ==
    /\ w.kind = "grant"
    /\ projectsOf' = [projectsOf EXCEPT ![w.uid] = @ \cup {w.project}]
    /\ lost' = lost \ {w}
    /\ Done(w)
    /\ UNCHANGED <<accounts, catalog, members, up, faults, torn>>

WriteRevoke(w) ==
    /\ w.kind = "revoke"
    /\ projectsOf' = [projectsOf EXCEPT ![w.uid] = @ \ {w.project}]
    /\ Done(w)
    /\ UNCHANGED <<accounts, catalog, members, up, history>>

WriteConfig(w) ==
    /\ w.kind = "config"
    /\ config' = [config EXCEPT ![w.project] = w.to]
    /\ torn' = torn \ {w.project}
    /\ Done(w)
    /\ UNCHANGED <<accounts, index, access, up, faults, lost>>

WriteIndex(w) ==
    /\ w.kind = "index"
    /\ index' = IF w.listed THEN index \cup {w.project} ELSE index \ {w.project}
    /\ torn' = torn \ {w.project}
    /\ Done(w)
    /\ UNCHANGED <<accounts, config, access, up, faults, lost>>

WriteStep(w) ==
    \/ WriteUser(w) \/ WriteName(w) \/ WriteMembers(w) \/ WriteGrant(w)
    \/ WriteRevoke(w) \/ WriteConfig(w) \/ WriteIndex(w)
-----------------------------------------------------------------------------
(***************************************************************************)
(* Start-up and faults.                                                    *)
(***************************************************************************)

\* DeepTicketService.startup(): the bootstrap user, the default project, which
\* must resolve, and the user's access to it.
Start(u) ==
    /\ ~up
    /\ todo = {}
    /\ IF names[Bootstrap] = NoUser THEN users[u] = NoName ELSE u = names[Bootstrap]
    /\ todo' = {Listed(Default, TRUE), [kind |-> "check"], [kind |-> "up"]} \cup
                 CASE names[Bootstrap] = NoUser ->
                        NewUser(u, Bootstrap) \cup EnsureDefaultAccess(u)
                   [] names[Bootstrap] = u /\ users[u] # NoName -> EnsureDefaultAccess(u)
                   [] OTHER -> {}
    /\ UNCHANGED <<accounts, catalog, access, up, history>>

\* The default project resolves.
Checks(w) ==
    /\ w.kind = "check"
    /\ Done(w)
    /\ Effective(Default) # "bad"
    /\ UNCHANGED <<accounts, catalog, access, up, history>>

\* It does not: the service does not start.
CheckFails(w) ==
    /\ w.kind = "check"
    /\ w \in todo
    /\ \A x \in todo : Rank[w.kind] <= Rank[x.kind]
    /\ Effective(Default) = "bad"
    /\ todo' = {}
    /\ UNCHANGED <<accounts, catalog, access, up, history>>

ComesUp(w) ==
    /\ w.kind = "up"
    /\ up' = TRUE
    /\ Done(w)
    /\ UNCHANGED <<accounts, catalog, access, history>>

\* Writes of a kind that are still to be made.
Pending(kinds) == {w \in todo : w.kind \in kinds}

\* The two sides of a membership differ without this write.
Differs(w) ==
    IF w.kind = "grant"
    THEN w.uid \in members[w.project] /\ w.project \notin projectsOf[w.uid]
    ELSE w.uid \notin members[w.project] /\ w.project \in projectsOf[w.uid]

\* The storage raises, and the handler ends with an error; or the process
\* crashes.  While the service starts, both end it.
Fault ==
    /\ faults < MaxFaults
    /\ up \/ todo # {}
    /\ faults' = faults + 1
    /\ lost' = lost \cup {w \in Pending({"grant", "revoke"}) : Differs(w)}
    /\ torn' = IF Pending({"config"}) = {}
               THEN torn \cup {w.project : w \in Pending({"index"})} ELSE torn
    /\ todo' = {}
    /\ \/ up' = FALSE
       \/ todo # {} /\ up' = up
    /\ UNCHANGED <<accounts, catalog, access>>

-----------------------------------------------------------------------------
HandlerStep ==
    \/ \E u \in Uids, n \in Names : Register(u, n)
    \/ \E p \in Projects, to \in Configs :
          SaveProject(p, to) \/ PatchMeta(p, to) \/ PatchKnowledge(p, to)
    \/ \E p \in Projects : PatchOther(p) \/ DeleteProject(p)
    \/ \E p \in Projects, next \in SUBSET Uids : PutMembers(p, next)
    \/ \E n \in Names : Login(n)

Next ==
    \/ HandlerStep
    \/ \E u \in Uids : TokenEnds(u) \/ Start(u)
    \/ \E w \in todo : WriteStep(w) \/ Checks(w) \/ CheckFails(w) \/ ComesUp(w)
    \/ Fault

Spec == Init /\ [][Next]_vars
-----------------------------------------------------------------------------
(***************************************************************************)
(* Properties.                                                             *)
(***************************************************************************)

\* A name leads to the user it was registered for, whatever write a fault has
\* lost; and a user no name leads to (the write of the name was lost) has no
\* session, no project and is a member of none, so that the name can be
\* registered again.
NamesFindUsers ==
    /\ \A n \in Names : names[n] # NoUser => users[names[n]] = n
    /\ \A u \in Uids : (\A n \in Names : names[n] # u) =>
          /\ u \notin sessions
          /\ projectsOf[u] = {}
          /\ \A p \in Projects : u \notin members[p]

Registry == INSTANCE AccessRegistry WITH owner <- names, access <- projectsOf

\* Whatever write of whatever handler a fault drops, the storage goes through the life of an
\* AccessRegistry: names stay with their users, and access moves only towards the lists of
\* members (user_store.py: register(), permissions.py: set_members()).
ImplementsRegistry == Registry!Spec

\* The members of a project are the users who have access to it, in whatever
\* order projects are created, deleted, created again and given members,
\* except for a write that is still to be made or was lost.  A lost grant is
\* made good by the next list of members; a lost revoke is not, and the user
\* keeps the access until he is a member again.
MembersHaveAccess ==
    \A u \in Uids, p \in Projects :
        /\ u \in members[p] /\ p \notin projectsOf[u] =>
              Grant(u, p) \in lost \cup Pending({"grant"})
        /\ p \in projectsOf[u] /\ u \notin members[p] =>
              Revoke(u, p) \in lost \cup Pending({"revoke"})

\* The index lists the projects that exist, except while the second of the two
\* writes is to be made or was lost; the next change of the project makes that
\* good.  And so each user is shown all the projects he can access, as long as
\* every project of the index validates: with a single one that does not, whoever
\* it belongs to, the list fails for everyone (store.py: list_summaries()).
IndexIsComplete ==
    \A p \in Projects \ torn :
        (\A w \in Pending({"config", "index"}) : w.project # p) =>
            /\ IF p = Default THEN up => p \in index
               ELSE config[p] # "none" <=> p \in index
            /\ up /\ ~ListRaises => \A u \in Uids : CanAccess(u, p) => p \in ListsFor(u)
=============================================================================
