--------------------------- MODULE AccessRegistry ---------------------------
(***************************************************************************)
(* What DeepTicket promises about its users and their projects, seen from  *)
(* outside: a name belongs to its first user for ever; only users with a   *)
(* name log in, become members and get access; and the access of a user,   *)
(* which decides, moves only towards the list of members, one user and one *)
(* project at a time.  ProjectAccess is shown to implement this one,       *)
(* whatever request is interrupted by a failure or a crash, and wherever.  *)
(***************************************************************************)

CONSTANTS Uids,      \* user identifiers
          Names,     \* user names
          Projects,  \* project identifiers
          NoUser

VARIABLES owner,     \* owner[n]: the user a name belongs to
          sessions,  \* users who are logged in
          members,   \* members[p]: the list that the administrator has set
          access     \* access[u]: the projects that a user may use

vars == <<owner, sessions, members, access>>

TypeOK ==
    /\ owner \in [Names -> Uids \cup {NoUser}]
    /\ sessions \subseteq Uids
    /\ members \in [Projects -> SUBSET Uids]
    /\ access \in [Uids -> SUBSET Projects]

Named == {u \in Uids : \E n \in Names : owner[n] = u}

Init ==
    /\ owner = [n \in Names |-> NoUser]
    /\ sessions = {}
    /\ members = [p \in Projects |-> {}]
    /\ access = [u \in Uids |-> {}]

TakesName(u, n) ==
    /\ owner[n] = NoUser
    /\ u \notin Named
    /\ owner' = [owner EXCEPT ![n] = u]
    /\ UNCHANGED <<sessions, members, access>>

LogsIn(u) ==
    /\ u \in Named
    /\ sessions' = sessions \cup {u}
    /\ UNCHANGED <<owner, members, access>>

LogsOut(u) ==
    /\ sessions' = sessions \ {u}
    /\ UNCHANGED <<owner, members, access>>

SetsMembers(p, next) ==
    /\ next \subseteq Named
    /\ members' = [members EXCEPT ![p] = next]
    /\ UNCHANGED <<owner, sessions, access>>

GetsAccess(u, p) ==
    /\ u \in members[p]
    /\ access' = [access EXCEPT ![u] = @ \cup {p}]
    /\ UNCHANGED <<owner, sessions, members>>

LosesAccess(u, p) ==
    /\ u \notin members[p]
    /\ access' = [access EXCEPT ![u] = @ \ {p}]
    /\ UNCHANGED <<owner, sessions, members>>

Next ==
    \/ \E u \in Uids :
          \/ LogsIn(u) \/ LogsOut(u)
          \/ \E n \in Names : TakesName(u, n)
          \/ \E p \in Projects : GetsAccess(u, p) \/ LosesAccess(u, p)
    \/ \E p \in Projects, next \in SUBSET Uids : SetsMembers(p, next)

Spec == Init /\ [][Next]_vars
-----------------------------------------------------------------------------
\* No name passes from one user to another.
NamesAreForever ==
    [][\A n \in Names : owner[n] # NoUser => owner'[n] = owner[n]]_vars

\* Who gains access to a project is on its list then, and who loses it is not.
AccessFollowsList ==
    [][\A u \in Uids, p \in Projects :
          /\ p \in access'[u] \ access[u] => u \in members[p]
          /\ p \in access[u] \ access'[u] => u \notin members[p]]_vars

\* A user has one name at most, and without one no session, no membership, no access.
OneNameEach ==
    /\ \A n, m \in Names : owner[n] = owner[m] /\ owner[n] # NoUser => n = m
    /\ \A u \in Uids \ Named :
          /\ u \notin sessions
          /\ access[u] = {}
          /\ \A p \in Projects : u \notin members[p]
=============================================================================
