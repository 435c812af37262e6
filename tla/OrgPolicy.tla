------------------------------ MODULE OrgPolicy ------------------------------
(***************************************************************************)
(* Who may change an organization's settings and read a private            *)
(* repository's reports: src/pkg/api/policy, with the settings themselves  *)
(* (src/pkg/api/services/organization).                                    *)
(*                                                                         *)
(* GitHub knows who is a member or an admin of the organization and who    *)
(* can read the repository, and may change its mind at any time.  The      *)
(* service asks it and keeps the answers in a cache: memberships for a     *)
(* week, access to a repository for a year.  The settings are guarded by   *)
(* a version that an update has to name.                                   *)
(*                                                                         *)
(* Time passes in ticks, between requests only: a request takes seconds,   *)
(* what is cached lives for days.                                          *)
(***************************************************************************)
EXTENDS Integers, FiniteSets

CONSTANTS
    Users,
    SiteAdmin,        \* the user of ADMIN_GITHUB_LOGIN
    WithPrivateToken, \* the users who logged in for private repositories
    Requests,         \* requests the API serves at a time
    OrgTTL,           \* ticks a membership stays cached (ORG_CACHE_TTL)
    RepoTTL,          \* ticks an access to the repository stays cached
    MaxEdits,         \* bound: edits of the settings by each user
    None

ASSUME UsersAssumption == SiteAdmin \in Users /\ WithPrivateToken \subseteq Users
ASSUME TimesAssumption == OrgTTL \in Nat /\ RepoTTL \in Nat /\ MaxEdits \in Nat
ASSUME NoneAssumption == None \notin Users

VARIABLES
    memberCanModify,  \* PROVIDER_ORG_MEMBER_CAN_MODIFY_ORG, set once
    role,             \* GitHub: each user's role in the organization
    access,           \* GitHub: the users who can read the repository
    membership,       \* the cached membership of each user: is it an admin, how old
    reading,          \* the age of each user's cached access, Uncached for none
    org,              \* the organization's row: settings and version
    form,             \* the row as each user saw it last
    req,              \* the requests being served
    age,              \* history: ticks since each user was a modifier, a reader
    accepted          \* history: the edits of each user that were accepted

vars == <<memberCanModify, role, access, membership, reading, org, form, req, age, accepted>>

Roles    == {"none", "member", "admin"}
Ops      == {"get", "update", "read"}
Oldest   == (IF OrgTTL > RepoTTL THEN OrgTTL ELSE RepoTTL) + 1
Uncached == Oldest + 1
Settings == [Users -> 0 .. MaxEdits]
Rows     == [settings : Settings, version : Nat]
Idle     == [pc |-> "idle", op |-> "get", user |-> None, row |-> None,
             admin |-> FALSE, asked |-> FALSE]

TypeOK ==
    /\ memberCanModify \in BOOLEAN
    /\ role \in [Users -> Roles]
    /\ access \subseteq Users
    /\ membership \in [Users -> [admin : BOOLEAN, age : 0 .. OrgTTL \cup {Uncached}]]
    /\ reading \in [Users -> 0 .. RepoTTL \cup {Uncached}]
    /\ org \in Rows
    /\ form \in [Users -> Rows]
    /\ age \in [Users -> [modifier : 0 .. Oldest, reader : 0 .. Oldest]]
    /\ accepted \in Settings
    /\ req \in [Requests -> [pc : {"idle", "fetch", "refetch", "save", "askRepo", "saveRepo",
                                   "allowed", "denied"},
                             op : Ops, user : Users \cup {None}, row : Rows \cup {None},
                             admin : BOOLEAN, asked : BOOLEAN]]

NoMembership == [admin |-> FALSE, age |-> Uncached]
NoEdits      == [u \in Users |-> 0]

Init ==
    /\ memberCanModify \in BOOLEAN
    /\ role = [u \in Users |-> "none"]
    /\ access = {}
    /\ membership = [u \in Users |-> NoMembership]
    /\ reading = [u \in Users |-> Uncached]
    /\ org = [settings |-> NoEdits, version |-> 0]
    /\ form = [u \in Users |-> org]
    /\ req = [r \in Requests |-> Idle]
    /\ age = [u \in Users |-> [modifier |-> Oldest, reader |-> Oldest]]
    /\ accepted = NoEdits

github == <<role, access, age>>
caches == <<membership, reading>>
data   == <<org, form, accepted>>

----------------------------------------------------------------------------
(* GitHub and time *)

\* The roles that may modify the organization, by the configuration.
Suffices(x) == x = "admin" \/ (x = "member" /\ memberCanModify)

ChangeRole(u, new) ==
    /\ role[u] # new
    /\ role' = [role EXCEPT ![u] = new]
    /\ age' = [age EXCEPT ![u].modifier = IF Suffices(role[u]) \/ Suffices(new) THEN 0 ELSE @]
    /\ UNCHANGED <<memberCanModify, access, caches, data, req>>

\* (of the users without a private token nobody asks)
ChangeAccess(u) ==
    /\ u \in WithPrivateToken
    /\ access' = (access \cup {u}) \ (access \cap {u})
    /\ age' = [age EXCEPT ![u].reader = 0]
    /\ UNCHANGED <<memberCanModify, role, caches, data, req>>

Older(n, holds) == IF holds THEN 0 ELSE IF n < Oldest THEN n + 1 ELSE n

Expire(n, ttl) == IF n >= ttl THEN Uncached ELSE n + 1

\* A cached value is as old as its SETEX, and is gone when that is TTL ago.
Tick ==
    /\ \A r \in Requests : req[r].pc = "idle"
    /\ age' = [u \in Users |->
                [modifier |-> Older(age[u].modifier, Suffices(role[u])),
                 reader   |-> Older(age[u].reader, u \in access)]]
    /\ membership' = [u \in Users |->
                        IF Expire(membership[u].age, OrgTTL) = Uncached THEN NoMembership
                        ELSE [membership[u] EXCEPT !.age = @ + 1]]
    /\ reading' = [u \in Users |-> Expire(reading[u], RepoTTL)]
    /\ UNCHANGED <<memberCanModify, role, access, data, req>>

----------------------------------------------------------------------------
(* What a request does next *)

Stop(r) == req' = [req EXCEPT ![r] = Idle]

\* It goes on, is let in, or is refused, after GitHub was asked or not.
Continue(q, pc) == [q EXCEPT !.pc = pc]
Allowed(q)      == [q EXCEPT !.pc = "allowed", !.admin = FALSE, !.asked = FALSE]
Refused(q)      == [Idle EXCEPT !.pc = "denied", !.asked = q.asked]
Answered(q)     == [q EXCEPT !.asked = TRUE]

\* What a membership that is an admin's or not allows: checkIsMember or
\* checkIsAdmin, by the configuration.
Decided(q, admin) == IF memberCanModify \/ admin THEN Allowed(q) ELSE Refused(q)

Denied(r) ==
    /\ req[r].pc = "denied"
    /\ Stop(r)
    /\ UNCHANGED <<memberCanModify, github, caches, data>>

----------------------------------------------------------------------------
(* CheckCanModify: orgMembershipFetcher.fetch *)

\* An admin's cached membership is believed, any other is asked for again.  A
\* cache that fails is as good as an empty one that then fails to take the
\* answer.
CheckCached(q) ==
    LET m == membership[q.user]
    IN  {Continue(q, "fetch")}
        \cup (IF m = NoMembership THEN {}
              ELSE {IF m.admin THEN Allowed(q) ELSE Continue(q, "refetch")})

\* GitHub answers with the role.
FetchMembership(r) ==
    /\ req[r].pc \in {"fetch", "refetch"}
    /\ role[req[r].user] # "none"
    /\ req' = [req EXCEPT ![r] = [Answered(@) EXCEPT !.pc = "save",
                                                     !.admin = role[req[r].user] = "admin"]]
    /\ UNCHANGED <<memberCanModify, github, caches, data>>

\* Mutant: the fallback caches the membership again.
MembershipNotFetchedKept(r) ==
    /\ \/ /\ req[r].pc = "fetch"
          /\ req' = [req EXCEPT ![r] = Refused(Answered(@))]
          /\ UNCHANGED membership
       \/ /\ req[r].pc = "refetch"
          /\ req' = [req EXCEPT ![r] = Decided(Answered(@), FALSE)]
          /\ membership' = [membership EXCEPT ![req[r].user] = [admin |-> FALSE, age |-> 0]]
    /\ UNCHANGED <<memberCanModify, github, reading, data>>

\* GitHub does not know the user as a member, or does not answer: what was
\* cached, a membership that is not an admin's, is used if there was one.
MembershipNotFetched(r) ==
    /\ \/ req[r].pc = "fetch" /\ req' = [req EXCEPT ![r] = Refused(Answered(@))]
       \/ req[r].pc = "refetch" /\ req' = [req EXCEPT ![r] = Decided(Answered(@), FALSE)]
    /\ UNCHANGED <<memberCanModify, github, caches, data>>

\* The answer is cached, which may fail.
SaveMembership(r) ==
    /\ req[r].pc = "save"
    /\ \/ UNCHANGED membership
       \/ membership' = [membership EXCEPT ![req[r].user] = [admin |-> req[r].admin, age |-> 0]]
    /\ req' = [req EXCEPT ![r] = Decided(@, @.admin)]
    /\ UNCHANGED <<memberCanModify, github, reading, data>>

----------------------------------------------------------------------------
(* The settings *)

\* The row is read, then the cached membership of its user.
Start(r, u, op, row) ==
    /\ req[r].pc = "idle"
    /\ \E q \in CheckCached([Idle EXCEPT !.op = op, !.user = u, !.row = row]) :
          req' = [req EXCEPT ![r] = q]
    /\ UNCHANGED <<memberCanModify, github, caches, data>>

StartGet(r, u) == Start(r, u, "get", org)

\* An update names the version its user saw; another one is refused at once.
\* Its settings are those of the form, edited, whatever the row's are now.
StartUpdate(r, u) ==
    /\ form[u].version = org.version
    /\ form[u].settings[u] < MaxEdits
    /\ Start(r, u, "update", [form[u] EXCEPT !.settings[u] = @ + 1])

AnswerGet(r) ==
    LET u == req[r].user
    IN  /\ req[r].pc = "allowed" /\ req[r].op = "get"
        /\ form' = [form EXCEPT ![u] = req[r].row]
        /\ Stop(r)
        /\ UNCHANGED <<memberCanModify, github, caches, org, accepted>>

\* Mutant: the UPDATE does not ask for the version that was read.
SaveSettingsOfAny(r) ==
    LET u   == req[r].user
        row == [req[r].row EXCEPT !.version = @ + 1]
    IN  /\ req[r].pc = "allowed" /\ req[r].op = "update"
        /\ org' = row
        /\ form' = [form EXCEPT ![u] = row]
        /\ accepted' = [accepted EXCEPT ![u] = @ + 1]
        /\ Stop(r)
        /\ UNCHANGED <<memberCanModify, github, caches>>

\* UPDATE ... WHERE version = ..., and an error if no row was updated.
SaveSettings(r) ==
    LET u   == req[r].user
        row == [req[r].row EXCEPT !.version = @ + 1]
    IN  /\ req[r].pc = "allowed" /\ req[r].op = "update"
        /\ \/ /\ org.version = req[r].row.version
              /\ org' = row
              /\ form' = [form EXCEPT ![u] = row]
              /\ accepted' = [accepted EXCEPT ![u] = @ + 1]
           \/ /\ org.version # req[r].row.version
              /\ UNCHANGED data
        /\ Stop(r)
        /\ UNCHANGED <<memberCanModify, github, caches>>

----------------------------------------------------------------------------
(* CanReadPrivateRepo and CanRead *)

\* A user with no private token is refused before GitHub is asked.  The cache
\* holds only that a user has access, and may fail.
StartRead(r, u) ==
    LET q == [Idle EXCEPT !.op = "read", !.user = u]
    IN  /\ u \in WithPrivateToken
        /\ req[r].pc = "idle"
        /\ \/ reading[u] # Uncached /\ req' = [req EXCEPT ![r] = Allowed(q)]
           \/ req' = [req EXCEPT ![r] = Continue(q, "askRepo")]
        /\ UNCHANGED <<memberCanModify, github, caches, data>>

\* Mutant: what GitHub does not answer is taken for access.
FetchRepoOrPass(r) ==
    /\ req[r].pc = "askRepo"
    /\ req' = [req EXCEPT ![r] = Continue(Answered(@), "saveRepo")]
    /\ UNCHANGED <<memberCanModify, github, caches, data>>

\* GitHub has the repository for the user, or has not, where the site's admin
\* is let in all the same, or does not answer.
FetchRepo(r) ==
    LET u == req[r].user
    IN  /\ req[r].pc = "askRepo"
        /\ \/ u \in access /\ req' = [req EXCEPT ![r] = Continue(Answered(@), "saveRepo")]
           \/ u \notin access /\ u = SiteAdmin /\ req' = [req EXCEPT ![r] = Allowed(@)]
           \/ req' = [req EXCEPT ![r] = Refused(Answered(@))]
        /\ UNCHANGED <<memberCanModify, github, caches, data>>

SaveAccess(r) ==
    /\ req[r].pc = "saveRepo"
    /\ reading' \in {reading, [reading EXCEPT ![req[r].user] = 0]}
    /\ req' = [req EXCEPT ![r] = Allowed(@)]
    /\ UNCHANGED <<memberCanModify, github, membership, data>>

AnswerRead(r) ==
    /\ req[r].pc = "allowed" /\ req[r].op = "read"
    /\ Stop(r)
    /\ UNCHANGED <<memberCanModify, github, caches, data>>

Next ==
    \/ \E u \in Users : ChangeAccess(u) \/ \E new \in Roles : ChangeRole(u, new)
    \/ Tick
    \/ \E r \in Requests, u \in Users : StartGet(r, u) \/ StartUpdate(r, u) \/ StartRead(r, u)
    \/ \E r \in Requests :
          \/ FetchMembership(r) \/ MembershipNotFetched(r) \/ SaveMembership(r)
          \/ AnswerGet(r) \/ SaveSettings(r)
          \/ FetchRepo(r) \/ SaveAccess(r) \/ AnswerRead(r)
          \/ Denied(r)

Spec == Init /\ [][Next]_vars

----------------------------------------------------------------------------
(* Properties *)

\* No accepted edit is lost: the settings hold every edit that was answered
\* with success, whoever edited at the same time and however old the form was.
EditsKept == org.settings = accepted

\* What a user sees under the current version is what is stored: only so does
\* the version in an update stand for the settings that it was made from.
VersionNamesSettings ==
    \A u \in Users : /\ form[u].version <= org.version
                     /\ form[u].version = org.version => form[u].settings = org.settings

\* Who may see or change the settings was a member of the organization (or,
\* if the configuration asks for it, an admin) at most OrgTTL ago: neither the
\* cache nor the fallback to it stretches a membership further.
ModifiedInTime ==
    \A r \in Requests :
        (req[r].pc = "allowed" /\ req[r].op # "read") => age[req[r].user].modifier <= OrgTTL

\* Nobody is refused on the word of the cache: a user who has just become a
\* member, an admin or a reader was looked up at GitHub before the refusal.
RefusedByGithub == \A r \in Requests : req[r].pc = "denied" => req[r].asked

\* Who may read a private repository's report could read the repository at
\* most RepoTTL ago, or is the site's admin; the admin's pass never turns into
\* a cached access of another user.
ReadInTime ==
    \A r \in Requests :
        (req[r].pc = "allowed" /\ req[r].op = "read") =>
            age[req[r].user].reader <= RepoTTL \/ req[r].user = SiteAdmin

=============================================================================
