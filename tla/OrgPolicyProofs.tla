--------------------------- MODULE OrgPolicyProofs ---------------------------
(***************************************************************************)
(* Proofs about OrgPolicy, for any users, concurrent requests, cache times *)
(* and numbers of edits.                                                   *)
(***************************************************************************)
EXTENDS OrgPolicy, TLAPS

Request == [pc : {"idle", "fetch", "refetch", "save", "askRepo", "saveRepo", "allowed", "denied"},
            op : Ops, user : Users \cup {None}, row : Rows \cup {None},
            admin : BOOLEAN, asked : BOOLEAN]
Age     == [modifier : 0 .. Oldest, reader : 0 .. Oldest]
Member  == [admin : BOOLEAN, age : 0 .. OrgTTL \cup {Uncached}]

(***************************************************************************)
(* The inductive invariant                                                 *)
(***************************************************************************)

\* Who is a modifier or a reader at GitHub is so now.
GithubInv ==
    \A u \in Users : /\ Suffices(role[u]) => age[u].modifier = 0
                     /\ u \in access => age[u].reader = 0

\* What is cached was true that long ago at most.
CacheInv ==
    \A u \in Users :
        /\ membership[u] # NoMembership => membership[u].age \in 0 .. OrgTTL
        /\ (membership[u] # NoMembership /\ (memberCanModify \/ membership[u].admin))
              => age[u].modifier <= membership[u].age
        /\ reading[u] # Uncached => age[u].reader <= reading[u]

\* What a request has found out about its user by the step it is at
Entitled(q) ==
    /\ (q.pc = "refetch" /\ memberCanModify) => age[q.user].modifier <= OrgTTL
    /\ (q.pc = "save" /\ (memberCanModify \/ q.admin)) => age[q.user].modifier = 0
    /\ (q.pc = "allowed" /\ q.op # "read") => age[q.user].modifier <= OrgTTL
    /\ q.pc = "saveRepo" => age[q.user].reader = 0
    /\ (q.pc = "allowed" /\ q.op = "read") => age[q.user].reader <= RepoTTL \/ q.user = SiteAdmin
    /\ q.pc \in {"save", "denied"} => q.asked

\* The row it read or wants to write is the stored one, with its edit, or has
\* an older version.
Versioned(q) ==
    (q.pc \notin {"idle", "denied"} /\ q.op # "read") =>
        /\ q.row \in Rows
        /\ q.row.version <= org.version
        /\ q.row.version = org.version =>
              q.row.settings = IF q.op = "get" THEN org.settings
                               ELSE [org.settings EXCEPT ![q.user] = @ + 1]

\* The steps belong to the operations.
InStep(q) ==
    /\ q.pc \notin {"idle", "denied"} => q.user \in Users
    /\ q.pc \in {"fetch", "refetch", "save"} => q.op # "read"
    /\ q.pc \in {"askRepo", "saveRepo"} => q.op = "read"

RequestInv == \A r \in Requests : Entitled(req[r]) /\ Versioned(req[r]) /\ InStep(req[r])

PolicyInv == GithubInv /\ CacheInv /\ RequestInv /\ VersionNamesSettings /\ EditsKept

IInv == TypeOK /\ PolicyInv

LEMMA Times ==
  /\ OrgTTL \in Nat /\ RepoTTL \in Nat /\ MaxEdits \in Nat
  /\ Oldest \in Nat /\ Uncached \in Nat
  /\ OrgTTL < Oldest /\ RepoTTL < Oldest /\ Uncached = Oldest + 1
BY TimesAssumption DEF Oldest, Uncached

LEMMA Typed ==
  ASSUME TypeOK
  PROVE  /\ req \in [Requests -> Request] /\ age \in [Users -> Age]
         /\ membership \in [Users -> Member] /\ reading \in [Users -> 0 .. RepoTTL \cup {Uncached}]
         /\ org \in Rows /\ form \in [Users -> Rows] /\ accepted \in Settings
         /\ role \in [Users -> Roles] /\ memberCanModify \in BOOLEAN
BY DEF TypeOK, Request, Age, Member

LEMMA InitInv == Init => IInv
<1> SUFFICES ASSUME Init PROVE IInv
  OBVIOUS
<1>0. NoEdits \in Settings /\ NoMembership \in Member /\ Idle \in Request
      /\ [modifier |-> Oldest, reader |-> Oldest] \in Age
  BY Times DEF NoEdits, Settings, NoMembership, Member, Idle, Request, Ops, Age
<1>1. org \in Rows
  BY <1>0 DEF Init, Rows
<1>2. TypeOK
  BY <1>0, <1>1 DEF Init, TypeOK, Request, Age, Member, Roles
<1>3. GithubInv /\ CacheInv
  BY DEF Init, GithubInv, CacheInv, Suffices
<1>4. \A r \in Requests : req[r].pc = "idle"
  BY DEF Init, Idle
<1>5. RequestInv
  BY <1>4 DEF RequestInv, Entitled, Versioned, InStep
<1>6. VersionNamesSettings /\ EditsKept
  BY <1>1 DEF Init, VersionNamesSettings, EditsKept, Rows
<1>7. QED
  BY <1>2, <1>3, <1>5, <1>6 DEF IInv, PolicyInv

(***************************************************************************)
(* Steps of one request                                                    *)
(***************************************************************************)

\* A step that gives request r a fitting record q and leaves the rest, but for
\* caches that stay true.
LEMMA RequestStep ==
  ASSUME TypeOK, PolicyInv, NEW r \in Requests, NEW q \in Request,
         req' = [req EXCEPT ![r] = q], Entitled(q), Versioned(q), InStep(q),
         UNCHANGED <<memberCanModify, github, data>>,
         CacheInv', membership' \in [Users -> Member],
         reading' \in [Users -> 0 .. RepoTTL \cup {Uncached}]
  PROVE  TypeOK' /\ PolicyInv'
<1>1. /\ memberCanModify' = memberCanModify /\ role' = role /\ access' = access /\ age' = age
      /\ org' = org /\ form' = form /\ accepted' = accepted
  BY DEF github, data
<1>2. req' \in [Requests -> Request]
  BY Typed
<1>3. TypeOK'
  BY <1>1, <1>2 DEF TypeOK, Request, Member
<1>4. GithubInv' /\ VersionNamesSettings' /\ EditsKept'
  BY <1>1 DEF PolicyInv, GithubInv, VersionNamesSettings, EditsKept, Suffices
<1>5. ASSUME NEW s \in Requests PROVE (Entitled(req[s]) /\ Versioned(req[s]) /\ InStep(req[s]))'
  <2>1. CASE s = r
    <3>1. req'[s] = q
      BY <2>1, Typed
    <3>2. QED
      BY <1>1, <3>1 DEF Entitled, Versioned, InStep
  <2>2. CASE s # r
    <3>1. req'[s] = req[s]
      BY <2>2, Typed
    <3>2. Entitled(req[s]) /\ Versioned(req[s]) /\ InStep(req[s])
      BY DEF PolicyInv, RequestInv
    <3>3. QED
      BY <1>1, <3>1, <3>2 DEF Entitled, Versioned, InStep
  <2>3. QED
    BY <2>1, <2>2
<1>6. RequestInv'
  BY <1>5 DEF RequestInv
<1>7. QED
  BY <1>3, <1>4, <1>6 DEF PolicyInv

LEMMA SameCaches ==
  ASSUME TypeOK, PolicyInv, UNCHANGED <<memberCanModify, github, caches>>
  PROVE  /\ CacheInv' /\ membership' \in [Users -> Member]
         /\ reading' \in [Users -> 0 .. RepoTTL \cup {Uncached}]
BY Typed DEF PolicyInv, CacheInv, github, caches

\* What a request turns into keeps its user, operation and row.
LEMMA Turns ==
  ASSUME NEW q \in Request
  PROVE  /\ \A pc \in {"fetch", "refetch", "askRepo", "saveRepo"} :
              /\ Continue(q, pc) \in Request /\ Continue(q, pc).pc = pc
              /\ Continue(q, pc).user = q.user /\ Continue(q, pc).op = q.op
              /\ Continue(q, pc).row = q.row
         /\ Allowed(q) \in Request /\ Allowed(q).pc = "allowed" /\ Allowed(q).user = q.user
         /\ Allowed(q).op = q.op /\ Allowed(q).row = q.row
         /\ Refused(q) \in Request /\ Refused(q).pc = "denied" /\ Refused(q).asked = q.asked
         /\ Answered(q) \in Request /\ Answered(q).pc = q.pc /\ Answered(q).user = q.user
         /\ Answered(q).op = q.op /\ Answered(q).row = q.row /\ Answered(q).asked
<1>1. \A pc \in {"fetch", "refetch", "askRepo", "saveRepo"} :
              /\ Continue(q, pc) \in Request /\ Continue(q, pc).pc = pc
              /\ Continue(q, pc).user = q.user /\ Continue(q, pc).op = q.op
              /\ Continue(q, pc).row = q.row
  BY DEF Request, Continue
<1>2. /\ Allowed(q) \in Request /\ Allowed(q).pc = "allowed" /\ Allowed(q).user = q.user
      /\ Allowed(q).op = q.op /\ Allowed(q).row = q.row
  BY DEF Request, Allowed
<1>3. Refused(q) \in Request /\ Refused(q).pc = "denied" /\ Refused(q).asked = q.asked
  BY DEF Request, Refused, Idle, Ops
<1>4. /\ Answered(q) \in Request /\ Answered(q).pc = q.pc /\ Answered(q).user = q.user
      /\ Answered(q).op = q.op /\ Answered(q).row = q.row /\ Answered(q).asked
  BY DEF Request, Answered
<1>5. QED
  BY <1>1, <1>2, <1>3, <1>4

\* A request that is let in, or refused, fits if what it is let in for does.
LEMMA Fits ==
  ASSUME TypeOK, NEW q \in Request, NEW p \in Request,
         q.user \in Users, q.op # "read", p.user = q.user, p.op = q.op, p.row = q.row,
         Versioned(q), q.pc \notin {"idle", "denied"}, p.pc \in {"fetch", "refetch", "save", "allowed"}
  PROVE  Versioned(p) /\ InStep(p)
BY DEF Versioned, InStep

LEMMA DecidedFits ==
  ASSUME TypeOK, PolicyInv, NEW q \in Request, NEW admin \in BOOLEAN,
         q.user \in Users, q.op # "read", Versioned(q), q.pc \notin {"idle", "denied"}, q.asked,
         (memberCanModify \/ admin) => age[q.user].modifier <= OrgTTL
  PROVE  /\ Decided(q, admin) \in Request
         /\ Entitled(Decided(q, admin)) /\ Versioned(Decided(q, admin)) /\ InStep(Decided(q, admin))
<1>1. CASE memberCanModify \/ admin
  <2>1. Decided(q, admin) = Allowed(q)
    BY <1>1 DEF Decided
  <2>2. PICK p \in Request : p = Allowed(q)
    BY Turns
  <2>3. p.pc = "allowed" /\ p.user = q.user /\ p.op = q.op /\ p.row = q.row
    BY <2>2, Turns
  <2>4. Entitled(p)
    BY <1>1, <2>3 DEF Entitled
  <2>5. Versioned(p) /\ InStep(p)
    BY <2>3, Fits
  <2>6. QED
    BY <2>1, <2>2, <2>4, <2>5
<1>2. CASE ~(memberCanModify \/ admin)
  <2>1. Decided(q, admin) = Refused(q)
    BY <1>2 DEF Decided
  <2>2. PICK p \in Request : p = Refused(q)
    BY Turns
  <2>3. p.pc = "denied" /\ p.asked
    BY <2>2, Turns
  <2>4. Entitled(p) /\ Versioned(p) /\ InStep(p)
    BY <2>3 DEF Entitled, Versioned, InStep
  <2>5. QED
    BY <2>1, <2>2, <2>4
<1>3. QED
  BY <1>1, <1>2

\* A request that starts: q is the request as it asks for the membership.
LEMMA StartStep ==
  ASSUME TypeOK, PolicyInv, NEW r \in Requests, NEW u \in Users, NEW op \in {"get", "update"},
         NEW row \in Rows, Start(r, u, op, row),
         row.version = org.version,
         op = "get" => row.settings = org.settings,
         op = "update" => row.settings = [org.settings EXCEPT ![u] = @ + 1]
  PROVE  TypeOK' /\ PolicyInv'
<1> DEFINE q0 == [Idle EXCEPT !.op = op, !.user = u, !.row = row]
<1>1. q0 \in Request /\ q0.op = op /\ q0.user = u /\ q0.row = row
  BY DEF Request, Idle, Ops
<1>2. PICK q \in CheckCached(q0) : req' = [req EXCEPT ![r] = q]
  BY DEF Start
<1>3. UNCHANGED <<memberCanModify, github, caches, data>>
  BY DEF Start
<1>4. \/ q = Continue(q0, "fetch")
      \/ /\ membership[u] # NoMembership
         /\ q = IF membership[u].admin THEN Allowed(q0) ELSE Continue(q0, "refetch")
  BY <1>1, <1>2 DEF CheckCached
<1> HIDE DEF q0
<1>5. /\ q \in Request /\ q.user = u /\ q.op = op /\ q.row = row
      /\ q.pc \in {"fetch", "refetch", "allowed"}
      /\ q.pc = "allowed" => membership[u] # NoMembership /\ membership[u].admin
      /\ q.pc = "refetch" => membership[u] # NoMembership
  BY <1>1, <1>4, Turns
<1>6. Entitled(q)
  <2>1. (membership[u] # NoMembership /\ (memberCanModify \/ membership[u].admin))
           => age[u].modifier <= OrgTTL
    <3>1. membership[u] # NoMembership => membership[u].age \in 0 .. OrgTTL
      BY DEF PolicyInv, CacheInv
    <3>2. (membership[u] # NoMembership /\ (memberCanModify \/ membership[u].admin))
              => age[u].modifier <= membership[u].age
      BY DEF PolicyInv, CacheInv
    <3>3. age[u].modifier \in 0 .. Oldest
      BY Typed DEF Age
    <3>4. QED
      BY <3>1, <3>2, <3>3, Times
  <2>2. QED
    BY <1>5, <2>1 DEF Entitled
<1>7. Versioned(q)
  <2>1. org.version \in Nat
    BY Typed DEF Rows
  <2>2. QED
    BY <1>5, <2>1 DEF Versioned
<1>8. InStep(q)
  BY <1>5 DEF InStep
<1>9. QED
  BY <1>2, <1>3, <1>5, <1>6, <1>7, <1>8, SameCaches, RequestStep

LEMMA GetStep ==
  ASSUME TypeOK, PolicyInv, NEW r \in Requests, NEW u \in Users, StartGet(r, u)
  PROVE  TypeOK' /\ PolicyInv'
<1>1. org \in Rows /\ org.version \in Nat
  BY Typed DEF Rows
<1>2. Start(r, u, "get", org)
  BY DEF StartGet
<1>3. "get" \in {"get", "update"} /\ "get" # "update"
  OBVIOUS
<1>4. QED
  BY <1>1, <1>2, <1>3, StartStep

LEMMA UpdateStep ==
  ASSUME TypeOK, PolicyInv, NEW r \in Requests, NEW u \in Users, StartUpdate(r, u)
  PROVE  TypeOK' /\ PolicyInv'
<1>1. form[u] \in Rows /\ form[u].settings \in Settings /\ form[u].version \in Nat
  BY Typed DEF Rows
<1>2. /\ form[u].version = org.version /\ form[u].settings[u] < MaxEdits
      /\ Start(r, u, "update", [form[u] EXCEPT !.settings[u] = @ + 1])
  BY DEF StartUpdate
<1>3. form[u].settings = org.settings
  BY <1>2 DEF PolicyInv, VersionNamesSettings
<1>4. [form[u].settings EXCEPT ![u] = @ + 1] \in Settings
  BY <1>1, <1>2, Times DEF Settings
<1>5. PICK row \in Rows : row = [form[u] EXCEPT !.settings[u] = @ + 1]
  BY <1>1, <1>4 DEF Rows
<1>6. row.version = org.version /\ row.settings = [org.settings EXCEPT ![u] = @ + 1]
  BY <1>1, <1>2, <1>3, <1>5 DEF Rows
<1>7. Start(r, u, "update", row)
  BY <1>2, <1>5
<1>8. "update" \in {"get", "update"} /\ "get" # "update"
  OBVIOUS
<1>9. QED
  BY <1>6, <1>7, <1>8, StartStep

LEMMA ReadStep ==
  ASSUME TypeOK, PolicyInv, NEW r \in Requests, NEW u \in Users, StartRead(r, u)
  PROVE  TypeOK' /\ PolicyInv'
<1> DEFINE q0 == [Idle EXCEPT !.op = "read", !.user = u]
<1>1. q0 \in Request /\ q0.op = "read" /\ q0.user = u
  BY DEF Request, Idle, Ops
<1>2. /\ UNCHANGED <<memberCanModify, github, caches, data>>
      /\ \/ reading[u] # Uncached /\ req' = [req EXCEPT ![r] = Allowed(q0)]
         \/ req' = [req EXCEPT ![r] = Continue(q0, "askRepo")]
  BY DEF StartRead
<1> HIDE DEF q0
<1>3. PICK q \in Request : /\ req' = [req EXCEPT ![r] = q]
                           /\ q = Continue(q0, "askRepo")
                              \/ (reading[u] # Uncached /\ q = Allowed(q0))
  BY <1>1, <1>2, Turns
<1>4. /\ q.user = u /\ q.op = "read"
      /\ q.pc = "askRepo" \/ (q.pc = "allowed" /\ reading[u] # Uncached)
  BY <1>1, <1>3, Turns
<1>5. reading[u] # Uncached => age[u].reader <= RepoTTL
  <2>1. age[u].reader \in 0 .. Oldest /\ reading[u] \in 0 .. RepoTTL \cup {Uncached}
    BY Typed DEF Age
  <2>2. reading[u] # Uncached => age[u].reader <= reading[u]
    BY DEF PolicyInv, CacheInv
  <2>3. QED
    BY <2>1, <2>2, Times
<1>6. Entitled(q) /\ Versioned(q) /\ InStep(q)
  BY <1>4, <1>5 DEF Entitled, Versioned, InStep
<1>7. QED
  BY <1>2, <1>3, <1>6, SameCaches, RequestStep

\* What is known of a request that has begun
LEMMA Known ==
  ASSUME TypeOK, PolicyInv, NEW r \in Requests, req[r].pc \notin {"idle", "denied"}
  PROVE  /\ req[r] \in Request /\ req[r].user \in Users /\ age[req[r].user] \in Age
         /\ Entitled(req[r]) /\ Versioned(req[r]) /\ InStep(req[r])
BY Typed DEF PolicyInv, RequestInv, InStep

LEMMA FetchMembershipStep ==
  ASSUME TypeOK, PolicyInv, NEW r \in Requests, FetchMembership(r)
  PROVE  TypeOK' /\ PolicyInv'
<1>1. /\ req[r].pc \in {"fetch", "refetch"} /\ role[req[r].user] # "none"
      /\ req' = [req EXCEPT ![r] = [Answered(req[r]) EXCEPT !.pc = "save",
                                        !.admin = role[req[r].user] = "admin"]]
      /\ UNCHANGED <<memberCanModify, github, caches, data>>
  BY DEF FetchMembership
<1>2. /\ req[r] \in Request /\ req[r].user \in Users /\ role[req[r].user] \in Roles
      /\ Versioned(req[r]) /\ InStep(req[r])
  BY <1>1, Known, Typed
<1>3. Answered(req[r]) \in Request /\ Answered(req[r]).user = req[r].user
      /\ Answered(req[r]).op = req[r].op /\ Answered(req[r]).row = req[r].row
      /\ Answered(req[r]).asked
  BY <1>2, Turns
<1>4. PICK admin \in BOOLEAN : admin <=> role[req[r].user] = "admin"
  OBVIOUS
<1>5. PICK q \in Request :
         /\ req' = [req EXCEPT ![r] = q] /\ q.pc = "save" /\ q.admin = admin
         /\ q.user = req[r].user /\ q.op = req[r].op /\ q.row = req[r].row /\ q.asked
  <2> DEFINE q == [Answered(req[r]) EXCEPT !.pc = "save", !.admin = role[req[r].user] = "admin"]
  <2>1. /\ q \in Request /\ q.pc = "save" /\ q.admin = (role[req[r].user] = "admin")
        /\ q.user = req[r].user /\ q.op = req[r].op /\ q.row = req[r].row /\ q.asked
    BY <1>3 DEF Request
  <2>2. req' = [req EXCEPT ![r] = q]
    BY <1>1
  <2> HIDE DEF q
  <2>3. q.admin = admin
    BY <1>4, <2>1
  <2>4. QED
    BY <2>1, <2>2, <2>3
<1>6. Entitled(q)
  <2>1. (memberCanModify \/ admin) => Suffices(role[req[r].user])
    BY <1>1, <1>2, <1>4 DEF Suffices, Roles
  <2>2. (memberCanModify \/ admin) => age[req[r].user].modifier = 0
    BY <1>2, <2>1 DEF PolicyInv, GithubInv
  <2>3. QED
    BY <1>5, <2>2 DEF Entitled
<1>7. Versioned(q) /\ InStep(q)
  <2>1. req[r].op # "read"
    BY <1>1, <1>2 DEF InStep
  <2>2. QED
    BY <1>1, <1>2, <1>5, <2>1, Fits
<1>8. QED
  BY <1>1, <1>5, <1>6, <1>7, SameCaches, RequestStep

LEMMA NotFetchedStep ==
  ASSUME TypeOK, PolicyInv, NEW r \in Requests, MembershipNotFetched(r)
  PROVE  TypeOK' /\ PolicyInv'
<1>1. /\ \/ req[r].pc = "fetch" /\ req' = [req EXCEPT ![r] = Refused(Answered(req[r]))]
         \/ req[r].pc = "refetch" /\ req' = [req EXCEPT ![r] = Decided(Answered(req[r]), FALSE)]
      /\ UNCHANGED <<memberCanModify, github, caches, data>>
  BY DEF MembershipNotFetched
<1>2. /\ req[r] \in Request /\ req[r].user \in Users
      /\ Versioned(req[r]) /\ InStep(req[r]) /\ Entitled(req[r])
  BY <1>1, Known
<1>3. PICK p \in Request : /\ p = Answered(req[r]) /\ p.pc = req[r].pc /\ p.user = req[r].user
                           /\ p.op = req[r].op /\ p.row = req[r].row /\ p.asked
  BY <1>2, Turns
<1>4. p.op # "read" /\ Versioned(p)
  BY <1>1, <1>2, <1>3 DEF InStep, Versioned
<1>5. CASE req[r].pc = "fetch" /\ req' = [req EXCEPT ![r] = Refused(p)]
  <2>1. PICK q \in Request : q = Refused(p) /\ q.pc = "denied" /\ q.asked
    BY <1>3, Turns
  <2>2. Entitled(q) /\ Versioned(q) /\ InStep(q)
    BY <2>1 DEF Entitled, Versioned, InStep
  <2>3. req' = [req EXCEPT ![r] = q]
    BY <1>5, <2>1
  <2>4. QED
    BY <1>1, <2>2, <2>3, SameCaches, RequestStep
<1>6. CASE req[r].pc = "refetch" /\ req' = [req EXCEPT ![r] = Decided(p, FALSE)]
  <2>1. (memberCanModify \/ FALSE) => age[p.user].modifier <= OrgTTL
    BY <1>2, <1>3, <1>6 DEF Entitled
  <2>2. /\ Decided(p, FALSE) \in Request /\ Entitled(Decided(p, FALSE))
        /\ Versioned(Decided(p, FALSE)) /\ InStep(Decided(p, FALSE))
    BY <1>2, <1>3, <1>4, <1>6, <2>1, DecidedFits
  <2>3. QED
    BY <1>1, <1>6, <2>2, SameCaches, RequestStep
<1>7. QED
  BY <1>1, <1>3, <1>5, <1>6

LEMMA SaveMembershipStep ==
  ASSUME TypeOK, PolicyInv, NEW r \in Requests, SaveMembership(r)
  PROVE  TypeOK' /\ PolicyInv'
<1>1. /\ req[r].pc = "save"
      /\ \/ membership' = membership
         \/ membership' = [membership EXCEPT ![req[r].user] = [admin |-> req[r].admin, age |-> 0]]
      /\ req' = [req EXCEPT ![r] = Decided(req[r], req[r].admin)]
      /\ UNCHANGED <<memberCanModify, github, reading, data>>
  BY DEF SaveMembership
<1>2. /\ req[r] \in Request /\ req[r].user \in Users /\ age[req[r].user] \in Age
      /\ Versioned(req[r]) /\ InStep(req[r]) /\ Entitled(req[r])
  BY <1>1, Known
<1>3. req[r].admin \in BOOLEAN /\ req[r].op # "read"
      /\ ((memberCanModify \/ req[r].admin) => age[req[r].user].modifier = 0)
  BY <1>1, <1>2 DEF Request, InStep, Entitled
<1>4. CacheInv' /\ membership' \in [Users -> Member]
      /\ reading' \in [Users -> 0 .. RepoTTL \cup {Uncached}]
  <2>1. UNCHANGED <<memberCanModify, age, reading>>
    BY <1>1 DEF github
  <2>2. CASE membership' = membership
    BY <2>1, <2>2, Typed DEF PolicyInv, CacheInv
  <2>3. CASE membership' = [membership EXCEPT ![req[r].user] = [admin |-> req[r].admin, age |-> 0]]
    <3>1. [admin |-> req[r].admin, age |-> 0] \in Member /\ 0 \in 0 .. OrgTTL
      BY <1>3, Times DEF Member
    <3>2. \A u \in Users : membership'[u] = IF u = req[r].user THEN [admin |-> req[r].admin, age |-> 0]
                                             ELSE membership[u]
      BY <2>3, Typed
    <3>3. membership' \in [Users -> Member]
      BY <2>3, <3>1, Typed
    <3>4. CacheInv'
      <4>1. ASSUME NEW u \in Users
            PROVE  /\ membership'[u] # NoMembership => membership'[u].age \in 0 .. OrgTTL
                   /\ (membership'[u] # NoMembership /\ (memberCanModify \/ membership'[u].admin))
                         => age[u].modifier <= membership'[u].age
                   /\ reading[u] # Uncached => age[u].reader <= reading[u]
        BY <1>3, <3>1, <3>2, Times DEF PolicyInv, CacheInv
      <4>2. QED
        BY <2>1, <4>1 DEF CacheInv
    <3>5. QED
      BY <2>1, <3>3, <3>4, Typed
  <2>4. QED
    BY <1>1, <2>2, <2>3
<1>5. /\ Decided(req[r], req[r].admin) \in Request /\ Entitled(Decided(req[r], req[r].admin))
      /\ Versioned(Decided(req[r], req[r].admin)) /\ InStep(Decided(req[r], req[r].admin))
  <2>1. (memberCanModify \/ req[r].admin) => age[req[r].user].modifier <= OrgTTL
    BY <1>3, Times
  <2>2. req[r].asked
    BY <1>1, <1>2 DEF Entitled
  <2>3. QED
    BY <1>1, <1>2, <1>3, <2>1, <2>2, DecidedFits
<1>6. QED
  BY <1>1, <1>4, <1>5, RequestStep

LEMMA FetchRepoStep ==
  ASSUME TypeOK, PolicyInv, NEW r \in Requests, FetchRepo(r)
  PROVE  TypeOK' /\ PolicyInv'
<1>1. /\ req[r].pc = "askRepo"
      /\ \/ /\ req[r].user \in access
            /\ req' = [req EXCEPT ![r] = Continue(Answered(req[r]), "saveRepo")]
         \/ req[r].user = SiteAdmin /\ req' = [req EXCEPT ![r] = Allowed(req[r])]
         \/ req' = [req EXCEPT ![r] = Refused(Answered(req[r]))]
      /\ UNCHANGED <<memberCanModify, github, caches, data>>
  BY DEF FetchRepo
<1>2. /\ req[r] \in Request /\ req[r].user \in Users /\ req[r].op = "read"
      /\ Answered(req[r]) \in Request /\ Answered(req[r]).user = req[r].user
      /\ Answered(req[r]).op = "read" /\ Answered(req[r]).asked
  BY <1>1, Known, Turns DEF InStep
<1>3. PICK q \in Request :
         /\ req' = [req EXCEPT ![r] = q]
         /\ \/ /\ q.pc = "saveRepo" /\ q.user = req[r].user /\ q.op = "read"
               /\ req[r].user \in access
            \/ q.pc = "allowed" /\ q.user = req[r].user /\ q.op = "read" /\ q.user = SiteAdmin
            \/ q.pc = "denied" /\ q.asked
  <2>1. CASE /\ req[r].user \in access
             /\ req' = [req EXCEPT ![r] = Continue(Answered(req[r]), "saveRepo")]
    <3>1. PICK q \in Request : /\ q = Continue(Answered(req[r]), "saveRepo") /\ q.pc = "saveRepo"
                               /\ q.user = req[r].user /\ q.op = "read"
      BY <1>2, Turns
    <3>2. QED
      BY <2>1, <3>1
  <2>2. CASE req[r].user = SiteAdmin /\ req' = [req EXCEPT ![r] = Allowed(req[r])]
    <3>1. PICK q \in Request : /\ q = Allowed(req[r]) /\ q.pc = "allowed"
                               /\ q.user = req[r].user /\ q.op = "read"
      BY <1>2, Turns
    <3>2. QED
      BY <2>2, <3>1
  <2>3. CASE req' = [req EXCEPT ![r] = Refused(Answered(req[r]))]
    <3>1. PICK q \in Request : q = Refused(Answered(req[r])) /\ q.pc = "denied" /\ q.asked
      BY <1>2, Turns
    <3>2. QED
      BY <2>3, <3>1
  <2>4. QED
    BY <1>1, <2>1, <2>2, <2>3
<1>4. req[r].user \in access => age[req[r].user].reader = 0
  BY <1>2 DEF PolicyInv, GithubInv
<1>5. Entitled(q)
  BY <1>3, <1>4 DEF Entitled
<1>6. Versioned(q) /\ InStep(q)
  BY <1>2, <1>3 DEF Versioned, InStep
<1>7. QED
  BY <1>1, <1>3, <1>5, <1>6, SameCaches, RequestStep

LEMMA SaveAccessStep ==
  ASSUME TypeOK, PolicyInv, NEW r \in Requests, SaveAccess(r)
  PROVE  TypeOK' /\ PolicyInv'
<1>1. /\ req[r].pc = "saveRepo"
      /\ reading' \in {reading, [reading EXCEPT ![req[r].user] = 0]}
      /\ req' = [req EXCEPT ![r] = Allowed(req[r])]
      /\ UNCHANGED <<memberCanModify, github, membership, data>>
  BY DEF SaveAccess
<1>2. /\ req[r] \in Request /\ req[r].user \in Users /\ req[r].op = "read"
      /\ age[req[r].user].reader = 0
  BY <1>1, Known DEF InStep, Entitled
<1>3. PICK q \in Request : /\ q = Allowed(req[r]) /\ q.pc = "allowed" /\ q.user = req[r].user
                           /\ q.op = "read"
  BY <1>2, Turns
<1>4. Entitled(q) /\ Versioned(q) /\ InStep(q)
  BY <1>2, <1>3, Times DEF Entitled, Versioned, InStep
<1>5. reading' \in [Users -> 0 .. RepoTTL \cup {Uncached}]
  BY <1>1, Typed, Times
<1>6. CacheInv'
  <2>1. UNCHANGED <<memberCanModify, age, membership>>
    BY <1>1 DEF github
  <2>2. \A u \in Users : reading'[u] = reading[u] \/ (u = req[r].user /\ reading'[u] = 0)
    BY <1>1, Typed
  <2>3. QED
    BY <1>2, <2>1, <2>2 DEF PolicyInv, CacheInv
<1>7. req' = [req EXCEPT ![r] = q] /\ membership' \in [Users -> Member]
  BY <1>1, <1>3, Typed
<1>8. QED
  BY <1>1, <1>4, <1>5, <1>6, <1>7, RequestStep

\* A request ends, its answer sent.
LEMMA StopStep ==
  ASSUME TypeOK, PolicyInv, NEW r \in Requests, Stop(r),
         UNCHANGED <<memberCanModify, github, caches, data>>
  PROVE  TypeOK' /\ PolicyInv'
<1>0. Idle \in Request /\ Idle.pc = "idle"
  BY DEF Idle, Request, Ops
<1>1. PICK q \in Request : q = Idle /\ q.pc = "idle"
  BY <1>0
<1>2. Entitled(q) /\ Versioned(q) /\ InStep(q)
  BY <1>1 DEF Entitled, Versioned, InStep
<1>3. req' = [req EXCEPT ![r] = q]
  BY <1>1 DEF Stop
<1>4. QED
  BY <1>2, <1>3, SameCaches, RequestStep

LEMMA AnswerGetStep ==
  ASSUME TypeOK, PolicyInv, NEW r \in Requests, AnswerGet(r)
  PROVE  TypeOK' /\ PolicyInv'
<1>1. /\ req[r].pc = "allowed" /\ req[r].op = "get"
      /\ form' = [form EXCEPT ![req[r].user] = req[r].row]
      /\ req' = [req EXCEPT ![r] = Idle]
      /\ UNCHANGED <<memberCanModify, role, access, age, membership, reading, org, accepted>>
  BY DEF AnswerGet, Stop, github, caches
<1>2. /\ req[r].user \in Users /\ req[r].row \in Rows /\ req[r].row.version <= org.version
      /\ req[r].row.version = org.version => req[r].row.settings = org.settings
  BY <1>1, Known DEF Versioned
<1>3. \A u \in Users : form'[u] = IF u = req[r].user THEN req[r].row ELSE form[u]
  BY <1>1, Typed
<1>4. VersionNamesSettings'
  BY <1>1, <1>2, <1>3 DEF PolicyInv, VersionNamesSettings
<1>5. form' \in [Users -> Rows] /\ Idle \in Request
  BY <1>1, <1>2, Typed DEF Idle, Request, Ops
<1>6. TypeOK'
  BY <1>1, <1>5 DEF TypeOK, Request
<1>7. GithubInv' /\ CacheInv' /\ EditsKept'
  BY <1>1 DEF PolicyInv, GithubInv, CacheInv, EditsKept, Suffices
<1>8. RequestInv'
  <2> SUFFICES ASSUME NEW s \in Requests
               PROVE (Entitled(req[s]) /\ Versioned(req[s]) /\ InStep(req[s]))'
    BY DEF RequestInv
  <2>1. \/ req'[s] = req[s]
        \/ req'[s] = Idle
    BY <1>1, Typed
  <2>2. Idle.pc = "idle"
    BY DEF Idle
  <2>3. CASE req'[s] = Idle
    BY <2>2, <2>3 DEF Entitled, Versioned, InStep
  <2>4. CASE req'[s] = req[s]
    BY <1>1, <2>4 DEF PolicyInv, RequestInv, Entitled, Versioned, InStep
  <2>5. QED
    BY <2>1, <2>3, <2>4
<1>9. QED
  BY <1>4, <1>6, <1>7, <1>8 DEF PolicyInv

LEMMA SaveSettingsStep ==
  ASSUME TypeOK, PolicyInv, NEW r \in Requests, SaveSettings(r)
  PROVE  TypeOK' /\ PolicyInv'
<1>1. req[r].pc = "allowed" /\ req[r].op = "update" /\ Stop(r)
      /\ UNCHANGED <<memberCanModify, github, caches>>
  BY DEF SaveSettings
<1>2. /\ req[r] \in Request /\ req[r].user \in Users /\ req[r].row \in Rows
      /\ req[r].row.version \in Nat /\ req[r].row.settings \in Settings
      /\ req[r].row.version = org.version =>
            req[r].row.settings = [org.settings EXCEPT ![req[r].user] = @ + 1]
  BY <1>1, Known DEF Versioned, Rows
<1>3. CASE UNCHANGED data
  BY <1>1, <1>3, StopStep
<1>4. ASSUME NEW row, row = [req[r].row EXCEPT !.version = @ + 1],
             org.version = req[r].row.version, org' = row,
             form' = [form EXCEPT ![req[r].user] = row],
             accepted' = [accepted EXCEPT ![req[r].user] = @ + 1]
      PROVE  TypeOK' /\ PolicyInv'
  <2>1. row \in Rows /\ row.version = org.version + 1 /\ row.settings = req[r].row.settings
    BY <1>2, <1>4 DEF Rows
  <2>2. /\ UNCHANGED <<memberCanModify, role, access, age, membership, reading>>
        /\ req' = [req EXCEPT ![r] = Idle]
    BY <1>1 DEF github, caches, Stop
  <2>3. row.settings = [org.settings EXCEPT ![req[r].user] = @ + 1] /\ org.settings = accepted
    BY <1>2, <1>4, <2>1 DEF PolicyInv, EditsKept
  <2>4. EditsKept' /\ accepted' \in Settings
    BY <1>2, <1>4, <2>1, <2>3 DEF EditsKept
  <2>5. org \in Rows /\ org.version \in Nat
    BY Typed DEF Rows
  <2>6. \A u \in Users : form'[u] = IF u = req[r].user THEN row ELSE form[u]
    BY <1>4, Typed
  <2>7. VersionNamesSettings'
    <3>1. ASSUME NEW u \in Users
          PROVE  form'[u].version <= org'.version
                 /\ (form'[u].version = org'.version => form'[u].settings = org'.settings)
      <4>1. form[u].version \in Nat /\ form[u].version <= org.version
        BY Typed DEF Rows, PolicyInv, VersionNamesSettings
      <4>2. QED
        BY <1>4, <2>1, <2>5, <2>6, <4>1
    <3>2. QED
      BY <3>1 DEF VersionNamesSettings
  <2>8. form' \in [Users -> Rows] /\ Idle \in Request
    BY <1>2, <1>4, <2>1, Typed DEF Idle, Request, Ops
  <2>9. TypeOK'
    BY <1>4, <2>1, <2>2, <2>4, <2>8 DEF TypeOK, Request
  <2>10. GithubInv' /\ CacheInv'
    BY <2>2 DEF PolicyInv, GithubInv, CacheInv, Suffices
  <2>11. RequestInv'
    <3> SUFFICES ASSUME NEW s \in Requests
                 PROVE (Entitled(req[s]) /\ Versioned(req[s]) /\ InStep(req[s]))'
      BY DEF RequestInv
    <3>1. req'[s] = req[s] \/ req'[s] = Idle
      BY <2>2, Typed
    <3>2. Idle.pc = "idle"
      BY DEF Idle
    <3>3. CASE req'[s] = Idle
      BY <3>2, <3>3 DEF Entitled, Versioned, InStep
    <3>4. CASE req'[s] = req[s]
      <4>1. Entitled(req[s]) /\ Versioned(req[s]) /\ InStep(req[s])
        BY DEF PolicyInv, RequestInv
      <4>2. Entitled(req[s])' /\ InStep(req[s])'
        BY <2>2, <3>4, <4>1 DEF Entitled, InStep
      <4>3. Versioned(req[s])'
        <5>1. SUFFICES ASSUME req[s].pc \notin {"idle", "denied"}, req[s].op # "read"
              PROVE  req[s].row \in Rows /\ req[s].row.version < org'.version
          BY <1>4, <2>1, <3>4 DEF Versioned, Rows
        <5>2. req[s].row \in Rows /\ req[s].row.version <= org.version
          BY <4>1, <5>1 DEF Versioned
        <5>3. req[s].row.version \in Nat
          BY <5>2 DEF Rows
        <5>4. QED
          BY <1>4, <2>1, <2>5, <5>2, <5>3
      <4>4. QED
        BY <4>2, <4>3
    <3>5. QED
      BY <3>1, <3>3, <3>4
  <2>12. QED
    BY <2>4, <2>7, <2>9, <2>10, <2>11 DEF PolicyInv
<1>5. QED
  BY <1>3, <1>4 DEF SaveSettings

(***************************************************************************)
(* GitHub and time                                                         *)
(***************************************************************************)

\* GitHub changes its mind: ages stay or start anew.
LEMMA GithubStep ==
  ASSUME TypeOK, PolicyInv, UNCHANGED <<memberCanModify, caches, data, req>>,
         role' \in [Users -> Roles], access' \subseteq Users, age' \in [Users -> Age],
         \A u \in Users : /\ age'[u].modifier \in {0, age[u].modifier}
                          /\ age'[u].reader \in {0, age[u].reader},
         GithubInv'
  PROVE  TypeOK' /\ PolicyInv'
<1>1. UNCHANGED <<memberCanModify, membership, reading, org, form, accepted, req>>
  BY DEF caches, data
<1>2. TypeOK'
  BY <1>1 DEF TypeOK, Age
<1>3. VersionNamesSettings' /\ EditsKept'
  BY <1>1 DEF PolicyInv, VersionNamesSettings, EditsKept
<1>4. \A u \in Users : /\ age[u].modifier \in Nat /\ age'[u].modifier <= age[u].modifier
                       /\ age[u].reader \in Nat /\ age'[u].reader <= age[u].reader
                       /\ age'[u].modifier \in Nat /\ age'[u].reader \in Nat
  BY Typed, Times DEF Age
<1>5. CacheInv'
  <2>1. ASSUME NEW u \in Users
        PROVE  /\ membership[u] # NoMembership => membership[u].age \in 0 .. OrgTTL
               /\ (membership[u] # NoMembership /\ (memberCanModify \/ membership[u].admin))
                     => age'[u].modifier <= membership[u].age
               /\ reading[u] # Uncached => age'[u].reader <= reading[u]
    <3>1. reading[u] \in Nat
      BY Typed, Times
    <3>2. QED
      BY <1>4, <3>1, Times DEF PolicyInv, CacheInv
  <2>2. QED
    BY <1>1, <2>1 DEF CacheInv
<1>6. RequestInv'
  <2> SUFFICES ASSUME NEW s \in Requests
               PROVE (Entitled(req[s]) /\ Versioned(req[s]) /\ InStep(req[s]))'
    BY DEF RequestInv
  <2>1. Entitled(req[s]) /\ Versioned(req[s]) /\ InStep(req[s])
    BY DEF PolicyInv, RequestInv
  <2>2. Versioned(req[s])' /\ InStep(req[s])'
    BY <1>1, <2>1 DEF Versioned, InStep
  <2>3. Entitled(req[s])'
    <3>1. CASE req[s].pc \in {"idle", "denied"}
      BY <1>1, <2>1, <3>1 DEF Entitled
    <3>2. CASE req[s].pc \notin {"idle", "denied"}
      <4>1. PICK u \in Users : u = req[s].user
        BY <2>1, <3>2 DEF InStep
      <4>2. QED
        BY <1>1, <1>4, <2>1, <3>2, <4>1, Times DEF Entitled
    <3>3. QED
      BY <3>1, <3>2
  <2>4. QED
    BY <2>2, <2>3
<1>7. QED
  BY <1>2, <1>3, <1>5, <1>6 DEF PolicyInv

LEMMA ChangeRoleStep ==
  ASSUME TypeOK, PolicyInv, NEW u \in Users, NEW new \in Roles, ChangeRole(u, new)
  PROVE  TypeOK' /\ PolicyInv'
<1>1. /\ role' = [role EXCEPT ![u] = new]
      /\ age' = [age EXCEPT ![u] = [age[u] EXCEPT !.modifier =
                    IF Suffices(role[u]) \/ Suffices(new) THEN 0 ELSE age[u].modifier]]
      /\ UNCHANGED <<memberCanModify, access, caches, data, req>>
  BY Typed DEF ChangeRole, Age
<1> DEFINE a == [age[u] EXCEPT !.modifier =
                   IF Suffices(role[u]) \/ Suffices(new) THEN 0 ELSE age[u].modifier]
<1>2. /\ a \in Age /\ a.reader = age[u].reader /\ a.modifier \in {0, age[u].modifier}
      /\ Suffices(new) => a.modifier = 0
  BY Typed, Times DEF Age
<1>3. age' = [age EXCEPT ![u] = a]
  BY <1>1
<1> HIDE DEF a
<1>4. \A v \in Users : /\ age'[v] = IF v = u THEN a ELSE age[v]
                       /\ role'[v] = IF v = u THEN new ELSE role[v]
  BY <1>1, <1>3, Typed
<1>5. /\ role' \in [Users -> Roles] /\ access' \subseteq Users /\ age' \in [Users -> Age]
      /\ \A v \in Users : /\ age'[v].modifier \in {0, age[v].modifier}
                           /\ age'[v].reader \in {0, age[v].reader}
  <2>1. age' \in [Users -> Age] /\ role' \in [Users -> Roles]
    BY <1>1, <1>2, <1>3, Typed
  <2>2. access' \subseteq Users
    BY <1>1 DEF TypeOK
  <2>3. QED
    BY <1>2, <1>4, <2>1, <2>2
<1>6. GithubInv'
  <2>1. ASSUME NEW v \in Users
        PROVE  /\ Suffices(role'[v]) => age'[v].modifier = 0
               /\ v \in access => age'[v].reader = 0
    BY <1>2, <1>4 DEF PolicyInv, GithubInv
  <2>2. QED
    BY <1>1, <2>1 DEF GithubInv, Suffices
<1>7. QED
  BY <1>1, <1>5, <1>6, GithubStep

LEMMA ChangeAccessStep ==
  ASSUME TypeOK, PolicyInv, NEW u \in Users, ChangeAccess(u)
  PROVE  TypeOK' /\ PolicyInv'
<1>1. /\ access' = (access \cup {u}) \ (access \cap {u})
      /\ age' = [age EXCEPT ![u] = [age[u] EXCEPT !.reader = 0]]
      /\ UNCHANGED <<memberCanModify, role, caches, data, req>>
  BY DEF ChangeAccess
<1> DEFINE a == [age[u] EXCEPT !.reader = 0]
<1>2. a \in Age /\ a.reader = 0 /\ a.modifier = age[u].modifier
  BY Typed, Times DEF Age
<1>3. age' = [age EXCEPT ![u] = a]
  BY <1>1
<1> HIDE DEF a
<1>4. \A v \in Users : age'[v] = IF v = u THEN a ELSE age[v]
  BY <1>3, Typed
<1>5. /\ role' \in [Users -> Roles] /\ access' \subseteq Users /\ age' \in [Users -> Age]
      /\ \A v \in Users : /\ age'[v].modifier \in {0, age[v].modifier}
                           /\ age'[v].reader \in {0, age[v].reader}
  <2>1. age' \in [Users -> Age] /\ role' \in [Users -> Roles]
    BY <1>1, <1>2, <1>3, Typed
  <2>2. access' \subseteq Users
    BY <1>1 DEF TypeOK
  <2>3. QED
    BY <1>2, <1>4, <2>1, <2>2
<1>6. GithubInv'
  <2>1. ASSUME NEW v \in Users
        PROVE  /\ Suffices(role[v]) => age'[v].modifier = 0
               /\ v \in access' => age'[v].reader = 0
    BY <1>1, <1>2, <1>4 DEF PolicyInv, GithubInv
  <2>2. QED
    BY <1>1, <2>1 DEF GithubInv, Suffices
<1>7. QED
  BY <1>1, <1>5, <1>6, GithubStep

LEMMA TickStep ==
  ASSUME TypeOK, PolicyInv, Tick
  PROVE  TypeOK' /\ PolicyInv'
<1>1. /\ \A r \in Requests : req[r].pc = "idle"
      /\ UNCHANGED <<memberCanModify, role, access, org, form, accepted, req>>
  BY DEF Tick, data
<1>3. age' = [u \in Users |-> [modifier |-> Older(age[u].modifier, Suffices(role[u])),
                               reader   |-> Older(age[u].reader, u \in access)]]
  BY DEF Tick
<1>4. ASSUME NEW u \in Users
      PROVE  /\ age[u].modifier \in 0 .. Oldest /\ age[u].reader \in 0 .. Oldest
             /\ age'[u] \in Age
             /\ age'[u].modifier <= age[u].modifier + 1 /\ age'[u].reader <= age[u].reader + 1
             /\ Suffices(role[u]) => age'[u].modifier = 0
             /\ u \in access => age'[u].reader = 0
  <2>1. age[u].modifier \in 0 .. Oldest /\ age[u].reader \in 0 .. Oldest
    BY Typed DEF Age
  <2>2. age'[u].modifier = Older(age[u].modifier, Suffices(role[u]))
        /\ age'[u].reader = Older(age[u].reader, u \in access)
        /\ age'[u] = [modifier |-> Older(age[u].modifier, Suffices(role[u])),
                      reader   |-> Older(age[u].reader, u \in access)]
    BY <1>3
  <2>3. PICK m \in 0 .. Oldest, n \in 0 .. Oldest :
           /\ m = Older(age[u].modifier, Suffices(role[u])) /\ m <= age[u].modifier + 1
           /\ n = Older(age[u].reader, u \in access) /\ n <= age[u].reader + 1
           /\ Suffices(role[u]) => m = 0
           /\ u \in access => n = 0
    BY <2>1, Times DEF Older
  <2>4. age'[u] = [modifier |-> m, reader |-> n]
    BY <2>2, <2>3
  <2>5. QED
    BY <2>1, <2>3, <2>4 DEF Age
<1>5. age' \in [Users -> Age]
  BY <1>3, <1>4
<1>6. ASSUME NEW u \in Users
      PROVE  /\ membership'[u] \in Member
             /\ membership'[u] # NoMembership =>
                  /\ membership[u] # NoMembership
                  /\ membership'[u].admin = membership[u].admin
                  /\ membership[u].age \in 0 .. OrgTTL
                  /\ membership'[u].age = membership[u].age + 1
                  /\ membership'[u].age \in 0 .. OrgTTL
  <2>1. membership'[u] = IF Expire(membership[u].age, OrgTTL) = Uncached THEN NoMembership
                         ELSE [membership[u] EXCEPT !.age = @ + 1]
    BY DEF Tick
  <2>2. membership[u] \in Member /\ membership[u].age \in 0 .. OrgTTL \cup {Uncached}
    BY Typed DEF Member
  <2>3. NoMembership \in Member /\ NoMembership.age = Uncached
    BY DEF NoMembership, Member
  <2>4. CASE Expire(membership[u].age, OrgTTL) = Uncached
    BY <2>1, <2>3, <2>4
  <2>5. CASE Expire(membership[u].age, OrgTTL) # Uncached
    <3>1. membership[u].age < OrgTTL /\ membership[u].age \in 0 .. OrgTTL
      BY <2>2, <2>5, Times DEF Expire
    <3>2. membership[u].age + 1 \in 0 .. OrgTTL
      BY <3>1, Times
    <3>3. membership'[u] = [membership[u] EXCEPT !.age = membership[u].age + 1]
      BY <2>1, <2>5
    <3>4. /\ membership'[u] \in Member /\ membership'[u].admin = membership[u].admin
          /\ membership'[u].age = membership[u].age + 1
      BY <2>2, <3>2, <3>3 DEF Member
    <3>5. membership[u] # NoMembership
      BY <2>3, <3>1, Times
    <3>6. QED
      BY <3>1, <3>2, <3>4, <3>5
  <2>6. QED
    BY <2>4, <2>5
<1>7. membership' \in [Users -> Member]
  BY <1>6 DEF Tick
<1>8. ASSUME NEW u \in Users
      PROVE  /\ reading'[u] \in 0 .. RepoTTL \cup {Uncached}
             /\ reading'[u] # Uncached => /\ reading[u] \in 0 .. RepoTTL
                                          /\ reading[u] # Uncached
                                          /\ reading'[u] = reading[u] + 1
  <2>1. reading'[u] = Expire(reading[u], RepoTTL) /\ reading[u] \in 0 .. RepoTTL \cup {Uncached}
    BY Typed DEF Tick
  <2>2. QED
    BY <2>1, Times DEF Expire
<1>9. reading' \in [Users -> 0 .. RepoTTL \cup {Uncached}]
  BY <1>8 DEF Tick
<1>10. TypeOK'
  BY <1>1, <1>5, <1>7, <1>9 DEF TypeOK, Age, Member
<1>11. VersionNamesSettings' /\ EditsKept'
  BY <1>1 DEF PolicyInv, VersionNamesSettings, EditsKept
<1>12. GithubInv'
  BY <1>1, <1>4 DEF GithubInv, Suffices
<1>13. CacheInv'
  <2>1. ASSUME NEW u \in Users
        PROVE  /\ membership'[u] # NoMembership => membership'[u].age \in 0 .. OrgTTL
               /\ (membership'[u] # NoMembership /\ (memberCanModify \/ membership'[u].admin))
                     => age'[u].modifier <= membership'[u].age
               /\ reading'[u] # Uncached => age'[u].reader <= reading'[u]
    <3>1. /\ (membership[u] # NoMembership /\ (memberCanModify \/ membership[u].admin))
                => age[u].modifier <= membership[u].age
          /\ reading[u] # Uncached => age[u].reader <= reading[u]
      BY DEF PolicyInv, CacheInv
    <3>2. age'[u].modifier \in Nat /\ age'[u].reader \in Nat
      BY <1>4, Times DEF Age
    <3>3. QED
      BY <1>4, <1>6, <1>8, <3>1, <3>2, Times
  <2>2. QED
    BY <1>1, <2>1 DEF CacheInv
<1>14. RequestInv'
  BY <1>1 DEF RequestInv, Entitled, Versioned, InStep
<1>15. QED
  BY <1>10, <1>11, <1>12, <1>13, <1>14 DEF PolicyInv

(***************************************************************************)
(* The theorems                                                            *)
(***************************************************************************)

LEMMA StepInv == IInv /\ [Next]_vars => IInv'
<1> SUFFICES ASSUME TypeOK, PolicyInv, [Next]_vars PROVE TypeOK' /\ PolicyInv'
  BY DEF IInv
<1>1. ASSUME NEW r \in Requests, Denied(r) \/ AnswerRead(r) PROVE TypeOK' /\ PolicyInv'
  BY <1>1, StopStep DEF Denied, AnswerRead
<1>2. CASE UNCHANGED vars
  BY <1>2 DEF vars, TypeOK, PolicyInv, GithubInv, Suffices, CacheInv, RequestInv, Entitled,
              Versioned, InStep, VersionNamesSettings, EditsKept
<1>3. QED
  BY <1>1, <1>2, ChangeAccessStep, ChangeRoleStep, TickStep, GetStep, UpdateStep, ReadStep,
     FetchMembershipStep, NotFetchedStep, SaveMembershipStep, AnswerGetStep, SaveSettingsStep,
     FetchRepoStep, SaveAccessStep DEF Next

\* In every reachable state the inductive invariant holds.
THEOREM PolicyInvariant == Spec => []IInv
<1>1. QED
  BY InitInv, StepInv, PTL DEF Spec

\* Every variable keeps its type (OrgPolicy.TypeOK).
THEOREM TypeCorrect == Spec => []TypeOK
<1>1. IInv => TypeOK
  BY DEF IInv
<1>2. QED
  BY <1>1, PolicyInvariant, PTL

\* The version guards the settings: no accepted edit is lost
\* (OrgPolicy.EditsKept).
THEOREM NoLostEdit == Spec => []EditsKept
<1>1. IInv => EditsKept
  BY DEF IInv, PolicyInv
<1>2. QED
  BY <1>1, PolicyInvariant, PTL

\* A version stands for one content of the settings
\* (OrgPolicy.VersionNamesSettings).
THEOREM VersionsName == Spec => []VersionNamesSettings
<1>1. IInv => VersionNamesSettings
  BY DEF IInv, PolicyInv
<1>2. QED
  BY <1>1, PolicyInvariant, PTL

\* No cache stretches a membership beyond OrgTTL (OrgPolicy.ModifiedInTime).
THEOREM ModifiersAreRecent == Spec => []ModifiedInTime
<1>1. IInv => ModifiedInTime
  BY DEF IInv, PolicyInv, RequestInv, Entitled, ModifiedInTime
<1>2. QED
  BY <1>1, PolicyInvariant, PTL

\* Only GitHub's answer refuses a request (OrgPolicy.RefusedByGithub).
THEOREM GithubRefuses == Spec => []RefusedByGithub
<1>1. IInv => RefusedByGithub
  BY DEF IInv, PolicyInv, RequestInv, Entitled, RefusedByGithub
<1>2. QED
  BY <1>1, PolicyInvariant, PTL

\* No cache stretches an access beyond RepoTTL (OrgPolicy.ReadInTime).
THEOREM ReadersAreRecent == Spec => []ReadInTime
<1>1. IInv => ReadInTime
  BY DEF IInv, PolicyInv, RequestInv, Entitled, ReadInTime
<1>2. QED
  BY <1>1, PolicyInvariant, PTL

=============================================================================
