----------------------------- MODULE LoginProofs -----------------------------
(***************************************************************************)
(* Proofs about Login, for any accounts, browsers, concurrent requests,    *)
(* flows and users.                                                        *)
(***************************************************************************)
EXTENDS Login, TLAPS

Flow == [browser : Browsers, kind : Kinds, account : Accounts \cup {NoAccount}, used : BOOLEAN]

(***************************************************************************)
(* The inductive invariant                                                 *)
(***************************************************************************)

\* The owner of user u, or the admin, consented in a flow begun in browser b.
Here(b, u) ==
    \E f \in 1 .. Len(flows) :
        flows[f].browser = b /\ flows[f].used /\ flows[f].account \in {users[u], Admin}

\* An OAuth session holds a flow of its own browser and kind.
OauthInv ==
    \A b \in Browsers, k \in Kinds : oauth[b][k] # 0 =>
        /\ oauth[b][k] \in 1 .. Len(flows)
        /\ flows[oauth[b][k]].browser = b
        /\ flows[oauth[b][k]].kind = k

\* The request of an accepted public callback is about a public flow of its
\* browser to which an account consented.
CallbackInv(r) ==
    req[r].pc \in {"select", "store", "commit"} =>
        /\ req[r].flow \in 1 .. Len(flows)
        /\ flows[req[r].flow].browser = req[r].browser
        /\ flows[req[r].flow].kind = "public"
        /\ flows[req[r].flow].used
        /\ flows[req[r].flow].account \in Accounts

\* Its user is the account's: a stored one, or one that only it knows.
UserInv(r) ==
    req[r].pc \in {"store", "commit"} =>
        /\ req[r].user \in 1 .. Len(users)
        /\ users[req[r].user] = flows[req[r].flow].account
        /\ IF req[r].new THEN req[r].user \notin committed \cup lost
                         ELSE req[r].user \in committed

\* What a handler leaves for the session
FinalInv(r) ==
    (req[r].pc = "finalize" /\ req[r].user # 0) =>
        req[r].user \in committed \cup lost /\ Here(req[r].browser, req[r].user)

ShapeInv(r) ==
    /\ req[r].pc # "idle" => req[r].browser \in Browsers
    /\ req[r].pc \in {"select", "store", "commit", "private", "finalize"} => req[r].kind \in Kinds
    /\ req[r].new => req[r].pc \in {"store", "commit"}

\* New users are known to one request each; one insertion of an account at a
\* time is waiting for its commit, and only while the account has no row.
NewInv ==
    /\ \A r, s \in Requests : (r # s /\ req[r].new /\ req[s].new) => req[r].user # req[s].user
    /\ \A r \in Requests : (req[r].pc = "commit" /\ req[r].new)
          => auth[flows[req[r].flow].account] = NoAuth
    /\ \A r, s \in Requests :
          (r # s /\ req[r].pc = "commit" /\ req[r].new /\ req[s].pc = "commit" /\ req[s].new)
              => flows[req[r].flow].account # flows[req[s].flow].account

RowInv ==
    \A a \in Accounts : auth[a] # NoAuth =>
        /\ auth[a].user \in committed
        /\ users[auth[a].user] = a
        /\ auth[a].token \in 1 .. Len(flows)
        /\ flows[auth[a].token].account = a
        /\ flows[auth[a].token].kind = "public"

SessInv == \A b \in Browsers : sess[b] # 0 => sess[b] \in committed \cup lost /\ Here(b, sess[b])

LoginInv ==
    /\ OauthInv
    /\ \A r \in Requests : CallbackInv(r) /\ UserInv(r) /\ FinalInv(r) /\ ShapeInv(r)
    /\ NewInv
    /\ RowInv
    /\ SessInv

IInv == TypeOK /\ LoginInv

(***************************************************************************)
(* Initially                                                               *)
(***************************************************************************)

LEMMA InitInv == Init => IInv
<1> SUFFICES ASSUME Init PROVE IInv
  OBVIOUS
<1>0. 0 \in UserIds /\ 0 \in FlowIds /\ Len(users) = 0 /\ Len(flows) = 0
  BY BoundsAssumption DEF Init, UserIds, FlowIds
<1>1. TypeOK
  BY <1>0, BoundsAssumption DEF Init, TypeOK, NoAuth, Idle
<1>2. OauthInv /\ SessInv /\ RowInv
  BY DEF Init, OauthInv, SessInv, RowInv
<1>3. \A r \in Requests : req[r].pc = "idle" /\ ~req[r].new
  BY DEF Init, Idle
<1>4. \A r \in Requests : CallbackInv(r) /\ UserInv(r) /\ FinalInv(r) /\ ShapeInv(r)
  BY <1>3 DEF CallbackInv, UserInv, FinalInv, ShapeInv
<1>5. NewInv
  BY <1>3 DEF NewInv
<1>6. QED
  BY <1>1, <1>2, <1>4, <1>5 DEF IInv, LoginInv

(***************************************************************************)
(* Flows and users only grow                                               *)
(***************************************************************************)

FlowsGrow ==
    /\ flows' \in Seq(Flow) /\ Len(flows') <= MaxFlows
    /\ Len(flows) <= Len(flows')
    /\ \A f \in 1 .. Len(flows) :
          /\ flows'[f].browser = flows[f].browser
          /\ flows'[f].kind = flows[f].kind
          /\ flows[f].used => flows'[f].used
          /\ flows[f].account # NoAccount => flows'[f].account = flows[f].account

UsersGrow ==
    /\ users' \in Seq(Accounts) /\ Len(users') <= MaxUsers
    /\ Len(users) <= Len(users')
    /\ \A u \in 1 .. Len(users) : users'[u] = users[u]

LEMMA BeginEffect ==
  ASSUME TypeOK, NEW b \in Browsers, NEW k \in Kinds, Begin(b, k)
  PROVE  /\ FlowsGrow
         /\ Len(flows') = Len(flows) + 1
         /\ flows'[Len(flows')].browser = b /\ flows'[Len(flows')].kind = k
         /\ oauth' = [oauth EXCEPT ![b][k] = Len(flows')]
         /\ Len(flows') \in FlowIds
<1> DEFINE new == [browser |-> b, kind |-> k, account |-> NoAccount, used |-> FALSE]
<1>1. flows \in Seq(Flow) /\ Len(flows) <= MaxFlows /\ new \in Flow
  BY DEF TypeOK, Flow
<1>2. Len(flows) < MaxFlows /\ flows' = Append(flows, new)
      /\ oauth' = [oauth EXCEPT ![b][k] = Len(flows')]
  BY DEF Begin
<1>3. flows' \in Seq(Flow) /\ Len(flows') = Len(flows) + 1 /\ flows'[Len(flows) + 1] = new
      /\ \A f \in 1 .. Len(flows) : flows'[f] = flows[f]
  <2> HIDE DEF new
  <2>1. QED
    BY <1>1, <1>2
<1>4. Len(flows) \in Nat /\ MaxFlows \in Nat
  BY <1>1, BoundsAssumption
<1>5. FlowsGrow
  BY <1>2, <1>3, <1>4 DEF FlowsGrow
<1>6. flows'[Len(flows')].browser = b /\ flows'[Len(flows')].kind = k
  BY <1>3
<1>7. Len(flows') \in FlowIds
  BY <1>2, <1>3, <1>4 DEF FlowIds
<1>8. QED
  BY <1>2, <1>3, <1>5, <1>6, <1>7

LEMMA SameFlows == TypeOK /\ flows' = flows => FlowsGrow
BY BoundsAssumption DEF TypeOK, FlowsGrow, Flow

LEMMA SameUsers == TypeOK /\ users' = users => UsersGrow
BY BoundsAssumption DEF TypeOK, UsersGrow

\* What an accepted callback and a refused one leave of the request
TakenUp(b, k, f, u, next) ==
    [Idle EXCEPT !.pc = next, !.browser = b, !.kind = k, !.flow = f, !.user = u]
TurnedDown(b, k) == [Idle EXCEPT !.pc = "finalize", !.browser = b, !.kind = k]

LEMMA CallbackEffect ==
  ASSUME TypeOK, NEW r \in Requests, NEW b \in Browsers, NEW k \in Kinds,
         NEW f \in 1 .. Len(flows), NEW u, NEW next, HandleCallback(r, b, k, f, u, next)
  PROVE  /\ FlowsGrow
         /\ \/ /\ oauth[b][k] = f /\ f # 0
               /\ flows'[f].used /\ flows[f].account \in Accounts
               /\ req' = [req EXCEPT ![r] = TakenUp(b, k, f, u, next)]
            \/ req' = [req EXCEPT ![r] = TurnedDown(b, k)]
<1>0. flows \in Seq(Flow) /\ Len(flows) <= MaxFlows
  BY DEF TypeOK, Flow
<1>1. flows \in Seq(Flow) /\ Len(flows) <= MaxFlows /\ flows[f] \in Flow
  BY <1>0
<1>2. CASE Accepted(b, k, f) /\ UseCode(f)
  <2>1. flows' = [flows EXCEPT ![f].used = TRUE]
    BY <1>2 DEF UseCode
  <2>2. flows' \in Seq(Flow) /\ Len(flows') = Len(flows) /\ flows'[f].used
        /\ \A g \in 1 .. Len(flows) : /\ flows'[g].browser = flows[g].browser
                                      /\ flows'[g].kind = flows[g].kind
                                      /\ flows[g].used => flows'[g].used
                                      /\ flows'[g].account = flows[g].account
    <3>1. [flows[f] EXCEPT !.used = TRUE] \in Flow
      BY <1>1 DEF Flow
    <3>2. flows' = [flows EXCEPT ![f] = [flows[f] EXCEPT !.used = TRUE]]
      BY <2>1
    <3> DEFINE new == [flows[f] EXCEPT !.used = TRUE]
    <3>3. new.used /\ new.browser = flows[f].browser /\ new.kind = flows[f].kind
          /\ new.account = flows[f].account
      BY <1>1 DEF Flow
    <3>4. flows' \in Seq(Flow) /\ Len(flows') = Len(flows) /\ flows'[f] = new
          /\ \A g \in 1 .. Len(flows) : g # f => flows'[g] = flows[g]
      <4>1. flows' = [flows EXCEPT ![f] = new] /\ new \in Flow
        BY <3>1, <3>2
      <4> HIDE DEF new
      <4>2. QED
        BY <1>1, <4>1
    <3> HIDE DEF new
    <3>5. QED
      BY <3>3, <3>4
  <2>3. FlowsGrow
    BY <1>1, <2>2, BoundsAssumption DEF FlowsGrow
  <2>4. oauth[b][k] = f /\ f # 0 /\ flows[f].account \in Accounts
    BY <1>1, <1>2 DEF Accepted, StateIsValid, CodeWorks, Flow
  <2>5. \/ req' = [req EXCEPT ![r] = TakenUp(b, k, f, u, next)]
        \/ req' = [req EXCEPT ![r] = TurnedDown(b, k)]
    BY <1>2 DEF HandleCallback, TakenUp, TurnedDown, Idle
  <2>6. QED
    BY <2>2, <2>3, <2>4, <2>5
<1>3. CASE flows' = flows /\ req' = [req EXCEPT ![r] = TurnedDown(b, k)]
  BY <1>3, SameFlows
<1>4. QED
  BY <1>2, <1>3 DEF HandleCallback, TurnedDown

\* What selecting the user of an account makes of users and request.
LEMMA SelectEffect ==
  ASSUME TypeOK, LoginInv, NEW r \in Requests, Select(r)
  PROVE  /\ UsersGrow
         /\ flows[req[r].flow].account \in Accounts
         /\ \E u \in UserIds, new \in BOOLEAN :
              /\ req' = [req EXCEPT ![r] = [req[r] EXCEPT !.pc = "store", !.user = u, !.new = new]]
              /\ u \in 1 .. Len(users')
              /\ users'[u] = flows[req[r].flow].account
              /\ IF new THEN u = Len(users) + 1 ELSE u \in committed /\ u \in 1 .. Len(users)
<1> DEFINE a == flows[req[r].flow].account
<1>0. a \in Accounts /\ ~req[r].new
  BY DEF LoginInv, CallbackInv, ShapeInv, Select
<1>1. /\ users \in Seq(Accounts) /\ Len(users) <= MaxUsers /\ MaxUsers \in Nat
      /\ committed \in SUBSET (1 .. Len(users))
  BY BoundsAssumption DEF TypeOK
<1> HIDE DEF a
<1>2. CASE /\ a \in LinkedAccounts
           /\ FoundUser(r, auth[a].user, FALSE)
           /\ UNCHANGED users
  <2>1. auth[a].user \in committed /\ users[auth[a].user] = a
    BY <1>2 DEF LoginInv, RowInv, LinkedAccounts
  <2>2. auth[a].user \in 1 .. Len(users) /\ auth[a].user \in UserIds
    <3>1. Len(users) \in Nat
      BY <1>1
    <3>2. auth[a].user \in 1 .. Len(users)
      BY <1>1, <2>1
    <3>3. QED
      BY <1>1, <3>1, <3>2 DEF UserIds
  <2>3. req' = [req EXCEPT ![r] = [req[r] EXCEPT !.pc = "store", !.user = auth[a].user,
                                                 !.new = FALSE]]
    BY <1>2 DEF FoundUser
  <2>4. QED
    BY <1>0, <1>2, <2>1, <2>2, <2>3, SameUsers DEF a
<1>3. CASE /\ Len(users) < MaxUsers
           /\ users' = Append(users, a)
           /\ FoundUser(r, Len(users'), TRUE)
  <2>1. /\ users' \in Seq(Accounts) /\ Len(users') = Len(users) + 1
        /\ \A u \in 1 .. Len(users) : users'[u] = users[u]
        /\ users'[Len(users) + 1] = a
    BY <1>0, <1>1, <1>3
  <2>2. UsersGrow
    BY <1>1, <1>3, <2>1 DEF UsersGrow
  <2>3. Len(users') \in UserIds /\ Len(users') \in 1 .. Len(users')
    BY <1>1, <1>3, <2>1 DEF UserIds
  <2>4. req' = [req EXCEPT ![r] = [req[r] EXCEPT !.pc = "store", !.user = Len(users'),
                                                 !.new = TRUE]]
    BY <1>3 DEF FoundUser
  <2>5. users'[Len(users')] = a /\ Len(users') = Len(users) + 1
    BY <2>1
  <2>6. QED
    BY <1>0, <2>2, <2>3, <2>4, <2>5 DEF a
<1>4. QED
  BY <1>2, <1>3 DEF Select, a

LEMMA Growth == TypeOK /\ LoginInv /\ [Next]_vars => FlowsGrow /\ UsersGrow
<1> SUFFICES ASSUME TypeOK, LoginInv, [Next]_vars PROVE FlowsGrow /\ UsersGrow
  OBVIOUS
<1>1. ASSUME NEW b \in Browsers, LoginPublic(b) \/ LoginPrivate(b)
      PROVE  FlowsGrow /\ UsersGrow
  <2>1. users' = users /\ \E k \in Kinds : Begin(b, k)
    BY <1>1 DEF LoginPublic, LoginPrivate, Kinds
  <2>2. QED
    BY <2>1, BeginEffect, SameUsers
<1>2. ASSUME NEW r \in Requests, Relogin(r) PROVE FlowsGrow /\ UsersGrow
  <2>1. users' = users /\ Begin(req[r].browser, "public") /\ req[r].browser \in Browsers
    BY <1>2 DEF Relogin, LoginInv, ShapeInv
  <2>2. QED
    BY <2>1, BeginEffect, SameUsers DEF Kinds
<1>3. ASSUME NEW f \in 1 .. Len(flows), NEW a \in Accounts, Consent(f, a)
      PROVE  FlowsGrow /\ UsersGrow
  <2>0. flows \in Seq(Flow) /\ Len(flows) <= MaxFlows
    BY DEF TypeOK, Flow
  <2>1. flows[f] \in Flow
    BY <2>0
  <2> DEFINE new == [flows[f] EXCEPT !.account = a]
  <2>2. new \in Flow /\ new.browser = flows[f].browser /\ new.kind = flows[f].kind
        /\ new.used = flows[f].used
    BY <2>1 DEF Flow
  <2>3. flows' = [flows EXCEPT ![f] = new] /\ flows[f].account = NoAccount /\ users' = users
    BY <1>3 DEF Consent
  <2> HIDE DEF new
  <2>4. flows' \in Seq(Flow) /\ Len(flows') = Len(flows) /\ flows'[f] = new
        /\ \A g \in 1 .. Len(flows) : g # f => flows'[g] = flows[g]
    BY <2>0, <2>2, <2>3
  <2>5. FlowsGrow
    BY <2>0, <2>2, <2>3, <2>4 DEF FlowsGrow
  <2>6. QED
    BY <2>3, <2>5, SameUsers
<1>4. ASSUME NEW r \in Requests, NEW b \in Browsers, NEW f \in 1 .. Len(flows),
             CallbackPublic(r, b, f) \/ CallbackPrivate(r, b, f)
      PROVE  FlowsGrow /\ UsersGrow
  <2>1. users' = users
        /\ \E k \in Kinds : \E u, next : HandleCallback(r, b, k, f, u, next)
    BY <1>4 DEF CallbackPublic, CallbackPrivate, Kinds
  <2>2. QED
    BY <2>1, CallbackEffect, SameUsers
<1>5. ASSUME NEW r \in Requests, Select(r) PROVE FlowsGrow /\ UsersGrow
  <2>1. flows' = flows
    BY <1>5 DEF Select
  <2>2. QED
    BY <1>5, <2>1, SelectEffect, SameFlows
<1>6. CASE users' = users /\ flows' = flows
  BY <1>6, SameFlows, SameUsers
<1>7. QED
  BY <1>1, <1>2, <1>3, <1>4, <1>5, <1>6
     DEF Next, Logout, LoginAdmin, StartRelogin, StartUnlink, Unlink, StoreAuth, Commit,
         CommitFails, QueryFails, SavePrivateToken, Finalize, vars

(***************************************************************************)
(* Type correctness                                                        *)
(***************************************************************************)

Request == [pc : {"idle", "select", "store", "commit", "finalize", "private", "relogin", "unlink"},
            browser : Browsers \cup {"none"}, kind : Kinds \cup {"none"}, flow : FlowIds,
            user : UserIds, new : BOOLEAN, private : BOOLEAN]
Row     == [user : UserIds, token : FlowIds, private : FlowIds]

LEMMA Zero == 0 \in UserIds /\ 0 \in FlowIds /\ NoAuth \in Row /\ Idle \in Request
<1>1. 0 \in UserIds /\ 0 \in FlowIds
  BY BoundsAssumption DEF UserIds, FlowIds
<1>2. QED
  BY <1>1 DEF NoAuth, Row, Idle, Request

LEMMA Typed ==
  ASSUME TypeOK
  PROVE  /\ req \in [Requests -> Request] /\ auth \in [Accounts -> Row]
         /\ committed \in SUBSET (1 .. Len(users)) /\ lost \in SUBSET (1 .. Len(users))
         /\ Len(users) \in Nat /\ Len(users) <= MaxUsers
         /\ Len(flows) \in Nat /\ Len(flows) <= MaxFlows
         /\ 1 .. Len(users) \subseteq UserIds /\ 1 .. Len(flows) \subseteq FlowIds
<1>1. /\ req \in [Requests -> Request] /\ auth \in [Accounts -> Row]
      /\ committed \in SUBSET (1 .. Len(users)) /\ lost \in SUBSET (1 .. Len(users))
      /\ users \in Seq(Accounts) /\ Len(users) <= MaxUsers /\ Len(flows) <= MaxFlows
  BY DEF TypeOK, Request, Row
<1>2. flows \in Seq(Flow)
  BY DEF TypeOK, Flow
<1>3. Len(users) \in Nat /\ Len(flows) \in Nat
  BY <1>1, <1>2
<1>4. 1 .. Len(users) \subseteq UserIds /\ 1 .. Len(flows) \subseteq FlowIds
  BY <1>1, <1>3, BoundsAssumption DEF UserIds, FlowIds
<1>5. QED
  BY <1>1, <1>3, <1>4

\* The rest of TypeOK, once flows and users are known to grow.
LEMMA TypeRest ==
  ASSUME TypeOK, FlowsGrow, UsersGrow,
         committed' \in SUBSET (1 .. Len(users')), lost' \in SUBSET (1 .. Len(users')),
         auth' \in [Accounts -> Row], sess' \in [Browsers -> UserIds],
         oauth' \in [Browsers -> [Kinds -> FlowIds]], req' \in [Requests -> Request]
  PROVE  TypeOK'
<1>1. users' \in Seq(Accounts) /\ Len(users') <= MaxUsers
  BY DEF UsersGrow
<1>2. flows' \in Seq(Flow) /\ Len(flows') <= MaxFlows
  BY DEF FlowsGrow
<1>3. QED
  BY <1>1, <1>2 DEF TypeOK, Request, Row, Flow

LEMMA OldIds == TypeOK /\ UsersGrow => 1 .. Len(users) \subseteq 1 .. Len(users')
<1> SUFFICES ASSUME TypeOK, UsersGrow PROVE 1 .. Len(users) \subseteq 1 .. Len(users')
  OBVIOUS
<1>1. Len(users) \in Nat /\ users' \in Seq(Accounts) /\ Len(users) <= Len(users')
  BY Typed DEF UsersGrow
<1>2. Len(users') \in Nat
  BY <1>1
<1>3. QED
  BY <1>1, <1>2

LEMMA EndEffect ==
  ASSUME TypeOK, NEW r \in Requests, NEW u \in UserIds, EndHandler(r, u)
  PROVE  /\ req' \in [Requests -> Request]
         /\ \A s \in Requests \ {r} : req'[s] = req[s]
         /\ req'[r].pc = "finalize" /\ req'[r].user = u /\ ~req'[r].new
         /\ req'[r].browser = req[r].browser /\ req'[r].kind = req[r].kind
<1>1. req \in [Requests -> Request] /\ 0 \in FlowIds
  BY Typed, Zero
<1> DEFINE q == [req[r] EXCEPT !.pc = "finalize", !.flow = 0, !.user = u, !.new = FALSE]
<1>2. /\ q \in Request /\ q.pc = "finalize" /\ q.user = u /\ ~q.new
      /\ q.browser = req[r].browser /\ q.kind = req[r].kind
  BY <1>1 DEF Request
<1>3. req' = [req EXCEPT ![r] = q]
  BY DEF EndHandler
<1> HIDE DEF q
<1>4. QED
  BY <1>1, <1>2, <1>3

LEMMA StepTypeOK == TypeOK /\ LoginInv /\ [Next]_vars => TypeOK'
<1> SUFFICES ASSUME TypeOK, LoginInv, [Next]_vars PROVE TypeOK'
  OBVIOUS
<1>a. FlowsGrow /\ UsersGrow /\ 1 .. Len(users) \subseteq 1 .. Len(users')
  BY Growth, OldIds
<1>b. /\ auth \in [Accounts -> Row] /\ req \in [Requests -> Request]
      /\ committed \in SUBSET (1 .. Len(users')) /\ lost \in SUBSET (1 .. Len(users'))
      /\ 1 .. Len(users) \subseteq UserIds /\ 1 .. Len(flows) \subseteq FlowIds
  BY <1>a, Typed
<1>c. sess \in [Browsers -> UserIds] /\ oauth \in [Browsers -> [Kinds -> FlowIds]]
  BY DEF TypeOK
<1>1. ASSUME NEW b \in Browsers, LoginPublic(b) \/ LoginPrivate(b) PROVE TypeOK'
  <2>1. PICK k \in Kinds : Begin(b, k) /\ UNCHANGED <<users, committed, auth, sess, req, lost>>
    BY <1>1 DEF LoginPublic, LoginPrivate, Kinds
  <2>2. oauth' \in [Browsers -> [Kinds -> FlowIds]]
    <3>1. oauth' = [oauth EXCEPT ![b][k] = Len(flows')] /\ Len(flows') \in FlowIds
      BY <2>1, BeginEffect
    <3>2. QED
      BY <1>c, <3>1
  <2>3. QED
    BY <1>a, <1>b, <1>c, <2>1, <2>2, TypeRest
<1>2. ASSUME NEW r \in Requests, Relogin(r) PROVE TypeOK'
  <2>1. req[r].browser \in Browsers /\ "public" \in Kinds
        /\ Begin(req[r].browser, "public") /\ UNCHANGED <<users, committed, sess, lost>>
    BY <1>2 DEF Relogin, LoginInv, ShapeInv, Kinds
  <2>2. oauth' \in [Browsers -> [Kinds -> FlowIds]]
    <3>1. oauth' = [oauth EXCEPT ![req[r].browser]["public"] = Len(flows')]
          /\ Len(flows') \in FlowIds
      BY <2>1, BeginEffect
    <3>2. QED
      BY <1>c, <2>1, <3>1
  <2>3. auth' \in [Accounts -> Row]
    BY <1>2, <1>b, Zero DEF Relogin, Row
  <2>4. req' \in [Requests -> Request]
    BY <1>2, <1>b, Zero DEF Relogin
  <2>5. QED
    BY <1>a, <1>b, <1>c, <2>1, <2>2, <2>3, <2>4, TypeRest
<1>3. ASSUME NEW r \in Requests, NEW b \in Browsers, StartRelogin(r, b) \/ StartUnlink(r, b)
      PROVE  TypeOK'
  <2>1. sess[b] \in UserIds /\ Idle \in Request
    BY <1>c, Zero
  <2>2. CASE StartRelogin(r, b)
    <3> DEFINE q == [Idle EXCEPT !.pc = "relogin", !.browser = b, !.user = sess[b],
                                 !.private = auth[Account(sess[b])].private # 0]
    <3>1. q \in Request
      BY <2>1 DEF Request
    <3>2. req' = [req EXCEPT ![r] = q]
      BY <2>2 DEF StartRelogin
    <3> HIDE DEF q
    <3>3. req' \in [Requests -> Request]
      BY <1>b, <3>1, <3>2
    <3>4. QED
      BY <2>2, <1>a, <1>b, <1>c, <3>3, TypeRest DEF StartRelogin
  <2>3. CASE StartUnlink(r, b)
    <3> DEFINE q == [Idle EXCEPT !.pc = "unlink", !.browser = b, !.user = sess[b]]
    <3>1. q \in Request
      BY <2>1 DEF Request
    <3>2. req' = [req EXCEPT ![r] = q]
      BY <2>3 DEF StartUnlink
    <3> HIDE DEF q
    <3>3. req' \in [Requests -> Request]
      BY <1>b, <3>1, <3>2
    <3>4. QED
      BY <2>3, <1>a, <1>b, <1>c, <3>3, TypeRest DEF StartUnlink
  <2>4. QED
    BY <1>3, <2>2, <2>3
<1>4. ASSUME NEW r \in Requests, NEW b \in Browsers, NEW f \in 1 .. Len(flows),
             CallbackPublic(r, b, f) \/ CallbackPrivate(r, b, f)
      PROVE  TypeOK'
  <2>1. PICK k \in Kinds, u \in UserIds, next \in {"select", "private"} :
           HandleCallback(r, b, k, f, u, next)
    BY <1>4, <1>c, Zero DEF CallbackPublic, CallbackPrivate, Kinds
  <2>2. \/ req' = [req EXCEPT ![r] = TakenUp(b, k, f, u, next)]
        \/ req' = [req EXCEPT ![r] = TurnedDown(b, k)]
    <3>1. HandleCallback(r, b, k, f, u, next)
      BY <2>1
    <3>2. QED
      BY <3>1, CallbackEffect
  <2>3. TakenUp(b, k, f, u, next) \in Request /\ TurnedDown(b, k) \in Request
    BY <1>b, Zero DEF Request, TakenUp, TurnedDown
  <2>4. req' \in [Requests -> Request]
    BY <1>b, <2>2, <2>3
  <2>5. QED
    BY <1>4, <1>a, <1>b, <1>c, <2>4, TypeRest DEF CallbackPublic, CallbackPrivate
<1>5. ASSUME NEW r \in Requests, Select(r) PROVE TypeOK'
  <2>1. PICK u \in UserIds, new \in BOOLEAN :
           req' = [req EXCEPT ![r] = [req[r] EXCEPT !.pc = "store", !.user = u, !.new = new]]
    BY <1>5, SelectEffect
  <2>2. req' \in [Requests -> Request]
    BY <1>b, <2>1 DEF Request
  <2>3. QED
    BY <1>5, <1>a, <1>b, <1>c, <2>2, TypeRest DEF Select
<1>6. ASSUME NEW r \in Requests, StoreAuth(r) PROVE TypeOK'
  <2>1. req' \in [Requests -> Request]
    <3>1. CASE req' = [req EXCEPT ![r].pc = "commit"]
      BY <1>b, <3>1 DEF Request
    <3>2. CASE EndHandler(r, 0)
      BY <3>2, EndEffect, Zero
    <3>3. QED
      BY <1>6, <3>1, <3>2 DEF StoreAuth, RollBack
  <2>2. QED
    BY <1>6, <1>a, <1>b, <1>c, <2>1, TypeRest DEF StoreAuth
<1>7. ASSUME NEW r \in Requests, Commit(r) \/ CommitFails(r) PROVE TypeOK'
  <2>1. req[r].user \in 1 .. Len(users') /\ req[r].user \in UserIds /\ req[r].flow \in FlowIds
        /\ flows[req[r].flow].account \in Accounts
    BY <1>7, <1>a, <1>b DEF Commit, CommitFails, LoginInv, UserInv, CallbackInv
  <2>2. req' \in [Requests -> Request]
    BY <1>7, <2>1, EndEffect DEF Commit, CommitFails
  <2>3. committed' \in SUBSET (1 .. Len(users')) /\ lost' \in SUBSET (1 .. Len(users'))
    BY <1>7, <1>b, <2>1 DEF Commit, CommitFails
  <2>4. auth' \in [Accounts -> Row]
    <3>1. Stored(r) \in Row
      BY <1>b, <2>1, Zero DEF Stored, Row
    <3>2. QED
      BY <1>7, <1>b, <3>1 DEF Commit, CommitFails
  <2>5. QED
    BY <1>7, <1>a, <1>b, <1>c, <2>2, <2>3, <2>4, TypeRest DEF Commit, CommitFails
<1>8. ASSUME NEW r \in Requests, QueryFails(r) \/ SavePrivateToken(r) PROVE TypeOK'
  <2>1. req' \in [Requests -> Request]
    BY <1>8, EndEffect, Zero DEF QueryFails, SavePrivateToken, RollBack
  <2>2. auth' \in [Accounts -> Row]
    <3>1. req[r].flow \in FlowIds
      BY <1>b DEF Request
    <3>2. QED
      BY <1>8, <1>b, <3>1 DEF QueryFails, SavePrivateToken, Row
  <2>3. QED
    BY <1>8, <1>a, <1>b, <1>c, <2>1, <2>2, TypeRest DEF QueryFails, SavePrivateToken
<1>9. ASSUME NEW r \in Requests, Finalize(r) PROVE TypeOK'
  <2>1. /\ req' = [req EXCEPT ![r] = Idle]
        /\ req[r].kind \in Kinds /\ req[r].browser \in Browsers /\ req[r].user \in UserIds
    BY <1>9, <1>b DEF Finalize, LoginInv, ShapeInv, Request
  <2>2. req' \in [Requests -> Request]
    BY <1>b, <2>1, Zero
  <2>3. oauth' \in [Browsers -> [Kinds -> FlowIds]]
    <3>1. PICK b \in Browsers, k \in Kinds : b = req[r].browser /\ k = req[r].kind
      BY <2>1
    <3>2. oauth' = oauth \/ oauth' = [oauth EXCEPT ![b][k] = 0]
      BY <1>9, <3>1 DEF Finalize
    <3>3. oauth \in [Browsers -> [Kinds -> FlowIds]] /\ 0 \in FlowIds
      BY <1>c, Zero
    <3>4. QED
      BY <3>2, <3>3
  <2>a. sess' \in [Browsers -> UserIds]
    <3>1. sess' = sess \/ sess' = [sess EXCEPT ![req[r].browser] = req[r].user]
      BY <1>9 DEF Finalize
    <3>2. QED
      BY <1>c, <2>1, <3>1
  <2>4. QED
    BY <1>9, <1>a, <1>b, <1>c, <2>2, <2>3, <2>a, TypeRest DEF Finalize
<1>10. ASSUME NEW r \in Requests, Unlink(r) PROVE TypeOK'
  <2>1. req' \in [Requests -> Request] /\ auth' \in [Accounts -> Row]
    BY <1>10, <1>b, Zero DEF Unlink
  <2>2. QED
    BY <1>10, <1>a, <1>b, <1>c, <2>1, TypeRest DEF Unlink
<1>11. ASSUME NEW b \in Browsers, Logout(b) \/ \E u \in committed : LoginAdmin(b, u) PROVE TypeOK'
  <2>1. committed \subseteq UserIds
    BY <1>b, Typed
  <2>2. sess' \in [Browsers -> UserIds]
    BY <1>11, <1>c, <2>1, Zero DEF Logout, LoginAdmin
  <2>3. QED
    BY <1>11, <1>a, <1>b, <1>c, <2>2, TypeRest DEF Logout, LoginAdmin
<1>12. ASSUME NEW f \in 1 .. Len(flows), NEW a \in Accounts, Consent(f, a) PROVE TypeOK'
  BY <1>12, <1>a, <1>b, <1>c, TypeRest DEF Consent
<1>13. CASE UNCHANGED vars
  BY <1>13, <1>a, <1>b, <1>c, TypeRest DEF vars
<1>14. QED
  BY <1>1, <1>2, <1>3, <1>4, <1>5, <1>6, <1>7, <1>8, <1>9, <1>10, <1>11, <1>12, <1>13 DEF Next

(***************************************************************************)
(* The flows of browsers, rows and sessions                                *)
(***************************************************************************)

\* A flow that a step finds is there after it, as it was.
LEMMA OldFlows ==
  ASSUME TypeOK, FlowsGrow, NEW f \in 1 .. Len(flows)
  PROVE  /\ f \in 1 .. Len(flows')
         /\ flows'[f].browser = flows[f].browser
         /\ flows'[f].kind = flows[f].kind
         /\ flows[f].used => flows'[f].used
         /\ flows[f].account \in Accounts => flows'[f].account = flows[f].account
<1>1. Len(flows) \in Nat
  BY Typed
<1>2. flows' \in Seq(Flow) /\ Len(flows) <= Len(flows')
  BY DEF FlowsGrow
<1>3. Len(flows') \in Nat
  BY <1>2
<1>4. f \in 1 .. Len(flows')
  BY <1>1, <1>2, <1>3
<1>5. QED
  BY <1>4, AccountsAssumption DEF FlowsGrow

LEMMA OauthStep == TypeOK /\ LoginInv /\ [Next]_vars => OauthInv'
<1> SUFFICES ASSUME TypeOK, LoginInv, [Next]_vars PROVE OauthInv'
  OBVIOUS
<1>a. FlowsGrow /\ OauthInv
  BY Growth DEF LoginInv
<1>b. oauth \in [Browsers -> [Kinds -> FlowIds]]
  BY DEF TypeOK
<1>1. ASSUME NEW b \in Browsers, NEW k \in Kinds, Begin(b, k) PROVE OauthInv'
  <2>1. /\ oauth' = [oauth EXCEPT ![b][k] = Len(flows')]
        /\ Len(flows') = Len(flows) + 1
        /\ flows'[Len(flows')].browser = b /\ flows'[Len(flows')].kind = k
    BY <1>1, BeginEffect
  <2>2. Len(flows') \in 1 .. Len(flows')
    BY <2>1, Typed
  <2> SUFFICES ASSUME NEW c \in Browsers, NEW l \in Kinds, oauth'[c][l] # 0
               PROVE  /\ oauth'[c][l] \in 1 .. Len(flows')
                      /\ flows'[oauth'[c][l]].browser = c
                      /\ flows'[oauth'[c][l]].kind = l
    BY DEF OauthInv
  <2>3. CASE c = b /\ l = k
    <3>1. oauth'[c][l] = Len(flows')
      BY <1>b, <2>1, <2>3
    <3>2. QED
      BY <2>1, <2>2, <2>3, <3>1
  <2>4. CASE ~(c = b /\ l = k)
    <3>1. oauth'[c][l] = oauth[c][l]
      BY <1>b, <2>1, <2>4
    <3>2. oauth[c][l] \in 1 .. Len(flows) /\ flows[oauth[c][l]].browser = c
          /\ flows[oauth[c][l]].kind = l
      BY <1>a, <3>1 DEF OauthInv
    <3>3. QED
      BY <1>a, <3>1, <3>2, OldFlows
  <2>5. QED
    BY <2>3, <2>4
<1>2. ASSUME \A c \in Browsers, l \in Kinds : oauth'[c][l] \in {0, oauth[c][l]}
      PROVE  OauthInv'
  <2> SUFFICES ASSUME NEW c \in Browsers, NEW l \in Kinds, oauth'[c][l] # 0
               PROVE  /\ oauth'[c][l] \in 1 .. Len(flows')
                      /\ flows'[oauth'[c][l]].browser = c
                      /\ flows'[oauth'[c][l]].kind = l
    BY DEF OauthInv
  <2>1. oauth'[c][l] = oauth[c][l]
    BY <1>2
  <2>2. oauth[c][l] \in 1 .. Len(flows) /\ flows[oauth[c][l]].browser = c
        /\ flows[oauth[c][l]].kind = l
    BY <1>a, <2>1 DEF OauthInv
  <2>3. QED
    BY <1>a, <2>1, <2>2, OldFlows
<1>3. ASSUME NEW r \in Requests, Finalize(r) PROVE OauthInv'
  <2>1. PICK b \in Browsers, k \in Kinds : b = req[r].browser /\ k = req[r].kind
    BY <1>3 DEF Finalize, LoginInv, ShapeInv
  <2>2. oauth' = oauth \/ oauth' = [oauth EXCEPT ![b][k] = 0]
    BY <1>3, <2>1 DEF Finalize
  <2>3. \A c \in Browsers, l \in Kinds : oauth'[c][l] \in {0, oauth[c][l]}
    BY <1>b, <2>2
  <2>4. QED
    BY <1>2, <2>3
<1>4. CASE oauth' = oauth
  BY <1>2, <1>4
<1>5. ASSUME NEW r \in Requests, Relogin(r) PROVE OauthInv'
  <2>1. Begin(req[r].browser, "public") /\ req[r].browser \in Browsers /\ "public" \in Kinds
    BY <1>5 DEF Relogin, LoginInv, ShapeInv, Kinds
  <2>2. QED
    BY <1>1, <2>1
<1>6. ASSUME NEW b \in Browsers, LoginPublic(b) \/ LoginPrivate(b) PROVE OauthInv'
  BY <1>1, <1>6 DEF LoginPublic, LoginPrivate, Kinds
<1>7. QED
  BY <1>3, <1>4, <1>5, <1>6
     DEF Next, Logout, LoginAdmin, StartRelogin, StartUnlink, Consent, CallbackPublic,
         CallbackPrivate, Unlink, Select, StoreAuth, Commit, CommitFails, QueryFails,
         SavePrivateToken, vars

\* What a step makes of an account's row: it changes the tokens, or deletes
\* it, or a commit stores the row of a new user.
LEMMA RowMoves ==
  ASSUME TypeOK, LoginInv, [Next]_vars, NEW a \in Accounts
  PROVE  \/ auth'[a] = NoAuth
         \/ auth[a] # NoAuth /\ auth'[a].user = auth[a].user
            /\ \/ auth'[a].token = auth[a].token
               \/ \E r \in Requests : /\ req[r].pc = "commit" /\ auth'[a].token = req[r].flow
                                      /\ flows[req[r].flow].account = a
         \/ \E r \in Requests :
               /\ req[r].pc = "commit" /\ req[r].new /\ committed' = committed \cup {req[r].user}
               /\ auth'[a] = [user |-> req[r].user, token |-> req[r].flow, private |-> 0]
               /\ flows[req[r].flow].account = a
<1>a. auth \in [Accounts -> Row]
  BY Typed
<1>1. CASE auth'[a] = auth[a]
  BY <1>1
<1>2. ASSUME NEW r \in Requests, Commit(r), auth'[a] # auth[a]
      PROVE  /\ flows[req[r].flow].account = a /\ auth'[a] = Stored(r)
             /\ req[r].pc = "commit" /\ committed' = committed \cup {req[r].user}
  BY <1>2, <1>a DEF Commit
<1>3. ASSUME NEW r \in Requests, Commit(r), auth'[a] # auth[a], ~req[r].new
      PROVE  auth[a] # NoAuth /\ auth'[a].user = auth[a].user /\ auth'[a].token = req[r].flow
  <2>1. Stored(r) = IF auth[a] # NoAuth /\ auth[a].user = req[r].user
                    THEN [auth[a] EXCEPT !.token = req[r].flow] ELSE auth[a]
    BY <1>2, <1>3 DEF Stored
  <2>2. auth'[a] = [auth[a] EXCEPT !.token = req[r].flow] /\ auth[a] # NoAuth
    BY <1>2, <1>3, <2>1
  <2>3. QED
    BY <1>a, <2>2 DEF Row
<1>4. ASSUME NEW r \in Requests, Commit(r), auth'[a] # auth[a], req[r].new
      PROVE  auth'[a] = [user |-> req[r].user, token |-> req[r].flow, private |-> 0]
  BY <1>2, <1>4 DEF Stored
<1>5. ASSUME NEW r \in Requests, SavePrivateToken(r) \/ Relogin(r), auth'[a] # auth[a]
      PROVE  auth[a] # NoAuth /\ auth'[a].user = auth[a].user /\ auth'[a].token = auth[a].token
  BY <1>5, <1>a DEF SavePrivateToken, Relogin, LinkedAccounts, Row
<1>6. ASSUME NEW r \in Requests, Unlink(r), auth'[a] # auth[a] PROVE auth'[a] = NoAuth
  BY <1>6, <1>a DEF Unlink
<1>7. auth'[a] = auth[a] \/ \E r \in Requests : Commit(r) \/ SavePrivateToken(r) \/ Relogin(r)
                                               \/ Unlink(r)
  BY DEF Next, LoginPublic, LoginPrivate, Logout, LoginAdmin, StartRelogin, StartUnlink, Consent,
         CallbackPublic, CallbackPrivate, Select, StoreAuth, CommitFails, QueryFails, Finalize, vars
<1>8. QED
  BY <1>1, <1>2, <1>3, <1>4, <1>5, <1>6, <1>7

\* Users are committed, or lost, by the commit of their request only.
LEMMA CommitMoves ==
  ASSUME TypeOK, LoginInv, [Next]_vars
  PROVE  /\ committed \subseteq committed' /\ lost \subseteq lost'
         /\ \A u \in (committed' \cup lost') \ (committed \cup lost) :
              \E r \in Requests : /\ Commit(r) \/ CommitFails(r)
                                 /\ req[r].pc = "commit" /\ req[r].new /\ req[r].user = u
         /\ \A u \in committed' \ committed :
              \E r \in Requests : Commit(r) /\ req[r].pc = "commit" /\ req[r].new /\ req[r].user = u
<1>1. ASSUME NEW r \in Requests, Commit(r)
      PROVE  /\ committed' = committed \cup {req[r].user} /\ lost' = lost
             /\ req[r].pc = "commit" /\ (~req[r].new => req[r].user \in committed)
  BY <1>1 DEF Commit, LoginInv, UserInv
<1>2. ASSUME NEW r \in Requests, CommitFails(r)
      PROVE  /\ committed' = committed /\ req[r].pc = "commit"
             /\ IF req[r].new THEN lost' = lost \cup {req[r].user} ELSE lost' = lost
  BY <1>2 DEF CommitFails
<1>3. \/ committed' = committed /\ lost' = lost
      \/ \E r \in Requests : Commit(r) \/ CommitFails(r)
  BY DEF Next, LoginPublic, LoginPrivate, Logout, LoginAdmin, StartRelogin, StartUnlink, Consent,
         CallbackPublic, CallbackPrivate, Select, StoreAuth, QueryFails, Finalize, vars,
         SavePrivateToken, Relogin, Unlink
<1>4. QED
  BY <1>1, <1>2, <1>3

LEMMA RowStep == TypeOK /\ LoginInv /\ [Next]_vars => RowInv'
<1> SUFFICES ASSUME TypeOK, LoginInv, [Next]_vars PROVE RowInv'
  OBVIOUS
<1>a. FlowsGrow /\ UsersGrow /\ RowInv /\ committed \subseteq committed'
      /\ committed \subseteq 1 .. Len(users)
  BY Growth, CommitMoves, Typed DEF LoginInv
<1> SUFFICES ASSUME NEW a \in Accounts, auth'[a] # NoAuth
             PROVE  /\ auth'[a].user \in committed'
                    /\ users'[auth'[a].user] = a
                    /\ auth'[a].token \in 1 .. Len(flows')
                    /\ flows'[auth'[a].token].account = a
                    /\ flows'[auth'[a].token].kind = "public"
  BY DEF RowInv
<1>b. \A r \in Requests : (req[r].pc = "commit" /\ flows[req[r].flow].account = a) =>
         /\ req[r].flow \in 1 .. Len(flows')
         /\ flows'[req[r].flow].account = a
         /\ flows'[req[r].flow].kind = "public"
         /\ req[r].user \in 1 .. Len(users) /\ users'[req[r].user] = a
  <2> SUFFICES ASSUME NEW r \in Requests, req[r].pc = "commit", flows[req[r].flow].account = a
               PROVE  /\ req[r].flow \in 1 .. Len(flows')
                      /\ flows'[req[r].flow].account = a
                      /\ flows'[req[r].flow].kind = "public"
                      /\ req[r].user \in 1 .. Len(users) /\ users'[req[r].user] = a
    OBVIOUS
  <2>1. CallbackInv(r) /\ UserInv(r)
    BY DEF LoginInv
  <2>2. /\ req[r].flow \in 1 .. Len(flows) /\ flows[req[r].flow].kind = "public"
        /\ req[r].user \in 1 .. Len(users) /\ users[req[r].user] = a
    BY <2>1 DEF CallbackInv, UserInv
  <2>3. QED
    BY <1>a, <2>2, OldFlows DEF UsersGrow
<1>1. CASE auth[a] # NoAuth /\ auth'[a].user = auth[a].user
  <2>1. auth[a].user \in committed /\ users[auth[a].user] = a
        /\ auth[a].token \in 1 .. Len(flows) /\ flows[auth[a].token].account = a
        /\ flows[auth[a].token].kind = "public"
    BY <1>a, <1>1 DEF RowInv
  <2>2. auth'[a].user \in committed' /\ users'[auth'[a].user] = a
    BY <1>a, <1>1, <2>1 DEF UsersGrow
  <2>3. CASE auth'[a].token = auth[a].token
    BY <1>a, <2>1, <2>2, <2>3, OldFlows
  <2>4. CASE \E r \in Requests : /\ req[r].pc = "commit" /\ auth'[a].token = req[r].flow
                                 /\ flows[req[r].flow].account = a
    BY <1>b, <2>2, <2>4
  <2>5. CASE \E r \in Requests :
               /\ req[r].pc = "commit" /\ req[r].new
               /\ auth'[a] = [user |-> req[r].user, token |-> req[r].flow, private |-> 0]
               /\ flows[req[r].flow].account = a
    BY <1>b, <2>2, <2>5
  <2>6. QED
    BY <2>3, <2>4, <2>5, RowMoves
<1>2. CASE \E r \in Requests :
               /\ req[r].pc = "commit" /\ req[r].new /\ committed' = committed \cup {req[r].user}
               /\ auth'[a] = [user |-> req[r].user, token |-> req[r].flow, private |-> 0]
               /\ flows[req[r].flow].account = a
  BY <1>b, <1>2
<1>3. QED
  BY <1>1, <1>2, RowMoves

\* Who logged in somewhere did so for good.
LEMMA HereGrows ==
  ASSUME TypeOK, FlowsGrow, UsersGrow, NEW b \in Browsers, NEW u \in 1 .. Len(users), Here(b, u)
  PROVE  \E f \in 1 .. Len(flows') :
            flows'[f].browser = b /\ flows'[f].used /\ flows'[f].account \in {users'[u], Admin}
<1>1. PICK f \in 1 .. Len(flows) :
         flows[f].browser = b /\ flows[f].used /\ flows[f].account \in {users[u], Admin}
  BY DEF Here
<1>2. users[u] \in Accounts /\ users'[u] = users[u]
  BY DEF TypeOK, UsersGrow
<1>3. flows[f].account \in Accounts
  BY <1>1, <1>2, AccountsAssumption
<1>4. QED
  BY <1>1, <1>2, <1>3, OldFlows

LEMMA SessStep == TypeOK /\ LoginInv /\ [Next]_vars => SessInv'
<1> SUFFICES ASSUME TypeOK, LoginInv, [Next]_vars PROVE SessInv'
  OBVIOUS
<1>a. /\ FlowsGrow /\ UsersGrow /\ SessInv /\ sess \in [Browsers -> UserIds]
      /\ committed \subseteq committed' /\ lost \subseteq lost'
      /\ committed \cup lost \subseteq 1 .. Len(users)
  BY Growth, CommitMoves, Typed DEF LoginInv, TypeOK
<1>b. ASSUME NEW b \in Browsers, NEW u \in committed \cup lost, Here(b, u), sess'[b] = u
      PROVE  /\ sess'[b] \in committed' \cup lost'
             /\ \E f \in 1 .. Len(flows') : /\ flows'[f].browser = b /\ flows'[f].used
                                            /\ flows'[f].account \in {users'[sess'[b]], Admin}
  <2>1. u \in 1 .. Len(users)
    BY <1>a
  <2>2. QED
    BY <1>a, <1>b, <2>1, HereGrows
<1> SUFFICES ASSUME NEW b \in Browsers, sess'[b] # 0
             PROVE  /\ sess'[b] \in committed' \cup lost'
                    /\ \E f \in 1 .. Len(flows') : /\ flows'[f].browser = b /\ flows'[f].used
                                                   /\ flows'[f].account \in {users'[sess'[b]], Admin}
  BY DEF SessInv, Here
<1>1. CASE sess'[b] = sess[b]
  <2>1. sess[b] \in committed \cup lost /\ Here(b, sess[b])
    BY <1>a, <1>1 DEF SessInv
  <2>2. QED
    BY <1>1, <1>b, <2>1
<1>2. ASSUME NEW r \in Requests, Finalize(r), sess'[b] # sess[b]
      PROVE  req[r].user \in committed \cup lost /\ Here(b, req[r].user) /\ sess'[b] = req[r].user
  <2>1. /\ req[r].pc = "finalize" /\ req[r].user # 0
        /\ sess' = [sess EXCEPT ![req[r].browser] = req[r].user]
    BY <1>2 DEF Finalize
  <2>2. b = req[r].browser /\ sess'[b] = req[r].user
    BY <1>2, <1>a, <2>1
  <2>3. FinalInv(r)
    BY DEF LoginInv
  <2>4. QED
    BY <2>1, <2>2, <2>3 DEF FinalInv
<1>3. ASSUME NEW c \in Browsers, NEW u \in committed, LoginAdmin(c, u), sess'[b] # sess[b]
      PROVE  u \in committed \cup lost /\ Here(b, u) /\ sess'[b] = u
  <2>1. c = b /\ sess'[b] = u /\ sess[b] # 0 /\ users[sess[b]] = Admin
    BY <1>3, <1>a DEF LoginAdmin, Authorized, Account
  <2>2. Here(b, sess[b])
    BY <1>a, <2>1 DEF SessInv
  <2>3. QED
    BY <2>1, <2>2 DEF Here
<1>4. \/ sess'[b] = sess[b]
      \/ \E r \in Requests : Finalize(r)
      \/ \E c \in Browsers, u \in committed : LoginAdmin(c, u)
  <2>1. ASSUME NEW c \in Browsers, Logout(c) PROVE sess'[b] = sess[b]
    BY <2>1, <1>a DEF Logout
  <2>2. QED
    BY <2>1 DEF Next, LoginPublic, LoginPrivate, StartRelogin, StartUnlink, Consent,
         CallbackPublic, CallbackPrivate, Select, StoreAuth, QueryFails, Commit, CommitFails, vars,
         SavePrivateToken, Relogin, Unlink
<1>5. QED
  BY <1>1, <1>2, <1>3, <1>4, <1>b

(***************************************************************************)
(* Requests                                                                *)
(***************************************************************************)

\* A request stays as it is or takes a step of its own.
LEMMA Moves ==
  ASSUME TypeOK, LoginInv, [Next]_vars, NEW s \in Requests, req'[s] # req[s]
  PROVE  \/ \E b \in Browsers : StartRelogin(s, b) \/ StartUnlink(s, b)
         \/ \E b \in Browsers, f \in 1 .. Len(flows) :
               CallbackPublic(s, b, f) \/ CallbackPrivate(s, b, f)
         \/ Relogin(s) \/ Unlink(s) \/ Finalize(s)
         \/ Select(s)
         \/ StoreAuth(s) /\ req' = [req EXCEPT ![s].pc = "commit"]
         \/ \E u \in {0, req[s].user} :
               /\ EndHandler(s, u)
               /\ u = 0 \/ Commit(s) \/ CommitFails(s)
               /\ req[s].pc \in {"select", "store", "commit", "private"}
<1>a. req \in [Requests -> Request]
  BY Typed
<1>1. ASSUME NEW r \in Requests, r # s, \E x : req' = [req EXCEPT ![r] = x] PROVE FALSE
  BY <1>1, <1>a
<1>2. ASSUME NEW r \in Requests, NEW b \in Browsers, StartRelogin(r, b) \/ StartUnlink(r, b)
      PROVE  r = s
  BY <1>1, <1>2 DEF StartRelogin, StartUnlink
<1>3. ASSUME NEW r \in Requests, NEW b \in Browsers, NEW f \in 1 .. Len(flows),
             CallbackPublic(r, b, f) \/ CallbackPrivate(r, b, f)
      PROVE  r = s
  BY <1>1, <1>3 DEF CallbackPublic, CallbackPrivate, HandleCallback
<1>4. ASSUME NEW r \in Requests, Relogin(r) \/ Unlink(r) \/ Finalize(r) PROVE r = s
  BY <1>1, <1>4 DEF Relogin, Unlink, Finalize
<1>5. ASSUME NEW r \in Requests, Select(r) PROVE r = s
  BY <1>1, <1>5 DEF Select, FoundUser
<1>6. ASSUME NEW r \in Requests, StoreAuth(r), req' = [req EXCEPT ![r].pc = "commit"] PROVE r = s
  BY <1>1, <1>6
<1>7. ASSUME NEW r \in Requests, NEW u, EndHandler(r, u) PROVE r = s
  BY <1>1, <1>7 DEF EndHandler
<1>8. ASSUME NEW r \in Requests, StoreAuth(r), ~(req' = [req EXCEPT ![r].pc = "commit"])
      PROVE  EndHandler(r, 0) /\ req[r].pc = "store"
  BY <1>8 DEF StoreAuth, RollBack
<1>9. ASSUME NEW r \in Requests, Commit(r) \/ CommitFails(r)
      PROVE  EndHandler(r, req[r].user) /\ req[r].pc = "commit"
  BY <1>9 DEF Commit, CommitFails
<1>10. ASSUME NEW r \in Requests, QueryFails(r) \/ SavePrivateToken(r)
       PROVE  EndHandler(r, 0) /\ req[r].pc \in {"select", "store", "private"}
  BY <1>10 DEF QueryFails, SavePrivateToken, RollBack
<1>11. req' = req \/ \E r \in Requests :
         \/ \E b \in Browsers : StartRelogin(r, b) \/ StartUnlink(r, b)
         \/ \E b \in Browsers, f \in 1 .. Len(flows) :
               CallbackPublic(r, b, f) \/ CallbackPrivate(r, b, f)
         \/ Relogin(r) \/ Unlink(r) \/ Finalize(r) \/ Select(r) \/ StoreAuth(r)
         \/ Commit(r) \/ CommitFails(r) \/ QueryFails(r) \/ SavePrivateToken(r)
  BY DEF Next, LoginPublic, LoginPrivate, Logout, LoginAdmin, Consent, vars
<1>12. QED
  BY <1>2, <1>3, <1>4, <1>5, <1>6, <1>7, <1>8, <1>9, <1>10, <1>11

\* What an accepted callback knows of its flow
LEMMA TakenUpFlow ==
  ASSUME TypeOK, LoginInv, [Next]_vars, NEW b \in Browsers, NEW k \in Kinds,
         NEW f \in 1 .. Len(flows), oauth[b][k] = f, f # 0, flows[f].account \in Accounts
  PROVE  /\ f \in 1 .. Len(flows') /\ flows'[f].browser = b /\ flows'[f].kind = k
         /\ flows'[f].account \in Accounts
<1>1. flows[f].browser = b /\ flows[f].kind = k
  BY DEF LoginInv, OauthInv
<1>2. QED
  BY <1>1, Growth, OldFlows

\* The steps of one request, by what they leave of it
Starts(s) ==
    /\ req'[s].pc \in {"idle", "relogin", "unlink"} /\ ~req'[s].new
    /\ req'[s].pc # "idle" => req'[s].browser \in Browsers
Waits(s) ==
    /\ req'[s].pc \in {"private", "finalize"} /\ ~req'[s].new
    /\ req'[s].browser \in Browsers /\ req'[s].kind \in Kinds
    /\ req'[s].pc = "private" \/ req'[s].user = 0
TakesUp(s) ==
    /\ req'[s].pc = "select" /\ ~req'[s].new /\ req'[s].kind = "public"
    /\ req'[s].flow \in 1 .. Len(flows') /\ req'[s].browser \in Browsers
    /\ flows'[req'[s].flow].browser = req'[s].browser
    /\ flows'[req'[s].flow].kind = "public" /\ flows'[req'[s].flow].used
    /\ flows'[req'[s].flow].account \in Accounts
Finds(s, u, new) ==
    /\ req[s].pc = "select" /\ Select(s)
    /\ req'[s] = [req[s] EXCEPT !.pc = "store", !.user = u, !.new = new]
    /\ u \in 1 .. Len(users') /\ users'[u] = flows[req[s].flow].account
    /\ IF new THEN u = Len(users) + 1 ELSE u \in committed
Stores(s) ==
    /\ req[s].pc = "store" /\ StoreAuth(s)
    /\ req'[s] = [req[s] EXCEPT !.pc = "commit"]
    /\ req[s].new => /\ ~Inserting(flows[req[s].flow].account)
                     /\ auth[flows[req[s].flow].account] = NoAuth
Finishes(s) ==
    /\ req[s].pc = "commit"
    /\ Commit(s) \/ CommitFails(s)
    /\ req'[s].pc = "finalize" /\ ~req'[s].new /\ req'[s].user = req[s].user
    /\ req'[s].browser = req[s].browser /\ req'[s].kind = req[s].kind

LEMMA After ==
  ASSUME TypeOK, LoginInv, [Next]_vars, NEW s \in Requests, req'[s] # req[s]
  PROVE  \/ Starts(s) \/ Waits(s) \/ TakesUp(s) \/ Stores(s) \/ Finishes(s)
         \/ \E u \in UserIds, new \in BOOLEAN : Finds(s, u, new)
<1>a. req \in [Requests -> Request] /\ req[s] \in Request /\ ShapeInv(s)
  BY Typed DEF LoginInv
<1>1. ASSUME NEW b \in Browsers, StartRelogin(s, b) \/ StartUnlink(s, b)
      PROVE  req'[s].pc \in {"relogin", "unlink"} /\ ~req'[s].new /\ req'[s].browser \in Browsers
  <2>1. CASE StartRelogin(s, b)
    <3> DEFINE q == [Idle EXCEPT !.pc = "relogin", !.browser = b, !.user = sess[b],
                                 !.private = auth[Account(sess[b])].private # 0]
    <3>1. q.pc = "relogin" /\ ~q.new /\ q.browser = b
      BY DEF Idle
    <3>2. req' = [req EXCEPT ![s] = q]
      BY <2>1 DEF StartRelogin
    <3> HIDE DEF q
    <3>3. QED
      BY <1>a, <3>1, <3>2
  <2>2. CASE StartUnlink(s, b)
    <3> DEFINE q == [Idle EXCEPT !.pc = "unlink", !.browser = b, !.user = sess[b]]
    <3>1. q.pc = "unlink" /\ ~q.new /\ q.browser = b
      BY DEF Idle
    <3>2. req' = [req EXCEPT ![s] = q]
      BY <2>2 DEF StartUnlink
    <3> HIDE DEF q
    <3>3. QED
      BY <1>a, <3>1, <3>2
  <2>3. QED
    BY <1>1, <2>1, <2>2
<1>2. ASSUME NEW b \in Browsers, NEW f \in 1 .. Len(flows),
             CallbackPublic(s, b, f) \/ CallbackPrivate(s, b, f)
      PROVE  Waits(s) \/ TakesUp(s)
  <2>0. PICK k \in Kinds, u \in UserIds, next \in {"select", "private"} :
           HandleCallback(s, b, k, f, u, next) /\ (next = "select" => k = "public")
    <3>1. sess[b] \in UserIds /\ 0 \in UserIds
      BY Zero DEF TypeOK
    <3>2. QED
      BY <1>2, <3>1 DEF CallbackPublic, CallbackPrivate, Kinds
  <2>1. \/ /\ oauth[b][k] = f /\ f # 0
           /\ flows'[f].used /\ flows[f].account \in Accounts
           /\ req' = [req EXCEPT ![s] = TakenUp(b, k, f, u, next)]
        \/ req' = [req EXCEPT ![s] = TurnedDown(b, k)]
    <3>1. HandleCallback(s, b, k, f, u, next)
      BY <2>0
    <3>2. QED
      BY <3>1, CallbackEffect
  <2>2. CASE req' = [req EXCEPT ![s] = TurnedDown(b, k)]
    <3>1. req'[s] = TurnedDown(b, k)
      BY <1>a, <2>2
    <3>2. QED
      BY <3>1 DEF TurnedDown, Idle, Waits
  <2>3. CASE /\ oauth[b][k] = f /\ f # 0
             /\ flows'[f].used /\ flows[f].account \in Accounts
             /\ req' = [req EXCEPT ![s] = TakenUp(b, k, f, u, next)]
    <3>1. req'[s] = TakenUp(b, k, f, u, next)
      BY <1>a, <2>3
    <3>2. /\ req'[s].pc = next /\ ~req'[s].new /\ req'[s].flow = f
          /\ req'[s].browser = b /\ req'[s].kind = k
      BY <3>1 DEF TakenUp, Idle
    <3>3. /\ f \in 1 .. Len(flows') /\ flows'[f].browser = b /\ flows'[f].kind = k
          /\ flows'[f].account \in Accounts
      BY <2>3, TakenUpFlow
    <3>4. QED
      BY <2>0, <2>3, <3>2, <3>3 DEF Waits, TakesUp
  <2>4. QED
    BY <2>1, <2>2, <2>3
<1>3. CASE Relogin(s) \/ Unlink(s) \/ Finalize(s)
  <2>1. req' = [req EXCEPT ![s] = Idle]
    BY <1>3 DEF Relogin, Unlink, Finalize
  <2>2. req'[s] = Idle
    BY <1>a, <2>1
  <2>3. Idle.pc = "idle" /\ ~Idle.new
    BY DEF Idle
  <2>4. QED
    BY <2>2, <2>3 DEF Starts
<1>4. CASE Select(s)
  <2>1. PICK u \in UserIds, new \in BOOLEAN :
              /\ req' = [req EXCEPT ![s] = [req[s] EXCEPT !.pc = "store", !.user = u, !.new = new]]
              /\ u \in 1 .. Len(users')
              /\ users'[u] = flows[req[s].flow].account
              /\ IF new THEN u = Len(users) + 1 ELSE u \in committed /\ u \in 1 .. Len(users)
    BY <1>4, SelectEffect
  <2>2. req'[s] = [req[s] EXCEPT !.pc = "store", !.user = u, !.new = new] /\ req[s].pc = "select"
    BY <1>4, <1>a, <2>1 DEF Select
  <2>3. QED
    BY <1>4, <2>1, <2>2 DEF Finds
<1>5. CASE StoreAuth(s) /\ req' = [req EXCEPT ![s].pc = "commit"]
  <2>1. req'[s] = [req[s] EXCEPT !.pc = "commit"] /\ req'[s].pc = "commit"
    BY <1>5, <1>a DEF Request
  <2>2. req[s].pc = "store" /\ (req[s].new => ~Inserting(flows[req[s].flow].account))
    BY <1>5 DEF StoreAuth
  <2>3. ASSUME req[s].new PROVE auth[flows[req[s].flow].account] = NoAuth
    <3>1. CASE RollBack(s)
      <4>1. req'[s].pc = "finalize"
        BY <3>1, EndEffect, Zero DEF RollBack
      <4>2. QED
        BY <2>1, <4>1
    <3>2. CASE flows[req[s].flow].account \notin LinkedAccounts
      <4>1. flows[req[s].flow].account \in Accounts
        BY <2>2 DEF LoginInv, CallbackInv
      <4>2. QED
        BY <3>2, <4>1 DEF LinkedAccounts
    <3>3. QED
      BY <1>5, <2>3, <3>1, <3>2 DEF StoreAuth
  <2>4. QED
    BY <1>5, <2>1, <2>2, <2>3 DEF Stores
<1>6. ASSUME NEW u \in {0, req[s].user}, EndHandler(s, u), u = 0 \/ Commit(s) \/ CommitFails(s),
             req[s].pc \in {"select", "store", "commit", "private"}
      PROVE  /\ req'[s].pc = "finalize" /\ ~req'[s].new /\ req'[s].user = u
             /\ req'[s].browser = req[s].browser /\ req'[s].kind = req[s].kind
             /\ req[s].browser \in Browsers /\ req[s].kind \in Kinds
             /\ u = 0 \/ (req[s].pc = "commit" /\ u = req[s].user)
  <2>1. u \in UserIds
    BY <1>a, Zero DEF Request
  <2>2. QED
    BY <1>6, <1>a, <2>1, EndEffect DEF ShapeInv, Commit, CommitFails
<1>7. ASSUME NEW u \in {0, req[s].user}, EndHandler(s, u), u = 0 \/ Commit(s) \/ CommitFails(s),
             req[s].pc \in {"select", "store", "commit", "private"}
      PROVE  Waits(s) \/ Finishes(s)
  BY <1>6, <1>7 DEF Waits, Finishes
<1>8. (\E b \in Browsers : StartRelogin(s, b) \/ StartUnlink(s, b)) => Starts(s)
  BY <1>1 DEF Starts
<1>9. QED
  BY <1>2, <1>3, <1>4, <1>5, <1>7, <1>8, Moves

LEMMA OnlyOne ==
  ASSUME TypeOK, NEW r \in Requests, NEW s \in Requests \ {r}, Select(r) \/ StoreAuth(r)
  PROVE  req'[s] = req[s]
<1>1. ASSUME NEW x, req' = [req EXCEPT ![r] = x] PROVE req'[s] = req[s]
  BY <1>1, Typed
<1>2. ASSUME NEW u, NEW new, FoundUser(r, u, new) PROVE req'[s] = req[s]
  BY <1>1, <1>2 DEF FoundUser
<1>3. ASSUME EndHandler(r, 0) PROVE req'[s] = req[s]
  BY <1>1, <1>3 DEF EndHandler
<1>4. CASE Select(r)
  BY <1>2, <1>4 DEF Select
<1>5. CASE StoreAuth(r)
  BY <1>1, <1>3, <1>5 DEF StoreAuth, RollBack
<1>6. QED
  BY <1>4, <1>5

LEMMA CallbackStep ==
  ASSUME TypeOK, LoginInv, [Next]_vars, NEW s \in Requests
  PROVE  CallbackInv(s)'
<1>a. FlowsGrow /\ CallbackInv(s) /\ req[s] \in Request
  BY Growth, Typed DEF LoginInv
<1>1. ASSUME req[s].pc \in {"select", "store", "commit"}, req'[s].flow = req[s].flow,
             req'[s].browser = req[s].browser
      PROVE  CallbackInv(s)'
  BY <1>a, <1>1, OldFlows DEF CallbackInv
<1>2. CASE req'[s] = req[s]
  BY <1>1, <1>2 DEF CallbackInv
<1>3. CASE TakesUp(s)
  BY <1>3 DEF CallbackInv, TakesUp
<1>4. CASE Starts(s) \/ Waits(s) \/ Finishes(s)
  BY <1>4 DEF CallbackInv, Starts, Waits, Finishes
<1>5. ASSUME NEW u \in UserIds, NEW new \in BOOLEAN, Finds(s, u, new) PROVE CallbackInv(s)'
  <2>1. req[s].pc = "select" /\ req'[s].flow = req[s].flow /\ req'[s].browser = req[s].browser
    BY <1>5, <1>a DEF Finds, Request
  <2>2. QED
    BY <1>1, <2>1
<1>6. CASE Stores(s)
  <2>1. req[s].pc = "store" /\ req'[s].flow = req[s].flow /\ req'[s].browser = req[s].browser
    BY <1>6, <1>a DEF Stores, Request
  <2>2. QED
    BY <1>1, <2>1
<1>7. QED
  BY <1>2, <1>3, <1>4, <1>5, <1>6, After

LEMMA ShapeStep ==
  ASSUME TypeOK, LoginInv, [Next]_vars, NEW s \in Requests
  PROVE  ShapeInv(s)'
<1>a. ShapeInv(s) /\ req[s] \in Request
  BY Typed DEF LoginInv
<1>1. CASE req'[s] = req[s]
  BY <1>a, <1>1 DEF ShapeInv
<1>2. CASE Starts(s) \/ Waits(s) \/ TakesUp(s)
  BY <1>2 DEF ShapeInv, Starts, Waits, TakesUp, Kinds
<1>3. CASE Finishes(s)
  BY <1>a, <1>3 DEF ShapeInv, Finishes
<1>4. ASSUME NEW u \in UserIds, NEW new \in BOOLEAN, Finds(s, u, new) PROVE ShapeInv(s)'
  <2>1. /\ req[s].pc = "select" /\ req'[s].pc = "store"
        /\ req'[s].browser = req[s].browser /\ req'[s].kind = req[s].kind
    BY <1>4, <1>a DEF Finds, Request
  <2>2. QED
    BY <1>a, <2>1 DEF ShapeInv
<1>5. CASE Stores(s)
  <2>1. /\ req[s].pc = "store" /\ req'[s].pc = "commit"
        /\ req'[s].browser = req[s].browser /\ req'[s].kind = req[s].kind
    BY <1>5, <1>a DEF Stores, Request
  <2>2. QED
    BY <1>a, <2>1 DEF ShapeInv
<1>6. QED
  BY <1>1, <1>2, <1>3, <1>4, <1>5, After

LEMMA UserStep ==
  ASSUME TypeOK, LoginInv, [Next]_vars, NEW s \in Requests
  PROVE  UserInv(s)'
<1>a. /\ FlowsGrow /\ UsersGrow /\ CallbackInv(s) /\ UserInv(s) /\ req[s] \in Request
      /\ 1 .. Len(users) \subseteq 1 .. Len(users')
      /\ committed \cup lost \subseteq 1 .. Len(users) /\ Len(users) \in Nat
  BY Growth, Typed, OldIds DEF LoginInv
<1>b. ASSUME req[s].pc \in {"select", "store", "commit"}
      PROVE  flows'[req[s].flow].account = flows[req[s].flow].account
  BY <1>a, <1>b, OldFlows DEF CallbackInv
<1>1. CASE req'[s] = req[s] /\ req[s].pc \in {"store", "commit"}
  <2>1. /\ req[s].user \in 1 .. Len(users) /\ users[req[s].user] = flows[req[s].flow].account
        /\ IF req[s].new THEN req[s].user \notin committed \cup lost
                         ELSE req[s].user \in committed
    BY <1>a, <1>1 DEF UserInv
  <2>2. req[s].user \in 1 .. Len(users') /\ users'[req[s].user] = flows'[req[s].flow].account
    BY <1>a, <1>b, <1>1, <2>1 DEF UsersGrow
  <2>3. ASSUME req[s].new PROVE req[s].user \notin committed' \cup lost'
    <3>1. ASSUME NEW r \in Requests, Commit(r) \/ CommitFails(r), req[r].pc = "commit",
                 req[r].new, req[r].user = req[s].user
          PROVE  FALSE
      <4>1. r = s
        BY <2>3, <3>1 DEF LoginInv, NewInv
      <4>2. req[s].user \in UserIds /\ EndHandler(s, req[s].user)
        BY <1>a, <3>1, <4>1 DEF Commit, CommitFails, Request
      <4>3. req'[s].pc = "finalize"
        BY <4>2, EndEffect
      <4>4. QED
        BY <1>1, <4>3
    <3>2. QED
      BY <2>1, <2>3, <3>1, CommitMoves
  <2>4. ~req[s].new => req[s].user \in committed'
    BY <2>1, CommitMoves
  <2>5. QED
    BY <1>1, <2>2, <2>3, <2>4 DEF UserInv
<1>2. CASE Starts(s) \/ Waits(s) \/ TakesUp(s) \/ Finishes(s)
  BY <1>2 DEF UserInv, Starts, Waits, TakesUp, Finishes
<1>3. ASSUME NEW u \in UserIds, NEW new \in BOOLEAN, Finds(s, u, new) PROVE UserInv(s)'
  <2>1. /\ req'[s].pc = "store" /\ req'[s].user = u /\ req'[s].new = new
        /\ req'[s].flow = req[s].flow /\ req[s].pc = "select"
    BY <1>3, <1>a DEF Finds, Request
  <2>2. committed' = committed /\ lost' = lost
    BY <1>3 DEF Finds, Select
  <2>3. u \in 1 .. Len(users') /\ users'[u] = flows'[req[s].flow].account
    BY <1>3, <1>b, <2>1 DEF Finds
  <2>4. IF new THEN u \notin committed' \cup lost' ELSE u \in committed'
    BY <1>3, <1>a, <2>2 DEF Finds
  <2>5. QED
    BY <2>1, <2>3, <2>4 DEF UserInv
<1>4. CASE Stores(s)
  <2>1. /\ req'[s].pc = "commit" /\ req'[s].user = req[s].user /\ req'[s].new = req[s].new
        /\ req'[s].flow = req[s].flow /\ req[s].pc = "store"
    BY <1>4, <1>a DEF Stores, Request
  <2>2. committed' = committed /\ lost' = lost /\ users' = users
    BY <1>4 DEF Stores, StoreAuth
  <2>3. QED
    BY <1>a, <1>b, <2>1, <2>2 DEF UserInv
<1>5. CASE req'[s] = req[s] /\ req[s].pc \notin {"store", "commit"}
  BY <1>5 DEF UserInv
<1>6. QED
  BY <1>1, <1>2, <1>3, <1>4, <1>5, After

LEMMA FinalStep ==
  ASSUME TypeOK, LoginInv, [Next]_vars, NEW s \in Requests
  PROVE  FinalInv(s)'
<1>a. /\ FlowsGrow /\ UsersGrow /\ req[s] \in Request
      /\ CallbackInv(s) /\ UserInv(s) /\ FinalInv(s) /\ ShapeInv(s)
      /\ committed \cup lost \subseteq 1 .. Len(users)
      /\ committed \subseteq committed' /\ lost \subseteq lost'
  BY Growth, Typed, CommitMoves DEF LoginInv
<1>1. CASE req'[s] = req[s] /\ req[s].pc = "finalize" /\ req[s].user # 0
  <2>1. /\ req[s].user \in committed \cup lost /\ Here(req[s].browser, req[s].user)
        /\ req[s].browser \in Browsers
    BY <1>a, <1>1 DEF FinalInv, ShapeInv
  <2>2. PICK b \in Browsers, u \in 1 .. Len(users) : b = req[s].browser /\ u = req[s].user
    BY <1>a, <2>1
  <2>3. \E f \in 1 .. Len(flows') :
           flows'[f].browser = b /\ flows'[f].used /\ flows'[f].account \in {users'[u], Admin}
    BY <1>a, <2>1, <2>2, HereGrows
  <2>4. QED
    BY <1>a, <1>1, <2>1, <2>2, <2>3 DEF FinalInv, Here
<1>2. CASE Starts(s) \/ Waits(s) \/ TakesUp(s)
  BY <1>2 DEF FinalInv, Starts, Waits, TakesUp
<1>3. ASSUME NEW u \in UserIds, NEW new \in BOOLEAN, Finds(s, u, new) PROVE FinalInv(s)'
  BY <1>3, <1>a DEF Finds, Request, FinalInv
<1>4. CASE Stores(s)
  BY <1>4, <1>a DEF Stores, Request, FinalInv
<1>5. CASE Finishes(s)
  <2>1. req[s].pc = "commit" /\ req'[s].browser = req[s].browser /\ req'[s].user = req[s].user
    BY <1>5 DEF Finishes
  <2>2. req[s].user \in committed' \cup lost'
    BY <1>5, <1>a, <2>1 DEF Finishes, Commit, CommitFails, UserInv
  <2>3. /\ req[s].flow \in 1 .. Len(flows) /\ flows[req[s].flow].browser = req[s].browser
        /\ flows[req[s].flow].used /\ flows[req[s].flow].account \in Accounts
        /\ req[s].user \in 1 .. Len(users) /\ users[req[s].user] = flows[req[s].flow].account
    BY <1>a, <2>1 DEF CallbackInv, UserInv
  <2>4. /\ req[s].flow \in 1 .. Len(flows') /\ flows'[req[s].flow].browser = req[s].browser
        /\ flows'[req[s].flow].used /\ flows'[req[s].flow].account = users'[req[s].user]
    BY <1>a, <2>3, OldFlows DEF UsersGrow
  <2>5. QED
    BY <2>1, <2>2, <2>4 DEF FinalInv, Here
<1>6. CASE req'[s] = req[s] /\ ~(req[s].pc = "finalize" /\ req[s].user # 0)
  BY <1>6 DEF FinalInv
<1>7. QED
  BY <1>1, <1>2, <1>3, <1>4, <1>5, <1>6, After

\* Who is new after a step was so before, or has just been inserted.
LEMMA NewUser ==
  ASSUME TypeOK, LoginInv, [Next]_vars, NEW s \in Requests, req'[s].new
  PROVE  \/ req[s].new /\ req'[s].user = req[s].user /\ req[s].user \in 1 .. Len(users)
         \/ Select(s) /\ req'[s].user = Len(users) + 1
<1>a. req[s] \in Request /\ UserInv(s) /\ ShapeInv(s)
  BY Typed DEF LoginInv
<1>b. ASSUME req[s].new PROVE req[s].user \in 1 .. Len(users)
  BY <1>a, <1>b DEF UserInv, ShapeInv
<1>1. CASE req'[s] = req[s]
  BY <1>b, <1>1
<1>2. CASE Starts(s) \/ Waits(s) \/ TakesUp(s) \/ Finishes(s)
  BY <1>2 DEF Starts, Waits, TakesUp, Finishes
<1>3. ASSUME NEW u \in UserIds, NEW new \in BOOLEAN, Finds(s, u, new)
      PROVE  Select(s) /\ req'[s].user = Len(users) + 1
  <2>1. req'[s].user = u /\ req'[s].new = new
    BY <1>3, <1>a DEF Finds, Request
  <2>2. QED
    BY <1>3, <2>1 DEF Finds
<1>4. CASE Stores(s)
  <2>1. req'[s].user = req[s].user /\ req'[s].new = req[s].new
    BY <1>4, <1>a DEF Stores, Request
  <2>2. QED
    BY <1>b, <2>1
<1>5. QED
  BY <1>1, <1>2, <1>3, <1>4, After

\* Who waits for the commit of a new user did so before, or has just stored
\* the row.
LEMMA NewCommit ==
  ASSUME TypeOK, LoginInv, [Next]_vars, NEW s \in Requests, req'[s].new, req'[s].pc = "commit"
  PROVE  /\ req[s].new /\ req'[s].user = req[s].user /\ req[s].pc \in {"store", "commit"}
         /\ req[s].flow \in 1 .. Len(flows) /\ flows[req[s].flow].account \in Accounts
         /\ users[req[s].user] = flows[req[s].flow].account
         /\ flows'[req'[s].flow].account = flows[req[s].flow].account
         /\ \/ req'[s] = req[s] /\ req[s].pc = "commit"
            \/ Stores(s)
<1>a. req[s] \in Request /\ CallbackInv(s) /\ UserInv(s) /\ FlowsGrow
  BY Growth, Typed DEF LoginInv
<1>1. CASE req'[s] = req[s]
  BY <1>a, <1>1, OldFlows DEF UserInv, CallbackInv
<1>2. CASE Starts(s) \/ Waits(s) \/ TakesUp(s) \/ Finishes(s)
  BY <1>2 DEF Starts, Waits, TakesUp, Finishes
<1>3. ASSUME NEW u \in UserIds, NEW new \in BOOLEAN, Finds(s, u, new) PROVE FALSE
  BY <1>3, <1>a DEF Finds, Request
<1>4. CASE Stores(s)
  <2>1. /\ req[s].pc = "store" /\ req'[s].user = req[s].user /\ req'[s].new = req[s].new
        /\ req'[s].flow = req[s].flow
    BY <1>4, <1>a DEF Stores, Request
  <2>2. QED
    BY <1>4, <1>a, <2>1, OldFlows DEF UserInv, CallbackInv
<1>5. QED
  BY <1>1, <1>2, <1>3, <1>4, After

LEMMA NewStep == TypeOK /\ LoginInv /\ [Next]_vars => NewInv'
<1> SUFFICES ASSUME TypeOK, LoginInv, [Next]_vars PROVE NewInv'
  OBVIOUS
<1>a. NewInv /\ Len(users) \in Nat
  BY Typed DEF LoginInv
<1>1. ASSUME NEW r \in Requests, NEW s \in Requests, r # s, req'[r].new, req'[s].new
      PROVE  req'[r].user # req'[s].user
  <2>1. CASE req[r].new /\ req'[r].user = req[r].user /\ req[s].new /\ req'[s].user = req[s].user
    BY <1>a, <1>1, <2>1 DEF NewInv
  <2>2. ASSUME NEW p \in Requests, NEW q \in Requests, p # q, req'[q].new,
               Select(p), req'[p].user = Len(users) + 1
        PROVE  req'[p].user # req'[q].user
    <3>1. req'[q] = req[q]
      BY <2>2, OnlyOne
    <3>2. req[q].user \in 1 .. Len(users)
      BY <2>2, <3>1 DEF LoginInv, UserInv, ShapeInv
    <3>3. QED
      BY <1>a, <2>2, <3>1, <3>2
  <2>3. QED
    BY <1>1, <2>1, <2>2, NewUser
<1>2. ASSUME NEW r \in Requests, req'[r].pc = "commit", req'[r].new
      PROVE  auth'[flows'[req'[r].flow].account] = NoAuth
  <2>1. PICK a \in Accounts : a = flows[req[r].flow].account
                              /\ a = flows'[req'[r].flow].account
    BY <1>2, NewCommit
  <2>2. CASE Stores(r)
    <3>1. req[r].new
      BY <1>2, NewCommit
    <3>2. auth' = auth /\ auth[a] = NoAuth
      BY <2>1, <2>2, <3>1 DEF Stores, StoreAuth
    <3>3. QED
      BY <2>1, <3>2
  <2>3. CASE req'[r] = req[r] /\ req[r].pc = "commit"
    <3>1. auth[a] = NoAuth
      BY <1>a, <1>2, <2>1, <2>3 DEF NewInv
    <3>2. ASSUME NEW t \in Requests, req[t].pc = "commit", req[t].new,
                 committed' = committed \cup {req[t].user}, flows[req[t].flow].account = a
          PROVE  FALSE
      <4>1. t = r
        BY <1>a, <1>2, <2>1, <2>3, <3>2 DEF NewInv
      <4>2. req[r].user \in committed' \ committed
        BY <3>2, <4>1 DEF LoginInv, UserInv
      <4>3. PICK c \in Requests : Commit(c) /\ req[c].new /\ req[c].user = req[r].user
        BY <4>2, CommitMoves
      <4>4. c = r
        BY <1>a, <3>2, <4>1, <4>3 DEF NewInv
      <4>5. req[r].user \in UserIds /\ EndHandler(r, req[r].user)
        BY <4>3, <4>4, Typed DEF Commit, Request
      <4>6. req'[r].pc = "finalize"
        BY <4>5, EndEffect
      <4>7. QED
        BY <1>2, <4>6
    <3>3. auth'[a] = NoAuth
      BY <3>1, <3>2, RowMoves
    <3>4. QED
      BY <2>1, <3>3
  <2>4. QED
    BY <1>2, <2>2, <2>3, NewCommit
<1>3. ASSUME NEW r \in Requests, NEW s \in Requests, r # s, req'[r].pc = "commit", req'[r].new,
             req'[s].pc = "commit", req'[s].new
      PROVE  flows'[req'[r].flow].account # flows'[req'[s].flow].account
  <2>1. /\ flows'[req'[r].flow].account = flows[req[r].flow].account
        /\ flows'[req'[s].flow].account = flows[req[s].flow].account
        /\ req[r].new /\ req[s].new
    BY <1>3, NewCommit
  <2>2. ASSUME NEW p \in Requests, NEW q \in Requests, p # q, Stores(p), req[p].new,
               req'[q].pc = "commit", req'[q].new
        PROVE  flows[req[p].flow].account # flows[req[q].flow].account
    <3>1. req'[q] = req[q]
      BY <2>2, OnlyOne DEF Stores
    <3>2. users[req[q].user] = flows[req[q].flow].account
      BY <2>2, NewCommit
    <3>3. ~Inserting(flows[req[p].flow].account)
      BY <2>2 DEF Stores
    <3>4. QED
      BY <2>2, <3>1, <3>2, <3>3 DEF Inserting, Account
  <2>3. CASE req[r].pc = "commit" /\ req[s].pc = "commit"
    BY <1>a, <1>3, <2>1, <2>3 DEF NewInv
  <2>4. QED
    BY <1>3, <2>1, <2>2, <2>3, NewCommit
<1>4. QED
  BY <1>1, <1>2, <1>3 DEF NewInv

(***************************************************************************)
(* The theorems                                                            *)
(***************************************************************************)

LEMMA StepInv == IInv /\ [Next]_vars => IInv'
<1> SUFFICES ASSUME IInv, [Next]_vars PROVE IInv'
  OBVIOUS
<1>1. TypeOK /\ LoginInv
  BY DEF IInv
<1>2. \A r \in Requests : CallbackInv(r)' /\ UserInv(r)' /\ FinalInv(r)' /\ ShapeInv(r)'
  BY <1>1, CallbackStep, UserStep, FinalStep, ShapeStep
<1>3. OauthInv' /\ NewInv' /\ RowInv' /\ SessInv' /\ TypeOK'
  BY <1>1, OauthStep, NewStep, RowStep, SessStep, StepTypeOK
<1>4. QED
  BY <1>2, <1>3 DEF IInv, LoginInv

\* In every reachable state the inductive invariant holds.
THEOREM LoginInvariant == Spec => []IInv
<1>1. QED
  BY InitInv, StepInv, PTL DEF Spec

\* Every variable keeps its type (Login.TypeOK).
THEOREM TypeCorrect == Spec => []TypeOK
<1>1. IInv => TypeOK
  BY DEF IInv
<1>2. QED
  BY <1>1, LoginInvariant, PTL

\* Every session's user is stored, or its commit failed (Login.SessionUserExists).
THEOREM SessionsAreOfUsers == Spec => []SessionUserExists
<1>1. IInv => SessionUserExists
  BY DEF IInv, LoginInv, SessInv, SessionUserExists
<1>2. QED
  BY <1>1, LoginInvariant, PTL

\* A session's account consented in the session's own browser, or the admin
\* did (Login.LoggedInHere).
THEOREM LoginsAreLocal == Spec => []LoggedInHere
<1>1. IInv => LoggedInHere
  BY DEF IInv, LoginInv, SessInv, Here, LoggedInHere, Account
<1>2. QED
  BY <1>1, LoginInvariant, PTL

\* An auth row has its own account's public token and stored user
\* (Login.RowIsOfAccount).
THEOREM RowsAreOfAccounts == Spec => []RowIsOfAccount
<1>1. IInv => RowIsOfAccount
  BY DEF IInv, LoginInv, RowInv, LinkedAccounts, RowIsOfAccount, Account
<1>2. QED
  BY <1>1, LoginInvariant, PTL

\* A user whose auth row was deleted never gets one again
\* (Login.UnlinkedStaysUnlinked).
THEOREM NoRelink == Spec => UnlinkedStaysUnlinked
<1>1. IInv /\ [Next]_vars => [\A u \in committed : u \in LinkedUsers' => u \in LinkedUsers]_vars
  <2> SUFFICES ASSUME IInv, [Next]_vars, NEW u \in committed, u \in LinkedUsers'
               PROVE  u \in LinkedUsers
    OBVIOUS
  <2>0. TypeOK /\ LoginInv
    BY DEF IInv
  <2>1. PICK a \in Accounts : auth'[a] # NoAuth /\ auth'[a].user = u
    BY DEF LinkedUsers, LinkedAccounts
  <2>2. CASE auth[a] # NoAuth /\ auth'[a].user = auth[a].user
    BY <2>1, <2>2 DEF LinkedUsers, LinkedAccounts
  <2>3. ASSUME NEW r \in Requests, req[r].pc = "commit", req[r].new,
               auth'[a] = [user |-> req[r].user, token |-> req[r].flow, private |-> 0]
        PROVE  FALSE
    <3>1. req[r].user \notin committed
      BY <2>0, <2>3 DEF LoginInv, UserInv
    <3>2. QED
      BY <2>1, <2>3, <3>1
  <2>4. QED
    BY <2>0, <2>1, <2>2, <2>3, RowMoves
<1>2. QED
  BY <1>1, LoginInvariant, PTL DEF Spec, UnlinkedStaysUnlinked

\* A user is committed together with its auth row (Login.StoredWithAuth).
THEOREM UsersComeWithRows == Spec => StoredWithAuth
<1>1. IInv /\ [Next]_vars => [\A u \in committed' \ committed : u \in LinkedUsers']_vars
  <2> SUFFICES ASSUME IInv, [Next]_vars, NEW u \in committed' \ committed
               PROVE  u \in LinkedUsers'
    OBVIOUS
  <2>0. TypeOK /\ LoginInv
    BY DEF IInv
  <2>1. PICK r \in Requests :
           Commit(r) /\ req[r].pc = "commit" /\ req[r].new /\ req[r].user = u
    BY <2>0, CommitMoves
  <2>2. PICK a \in Accounts : a = flows[req[r].flow].account
    BY <2>0, <2>1 DEF LoginInv, CallbackInv
  <2>3. u \in 1 .. Len(users) /\ auth \in [Accounts -> Row]
    BY <2>0, <2>1, Typed DEF LoginInv, UserInv
  <2>4. Stored(r) = [user |-> u, token |-> req[r].flow, private |-> 0]
    BY <2>1 DEF Stored
  <2>5. auth' = [auth EXCEPT ![a] = Stored(r)]
    BY <2>1, <2>2 DEF Commit
  <2>6. auth'[a] = [user |-> u, token |-> req[r].flow, private |-> 0]
    BY <2>3, <2>4, <2>5
  <2>7. auth'[a].user = u /\ auth'[a] # NoAuth
    BY <2>3, <2>6 DEF NoAuth
  <2>8. QED
    BY <2>7 DEF LinkedUsers, LinkedAccounts
<1>2. QED
  BY <1>1, LoginInvariant, PTL DEF Spec, StoredWithAuth

=============================================================================
