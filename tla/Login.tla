-------------------------------- MODULE Login --------------------------------
(***************************************************************************)
(* Logging in: src/pkg/api/services/auth, the two authorizers of           *)
(* src/pkg/api/auth, and the sessions of src/internal/api/session.         *)
(*                                                                         *)
(* A browser begins an OAuth flow (public or private), whose random state  *)
(* goes into an OAuth session of that browser; GitHub asks the account for *)
(* its consent and redirects to the callback, with the state and a code    *)
(* that works once.  The public callback finds or stores the user of the   *)
(* account in a transaction and puts the user into the browser's session;  *)
(* the private callback, which needs a session, adds a private token.      *)
(* Requests run concurrently, several of one browser too, and what they    *)
(* did to the sessions is saved when they end, even if they failed.        *)
(***************************************************************************)
EXTENDS Integers, FiniteSets, Sequences

CONSTANTS
    Accounts,     \* GitHub accounts
    Admin,        \* the account of ADMIN_GITHUB_LOGIN
    Browsers,
    Requests,     \* requests the API serves at a time
    NoAccount,
    MaxFlows,     \* bound: OAuth flows begun in all
    MaxUsers      \* bound: user rows inserted in all

ASSUME AccountsAssumption == Admin \in Accounts /\ NoAccount \notin Accounts
ASSUME BoundsAssumption == MaxFlows \in Nat /\ MaxUsers \in Nat

VARIABLES
    users,        \* the accounts of the users inserted, by id; ids are never reused
    committed,    \* the ids whose insertion was committed
    auth,         \* the row of table auths of each account (provider_user_id is unique)
    sess,         \* the user of each browser's session, 0 for none
    oauth,        \* the flow of each browser's two OAuth sessions, 0 for none
    flows,        \* the flows begun: where, which kind, who consented, is the code used
    req,          \* the requests being served
    lost          \* history: the users whose transaction failed to commit

vars == <<users, committed, auth, sess, oauth, flows, req, lost>>

Kinds   == {"public", "private"}
NoAuth  == [user |-> 0, token |-> 0, private |-> 0]
Idle    == [pc |-> "idle", browser |-> "none", kind |-> "none", flow |-> 0,
            user |-> 0, new |-> FALSE, private |-> FALSE]
UserIds == 0 .. MaxUsers
FlowIds == 0 .. MaxFlows

TypeOK ==
    /\ users \in Seq(Accounts) /\ Len(users) <= MaxUsers
    /\ committed \in SUBSET (1 .. Len(users))
    /\ lost \in SUBSET (1 .. Len(users))
    /\ auth \in [Accounts -> [user : UserIds, token : FlowIds, private : FlowIds]]
    /\ sess \in [Browsers -> UserIds]
    /\ oauth \in [Browsers -> [Kinds -> FlowIds]]
    /\ flows \in Seq([browser : Browsers, kind : Kinds,
                      account : Accounts \cup {NoAccount}, used : BOOLEAN])
    /\ Len(flows) <= MaxFlows
    /\ req \in [Requests -> [pc : {"idle", "select", "store", "commit", "finalize",
                                   "private", "relogin", "unlink"},
                             browser : Browsers \cup {"none"},
                             kind : Kinds \cup {"none"}, flow : FlowIds,
                             user : UserIds, new : BOOLEAN, private : BOOLEAN]]

Init ==
    /\ users = <<>>
    /\ committed = {}
    /\ lost = {}
    /\ auth = [a \in Accounts |-> NoAuth]
    /\ sess = [b \in Browsers |-> 0]
    /\ oauth = [b \in Browsers |-> [k \in Kinds |-> 0]]
    /\ flows = <<>>
    /\ req = [r \in Requests |-> Idle]

LinkedAccounts == {a \in Accounts : auth[a] # NoAuth}
LinkedUsers    == {auth[a].user : a \in LinkedAccounts}

\* Authorize: the session's user must have an auth row.
Authorized(b) == sess[b] # 0 /\ sess[b] \in LinkedUsers

Account(u) == users[u]

----------------------------------------------------------------------------
(* Beginning a flow: RedirectToProvider puts a fresh state into the OAuth
   session of the browser, over the one of a flow begun before. *)

Begin(b, k) ==
    /\ Len(flows) < MaxFlows
    /\ flows' = Append(flows, [browser |-> b, kind |-> k, account |-> NoAccount, used |-> FALSE])
    /\ oauth' = [oauth EXCEPT ![b][k] = Len(flows')]

LoginPublic(b) ==
    /\ Begin(b, "public")
    /\ UNCHANGED <<users, committed, auth, sess, req, lost>>

LoginPrivate(b) ==
    /\ Authorized(b)
    /\ Begin(b, "private")
    /\ UNCHANGED <<users, committed, auth, sess, req, lost>>

\* Relogin of a user, whose auth row is read when the request is authorized.
StartRelogin(r, b) ==
    /\ req[r].pc = "idle"
    /\ Authorized(b)
    /\ req' = [req EXCEPT ![r] = [Idle EXCEPT
                 !.pc = "relogin", !.browser = b, !.user = sess[b],
                 !.private = auth[Account(sess[b])].private # 0]]
    /\ UNCHANGED <<users, committed, auth, sess, oauth, flows, lost>>

\* Clears the private token, a failure of which is only logged, and logs in.
Relogin(r) ==
    /\ req[r].pc = "relogin"
    /\ \/ auth' = auth
       \/ /\ req[r].private
          /\ auth' = [a \in Accounts |->
                        IF a \in LinkedAccounts /\ auth[a].user = req[r].user
                        THEN [auth[a] EXCEPT !.private = 0] ELSE auth[a]]
    /\ Begin(req[r].browser, "public")
    /\ req' = [req EXCEPT ![r] = Idle]
    /\ UNCHANGED <<users, committed, sess, lost>>

\* GitHub: an account consents to a flow that redirected to it.
Consent(f, a) ==
    /\ flows[f].account = NoAccount
    /\ flows' = [flows EXCEPT ![f].account = a]
    /\ UNCHANGED <<users, committed, auth, sess, oauth, req, lost>>

----------------------------------------------------------------------------
(* The callbacks.  The URL GitHub redirects to may be opened in any browser,
   again, and after other flows were begun. *)

\* validateState and the exchange of the code
StateIsValid(b, k, f) == oauth[b][k] = f
CodeWorks(f) == flows[f].account # NoAccount /\ ~flows[f].used

\* Mutant: the state of the URL is not compared with the session's.
AcceptedUnchecked(b, k, f) == oauth[b][k] # 0 /\ CodeWorks(f)

\* The browser has an OAuth session whose state is the one in the URL, and
\* GitHub takes the code.
Accepted(b, k, f) == oauth[b][k] # 0 /\ StateIsValid(b, k, f) /\ CodeWorks(f)

UseCode(f) == flows' = [flows EXCEPT ![f].used = TRUE]

\* HandleProviderCallback: whatever happens the OAuth session is deleted when
\* the request ends; if it is accepted the code is used up, and fetching the
\* account may still fail.
HandleCallback(r, b, k, f, u, next) ==
    LET refused == [Idle EXCEPT !.pc = "finalize", !.browser = b, !.kind = k]
    IN  \/ /\ Accepted(b, k, f)
           /\ UseCode(f)
           /\ \E outcome \in {refused, [refused EXCEPT !.pc = next, !.flow = f, !.user = u]} :
                req' = [req EXCEPT ![r] = outcome]
        \/ /\ ~Accepted(b, k, f)
           /\ req' = [req EXCEPT ![r] = refused]
           /\ UNCHANGED flows

CallbackPublic(r, b, f) ==
    /\ req[r].pc = "idle"
    /\ flows[f].account # NoAccount
    /\ HandleCallback(r, b, "public", f, 0, "select")
    /\ UNCHANGED <<users, committed, auth, sess, oauth, lost>>

\* The request is authorized before the callback is handled.
CallbackPrivate(r, b, f) ==
    /\ req[r].pc = "idle"
    /\ flows[f].account # NoAccount
    /\ Authorized(b)
    /\ HandleCallback(r, b, "private", f, sess[b], "private")
    /\ UNCHANGED <<users, committed, auth, sess, oauth, lost>>

----------------------------------------------------------------------------
(* loginUser: one transaction, whose writes the others see once committed *)

FoundUser(r, u, new) ==
    req' = [req EXCEPT ![r] = [@ EXCEPT !.pc = "store", !.user = u, !.new = new]]

\* Mutant: the new user is inserted on its own, before the transaction.
SelectAutocommit(r) ==
    LET a == flows[req[r].flow].account
    IN  /\ req[r].pc = "select"
        /\ \/ /\ a \in LinkedAccounts
              /\ FoundUser(r, auth[a].user, FALSE)
              /\ UNCHANGED <<users, committed>>
           \/ /\ a \notin LinkedAccounts
              /\ Len(users) < MaxUsers
              /\ users' = Append(users, a)
              /\ committed' = committed \cup {Len(users')}
              /\ FoundUser(r, Len(users'), TRUE)
        /\ UNCHANGED <<auth, sess, oauth, flows, lost>>

\* getOrStoreUserInDB: the user of the account's auth row, or a new one.
Select(r) ==
    LET a == flows[req[r].flow].account
    IN  /\ req[r].pc = "select"
        /\ \/ /\ a \in LinkedAccounts
              /\ FoundUser(r, auth[a].user, FALSE)
              /\ UNCHANGED users
           \/ /\ a \notin LinkedAccounts
              /\ Len(users) < MaxUsers
              /\ users' = Append(users, a)
              /\ FoundUser(r, Len(users'), TRUE)
        /\ UNCHANGED <<committed, auth, sess, oauth, flows, lost>>

\* Another transaction has inserted a row of the account: Postgres makes the
\* second insertion wait for the end of the first.
Inserting(a) == \E r \in Requests : req[r].pc = "commit" /\ req[r].new /\ Account(req[r].user) = a

\* The handler ends with the session's user u to save, 0 for none.
EndHandler(r, u) ==
    req' = [req EXCEPT ![r] = [@ EXCEPT !.pc = "finalize", !.flow = 0, !.user = u, !.new = FALSE]]

\* Rolls back: nothing is stored and no session is set.
RollBack(r) == EndHandler(r, 0)

\* Mutant: the session is set before the auth row is created, and stays set
\* when the row is not unique.
StoreAuthLate(r) ==
    LET a == flows[req[r].flow].account
    IN  /\ req[r].pc = "store"
        /\ req[r].new => ~Inserting(a)
        /\ \/ /\ req[r].new => a \notin LinkedAccounts
              /\ req' = [req EXCEPT ![r].pc = "commit"]
           \/ /\ req[r].new /\ a \in LinkedAccounts
              /\ EndHandler(r, req[r].user)
        /\ UNCHANGED <<users, committed, auth, sess, oauth, flows, lost>>

\* Creates the auth row, or updates it, and sets the session.
StoreAuth(r) ==
    LET a == flows[req[r].flow].account
    IN  /\ req[r].pc = "store"
        /\ req[r].new => ~Inserting(a)
        /\ \/ /\ req[r].new => a \notin LinkedAccounts
              /\ req' = [req EXCEPT ![r].pc = "commit"]
           \/ req[r].new /\ a \in LinkedAccounts /\ RollBack(r)    \* not unique
        /\ UNCHANGED <<users, committed, auth, sess, oauth, flows, lost>>

\* Mutant: the row is saved, that is, inserted again if it is missing.
StoredAgain(r) ==
    LET row == auth[flows[req[r].flow].account]
    IN  IF row # NoAuth /\ row.user = req[r].user THEN [row EXCEPT !.token = req[r].flow]
        ELSE [user |-> req[r].user, token |-> req[r].flow, private |-> 0]

\* The row as the transaction leaves it: created, updated, or, if it was
\* deleted in the meantime, still missing.
Stored(r) ==
    LET row == auth[flows[req[r].flow].account]
    IN  IF req[r].new THEN [user |-> req[r].user, token |-> req[r].flow, private |-> 0]
        ELSE IF row # NoAuth /\ row.user = req[r].user THEN [row EXCEPT !.token = req[r].flow]
        ELSE row

Commit(r) ==
    /\ req[r].pc = "commit"
    /\ auth' = [auth EXCEPT ![flows[req[r].flow].account] = Stored(r)]
    /\ committed' = committed \cup {req[r].user}
    /\ EndHandler(r, req[r].user)
    /\ UNCHANGED <<users, sess, oauth, flows, lost>>

\* The error of the commit does not undo the session that was set before it.
CommitFails(r) ==
    /\ req[r].pc = "commit"
    /\ lost' = IF req[r].new THEN lost \cup {req[r].user} ELSE lost
    /\ EndHandler(r, req[r].user)
    /\ UNCHANGED <<users, committed, auth, sess, oauth, flows>>

\* A query fails and the transaction is rolled back.
QueryFails(r) ==
    /\ req[r].pc \in {"select", "store", "private"}
    /\ RollBack(r)
    /\ UNCHANGED <<users, committed, auth, sess, oauth, flows, lost>>

----------------------------------------------------------------------------
\* Mutant: the token is saved as the public one.
SavePublicToken(r) ==
    /\ req[r].pc = "private"
    /\ auth' = [a \in Accounts |->
                  IF a \in LinkedAccounts /\ auth[a].user = req[r].user
                  THEN [auth[a] EXCEPT !.token = req[r].flow] ELSE auth[a]]
    /\ EndHandler(r, 0)
    /\ UNCHANGED <<users, committed, sess, oauth, flows, lost>>

\* The private callback: the token goes to the auth row the request was
\* authorized with, if it is still there, whichever account consented.
SavePrivateToken(r) ==
    /\ req[r].pc = "private"
    /\ auth' = [a \in Accounts |->
                  IF a \in LinkedAccounts /\ auth[a].user = req[r].user
                  THEN [auth[a] EXCEPT !.private = req[r].flow] ELSE auth[a]]
    /\ EndHandler(r, 0)
    /\ UNCHANGED <<users, committed, sess, oauth, flows, lost>>

\* FinalizeSession: the OAuth session is deleted first, whatever flow it is
\* about now, then the session is saved; the first failure ends it.
Finalize(r) ==
    LET b == req[r].browser
    IN  /\ req[r].pc = "finalize"
        /\ \/ UNCHANGED <<oauth, sess>>
           \/ /\ oauth' = [oauth EXCEPT ![b][req[r].kind] = 0]
              /\ \/ sess' = sess
                 \/ req[r].user # 0 /\ sess' = [sess EXCEPT ![b] = req[r].user]
        /\ req' = [req EXCEPT ![r] = Idle]
        /\ UNCHANGED <<users, committed, auth, flows, lost>>

----------------------------------------------------------------------------
\* UnlinkProvider: the request is authorized ...
StartUnlink(r, b) ==
    /\ req[r].pc = "idle"
    /\ Authorized(b)
    /\ req' = [req EXCEPT ![r] = [Idle EXCEPT !.pc = "unlink", !.browser = b, !.user = sess[b]]]
    /\ UNCHANGED <<users, committed, auth, sess, oauth, flows, lost>>

\* ... and a transaction deletes the auth row, or fails.  The session stays.
Unlink(r) ==
    /\ req[r].pc = "unlink"
    /\ \/ auth' = auth
       \/ auth' = [a \in Accounts |->
                     IF auth[a].user = req[r].user THEN NoAuth ELSE auth[a]]
    /\ req' = [req EXCEPT ![r] = Idle]
    /\ UNCHANGED <<users, committed, sess, oauth, flows, lost>>

Logout(b) ==
    /\ Authorized(b)
    /\ sess' = [sess EXCEPT ![b] = 0]
    /\ UNCHANGED <<users, committed, auth, oauth, flows, req, lost>>

\* The admin gets the session of any user.
LoginAdmin(b, u) ==
    /\ Authorized(b)
    /\ Account(sess[b]) = Admin
    /\ u \in committed
    /\ sess' = [sess EXCEPT ![b] = u]
    /\ UNCHANGED <<users, committed, auth, oauth, flows, req, lost>>

Next ==
    \/ \E b \in Browsers : LoginPublic(b) \/ LoginPrivate(b) \/ Logout(b)
    \/ \E b \in Browsers, u \in committed : LoginAdmin(b, u)
    \/ \E r \in Requests, b \in Browsers : StartRelogin(r, b) \/ StartUnlink(r, b)
    \/ \E f \in 1 .. Len(flows), a \in Accounts : Consent(f, a)
    \/ \E r \in Requests, b \in Browsers, f \in 1 .. Len(flows) :
          CallbackPublic(r, b, f) \/ CallbackPrivate(r, b, f)
    \/ \E r \in Requests :
          \/ Relogin(r) \/ Unlink(r)
          \/ Select(r) \/ StoreAuth(r) \/ Commit(r) \/ CommitFails(r) \/ QueryFails(r)
          \/ SavePrivateToken(r)
          \/ Finalize(r)

Spec == Init /\ [][Next]_vars

----------------------------------------------------------------------------
(* Properties *)

\* A session's user is stored, unless the commit of its transaction failed
\* (loginUser sets the session before the transaction ends): in particular not
\* when two first logins of one account race and one insertion is refused.
SessionUserExists == \A b \in Browsers : sess[b] \in {0} \cup committed \cup lost

\* The account of a browser's session consented in a flow begun in that very
\* browser, or the admin did, who may take any user's session: an answer of
\* GitHub that reaches another browser, or comes again, logs nobody in.
LoggedInHere ==
    \A b \in Browsers : sess[b] # 0 =>
        \E f \in 1 .. Len(flows) :
            /\ flows[f].browser = b
            /\ flows[f].used
            /\ flows[f].account \in {Account(sess[b]), Admin}

\* The public token of an auth row is one its own account consented to, and
\* the row belongs to a stored user of that account.
RowIsOfAccount ==
    \A a \in LinkedAccounts :
        /\ auth[a].user \in committed
        /\ Account(auth[a].user) = a
        /\ flows[auth[a].token].account = a
        /\ flows[auth[a].token].kind = "public"

\* A user whose auth row was deleted never has one again, whatever login was
\* under way: the account gets a new user when it logs in next.
UnlinkedStaysUnlinked ==
    [][\A u \in committed : u \in LinkedUsers' => u \in LinkedUsers]_vars

\* A user is stored together with its auth row or not at all: a first login
\* refused or broken off leaves no user behind that nobody can log in as.
StoredWithAuth ==
    [][\A u \in committed' \ committed : u \in LinkedUsers']_vars

=============================================================================
