------------------------------ MODULE HostedAuth ----------------------------
(* Hosted authentication of the console: login through an OpenID provider, *)
(* cookies, sessions, and the checks in front of every request             *)
(* (apps/api/src/hosted-auth.ts, postgres-auth-control-plane.ts, app.ts).  *)
(*                                                                         *)
(* A step of a call is what the API does between two awaits, most often    *)
(* one statement of PostgreSQL.  Requests carry the browser's cookies of   *)
(* the moment; an answer changes them when it arrives, and answers arrive  *)
(* in any order, or never.  A browser's tabs share its cookies.            *)
(*                                                                         *)
(* The name of a call doubles as the random value it generates: the state  *)
(* of a login, the session token of a callback, the id of a new user.      *)
EXTENDS Integers, FiniteSets

CONSTANTS
  Browsers,    \* a browser's name is also the state of the login, and the token of
               \* the session, that it may have at the start
  Calls,       \* requests made; each is made once
  Identities,  \* people at the provider; a name is also the id of a known user
  Concurrent,  \* bound: calls under way at a time
  Budgets,     \* bounds, one of which is chosen: how many [faults, mishaps], and the
               \* kinds of calls that are made (kinds)
  None

Tokens == Browsers \cup Calls
Users == Identities \cup Calls

ASSUME HostedAuthAssumption ==
  /\ Concurrent \in Nat \ {0}
  /\ None \notin Tokens \cup Users
  /\ \A b \in Budgets : b.kinds \subseteq {"logout", "act", "triage", "login", "callback", "read"}
  /\ Browsers \cap Calls = {} /\ Identities \cap Calls = {}

VARIABLES
  attempt,    \* oidc_login_attempts by state: "none", "open" or "gone" (used, expired)
  account,    \* external_identities: the user of an identity
  disabled,   \* users with disabled_at set
  members,    \* users with a membership whose role allows the action
  session,    \* console_sessions: [status, user, attempt]
  jar,        \* a browser's cookies: [login, session]
  discovery,  \* the provider's configuration: "none", "pending" or "ready"
  call,       \* where a call is, what its request carried, what it has read
  budget

rows == <<attempt, account, disabled, members, session>>
vars == <<rows, jar, discovery, call, budget>>

\* For these the page asks for the session first and sends its CSRF token.
PageKinds == {"logout", "act", "triage"}

NoCall == [kind |-> "none", stage |-> "unused", browser |-> None, login |-> None, session |-> None,
           attempt |-> None, identity |-> None, user |-> None, csrf |-> None, seen |-> None,
           dead |-> FALSE, ok |-> FALSE]
AtClient == {"unused", "told", "answer", "over"}
UnderWay == {c \in Calls : call[c].stage \notin {"unused", "over"}}

Spend(what) == budget[what] > 0 /\ budget' = [budget EXCEPT ![what] = @ - 1]

\* Mutant: a revoked session still resolves until it expires.
ResolvesRevoked(t) ==
  t # None /\ session[t].status \in {"live", "revoked"} /\ session[t].user \notin disabled

\* resolveSession
Resolves(t) == t # None /\ session[t].status = "live" /\ session[t].user \notin disabled

Went(c, stage) == [call EXCEPT ![c].stage = stage]
Answered(c, ok) == [call EXCEPT ![c].stage = "answer", ![c].ok = ok]
Over(c) == [call EXCEPT ![c] = [NoCall EXCEPT !.stage = "over"]]

\* A request leaves browser b with its cookies.
Request(b, kind, stage) ==
  [NoCall EXCEPT !.kind = kind, !.stage = stage, !.browser = b,
                 !.login = jar[b].login, !.session = jar[b].session,
                 !.dead = jar[b].session # None /\ session[jar[b].session].status # "live"]

Begin(c, request) ==
  /\ call[c].stage = "unused" /\ Cardinality(UnderWay) < Concurrent
  /\ request.kind \in budget.kinds
  /\ call' = [call EXCEPT ![c] = request]

-----------------------------------------------------------------------------
(* Login.                                                                  *)

\* #config: one discovery for all calls that wait for it.
Configured == discovery' = IF discovery = "none" THEN "pending" ELSE discovery

\* GET /v1/auth/login
Login(c, b) ==
  /\ Begin(c, Request(b, "login", "discover"))
  /\ Configured
  /\ UNCHANGED <<rows, jar, budget>>

DiscoverySucceeds ==
  /\ discovery = "pending" /\ discovery' = "ready"
  /\ UNCHANGED <<rows, jar, call, budget>>

\* It fails for everyone who waits; the next call tries again.
DiscoveryFails ==
  /\ discovery = "pending" /\ discovery' = "none"
  /\ Spend("faults")
  /\ call' = [c \in Calls |-> IF call[c].stage \in {"discover", "exchange"}
                              THEN [call[c] EXCEPT !.stage = "answer"] ELSE call[c]]
  /\ UNCHANGED <<rows, jar>>

\* A statement whose effect is in the database may still fail for the caller.
Reported(c, next) ==
  \/ call' = next /\ UNCHANGED budget
  \/ call' = Answered(c, FALSE) /\ Spend("faults")

\* createLoginAttempt
RecordAttempt(c) ==
  /\ call[c].stage = "discover" /\ discovery = "ready"
  /\ attempt' = [attempt EXCEPT ![c] = "open"]
  /\ Reported(c, Answered(c, TRUE))
  /\ UNCHANGED <<account, disabled, members, session, jar, discovery>>

-----------------------------------------------------------------------------
(* Callback.                                                               *)

\* The logins that have sent their browser to the provider; the address that
\* it sends them back to may be opened more than once, and in another browser.
Redirected == {b \in Browsers : attempt[b] # "none"}
              \cup {c \in Calls : call[c].kind = "login" /\ call[c].stage = "over"}
BeganIn(a) == IF a \in Browsers THEN a ELSE call[a].browser

\* Mutant: the login cookie need not be that of the state.
AnyCookie(b, a) == TRUE

CookieNamesState(b, a) == jar[b].login = a

\* GET /v1/auth/callback
Callback(c, b, a) ==
  /\ a \in Redirected
  /\ Begin(c, [Request(b, "callback", IF CookieNamesState(b, a) THEN "consume" ELSE "answer")
                 EXCEPT !.attempt = a])
  /\ UNCHANGED <<rows, jar, discovery, budget>>

\* consumeLoginAttempt: used up, also if the provider has refused the login.
Consume(c) ==
  /\ call[c].stage = "consume"
  /\ \/ /\ attempt[call[c].attempt] = "open"
        /\ attempt' = [attempt EXCEPT ![call[c].attempt] = "gone"]
        /\ \/ Reported(c, Went(c, "exchange")) /\ Configured
           \/ call' = Answered(c, FALSE) /\ UNCHANGED <<budget, discovery>>
     \/ /\ attempt[call[c].attempt] # "open"
        /\ call' = Answered(c, FALSE) /\ UNCHANGED <<attempt, budget, discovery>>
  /\ UNCHANGED <<account, disabled, members, session, jar>>

\* exchange: the provider says who logged in.
Exchange(c) ==
  /\ call[c].stage = "exchange" /\ discovery = "ready"
  /\ \E i \in Identities :
       call' = [call EXCEPT ![c].stage = "enroll", ![c].identity = i]
  /\ UNCHANGED <<rows, jar, discovery, budget>>

\* Mutant: findOrCreateUser without the advisory lock.
NeverLocked(c) == FALSE

\* pg_advisory_xact_lock of the identity, held until the insert commits.
LockedByOther(c) ==
  \E d \in Calls \ {c} : call[d].stage = "insert" /\ call[d].identity = call[c].identity

\* findOrCreateUser: finds the account, or goes on to create it.
FindUser(c) ==
  /\ call[c].stage = "enroll" /\ ~LockedByOther(c)
  /\ LET user == account[call[c].identity]
     IN  IF user # None
         THEN Reported(c, [call EXCEPT ![c].stage = "open", ![c].user = user])
         ELSE call' = Went(c, "insert") /\ UNCHANGED budget
  /\ UNCHANGED <<rows, jar, discovery>>

\* The new user; an identity that exists by now violates its primary key.
CreateUser(c) ==
  /\ call[c].stage = "insert"
  /\ IF account[call[c].identity] = None
     THEN /\ account' = [account EXCEPT ![call[c].identity] = c]
          /\ Reported(c, [call EXCEPT ![c].stage = "open", ![c].user = c])
     ELSE call' = Answered(c, FALSE) /\ UNCHANGED <<account, budget>>
  /\ UNCHANGED <<attempt, disabled, members, session, jar, discovery>>

\* createSession, only for an enabled user; then a previous session is revoked.
OpenSession(c) ==
  /\ call[c].stage = "open"
  /\ IF call[c].user \in disabled
     THEN call' = Answered(c, FALSE) /\ UNCHANGED <<session, budget>>
     ELSE /\ session' = [session EXCEPT ![c] = [status |-> "live", user |-> call[c].user,
                                                attempt |-> call[c].attempt]]
          /\ Reported(c, IF call[c].session # None THEN Went(c, "retire") ELSE Answered(c, TRUE))
  /\ UNCHANGED <<attempt, account, disabled, members, jar, discovery>>

Revoked(t) == IF session[t].status = "live" THEN [session EXCEPT ![t].status = "revoked"] ELSE session

\* Mutant: a revocation that fails does not stop the login.
RetireAnyway(c) ==
  /\ call[c].stage = "retire"
  /\ session' = Revoked(call[c].session) \/ session' = session
  /\ call' = Answered(c, TRUE)
  /\ UNCHANGED <<attempt, account, disabled, members, jar, discovery, budget>>

\* revokeSession of the token that the callback's request carried.
Retire(c) ==
  /\ call[c].stage = "retire"
  /\ session' = Revoked(call[c].session)
  /\ Reported(c, Answered(c, TRUE))
  /\ UNCHANGED <<attempt, account, disabled, members, jar, discovery>>

-----------------------------------------------------------------------------
(* The console's requests.                                                 *)

\* fetchConsoleSession: GET /v1/auth/session, before a request that changes
\* something.  Without a cookie it is refused at once.
Ask(c, b, kind) ==
  /\ kind \in PageKinds /\ jar[b].session # None
  /\ Begin(c, Request(b, kind, "ask"))
  /\ UNCHANGED <<rows, jar, discovery, budget>>

Told(c) ==
  /\ call[c].stage = "ask"
  /\ call' = IF Resolves(call[c].session)
             THEN [call EXCEPT ![c] = [NoCall EXCEPT
                     !.kind = call[c].kind, !.stage = "told", !.browser = call[c].browser,
                     !.csrf = call[c].session, !.seen = session[call[c].session].user]]
             ELSE Over(c)
  /\ UNCHANGED <<rows, jar, discovery, budget>>

\* Mutant: only the origin of a request is compared.
SameOrigin(csrf, token) == TRUE

\* requireSameOriginCsrf: the token is an HMAC of the session token.
CsrfValid(csrf, token) == csrf = token

\* The page sends the request itself, with the cookies of now.  Logout and
\* issue updates verify the CSRF token first, the others after the session.
Send(c) ==
  /\ call[c].stage = "told"
  /\ LET b == call[c].browser
         request == [Request(b, call[c].kind, "resolve") EXCEPT !.csrf = call[c].csrf, !.seen = call[c].seen]
         refused == \/ request.session = None
                    \/ request.kind # "act" /\ ~CsrfValid(request.csrf, request.session)
     IN  call' = IF refused THEN Over(c)
                 ELSE [call EXCEPT ![c] = IF request.kind = "logout"
                                          THEN [request EXCEPT !.stage = "revoke"] ELSE request]
  /\ UNCHANGED <<rows, jar, discovery, budget>>

\* A view of the project.
Read(c, b) ==
  /\ jar[b].session # None
  /\ Begin(c, Request(b, "read", "resolve"))
  /\ UNCHANGED <<rows, jar, discovery, budget>>

\* requireConsoleSession and the first half of authorizeProjectAccess.
Resolve(c) ==
  /\ call[c].stage = "resolve"
  /\ LET t == call[c].session
         admitted == Resolves(t) /\ (call[c].kind = "act" => CsrfValid(call[c].csrf, t))
     IN  call' = IF ~admitted THEN Answered(c, FALSE)
                 ELSE [call EXCEPT ![c].stage = IF call[c].kind = "act" THEN "store" ELSE "authorize",
                                   ![c].user = session[t].user]
  /\ UNCHANGED <<rows, jar, discovery, budget>>

\* authorizeProject: the session again, now with the membership.
Authorize(c) ==
  /\ call[c].stage = "authorize"
  /\ LET t == call[c].session
     IN  call' = IF ~Resolves(t) \/ session[t].user \notin members THEN Answered(c, FALSE)
                 ELSE IF call[c].kind = "read" THEN Answered(c, TRUE) ELSE Went(c, "store")
  /\ UNCHANGED <<rows, jar, discovery, budget>>

\* The change, with the user that was resolved.  Membership, key and project
\* changes look at the membership in their own transaction (see Organization),
\* an issue update does not.
Store(c) ==
  /\ call[c].stage = "store"
  /\ IF call[c].kind = "act" /\ call[c].user \notin members \ disabled
     THEN call' = Answered(c, FALSE) /\ UNCHANGED budget
     ELSE Reported(c, Answered(c, TRUE))
  /\ UNCHANGED <<rows, jar, discovery>>

\* POST /v1/auth/logout
Revoke(c) ==
  /\ call[c].stage = "revoke"
  /\ session' = Revoked(call[c].session)
  /\ Reported(c, Answered(c, TRUE))
  /\ UNCHANGED <<attempt, account, disabled, members, jar, discovery>>

-----------------------------------------------------------------------------
(* Answers and failures.                                                   *)

\* The cookies that an answer sets and clears.  A callback always clears the
\* login cookie, a logout the session cookie only when it has revoked it.
Cookies(cookies, c) ==
  CASE call[c].kind = "login" /\ call[c].ok -> [cookies EXCEPT !.login = c]
    [] call[c].kind = "callback" -> [login |-> None, session |-> IF call[c].ok THEN c ELSE cookies.session]
    [] call[c].kind = "logout" /\ call[c].ok -> [cookies EXCEPT !.session = None]
    [] OTHER -> cookies

Arrive(c) ==
  /\ call[c].stage = "answer"
  /\ jar' = [jar EXCEPT ![call[c].browser] = Cookies(@, c)]
  /\ call' = IF call[c].kind = "login" /\ call[c].ok
             THEN [call EXCEPT ![c] = [NoCall EXCEPT !.kind = "login", !.stage = "over",
                                                     !.browser = call[c].browser]]
             ELSE Over(c)
  /\ UNCHANGED <<rows, discovery, budget>>

\* The answer is lost, or nobody waits for it.
LoseAnswer(c) ==
  /\ call[c].stage = "answer" /\ Spend("mishaps")
  /\ call' = Over(c)
  /\ UNCHANGED <<rows, jar, discovery>>

\* A statement or the token request fails and nothing is changed.
StatementFails(c) ==
  /\ call[c].stage \notin AtClient /\ Spend("faults")
  /\ call' = IF call[c].stage = "ask" THEN Over(c) ELSE Answered(c, FALSE)
  /\ UNCHANGED <<rows, jar, discovery>>

\* The API process stops: what it was doing ends where it was.
Restart ==
  /\ Spend("mishaps")
  /\ discovery' = "none"
  /\ call' = [c \in Calls |-> IF call[c].stage \notin AtClient
                              THEN [NoCall EXCEPT !.stage = "over"] ELSE call[c]]
  /\ UNCHANGED <<rows, jar>>

AttemptExpires ==
  /\ Spend("mishaps")
  /\ \E a \in Tokens : attempt[a] = "open" /\ attempt' = [attempt EXCEPT ![a] = "gone"]
  /\ UNCHANGED <<account, disabled, members, session, jar, discovery, call>>

SessionExpires ==
  /\ Spend("mishaps")
  /\ \E t \in Tokens : /\ session[t].status = "live"
                       /\ session' = [session EXCEPT ![t].status = "expired"]
  /\ UNCHANGED <<attempt, account, disabled, members, jar, discovery, call>>

\* An operator disables a user, or the organization removes a member.
Excluded ==
  /\ Spend("mishaps")
  /\ \E i \in Identities :
       LET user == account[i]
       IN  /\ user # None
           /\ \/ disabled' = disabled \cup {user} /\ UNCHANGED members
              \/ members' = members \ {user} /\ UNCHANGED disabled
  /\ UNCHANGED <<attempt, account, session, jar, discovery, call>>

-----------------------------------------------------------------------------
\* A browser starts signed out, or signed in with a session of a known user,
\* and may have been sent to the provider.
Init ==
  /\ \E known \in SUBSET Identities, away \in SUBSET Browsers :
     \E holder \in [Browsers -> known \cup {None}] :
       /\ account = [i \in Identities |-> IF i \in known THEN i ELSE None]
       /\ members = known
       /\ session = [t \in Tokens |->
            IF t \in Browsers /\ holder[t] # None
            THEN [status |-> "live", user |-> holder[t], attempt |-> None]
            ELSE [status |-> "none", user |-> None, attempt |-> None]]
       /\ attempt = [a \in Tokens |-> IF a \in away THEN "open" ELSE "none"]
       /\ jar = [b \in Browsers |-> [login |-> IF b \in away THEN b ELSE None,
                                      session |-> IF holder[b] # None THEN b ELSE None]]
  /\ disabled = {}
  /\ discovery = "none"
  /\ call = [c \in Calls |-> NoCall]
  /\ budget \in Budgets

Server(c) ==
  \/ RecordAttempt(c) \/ Consume(c) \/ Exchange(c) \/ FindUser(c) \/ CreateUser(c)
  \/ OpenSession(c) \/ Retire(c) \/ Told(c) \/ Resolve(c) \/ Authorize(c) \/ Store(c) \/ Revoke(c)

Next ==
  \/ \E c \in Calls :
       \/ Server(c) \/ Send(c) \/ Arrive(c) \/ LoseAnswer(c) \/ StatementFails(c)
       \/ \E b \in Browsers :
            \/ Login(c, b) \/ Read(c, b)
            \/ \E a \in Tokens : Callback(c, b, a)
            \/ \E kind \in PageKinds : Ask(c, b, kind)
  \/ DiscoverySucceeds \/ DiscoveryFails
  \/ Restart \/ AttemptExpires \/ SessionExpires \/ Excluded

Spec == Init /\ [][Next]_vars

-----------------------------------------------------------------------------
(* Properties.                                                             *)

TypeOK ==
  /\ attempt \in [Tokens -> {"none", "open", "gone"}]
  /\ account \in [Identities -> Users \cup {None}]
  /\ disabled \subseteq Users /\ members \subseteq Users
  /\ \A t \in Tokens : /\ session[t].status \in {"none", "live", "revoked", "expired"}
                       /\ session[t].status = "none" <=> session[t].user = None
  /\ \A b \in Browsers : jar[b] \in [login : Tokens \cup {None}, session : Tokens \cup {None}]
  /\ \A c \in Calls : call[c].session # None => session[call[c].session].status # "none"
  /\ Cardinality(UnderWay) <= Concurrent

\* A browser is signed in only by a login that it began itself, although the
\* address of a callback may be opened anywhere and twice, and an attempt
\* signs in once.
LoginsAreOwned ==
  /\ \A b \in Browsers :
       LET t == jar[b].session
       IN  t \in Calls => BeganIn(session[t].attempt) = b
  /\ \A s, t \in Calls : s # t /\ session[s].attempt # None => session[s].attempt # session[t].attempt

\* Two first logins of one person at once make one account, and neither fails
\* because of the other.
FirstLoginsDoNotCollide ==
  \A c \in Calls : call[c].stage = "insert" => account[call[c].identity] = None

\* ADR-050: when the answer of a login or a logout changes the session cookie,
\* the session that its own request carried can no longer be used, whatever
\* failed on the way.  It says nothing of a token that another answer has put
\* in the jar meanwhile: a late answer replaces that one although it works.
CarriedSessionIsDead ==
  [][\A c \in Calls :
       /\ call[c].stage = "answer" /\ call[c].session # None
       /\ jar'[call[c].browser].session # jar[call[c].browser].session
       /\ call'[c].stage = "over"
       => session[call[c].session].status # "live"]_vars

\* What a page changes, it changes as the user whom it asked about, although
\* another tab may have signed in somebody else between its two requests.
ActsAsSeen ==
  \A c \in Calls :
    /\ call[c].stage = "store" /\ call[c].kind \in PageKinds => call[c].user = call[c].seen
    /\ call[c].stage = "revoke" => session[call[c].session].user = call[c].seen

\* ADR-050: a request sent with a session that was revoked or had expired by
\* then reads and changes nothing.
DeadSessionsAreRefused ==
  \A c \in Calls :
    \/ call[c].stage \in {"authorize", "store"}
    \/ call[c].stage = "answer" /\ call[c].kind \in {"read", "act", "triage"} /\ call[c].ok
    => ~call[c].dead
=============================================================================
