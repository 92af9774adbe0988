--------------------------- MODULE HostedAuthProofs --------------------------
(***************************************************************************)
(* Hosted authentication, for every number of browsers, people and calls:  *)
(* a browser is signed in by its own login, the session that a login or a  *)
(* logout carried is dead once its answer changes the cookie, a dead       *)
(* session does nothing, and a page acts for the user it saw.              *)
(***************************************************************************)
EXTENDS HostedAuth, TLAPS

-----------------------------------------------------------------------------
(* The inductive invariant: what a call has found out, by its stage.       *)

Kinds == {"none", "logout", "act", "triage", "login", "callback", "read"}
Stages == {"unused", "discover", "consume", "exchange", "enroll", "insert", "open", "retire", "ask", "told",
           "resolve", "authorize", "store", "revoke", "answer", "over"}
Record ==
  [kind : Kinds, stage : Stages, browser : Browsers \cup {None}, login : Tokens \cup {None},
   session : Tokens \cup {None}, attempt : Tokens \cup {None}, identity : Identities \cup {None},
   user : Users \cup {None}, csrf : Tokens \cup {None}, seen : Users \cup {None},
   dead : BOOLEAN, ok : BOOLEAN]
SessionRow ==
  [status : {"none", "live", "revoked", "expired"}, user : Users \cup {None}, attempt : Tokens \cup {None}]

TypesOK ==
  /\ attempt \in [Tokens -> {"none", "open", "gone"}]
  /\ account \in [Identities -> Users \cup {None}]
  /\ session \in [Tokens -> SessionRow]
  /\ jar \in [Browsers -> [login : Tokens \cup {None}, session : Tokens \cup {None}]]
  /\ call \in [Calls -> Record]

\* A login that browser b began: the one it had begun at the start, or one whose
\* answer has reached it.
Owned(a, b) ==
  /\ a # None
  /\ a = b \/ (a \in Calls /\ call[a].kind = "login" /\ call[a].stage = "over" /\ call[a].browser = b)

\* Which kinds of calls are at a stage.
StageOK(c) ==
  LET r == call[c] IN
  /\ r.ok => r.stage = "answer"
  /\ r.stage = "discover" => r.kind = "login"
  /\ r.stage \in {"consume", "exchange", "enroll", "insert", "open", "retire"} => r.kind = "callback"
  /\ r.stage \in {"ask", "told"} => r.kind \in PageKinds
  /\ r.stage \in {"retire", "resolve", "authorize", "store", "revoke"} => r.session # None
  /\ r.stage = "resolve" => r.kind \in {"act", "triage", "read"}
  /\ r.stage = "authorize" => r.kind \in {"triage", "read"}
  /\ r.stage = "store" => r.kind \in {"act", "triage"}
  /\ r.stage = "revoke" => r.kind = "logout"
  /\ r.stage \notin {"unused", "over"} => r.browser # None

\* The random values that a call has not generated yet name no rows.
FreshOK(c) ==
  /\ call[c].stage \in {"unused", "discover"} => attempt[c] = "none"
  /\ call[c].stage \notin {"retire", "answer", "over"} => session[c].status = "none"

\* The session that a request carries.
CarriedOK(c) ==
  LET r == call[c]
      Served == /\ r.stage = "answer" /\ r.ok
  IN  /\ r.session # None => session[r.session].status # "none"
      /\ r.dead => r.session # None /\ session[r.session].status # "live"
      /\ r.stage \in {"authorize", "store"} => ~r.dead
      /\ Served /\ r.kind \in {"read", "act", "triage"} => ~r.dead
      /\ Served /\ r.kind \in {"callback", "logout"} /\ r.session # None =>
           session[r.session].status # "live"

\* The user that a page saw is that of the session its CSRF token is for.
SeenOK(c) ==
  LET r == call[c] IN
  /\ r.stage = "told" \/ (r.stage \in {"resolve", "authorize"} /\ r.kind \in PageKinds) =>
       r.csrf # None /\ session[r.csrf].status # "none" /\ session[r.csrf].user = r.seen
  /\ r.stage \in {"resolve", "authorize"} /\ r.kind = "triage" => r.csrf = r.session
  /\ r.stage = "authorize" => r.user = session[r.session].user
  /\ r.stage = "store" /\ r.kind \in PageKinds => r.user = r.seen
  /\ r.stage = "revoke" => session[r.session].user = r.seen

\* A callback has the attempt of a login that its browser began, and from
\* consuming it until there is a session, nobody else has it.
Claiming == {"exchange", "enroll", "insert", "open"}
Succeeding(r) ==
  r.kind = "callback" /\ (r.stage \in Claiming \cup {"consume", "retire"} \/ (r.stage = "answer" /\ r.ok))
AttemptOK(c) ==
  LET r == call[c] IN
  /\ Succeeding(r) => Owned(r.attempt, r.browser)
  /\ r.stage \in Claiming =>
       attempt[r.attempt] = "gone" /\ \A s \in Tokens : session[s].attempt # r.attempt
  /\ Succeeding(r) /\ r.stage \in {"retire", "answer"} =>
       session[c].attempt = r.attempt /\ session[c].status # "none"
  /\ r.stage \in {"enroll", "insert"} => r.identity # None
  /\ r.stage = "insert" => account[r.identity] = None
  /\ r.stage = "open" => r.user # None

CallOK(c) == StageOK(c) /\ FreshOK(c) /\ CarriedOK(c) /\ SeenOK(c) /\ AttemptOK(c)

PairsOK ==
  \A c, d \in Calls : c # d =>
    /\ call[c].stage \in Claiming /\ call[d].stage \in Claiming => call[c].attempt # call[d].attempt
    /\ call[c].stage = "insert" /\ call[d].stage = "insert" => call[c].identity # call[d].identity

JarOK(b) ==
  /\ jar[b].login # None => Owned(jar[b].login, b)
  /\ jar[b].session # None => session[jar[b].session].status # "none"
  /\ jar[b].session \in Calls =>
       call[jar[b].session].stage = "over" /\ Owned(session[jar[b].session].attempt, b)

SessionsOK ==
  \A t \in Tokens :
    /\ session[t].status = "none" => session[t].attempt = None
    /\ session[t].status # "none" => session[t].user # None
    /\ session[t].attempt # None => attempt[session[t].attempt] = "gone"
    /\ \A s \in Tokens : s # t /\ session[s].attempt # None => session[s].attempt # session[t].attempt

IInv ==
  /\ TypesOK
  /\ \A c \in Calls : CallOK(c)
  /\ PairsOK
  /\ \A b \in Browsers : JarOK(b)
  /\ SessionsOK

USE HostedAuthAssumption DEF Tokens, Users

LEMMA NoCallType == NoCall \in Record
  BY DEF NoCall, Record, Kinds, Stages

LEMMA StageType ==
  ASSUME NEW r \in Record, NEW stage \in Stages
  PROVE  [r EXCEPT !.stage = stage] \in Record
  BY DEF Record

LEMMA FieldTypes ==
  ASSUME NEW r \in Record
  PROVE  /\ \A kind \in Kinds : [r EXCEPT !.kind = kind] \in Record
         /\ \A b \in Browsers \cup {None} : [r EXCEPT !.browser = b] \in Record
         /\ \A t \in Tokens \cup {None} : [r EXCEPT !.login = t] \in Record
         /\ \A t \in Tokens \cup {None} : [r EXCEPT !.session = t] \in Record
         /\ \A t \in Tokens \cup {None} : [r EXCEPT !.csrf = t] \in Record
         /\ \A user \in Users \cup {None} : [r EXCEPT !.seen = user] \in Record
         /\ [r EXCEPT !.dead = TRUE] \in Record
         /\ [r EXCEPT !.dead = FALSE] \in Record
<1>1. \A kind \in Kinds : [r EXCEPT !.kind = kind] \in Record
  BY DEF Record
<1>2. \A b \in Browsers \cup {None} : [r EXCEPT !.browser = b] \in Record
  BY DEF Record
<1>3. \A t \in Tokens \cup {None} : [r EXCEPT !.login = t] \in Record
  BY DEF Record
<1>4. \A t \in Tokens \cup {None} : [r EXCEPT !.session = t] \in Record
  BY DEF Record
<1>5. \A t \in Tokens \cup {None} : [r EXCEPT !.csrf = t] \in Record
  BY DEF Record
<1>6. \A user \in Users \cup {None} : [r EXCEPT !.seen = user] \in Record
  BY DEF Record
<1>7. [r EXCEPT !.dead = TRUE] \in Record
  BY ZenonT(40) DEF Record
<1>8. [r EXCEPT !.dead = FALSE] \in Record
  BY ZenonT(40) DEF Record
<1> QED
  BY <1>1, <1>2, <1>3, <1>4, <1>5, <1>6, <1>7, <1>8

LEMMA ToldType ==
  ASSUME NEW kind \in Kinds, NEW stage \in Stages, NEW b \in Browsers \cup {None},
         NEW csrf \in Tokens \cup {None}, NEW seen \in Users \cup {None}
  PROVE  [NoCall EXCEPT !.kind = kind, !.stage = stage, !.browser = b, !.csrf = csrf, !.seen = seen] \in Record
<1> QED
  BY FieldTypes, StageType, NoCallType, Zenon

LEMMA InitIInv == Init => IInv
<1> SUFFICES ASSUME Init PROVE IInv
  OBVIOUS
<1> DEFINE Start(known, away, holder) ==
       /\ account = [i \in Identities |-> IF i \in known THEN i ELSE None]
       /\ members = known
       /\ session = [t \in Tokens |->
            IF t \in Browsers /\ holder[t] # None
            THEN [status |-> "live", user |-> holder[t], attempt |-> None]
            ELSE [status |-> "none", user |-> None, attempt |-> None]]
       /\ attempt = [a \in Tokens |-> IF a \in away THEN "open" ELSE "none"]
       /\ jar = [b \in Browsers |-> [login |-> IF b \in away THEN b ELSE None,
                                      session |-> IF holder[b] # None THEN b ELSE None]]
<1> PICK known \in SUBSET Identities, away \in SUBSET Browsers :
       \E holder \in [Browsers -> known \cup {None}] : Start(known, away, holder)
  BY Zenon DEF Init
<1> PICK holder \in [Browsers -> known \cup {None}] : Start(known, away, holder)
  BY Zenon
<1>1. call = [c \in Calls |-> NoCall]
  BY DEF Init
<1>2. TypesOK
  BY <1>1, NoCallType DEF TypesOK, SessionRow
<1>3. \A c \in Calls : CallOK(c)
  BY <1>1 DEF CallOK, StageOK, FreshOK, CarriedOK, SeenOK, AttemptOK, NoCall, Claiming, Succeeding
<1>4. PairsOK /\ SessionsOK
  BY <1>1 DEF PairsOK, SessionsOK, NoCall, Claiming
<1>5. \A b \in Browsers : JarOK(b)
  BY <1>1 DEF JarOK, Owned
<1> QED
  BY <1>2, <1>3, <1>4, <1>5 DEF IInv

-----------------------------------------------------------------------------
(* What steps have in common.                                              *)

\* Calls that are over, sessions that exist and attempts that are gone stay so.
Older ==
  /\ \A a \in Calls : call[a].stage = "over" => call'[a] = call[a]
  /\ \A t \in Tokens : session[t].status # "none" =>
       /\ session'[t].user = session[t].user /\ session'[t].attempt = session[t].attempt
       /\ session'[t].status # "none"
       /\ session[t].status # "live" => session'[t].status # "live"
  /\ \A a \in Tokens : attempt[a] = "gone" => attempt'[a] = "gone"

LEMMA OwnedStays ==
  ASSUME IInv, Older, NEW a, NEW b, Owned(a, b)
  PROVE  Owned(a, b)'
  BY DEF Owned, Older

\* What a step of others may not disturb.
LEMMA Stable ==
  ASSUME IInv, TypesOK', Older, NEW d \in Calls, call'[d] = call[d],
         attempt[d] = "none" /\ call[d].stage \in {"unused", "discover"} => attempt'[d] = "none",
         session[d].status = "none" => session'[d].status = "none",
         call[d].stage = "insert" => account'[call[d].identity] = account[call[d].identity],
         call[d].stage \in Claiming => \A s \in Tokens : session'[s].attempt # call[d].attempt
  PROVE  CallOK(d)'
<1>1. CallOK(d) /\ call[d] \in Record
  BY DEF IInv, TypesOK
<1>2. StageOK(d)'
  BY <1>1 DEF CallOK, StageOK
<1>3. FreshOK(d)'
  BY <1>1 DEF CallOK, FreshOK
<1>4. CarriedOK(d)'
  BY <1>1 DEF CallOK, CarriedOK, Older, Record
<1>5. SeenOK(d)'
  BY <1>1 DEF CallOK, StageOK, CarriedOK, SeenOK, Older, Record
<1>6. AttemptOK(d)'
  <2>1. Succeeding(call[d]) => Owned(call[d].attempt, call[d].browser)'
    BY <1>1, OwnedStays DEF CallOK, AttemptOK
  <2>2. call[d].stage \in Claiming => call[d].attempt \in Tokens
    BY <1>1 DEF CallOK, StageOK, AttemptOK, Succeeding, Owned, Claiming, Record
  <2> QED
    BY <1>1, <2>1, <2>2 DEF CallOK, AttemptOK, Succeeding, Older
<1> QED
  BY <1>2, <1>3, <1>4, <1>5, <1>6 DEF CallOK

\* Cookies that a step leaves alone.
LEMMA JarStays ==
  ASSUME IInv, Older, NEW b \in Browsers, jar'[b] = jar[b]
  PROVE  JarOK(b)'
<1>1. JarOK(b) /\ jar[b].login \in Tokens \cup {None} /\ jar[b].session \in Tokens \cup {None}
  BY DEF IInv, TypesOK
<1>2. jar[b].login # None => Owned(jar[b].login, b)'
  BY <1>1, OwnedStays DEF JarOK
<1> PICK t, a : t = jar[b].session /\ a = session[t].attempt
  OBVIOUS
<1>3. t \in Calls => Owned(a, b)'
  BY <1>1, OwnedStays DEF JarOK
<1>4. t \in Tokens => session'[t].status # "none" /\ session'[t].attempt = a
  BY <1>1 DEF JarOK, Older
<1> QED
  BY <1>1, <1>2, <1>3, <1>4 DEF JarOK, Older

LEMMA RecordTypes ==
  ASSUME TypesOK, NEW c \in Calls, NEW r \in Record, call' = [call EXCEPT ![c] = r],
         UNCHANGED <<attempt, account, session, jar>>
  PROVE  TypesOK' /\ call'[c] = r /\ \A d \in Calls : d # c => call'[d] = call[d]
  BY DEF TypesOK

\* A call that only its own record changes, and which claims nothing new.
LEMMA AloneIInv ==
  ASSUME IInv, NEW c \in Calls, NEW r \in Record, call[c].stage # "over", call' = [call EXCEPT ![c] = r],
         UNCHANGED <<attempt, account, session, jar>>, CallOK(c)',
         r.stage \in Claiming => call[c].stage \in Claiming /\ r.attempt = call[c].attempt,
         r.stage = "insert" =>
           \A d \in Calls : d # c /\ call[d].stage = "insert" => call[d].identity # r.identity
  PROVE  IInv'
<1>1. TypesOK' /\ call'[c] = r /\ \A d \in Calls : d # c => call'[d] = call[d]
  BY DEF IInv, TypesOK
<1>2. Older
  BY <1>1 DEF Older
<1>3. ASSUME NEW d \in Calls PROVE CallOK(d)'
  BY <1>1, <1>2, <1>3, Stable DEF IInv, CallOK, AttemptOK
<1>4. PairsOK'
  BY <1>1 DEF IInv, PairsOK
<1>5. ASSUME NEW b \in Browsers PROVE JarOK(b)'
  BY <1>2, JarStays
<1> QED
  BY <1>1, <1>3, <1>4, <1>5 DEF IInv, SessionsOK

-----------------------------------------------------------------------------
(* How a call's record changes.                                            *)

\* The same but for the stage and the outcome.
Like(r, s) ==
  /\ r.kind = s.kind /\ r.browser = s.browser /\ r.login = s.login /\ r.session = s.session
  /\ r.attempt = s.attempt /\ r.identity = s.identity /\ r.user = s.user
  /\ r.csrf = s.csrf /\ r.seen = s.seen /\ r.dead = s.dead

LEMMA WentRecord ==
  ASSUME TypesOK, NEW c \in Calls, NEW stage \in Stages
  PROVE  \E r \in Record : /\ Went(c, stage) = [call EXCEPT ![c] = r]
                           /\ r.stage = stage /\ r.ok = call[c].ok /\ Like(r, call[c])
<1> DEFINE r == [call[c] EXCEPT !.stage = stage]
<1>1. r \in Record /\ r.stage = stage /\ r.ok = call[c].ok /\ Like(r, call[c])
  BY DEF TypesOK, Record, Like
<1>2. Went(c, stage) = [call EXCEPT ![c] = r]
  BY DEF Went
<1> QED
  BY <1>1, <1>2

LEMMA AnsweredRecord ==
  ASSUME TypesOK, NEW c \in Calls, NEW ok \in BOOLEAN
  PROVE  \E r \in Record : /\ Answered(c, ok) = [call EXCEPT ![c] = r]
                           /\ r.stage = "answer" /\ r.ok = ok /\ Like(r, call[c])
<1> DEFINE r == [call[c] EXCEPT !.stage = "answer", !.ok = ok]
<1>1. call[c] \in Record
  BY DEF TypesOK
<1>2. r \in Record /\ r.stage = "answer" /\ Like(r, call[c])
  <2> DEFINE s == [call[c] EXCEPT !.stage = "answer"]
  <2>1. s \in Record /\ s.stage = "answer" /\ Like(s, call[c])
    BY <1>1 DEF Record, Like, Stages
  <2>2. r = [s EXCEPT !.ok = ok]
    OBVIOUS
  <2> HIDE DEF s, r
  <2>3. r \in Record /\ r.stage = "answer"
    BY <2>1, <2>2 DEF Record
  <2>4. Like(r, s)
    BY <2>1, <2>2 DEF Record, Like
  <2> QED
    BY <2>1, <2>3, <2>4 DEF Like
<1>3. r.ok = ok
  <2>1. CASE ok = TRUE
    BY <1>1, <2>1 DEF Record
  <2>2. CASE ok = FALSE
    BY <1>1, <2>2 DEF Record
  <2> QED
    BY <2>1, <2>2
<1>4. Answered(c, ok) = [call EXCEPT ![c] = r]
  BY DEF Answered
<1> QED
  BY <1>2, <1>3, <1>4

LEMMA OverRecord ==
  ASSUME NEW c \in Calls
  PROVE  \E r \in Record : /\ Over(c) = [call EXCEPT ![c] = r]
                           /\ r.stage = "over" /\ ~r.ok /\ ~r.dead /\ r.kind = "none" /\ r.session = None
<1> DEFINE r == [NoCall EXCEPT !.stage = "over"]
<1>1. r \in Record /\ r.stage = "over" /\ ~r.ok /\ ~r.dead /\ r.kind = "none" /\ r.session = None
  BY DEF NoCall, Record, Kinds, Stages
<1>2. Over(c) = [call EXCEPT ![c] = r]
  BY DEF Over
<1> QED
  BY <1>1, <1>2

\* A call that failed has nothing to answer for, nor has one that is over.
LEMMA FailedOK ==
  ASSUME IInv, NEW c \in Calls, call'[c].stage = "answer", ~call'[c].ok, Like(call'[c], call[c]),
         call[c].stage \notin {"unused", "over"}, Older, TypesOK'
  PROVE  CallOK(c)'
<1>1. CallOK(c) /\ call[c] \in Record
  BY DEF IInv, TypesOK
<1>2. CarriedOK(c)'
  BY <1>1 DEF CallOK, CarriedOK, Older, Record, Like
<1> QED
  BY <1>1, <1>2 DEF CallOK, StageOK, FreshOK, CarriedOK, SeenOK, AttemptOK, Claiming, Succeeding, Like

LEMMA OverOK ==
  ASSUME NEW c \in Calls, call'[c].stage = "over", ~call'[c].ok, ~call'[c].dead, call'[c].session = None
  PROVE  CallOK(c)'
  BY DEF CallOK, StageOK, FreshOK, CarriedOK, SeenOK, AttemptOK, Claiming, Succeeding

LEMMA FailsIInv ==
  ASSUME IInv, NEW c \in Calls, call[c].stage \notin {"unused", "over"}, call' = Answered(c, FALSE),
         UNCHANGED <<attempt, account, session, jar>>
  PROVE  IInv'
<1>1. PICK r \in Record : /\ call' = [call EXCEPT ![c] = r]
                          /\ r.stage = "answer" /\ r.ok = FALSE /\ Like(r, call[c])
  BY AnsweredRecord DEF IInv
<1>2. TypesOK' /\ call'[c] = r
  BY <1>1, RecordTypes DEF IInv
<1>3. CallOK(c)'
  <2>1. Older
    BY <1>1 DEF IInv, TypesOK, Older
  <2> QED
    BY <1>1, <1>2, <2>1, FailedOK
<1> QED
  BY <1>1, <1>3, AloneIInv DEF Claiming

LEMMA EndsIInv ==
  ASSUME IInv, NEW c \in Calls, call[c].stage # "over", call' = Over(c),
         UNCHANGED <<attempt, account, session, jar>>
  PROVE  IInv'
<1>1. PICK r \in Record : /\ call' = [call EXCEPT ![c] = r]
                          /\ r.stage = "over" /\ ~r.ok /\ ~r.dead /\ r.kind = "none" /\ r.session = None
  BY OverRecord
<1>2. CallOK(c)'
  BY <1>1, OverOK DEF IInv, TypesOK
<1> QED
  BY <1>1, <1>2, AloneIInv DEF Claiming

\* A request that leaves a browser.
Sent(r, b, kind) ==
  /\ r \in Record /\ r.kind = kind /\ r.browser = b /\ r.session = jar[b].session /\ ~r.ok
  /\ r.session # None => session[r.session].status # "none"
  /\ r.dead <=> r.session # None /\ session[r.session].status # "live"

LEMMA RequestRecord ==
  ASSUME IInv, NEW b \in Browsers, NEW kind \in Kinds, NEW stage \in Stages
  PROVE  Sent(Request(b, kind, stage), b, kind) /\ Request(b, kind, stage).stage = stage
<1>1. jar[b].login \in Tokens \cup {None} /\ jar[b].session \in Tokens \cup {None} /\ JarOK(b)
  BY DEF IInv, TypesOK
<1> PICK dead \in BOOLEAN : dead = (jar[b].session # None /\ session[jar[b].session].status # "live")
  OBVIOUS
<1> DEFINE r == [NoCall EXCEPT !.kind = kind, !.stage = stage, !.browser = b,
                               !.login = jar[b].login, !.session = jar[b].session, !.dead = dead]
<1>2. Request(b, kind, stage) = r
  BY Zenon DEF Request
<1>3. r \in Record
  <2> DEFINE q == [NoCall EXCEPT !.kind = kind, !.stage = stage, !.browser = b,
                                 !.login = jar[b].login, !.session = jar[b].session]
  <2>1. q \in Record
    BY <1>1, NoCallType, FieldTypes, StageType, Zenon
  <2>2. r = [q EXCEPT !.dead = dead]
    OBVIOUS
  <2> HIDE DEF q, r
  <2> QED
    BY <2>1, <2>2, FieldTypes, Zenon
<1>4. r.kind = kind /\ r.stage = stage /\ r.browser = b /\ r.session = jar[b].session /\ ~r.ok
  BY DEF NoCall
<1>5. r.dead <=> dead
  <2>1. CASE dead = TRUE
    BY <2>1 DEF NoCall
  <2>2. CASE dead = FALSE
    BY <2>2 DEF NoCall
  <2> QED
    BY <2>1, <2>2
<1> HIDE DEF r
<1> QED
  BY <1>1, <1>2, <1>3, <1>4, <1>5 DEF JarOK, Sent

Beginning(r) ==
  \/ r.stage = "discover" /\ r.kind = "login"
  \/ r.stage = "answer"
  \/ r.stage = "consume" /\ r.kind = "callback" /\ Owned(r.attempt, r.browser)
  \/ r.stage = "ask" /\ r.kind \in PageKinds
  \/ r.stage = "resolve" /\ r.kind = "read" /\ r.session # None

LEMMA BeginsIInv ==
  ASSUME IInv, NEW c \in Calls, NEW b \in Browsers, NEW r, NEW kind, Sent(r, b, kind), Beginning(r),
         call[c].stage = "unused", call' = [call EXCEPT ![c] = r],
         UNCHANGED <<attempt, account, session, jar>>
  PROVE  IInv'
<1> USE DEF Sent, Beginning
<1> b # None
  OBVIOUS
<1>1. call'[c] = r /\ CallOK(c) /\ Older
  BY DEF IInv, TypesOK, Older
<1>2. Owned(r.attempt, r.browser) => Owned(r.attempt, r.browser)'
  BY <1>1, OwnedStays
<1>3. "read" \notin PageKinds
  BY DEF PageKinds
<1>4. StageOK(c)' /\ FreshOK(c)'
  BY <1>1 DEF CallOK, StageOK, FreshOK
<1>5. CarriedOK(c)' /\ SeenOK(c)'
  BY <1>1, <1>3 DEF CarriedOK, SeenOK
<1>6. AttemptOK(c)'
  BY <1>1, <1>2 DEF AttemptOK, Claiming, Succeeding
<1>7. CallOK(c)'
  BY <1>4, <1>5, <1>6 DEF CallOK
<1> QED
  BY <1>1, <1>7, AloneIInv DEF Claiming

-----------------------------------------------------------------------------
(* Requests that leave a browser, and answers that reach it.               *)

LEMMA LoginIInv ==
  ASSUME IInv, NEW c \in Calls, NEW b \in Browsers, Login(c, b)
  PROVE  IInv'
<1> PICK r : r = Request(b, "login", "discover")
  OBVIOUS
<1>1. "login" \in Kinds /\ "discover" \in Stages /\ b # None
  BY DEF Kinds, Stages
<1>2. /\ call[c].stage = "unused" /\ call' = [call EXCEPT ![c] = r]
      /\ UNCHANGED <<attempt, account, session, jar>>
  BY DEF Login, Begin, rows
<1>3. Sent(r, b, "login") /\ Beginning(r)
  BY <1>1, RequestRecord DEF Beginning, Sent
<1> QED
  BY <1>2, <1>3, BeginsIInv

LEMMA ReadIInv ==
  ASSUME IInv, NEW c \in Calls, NEW b \in Browsers, Read(c, b)
  PROVE  IInv'
<1> PICK r : r = Request(b, "read", "resolve")
  OBVIOUS
<1>1. "read" \in Kinds /\ "resolve" \in Stages /\ b # None
  BY DEF Kinds, Stages
<1>2. /\ call[c].stage = "unused" /\ call' = [call EXCEPT ![c] = r] /\ jar[b].session # None
      /\ UNCHANGED <<attempt, account, session, jar>>
  BY DEF Read, Begin, rows
<1>3. Sent(r, b, "read") /\ Beginning(r)
  BY <1>1, <1>2, RequestRecord DEF Beginning, Sent
<1> QED
  BY <1>2, <1>3, BeginsIInv

LEMMA AskIInv ==
  ASSUME IInv, NEW c \in Calls, NEW b \in Browsers, NEW kind \in PageKinds, Ask(c, b, kind)
  PROVE  IInv'
<1> PICK r : r = Request(b, kind, "ask")
  OBVIOUS
<1>1. kind \in Kinds /\ "ask" \in Stages /\ b # None
  BY DEF Kinds, Stages, PageKinds
<1>2. /\ call[c].stage = "unused" /\ call' = [call EXCEPT ![c] = r]
      /\ UNCHANGED <<attempt, account, session, jar>>
  BY DEF Ask, Begin, rows
<1>3. Sent(r, b, kind) /\ Beginning(r)
  BY <1>1, RequestRecord DEF Beginning, Sent
<1> QED
  BY <1>2, <1>3, BeginsIInv

\* A callback goes on only in the browser whose login it answers.
LEMMA CallbackIInv ==
  ASSUME IInv, NEW c \in Calls, NEW b \in Browsers, NEW a \in Tokens, Callback(c, b, a)
  PROVE  IInv'
<1> PICK stage \in {"consume", "answer"} : stage = IF CookieNamesState(b, a) THEN "consume" ELSE "answer"
  OBVIOUS
<1> PICK q : q = Request(b, "callback", stage)
  OBVIOUS
<1> PICK r : r = [q EXCEPT !.attempt = a]
  OBVIOUS
<1>1. "callback" \in Kinds /\ stage \in Stages /\ b # None
  BY DEF Kinds, Stages
<1>2. Sent(q, b, "callback") /\ q.stage = stage
  BY <1>1, RequestRecord
<1>3. Sent(r, b, "callback") /\ r.stage = stage /\ r.attempt = a
  <2>1. r \in Record /\ r.attempt = a
    BY <1>2 DEF Sent, Record
  <2>2. /\ r.kind = q.kind /\ r.stage = q.stage /\ r.browser = q.browser /\ r.session = q.session
        /\ r.ok = q.ok /\ r.dead = q.dead
    BY <1>2 DEF Sent, Record
  <2> QED
    BY <1>2, <2>1, <2>2 DEF Sent
<1>4. /\ call[c].stage = "unused" /\ call' = [call EXCEPT ![c] = r]
      /\ UNCHANGED <<attempt, account, session, jar>>
  BY Zenon DEF Callback, Begin, rows
<1>5. stage = "consume" => Owned(a, b)
  BY DEF CookieNamesState, IInv, JarOK
<1>6. Beginning(r)
  BY <1>3, <1>5 DEF Beginning, Sent
<1> QED
  BY <1>3, <1>4, <1>6, BeginsIInv

\* The page knows whom it asked about, and the CSRF token of that session.
LEMMA ToldIInv ==
  ASSUME IInv, NEW c \in Calls, Told(c)
  PROVE  IInv'
<1>1. /\ call[c].stage = "ask" /\ UNCHANGED <<attempt, account, session, jar>>
      /\ CallOK(c) /\ call[c] \in Record
  BY DEF Told, rows, IInv, TypesOK
<1>2. CASE ~Resolves(call[c].session)
  BY <1>1, <1>2, EndsIInv DEF Told
<1>3. CASE Resolves(call[c].session)
  <2> PICK old : old = call[c]
    OBVIOUS
  <2> PICK seen : seen = session[old.session].user
    OBVIOUS
  <2> PICK r : r = [NoCall EXCEPT !.kind = old.kind, !.stage = "told", !.browser = old.browser,
                                  !.csrf = old.session, !.seen = seen]
    OBVIOUS
  <2>1. call' = [call EXCEPT ![c] = r]
    BY <1>3 DEF Told
  <2>2. /\ old.session # None /\ session[old.session].status # "none" /\ old.session \in Tokens
        /\ seen \in Users \cup {None} /\ old.kind \in PageKinds /\ old.browser # None
    BY <1>1, <1>3 DEF Resolves, CallOK, StageOK, IInv, TypesOK, Record, SessionRow
  <2>3. /\ r \in Record /\ r.kind = old.kind /\ r.stage = "told" /\ r.browser = old.browser
        /\ r.csrf = old.session /\ r.seen = seen /\ ~r.ok /\ ~r.dead /\ r.session = None
    <3>3. /\ old.kind \in Kinds /\ "told" \in Stages /\ old.browser \in Browsers \cup {None}
          /\ old.session \in Tokens \cup {None}
      BY <1>1 DEF Record, Stages
    <3>4. [NoCall EXCEPT !.kind = old.kind, !.stage = "told", !.browser = old.browser,
                         !.csrf = old.session, !.seen = seen] \in Record
      BY <2>2, <3>3, ToldType
    <3>1. r \in Record
      BY <3>4
    <3>2. ~NoCall.ok /\ ~NoCall.dead /\ NoCall.session = None /\ NoCall \in Record
      BY NoCallType DEF NoCall
    <3>5. /\ r.kind = old.kind /\ r.stage = "told" /\ r.browser = old.browser
          /\ r.csrf = old.session /\ r.seen = seen /\ r.session = None
      BY DEF NoCall
    <3>6. ~r.ok /\ ~r.dead
      BY DEF NoCall
    <3> QED
      BY <3>1, <3>5, <3>6
  <2>4. call'[c] = r
    BY <2>1 DEF IInv, TypesOK
  <2>5. CallOK(c)'
    BY <1>1, <2>2, <2>3, <2>4 DEF CallOK, StageOK, FreshOK, CarriedOK, SeenOK, AttemptOK, Claiming, Succeeding
  <2> QED
    BY <1>1, <2>1, <2>3, <2>5, AloneIInv DEF Claiming
<1> QED
  BY <1>2, <1>3

\* A request that goes on with the token of what its page was told.
LEMMA GoesIInv ==
  ASSUME IInv, NEW c \in Calls, NEW b \in Browsers, NEW r, NEW kind, Sent(r, b, kind),
         call[c].stage = "told", call[c].kind = kind,
         kind = "logout" => r.stage = "revoke", kind # "logout" => r.stage = "resolve",
         r.csrf = call[c].csrf, r.seen = call[c].seen, r.session # None, kind # "act" => r.csrf = r.session,
         call' = [call EXCEPT ![c] = r], UNCHANGED <<attempt, account, session, jar>>
  PROVE  IInv'
<1>1. /\ call'[c] = r /\ r \in Record /\ r.kind = call[c].kind /\ r.browser = b /\ ~r.ok
      /\ session[r.session].status # "none"
      /\ r.dead => session[r.session].status # "live"
  BY DEF IInv, TypesOK, Sent
<1>2. CallOK(c) /\ call[c].kind \in PageKinds /\ b # None
  BY DEF IInv, CallOK, StageOK
<1>3. StageOK(c)' /\ FreshOK(c)'
  BY <1>1, <1>2 DEF CallOK, StageOK, FreshOK, PageKinds
<1>4. CarriedOK(c)'
  BY <1>1 DEF CarriedOK
<1>5. SeenOK(c)'
  BY <1>1, <1>2 DEF CallOK, SeenOK
<1>6. AttemptOK(c)'
  BY <1>1 DEF AttemptOK, Claiming, Succeeding
<1>7. CallOK(c)' /\ r.stage \notin Claiming /\ r.stage # "insert"
  BY <1>3, <1>4, <1>5, <1>6 DEF CallOK, Claiming
<1> QED
  BY <1>1, <1>7, AloneIInv

\* The second request carries the cookies of its own moment.
LEMMA SendIInv ==
  ASSUME IInv, NEW c \in Calls, Send(c)
  PROVE  IInv'
<1> PICK kind, b : kind = call[c].kind /\ b = call[c].browser
  OBVIOUS
<1>1. /\ call[c].stage = "told" /\ UNCHANGED <<attempt, account, session, jar>>
      /\ CallOK(c) /\ call[c] \in Record
  BY DEF Send, rows, IInv, TypesOK
<1>2. b \in Browsers /\ kind \in PageKinds /\ kind \in Kinds
  BY <1>1 DEF CallOK, StageOK, Record
<1> DEFINE Goes(r) ==
       /\ Sent(r, b, kind) /\ r.csrf = call[c].csrf /\ r.seen = call[c].seen
       /\ kind = "logout" => r.stage = "revoke"
       /\ kind # "logout" => r.stage = "resolve"
<1>3. \E r : /\ Goes(r)
             /\ \/ call' = Over(c)
                \/ /\ call' = [call EXCEPT ![c] = r] /\ r.session # None
                   /\ kind # "act" => r.csrf = r.session
  <2> PICK old : old = call[c]
    OBVIOUS
  <2> PICK q : q = Request(b, kind, "resolve")
    OBVIOUS
  <2> PICK p : p = [q EXCEPT !.csrf = old.csrf, !.seen = old.seen]
    OBVIOUS
  <2> PICK r : r = IF kind = "logout" THEN [p EXCEPT !.stage = "revoke"] ELSE p
    OBVIOUS
  <2>1. Sent(q, b, kind) /\ q.stage = "resolve"
    BY <1>2, RequestRecord DEF Stages
  <2>2. old.csrf \in Tokens \cup {None} /\ old.seen \in Users \cup {None} /\ q \in Record
    BY <1>1, <2>1 DEF Sent, Record
  <2>3. p \in Record
    BY <2>2, FieldTypes, Zenon
  <2>4. /\ p.csrf = old.csrf /\ p.seen = old.seen /\ p.kind = q.kind /\ p.browser = q.browser
        /\ p.session = q.session /\ p.ok = q.ok /\ p.dead = q.dead /\ p.stage = q.stage
    BY <2>2 DEF Record
  <2>5. Sent(p, b, kind)
    BY <2>1, <2>3, <2>4 DEF Sent
  <2>6. Goes(r) /\ r.session = p.session /\ r.csrf = p.csrf
    <3>1. CASE kind # "logout"
      BY <2>1, <2>4, <2>5, <3>1
    <3>2. CASE kind = "logout"
      <4>1. r = [p EXCEPT !.stage = "revoke"] /\ "revoke" \in Stages
        BY <3>2 DEF Stages
      <4>5. [p EXCEPT !.stage = "revoke"] \in Record
        BY <2>3, <4>1, StageType
      <4>2. r \in Record
        BY <4>1, <4>5
      <4>6. r.ok = p.ok /\ r.dead = p.dead
        BY <2>3, <4>1 DEF Record
      <4>7. r.csrf = p.csrf /\ r.seen = p.seen /\ r.kind = p.kind /\ r.browser = p.browser
        BY <2>3, <4>1 DEF Record
      <4>3. /\ r.csrf = p.csrf /\ r.seen = p.seen /\ r.kind = p.kind /\ r.browser = p.browser
            /\ r.session = p.session /\ r.ok = p.ok /\ r.dead = p.dead /\ r.stage = "revoke"
        BY <2>3, <4>1, <4>6, <4>7 DEF Record
      <4>4. Sent(r, b, kind)
        BY <2>5, <4>2, <4>3 DEF Sent
      <4> QED
        BY <2>4, <3>2, <4>3, <4>4
    <3> QED
      BY <3>1, <3>2
  <2>7. p.kind = kind
    BY <2>5 DEF Sent
  <2>8. LET refused == \/ p.session = None
                       \/ p.kind # "act" /\ ~CsrfValid(p.csrf, p.session)
        IN  call' = IF refused THEN Over(c)
                    ELSE [call EXCEPT ![c] = IF p.kind = "logout" THEN [p EXCEPT !.stage = "revoke"] ELSE p]
    BY Zenon DEF Send
  <2>9. r = IF p.kind = "logout" THEN [p EXCEPT !.stage = "revoke"] ELSE p
    BY <2>7
  <2>10. \/ call' = Over(c)
         \/ call' = [call EXCEPT ![c] = r] /\ p.session # None /\ (kind # "act" => p.csrf = p.session)
    BY <2>7, <2>8, <2>9 DEF CsrfValid
  <2> HIDE DEF Goes
  <2>11. \/ call' = Over(c)
         \/ call' = [call EXCEPT ![c] = r] /\ r.session # None /\ (kind # "act" => r.csrf = r.session)
    BY <2>6, <2>10
  <2> QED
    BY <2>6, <2>11, Zenon
<1>4. CASE call' = Over(c)
  BY <1>1, <1>4, EndsIInv
<1>5. ASSUME NEW r, Goes(r), call' = [call EXCEPT ![c] = r], r.session # None,
             kind # "act" => r.csrf = r.session
      PROVE  IInv'
  BY <1>1, <1>2, <1>5, GoesIInv
<1> QED
  BY <1>3, <1>4, <1>5

-----------------------------------------------------------------------------
(* Steps of the API that read.                                             *)

LEMMA CallFacts ==
  ASSUME IInv, NEW c \in Calls
  PROVE  CallOK(c) /\ StageOK(c) /\ FreshOK(c) /\ CarriedOK(c) /\ SeenOK(c) /\ AttemptOK(c) /\ call[c] \in Record
  BY DEF IInv, CallOK, TypesOK

\* A call that has found out who logs in, or which user that is.
Enrolled(r, s, stage) ==
  /\ r \in Record /\ r.stage = stage /\ r.kind = s.kind /\ r.browser = s.browser /\ r.session = s.session
  /\ r.attempt = s.attempt /\ r.csrf = s.csrf /\ r.seen = s.seen /\ r.ok = s.ok /\ r.dead = s.dead

WithIdentity(s, stage, i) == [s EXCEPT !.stage = stage, !.identity = i]
WithUser(s, stage, user) == [s EXCEPT !.stage = stage, !.user = user]

LEMMA IdentityRecord ==
  ASSUME NEW s \in Record, NEW stage \in Stages, NEW i \in Identities
  PROVE  Enrolled(WithIdentity(s, stage, i), s, stage) /\ WithIdentity(s, stage, i).identity = i
<1> PICK r : r = WithIdentity(s, stage, i)
  OBVIOUS
<1> PICK m : m = [s EXCEPT !.stage = stage]
  OBVIOUS
<1>1. r = [m EXCEPT !.identity = i]
  BY DEF WithIdentity
<1>6. m \in Record
  BY StageType, Zenon
<1>7. \A q \in Record : [q EXCEPT !.identity = i] \in Record
  BY DEF Record
<1>2. m \in Record /\ r \in Record
  BY <1>1, <1>6, <1>7, Zenon
<1>3. /\ m.kind = s.kind /\ m.browser = s.browser /\ m.session = s.session /\ m.stage = stage
      /\ m.attempt = s.attempt /\ m.csrf = s.csrf /\ m.seen = s.seen /\ m.ok = s.ok /\ m.dead = s.dead
  BY DEF Record
<1>4. /\ r.kind = m.kind /\ r.browser = m.browser /\ r.session = m.session /\ r.stage = m.stage
      /\ r.attempt = m.attempt /\ r.csrf = m.csrf /\ r.seen = m.seen /\ r.ok = m.ok /\ r.dead = m.dead
      /\ r.identity = i
  BY <1>1, <1>2 DEF Record
<1> QED
  BY <1>2, <1>3, <1>4 DEF Enrolled

LEMMA UserRecord ==
  ASSUME NEW s \in Record, NEW stage \in Stages, NEW user \in Users \cup {None}
  PROVE  Enrolled(WithUser(s, stage, user), s, stage) /\ WithUser(s, stage, user).user = user
<1> PICK r : r = WithUser(s, stage, user)
  OBVIOUS
<1> PICK m : m = [s EXCEPT !.stage = stage]
  OBVIOUS
<1>1. r = [m EXCEPT !.user = user]
  BY DEF WithUser
<1>6. m \in Record
  BY StageType, Zenon
<1>7. \A q \in Record : [q EXCEPT !.user = user] \in Record
  BY DEF Record
<1>2. m \in Record /\ r \in Record
  BY <1>1, <1>6, <1>7, Zenon
<1>3. /\ m.kind = s.kind /\ m.browser = s.browser /\ m.session = s.session /\ m.stage = stage
      /\ m.attempt = s.attempt /\ m.csrf = s.csrf /\ m.seen = s.seen /\ m.ok = s.ok /\ m.dead = s.dead
  BY DEF Record
<1>4. /\ r.kind = m.kind /\ r.browser = m.browser /\ r.session = m.session /\ r.stage = m.stage
      /\ r.attempt = m.attempt /\ r.csrf = m.csrf /\ r.seen = m.seen /\ r.ok = m.ok /\ r.dead = m.dead
      /\ r.user = user
  BY <1>1, <1>2 DEF Record
<1> QED
  BY <1>2, <1>3, <1>4 DEF Enrolled

\* A callback that goes on claiming its attempt.
LEMMA ClaimsOn ==
  ASSUME IInv, NEW c \in Calls, call[c].stage \in Claiming, call'[c].stage \in Claiming,
         Older, UNCHANGED <<attempt, session>>,
         call'[c].kind = call[c].kind, call'[c].browser = call[c].browser, call'[c].attempt = call[c].attempt,
         call'[c].stage \in {"enroll", "insert"} => call'[c].identity # None,
         call'[c].stage = "insert" => account'[call'[c].identity] = None,
         call'[c].stage = "open" => call'[c].user # None
  PROVE  AttemptOK(c)'
<1> PICK a, b : a = call[c].attempt /\ b = call[c].browser
  OBVIOUS
<1>1. /\ Owned(a, b) /\ call[c].kind = "callback"
      /\ attempt[a] = "gone" /\ \A s \in Tokens : session[s].attempt # a
  BY CallFacts DEF StageOK, AttemptOK, Succeeding, Claiming
<1>2. Owned(a, b)'
  BY <1>1, OwnedStays
<1>3. (call[c].attempt = a /\ call[c].browser = b)'
  OBVIOUS
<1>4. Owned(call[c].attempt, call[c].browser)'
  BY <1>2, <1>3 DEF Owned
<1>5. call'[c].stage \notin {"retire", "answer"}
  BY DEF Claiming
<1> QED
  BY <1>1, <1>3, <1>4, <1>5 DEF AttemptOK

LEMMA ExchangeIInv ==
  ASSUME IInv, NEW c \in Calls, Exchange(c)
  PROVE  IInv'
<1> PICK i \in Identities : call' = [call EXCEPT ![c] = WithIdentity(call[c], "enroll", i)]
  BY DEF Exchange, WithIdentity
<1> PICK old : old = call[c]
  OBVIOUS
<1> PICK r : r = WithIdentity(old, "enroll", i)
  OBVIOUS
<1>9. StageOK(c) /\ FreshOK(c) /\ CarriedOK(c) /\ SeenOK(c) /\ AttemptOK(c) /\ old \in Record
  BY CallFacts
<1>1. /\ old.stage = "exchange" /\ UNCHANGED <<attempt, account, session, jar>>
      /\ old \in Record /\ i # None /\ "enroll" \in Stages
  BY <1>9 DEF Exchange, rows, Stages
<1>2. call' = [call EXCEPT ![c] = r]
  OBVIOUS
<1>3. Enrolled(r, old, "enroll") /\ r.identity = i
  BY <1>1, <1>9, IdentityRecord
<1>4. call'[c] = r /\ Older
  BY <1>1, <1>2 DEF IInv, TypesOK, Older
<1>0. old.kind = "callback"
  BY <1>1, <1>9 DEF StageOK
<1>5. StageOK(c)' /\ FreshOK(c)'
  BY <1>0, <1>1, <1>3, <1>4, <1>9 DEF StageOK, FreshOK, Enrolled
<1>6. CarriedOK(c)' /\ SeenOK(c)'
  BY <1>0, <1>1, <1>3, <1>4, <1>9 DEF CarriedOK, SeenOK, Enrolled
<1>7. AttemptOK(c)'
  BY <1>1, <1>3, <1>4, ClaimsOn DEF Enrolled, Claiming
<1>8. CallOK(c)' /\ r \in Record /\ r.stage = "enroll" /\ r.attempt = call[c].attempt
  BY <1>3, <1>5, <1>6, <1>7 DEF CallOK, Enrolled
<1> QED
  BY <1>1, <1>2, <1>8, AloneIInv DEF Claiming

LEMMA FindUserIInv ==
  ASSUME IInv, NEW c \in Calls, FindUser(c)
  PROVE  IInv'
<1> PICK old : old = call[c]
  OBVIOUS
<1> PICK user : user = account[old.identity]
  OBVIOUS
<1>9. StageOK(c) /\ FreshOK(c) /\ CarriedOK(c) /\ SeenOK(c) /\ AttemptOK(c) /\ old \in Record
  BY CallFacts
<1>1. /\ old.stage = "enroll" /\ UNCHANGED <<attempt, account, session, jar>> /\ old \in Record
      /\ "open" \in Stages /\ "insert" \in Stages
  BY <1>9 DEF FindUser, rows, Stages
<1>0. old.identity \in Identities /\ user \in Users \cup {None} /\ old.kind = "callback"
  <2>1. old.identity # None /\ old.identity \in Identities \cup {None}
    BY <1>1, <1>9 DEF AttemptOK, Record
  <2> QED
    BY <1>1, <2>1, <1>9 DEF StageOK, IInv, TypesOK
<1>2. CASE call' = Answered(c, FALSE)
  BY <1>1, <1>2, FailsIInv
<1>3. CASE user # None /\ call' = [call EXCEPT ![c].stage = "open", ![c].user = user]
  <2> PICK r : r = WithUser(old, "open", user)
    OBVIOUS
  <2>1. call' = [call EXCEPT ![c] = r]
    BY <1>3 DEF WithUser
  <2>2. Enrolled(r, old, "open") /\ r.user = user
    BY <1>0, <1>1, <1>9, UserRecord
  <2>3. call'[c] = r /\ Older
    BY <1>1, <2>1 DEF IInv, TypesOK, Older
  <2>4. StageOK(c)' /\ FreshOK(c)'
    BY <1>0, <1>1, <2>2, <2>3, <1>9 DEF StageOK, FreshOK, Enrolled
  <2>8. CarriedOK(c)'
    BY <1>0, <1>1, <2>2, <2>3, <1>9 DEF CarriedOK, Enrolled
  <2>5. CarriedOK(c)' /\ SeenOK(c)'
    BY <1>0, <2>2, <2>3, <2>8 DEF SeenOK, Enrolled
  <2>6. AttemptOK(c)'
    <3>1. /\ call'[c].stage = "open" /\ call'[c].kind = call[c].kind /\ call'[c].browser = call[c].browser
          /\ call'[c].attempt = call[c].attempt /\ call'[c].user # None /\ call[c].stage = "enroll"
      BY <1>1, <1>3, <2>2, <2>3 DEF Enrolled
    <3> QED
      BY <1>1, <2>3, <3>1, ClaimsOn DEF Claiming
  <2>7. CallOK(c)' /\ r \in Record /\ r.stage = "open" /\ r.attempt = call[c].attempt
    BY <2>2, <2>4, <2>5, <2>6 DEF CallOK, Enrolled
  <2> QED
    BY <1>1, <2>1, <2>7, AloneIInv DEF Claiming
<1>4. CASE user = None /\ call' = Went(c, "insert")
  <2>1. PICK r \in Record : /\ call' = [call EXCEPT ![c] = r]
                            /\ r.stage = "insert" /\ r.ok = call[c].ok /\ Like(r, call[c])
    BY <1>1, <1>4, WentRecord DEF IInv
  <2>2. call'[c] = r /\ Older
    BY <1>1, <2>1 DEF IInv, TypesOK, Older
  <2>3. StageOK(c)' /\ FreshOK(c)'
    BY <1>0, <1>1, <2>1, <2>2, <1>9 DEF StageOK, FreshOK, Like
  <2>4. CarriedOK(c)' /\ SeenOK(c)'
    BY <1>0, <1>1, <2>1, <2>2, <1>9 DEF CarriedOK, SeenOK, Like
  <2>5. AttemptOK(c)'
    BY <1>0, <1>1, <1>4, <2>1, <2>2, ClaimsOn, Zenon DEF Like, Claiming
  <2>6. \A d \in Calls : d # c /\ call[d].stage = "insert" => call[d].identity # old.identity
    BY DEF FindUser, LockedByOther
  <2>7. CallOK(c)' /\ r.attempt = call[c].attempt /\ r.identity = old.identity
    BY <2>1, <2>3, <2>4, <2>5 DEF CallOK, Like
  <2> QED
    BY <1>1, <2>1, <2>6, <2>7, AloneIInv DEF Claiming
<1> QED
  BY <1>2, <1>3, <1>4 DEF FindUser, Reported

\* The session is resolved while it is live.
LEMMA ResolveIInv ==
  ASSUME IInv, NEW c \in Calls, Resolve(c)
  PROVE  IInv'
<1> PICK old : old = call[c]
  OBVIOUS
<1> PICK user : user = session[old.session].user
  OBVIOUS
<1> PICK stage \in {"store", "authorize"} : stage = IF old.kind = "act" THEN "store" ELSE "authorize"
  OBVIOUS
<1>9. StageOK(c) /\ FreshOK(c) /\ CarriedOK(c) /\ SeenOK(c) /\ AttemptOK(c) /\ old \in Record
  BY CallFacts
<1>1. /\ old.stage = "resolve" /\ UNCHANGED <<attempt, account, session, jar>> /\ old \in Record
      /\ old.session \in Tokens /\ user \in Users \cup {None} /\ old.kind \in {"act", "triage", "read"}
  BY <1>9 DEF Resolve, rows, StageOK, IInv, TypesOK, Record, SessionRow
<1>2. CASE call' = Answered(c, FALSE)
  BY <1>1, <1>2, FailsIInv
<1>3. CASE /\ Resolves(old.session) /\ (old.kind = "act" => CsrfValid(old.csrf, old.session))
           /\ call' = [call EXCEPT ![c].stage = stage, ![c].user = user]
  <2> PICK r : r = WithUser(old, stage, user)
    OBVIOUS
  <2>1. call' = [call EXCEPT ![c] = r]
    BY <1>3 DEF WithUser
  <2>8. stage \in Stages
    BY DEF Stages
  <2>2. Enrolled(r, old, stage) /\ r.user = user
    BY <1>1, <1>9, <2>8, UserRecord
  <2>3. call'[c] = r
    BY <1>1, <2>1 DEF IInv, TypesOK
  <2>9. StageOK(c)'
    <3>1. ~old.ok /\ old.browser # None
      BY <1>1, <1>9 DEF StageOK
    <3>2. /\ r.stage = stage /\ r.kind = old.kind /\ r.browser = old.browser /\ r.session = old.session
          /\ r.ok = old.ok
      BY <2>2 DEF Enrolled
    <3>3. /\ stage = "store" => old.kind = "act"
          /\ stage = "authorize" => old.kind \in {"triage", "read"}
      BY <1>1
    <3>4. r.session # None /\ r.browser # None /\ ~r.ok
      BY <1>1, <3>1, <3>2
    <3>5. \/ r.stage = "store" /\ r.kind = "act"
          \/ r.stage = "authorize" /\ r.kind \in {"triage", "read"}
      BY <3>2, <3>3
    <3> QED
      BY <2>3, <3>4, <3>5 DEF StageOK
  <2>4. StageOK(c)' /\ FreshOK(c)'
    BY <1>1, <2>2, <2>3, <2>9, <1>9 DEF FreshOK, Enrolled
  <2>5. CarriedOK(c)'
    BY <1>1, <1>3, <2>2, <2>3, <1>9 DEF CarriedOK, Resolves, Enrolled
  <2>6. SeenOK(c)'
    <3>1. old.kind \in PageKinds => session[old.csrf].user = old.seen /\ old.csrf # None
                                    /\ session[old.csrf].status # "none"
      BY <1>1, <1>9 DEF SeenOK
    <3>2. old.kind \in {"act", "triage"} => old.csrf = old.session
      BY <1>1, <1>3, <1>9 DEF SeenOK, CsrfValid
    <3>3. /\ r.user = user /\ r.kind = old.kind /\ r.session = old.session /\ r.csrf = old.csrf
          /\ r.seen = old.seen /\ r.stage = stage /\ session' = session
      BY <1>1, <2>2 DEF Enrolled
    <3>4. CASE old.kind = "read"
      BY <2>3, <3>3, <3>4 DEF SeenOK, PageKinds
    <3>5. CASE old.kind = "act"
      BY <2>3, <3>1, <3>2, <3>3, <3>5 DEF SeenOK, PageKinds
    <3>6. CASE old.kind = "triage"
      <4>1. /\ r.csrf # None /\ session[r.csrf].status # "none" /\ session[r.csrf].user = r.seen
            /\ r.csrf = r.session /\ r.user = session[r.session].user /\ r.stage = "authorize"
        BY <3>1, <3>2, <3>3, <3>6 DEF PageKinds
      <4> QED
        BY <2>3, <3>3, <4>1 DEF SeenOK
    <3> QED
      BY <1>1, <3>4, <3>5, <3>6
  <2>7. AttemptOK(c)'
    BY <1>1, <2>2, <2>3 DEF AttemptOK, Succeeding, Claiming, Enrolled
  <2> QED
    BY <1>1, <2>1, <2>2, <2>4, <2>5, <2>6, <2>7, AloneIInv DEF CallOK, Claiming, Enrolled
<1>4. \/ call' = Answered(c, FALSE)
      \/ /\ Resolves(old.session) /\ (old.kind = "act" => CsrfValid(old.csrf, old.session))
         /\ call' = [call EXCEPT ![c].stage = stage, ![c].user = user]
  BY DEF Resolve
<1> QED
  BY <1>2, <1>3, <1>4

LEMMA AuthorizeIInv ==
  ASSUME IInv, NEW c \in Calls, Authorize(c)
  PROVE  IInv'
<1> PICK old : old = call[c]
  OBVIOUS
<1>9. StageOK(c) /\ FreshOK(c) /\ CarriedOK(c) /\ SeenOK(c) /\ AttemptOK(c) /\ old \in Record
  BY CallFacts
<1>1. /\ old.stage = "authorize" /\ UNCHANGED <<attempt, account, session, jar>> /\ old \in Record
      /\ old.session \in Tokens /\ old.kind \in {"triage", "read"} /\ ~old.dead
  BY <1>9 DEF Authorize, rows, StageOK, CarriedOK, Record
<1>2. CASE call' = Answered(c, FALSE)
  BY <1>1, <1>2, FailsIInv
<1>3. CASE old.kind = "read" /\ call' = Answered(c, TRUE)
  <2>1. PICK r \in Record : /\ call' = [call EXCEPT ![c] = r]
                            /\ r.stage = "answer" /\ r.ok = TRUE /\ Like(r, call[c])
    BY <1>3, AnsweredRecord DEF IInv
  <2>2. call'[c] = r
    BY <2>1 DEF IInv, TypesOK
  <2>3. StageOK(c)' /\ FreshOK(c)' /\ SeenOK(c)' /\ AttemptOK(c)'
    BY <1>1, <1>3, <2>1, <2>2, <1>9
       DEF StageOK, FreshOK, SeenOK, AttemptOK, Claiming, Succeeding, Like
  <2>4. CarriedOK(c)'
    BY <1>1, <1>3, <2>1, <2>2, <1>9 DEF CarriedOK, Like
  <2> QED
    BY <1>1, <2>1, <2>3, <2>4, AloneIInv DEF CallOK, Claiming
<1>4. CASE old.kind # "read" /\ call' = Went(c, "store")
  <2>1. PICK r \in Record : /\ call' = [call EXCEPT ![c] = r]
                            /\ r.stage = "store" /\ r.ok = call[c].ok /\ Like(r, call[c])
    BY <1>4, WentRecord DEF IInv, Stages
  <2>2. call'[c] = r
    BY <2>1 DEF IInv, TypesOK
  <2>3. StageOK(c)' /\ FreshOK(c)' /\ CarriedOK(c)' /\ AttemptOK(c)'
    BY <1>1, <1>4, <2>1, <2>2, <1>9 DEF StageOK, FreshOK, CarriedOK, AttemptOK, Claiming, Succeeding, Like
  <2>4. SeenOK(c)'
    BY <1>1, <1>4, <2>1, <2>2, <1>9 DEF SeenOK, Like, PageKinds
  <2> QED
    BY <1>1, <2>1, <2>3, <2>4, AloneIInv DEF CallOK, Claiming
<1> QED
  BY <1>2, <1>3, <1>4 DEF Authorize

LEMMA StoreIInv ==
  ASSUME IInv, NEW c \in Calls, Store(c)
  PROVE  IInv'
<1>1. /\ call[c].stage = "store" /\ UNCHANGED <<attempt, account, session, jar>>
      /\ call[c].kind \in {"act", "triage"} /\ ~call[c].dead
  BY CallFacts DEF Store, rows, StageOK, CarriedOK
<1>2. CASE call' = Answered(c, FALSE)
  BY <1>1, <1>2, FailsIInv
<1>3. CASE call' = Answered(c, TRUE)
  <2>1. PICK r \in Record : /\ call' = [call EXCEPT ![c] = r]
                            /\ r.stage = "answer" /\ r.ok = TRUE /\ Like(r, call[c])
    BY <1>3, AnsweredRecord DEF IInv
  <2>2. call'[c] = r
    BY <2>1 DEF IInv, TypesOK
  <2>3. StageOK(c) /\ CarriedOK(c)
    BY CallFacts
  <2>4. StageOK(c)' /\ FreshOK(c)' /\ SeenOK(c)'
    BY <1>1, <2>1, <2>2, <2>3 DEF StageOK, FreshOK, SeenOK, Like
  <2>5. CarriedOK(c)'
    BY <1>1, <2>1, <2>2, <2>3 DEF CarriedOK, Like
  <2>6. AttemptOK(c)'
    BY <1>1, <2>1, <2>2 DEF AttemptOK, Claiming, Succeeding, Like
  <2>7. CallOK(c)'
    BY <2>4, <2>5, <2>6 DEF CallOK
  <2> QED
    BY <1>1, <2>1, <2>7, AloneIInv DEF Claiming
<1> QED
  BY <1>2, <1>3 DEF Store, Reported

LEMMA LostIInv ==
  ASSUME IInv, NEW c \in Calls, LoseAnswer(c) \/ StatementFails(c)
  PROVE  IInv'
<1>1. /\ call[c].stage \notin {"unused", "over"} /\ UNCHANGED <<attempt, account, session, jar>>
      /\ call' = Over(c) \/ call' = Answered(c, FALSE)
  BY DEF LoseAnswer, StatementFails, AtClient, rows
<1> QED
  BY <1>1, FailsIInv, EndsIInv

-----------------------------------------------------------------------------
(* Steps of the API that write.                                            *)

\* What a step of another call, which has r from then on, leaves to call d.
Leaves(d, r) ==
  /\ attempt[d] = "none" => attempt'[d] = "none"
  /\ session[d].status = "none" => session'[d].status = "none"
  /\ call[d].stage = "insert" => account'[call[d].identity] = account[call[d].identity]
  /\ call[d].stage \in Claiming => \A s \in Tokens : session'[s].attempt # call[d].attempt
  /\ r.stage \in Claiming /\ call[d].stage \in Claiming => call[d].attempt # r.attempt

\* A call whose step changes rows as well.
LEMMA WritesIInv ==
  ASSUME IInv, NEW c \in Calls, NEW r \in Record, call[c].stage # "over", call' = [call EXCEPT ![c] = r],
         jar' = jar, TypesOK', Older, CallOK(c)', SessionsOK',
         \A d \in Calls \ {c} : Leaves(d, r), r.stage # "insert"
  PROVE  IInv'
<1>1. call'[c] = r /\ \A d \in Calls : d # c => call'[d] = call[d]
  BY DEF IInv, TypesOK
<1>2. ASSUME NEW d \in Calls PROVE CallOK(d)'
  BY <1>1, Stable DEF Leaves
<1>3. PairsOK'
  BY <1>1 DEF IInv, PairsOK, Leaves
<1>4. ASSUME NEW b \in Browsers PROVE JarOK(b)'
  BY JarStays
<1> QED
  BY <1>2, <1>3, <1>4 DEF IInv

\* The state that is recorded is a new one.
LEMMA RecordAttemptIInv ==
  ASSUME IInv, NEW c \in Calls, RecordAttempt(c)
  PROVE  IInv'
<1>1. /\ call[c].stage = "discover" /\ attempt' = [attempt EXCEPT ![c] = "open"]
      /\ UNCHANGED <<account, session, jar>>
  BY DEF RecordAttempt
<1>2. call[c].kind = "login" /\ attempt[c] = "none" /\ call[c] \in Record /\ CarriedOK(c) /\ StageOK(c)
  BY <1>1, CallFacts DEF StageOK, FreshOK
<1>3. PICK ok \in BOOLEAN : call' = Answered(c, ok)
  BY DEF RecordAttempt, Reported
<1>4. PICK r \in Record : /\ call' = [call EXCEPT ![c] = r]
                          /\ r.stage = "answer" /\ r.ok = ok /\ Like(r, call[c])
  BY <1>3, AnsweredRecord DEF IInv
<1>5. /\ call'[c] = r /\ \A a \in Tokens : a # c => attempt'[a] = attempt[a]
      /\ \A d \in Calls : d # c => call'[d] = call[d]
  BY <1>1, <1>4 DEF IInv, TypesOK
<1>6. TypesOK'
  BY <1>1, <1>4 DEF IInv, TypesOK
<1>7. Older
  BY <1>1, <1>2, <1>5 DEF Older
<1>8. StageOK(c)' /\ FreshOK(c)'
  BY <1>1, <1>2, <1>4, <1>5 DEF StageOK, FreshOK, Like
<1>9. CarriedOK(c)' /\ SeenOK(c)'
  BY <1>1, <1>2, <1>4, <1>5 DEF CarriedOK, SeenOK, Like
<1>10. AttemptOK(c)'
  BY <1>2, <1>4, <1>5 DEF AttemptOK, Claiming, Succeeding, Like
<1>11. CallOK(c)'
  BY <1>8, <1>9, <1>10 DEF CallOK
<1>12. SessionsOK'
  BY <1>1, <1>2, <1>5 DEF IInv, TypesOK, SessionsOK, SessionRow
<1>13. ASSUME NEW d \in Calls \ {c} PROVE Leaves(d, r)
  BY <1>1, <1>4, <1>5, CallFacts DEF Leaves, AttemptOK, Claiming
<1> QED
  BY <1>1, <1>4, <1>6, <1>7, <1>11, <1>12, <1>13, WritesIInv

\* Who consumes an attempt is alone with it.
LEMMA ConsumeIInv ==
  ASSUME IInv, NEW c \in Calls, Consume(c)
  PROVE  IInv'
<1> PICK old : old = call[c]
  OBVIOUS
<1> PICK a, b : a = old.attempt /\ b = old.browser
  OBVIOUS
<1>1. old.stage = "consume" /\ UNCHANGED <<account, session, jar>>
  BY DEF Consume
<1>2. StageOK(c) /\ FreshOK(c) /\ CarriedOK(c) /\ SeenOK(c) /\ AttemptOK(c) /\ old \in Record
  BY CallFacts
<1>3. old.kind = "callback" /\ Owned(a, b)
  BY <1>1, <1>2 DEF StageOK, AttemptOK, Succeeding
<1>4. a \in Tokens
  BY <1>2, <1>3 DEF Owned, Record
<1>5. CASE attempt' = attempt /\ call' = Answered(c, FALSE)
  BY <1>1, <1>5, FailsIInv
<1>6. CASE /\ attempt[a] = "open" /\ attempt' = [attempt EXCEPT ![a] = "gone"]
           /\ call' = Went(c, "exchange") \/ call' = Answered(c, FALSE)
  <2>1. PICK r \in Record : /\ call' = [call EXCEPT ![c] = r] /\ Like(r, old)
                            /\ \/ r.stage = "exchange" /\ r.ok = old.ok
                               \/ r.stage = "answer" /\ r.ok = FALSE
    <3>1. CASE call' = Went(c, "exchange")
      BY <3>1, WentRecord DEF IInv, Stages
    <3>2. CASE call' = Answered(c, FALSE)
      BY <3>2, AnsweredRecord DEF IInv
    <3> QED
      BY <1>6, <3>1, <3>2
  <2>2. /\ call'[c] = r /\ attempt'[a] = "gone" /\ \A t \in Tokens : t # a => attempt'[t] = attempt[t]
        /\ \A d \in Calls : d # c => call'[d] = call[d]
    BY <1>4, <1>6, <2>1 DEF IInv, TypesOK
  <2>3. TypesOK'
    BY <1>1, <1>6, <2>1 DEF IInv, TypesOK
  <2>4. Older
    BY <1>1, <1>6, <2>2 DEF Older
  <2>5. StageOK(c)' /\ FreshOK(c)'
    BY <1>1, <1>2, <1>3, <2>1, <2>2 DEF StageOK, FreshOK, Like
  <2>6. CarriedOK(c)' /\ SeenOK(c)'
    BY <1>1, <1>2, <1>3, <2>1, <2>2 DEF CarriedOK, SeenOK, Like
  <2>7. a # None /\ \A s \in Tokens : session[s].attempt # a
    BY <1>3, <1>6 DEF IInv, SessionsOK, Owned
  <2>8. AttemptOK(c)'
    <3>1. Owned(a, b)'
      BY <1>3, <2>4, OwnedStays
    <3>2. (call[c].attempt = a /\ call[c].browser = b)'
      BY <2>1, <2>2 DEF Like
    <3>3. Owned(call[c].attempt, call[c].browser)'
      BY <3>1, <3>2 DEF Owned
    <3> QED
      BY <1>1, <2>1, <2>2, <2>7, <3>2, <3>3 DEF AttemptOK, Succeeding, Claiming
  <2>9. SessionsOK'
    BY <1>1, <1>4, <2>2 DEF IInv, TypesOK, SessionsOK, SessionRow
  <2>10. \A d \in Calls : call[d].stage \in Claiming =>
            attempt[call[d].attempt] = "gone" /\ \A s \in Tokens : session[s].attempt # call[d].attempt
    BY CallFacts DEF AttemptOK
  <2>11. r.attempt = a
    BY <2>1 DEF Like
  <2>12. CallOK(c)'
    BY <2>5, <2>6, <2>8 DEF CallOK
  <2>13. r.stage # "insert"
    BY <2>1
  <2>14. ASSUME NEW d \in Calls \ {c} PROVE Leaves(d, r)
    BY <1>1, <1>6, <2>2, <2>10, <2>11 DEF Leaves
  <2> QED
    BY <1>1, <2>1, <2>3, <2>4, <2>9, <2>12, <2>13, <2>14, WritesIInv
<1> QED
  BY <1>5, <1>6 DEF Consume, Reported

\* The identity that is inserted is one that nobody else inserts.
LEMMA CreateUserIInv ==
  ASSUME IInv, NEW c \in Calls, CreateUser(c)
  PROVE  IInv'
<1> PICK old : old = call[c]
  OBVIOUS
<1> PICK i : i = old.identity
  OBVIOUS
<1>1. old.stage = "insert" /\ UNCHANGED <<attempt, session, jar>>
  BY DEF CreateUser
<1>2. StageOK(c) /\ FreshOK(c) /\ CarriedOK(c) /\ SeenOK(c) /\ AttemptOK(c) /\ old \in Record
  BY CallFacts
<1>3. old.kind = "callback" /\ i \in Identities /\ account[i] = None
  BY <1>1, <1>2 DEF StageOK, AttemptOK, Record
<1>4. /\ account' = [account EXCEPT ![i] = c]
      /\ call' = [call EXCEPT ![c] = WithUser(old, "open", c)] \/ call' = Answered(c, FALSE)
  BY <1>3 DEF CreateUser, Reported, WithUser
<1>5. TypesOK' /\ Older /\ SessionsOK' /\ \A j \in Identities : j # i => account'[j] = account[j]
  <2>1. Enrolled(WithUser(old, "open", c), old, "open")
    BY <1>2, UserRecord DEF Stages
  <2>2. PICK r \in Record : call' = [call EXCEPT ![c] = r]
    <3>1. CASE call' = Answered(c, FALSE)
      BY <3>1, AnsweredRecord DEF IInv
    <3> QED
      BY <1>4, <2>1, <3>1 DEF Enrolled
  <2>3. TypesOK' /\ \A j \in Identities : j # i => account'[j] = account[j]
    BY <1>1, <1>3, <1>4, <2>2 DEF IInv, TypesOK
  <2>4. Older
    BY <1>1, <2>2 DEF Older, IInv, TypesOK
  <2>5. SessionsOK'
    BY <1>1 DEF IInv, SessionsOK
  <2> QED
    BY <2>3, <2>4, <2>5
<1>6. ASSUME NEW d \in Calls \ {c}
      PROVE  /\ call[d].stage = "insert" => account'[call[d].identity] = account[call[d].identity]
             /\ call[d].stage \in Claiming => \A s \in Tokens : session[s].attempt # call[d].attempt
  <2>1. AttemptOK(d) /\ call[d] \in Record
    BY CallFacts
  <2>2. call[d].stage = "insert" => call[d].identity \in Identities /\ call[d].identity # i
    BY <1>1, <2>1 DEF AttemptOK, Record, IInv, PairsOK
  <2> QED
    BY <1>5, <2>1, <2>2 DEF AttemptOK
<1>7. CASE call' = Answered(c, FALSE)
  <2>1. PICK r \in Record : /\ call' = [call EXCEPT ![c] = r]
                            /\ r.stage = "answer" /\ r.ok = FALSE /\ Like(r, call[c])
    BY <1>7, AnsweredRecord DEF IInv
  <2>2. call'[c] = r
    BY <2>1 DEF IInv, TypesOK
  <2>3. CallOK(c)'
    BY <1>1, <1>5, <2>1, <2>2, FailedOK
  <2>4. ASSUME NEW d \in Calls \ {c} PROVE Leaves(d, r)
    BY <1>1, <1>6, <2>1 DEF Leaves, Claiming
  <2> QED
    BY <1>1, <1>5, <2>1, <2>3, <2>4, WritesIInv
<1>8. CASE call' = [call EXCEPT ![c] = WithUser(old, "open", c)]
  <2> PICK r : r = WithUser(old, "open", c)
    OBVIOUS
  <2>1. Enrolled(r, old, "open") /\ r.user = c
    BY <1>2, UserRecord DEF Stages
  <2>2. call'[c] = r
    BY <1>8 DEF IInv, TypesOK
  <2>3. StageOK(c)' /\ FreshOK(c)'
    BY <1>1, <1>2, <1>3, <2>1, <2>2 DEF StageOK, FreshOK, Enrolled
  <2>4. CarriedOK(c)' /\ SeenOK(c)'
    BY <1>1, <1>2, <1>3, <2>1, <2>2 DEF CarriedOK, SeenOK, Enrolled
  <2>5. AttemptOK(c)'
    <3>1. /\ call'[c].stage = "open" /\ call'[c].kind = call[c].kind /\ call'[c].browser = call[c].browser
          /\ call'[c].attempt = call[c].attempt /\ call'[c].user # None /\ call[c].stage = "insert"
      BY <1>1, <2>1, <2>2 DEF Enrolled
    <3> QED
      BY <1>1, <1>5, <3>1, ClaimsOn DEF Claiming
  <2>6. CallOK(c)' /\ r \in Record /\ r.stage = "open" /\ r.attempt = old.attempt
    BY <2>1, <2>3, <2>4, <2>5 DEF CallOK, Enrolled
  <2>7. \A d \in Calls \ {c} : call[d].stage \in Claiming => call[d].attempt # r.attempt
    BY <1>1, <2>6 DEF IInv, PairsOK, Claiming
  <2>8. ASSUME NEW d \in Calls \ {c} PROVE Leaves(d, r)
    BY <1>1, <1>6, <2>7 DEF Leaves
  <2> QED
    BY <1>1, <1>5, <1>8, <2>6, <2>8, WritesIInv
<1> QED
  BY <1>4, <1>7, <1>8

\* The session's token is new, and its attempt has signed in nobody else.
LEMMA OpenSessionIInv ==
  ASSUME IInv, NEW c \in Calls, OpenSession(c)
  PROVE  IInv'
<1> PICK old : old = call[c]
  OBVIOUS
<1> PICK a, b : a = old.attempt /\ b = old.browser
  OBVIOUS
<1> PICK row : row = [status |-> "live", user |-> old.user, attempt |-> a]
  OBVIOUS
<1>1. old.stage = "open" /\ UNCHANGED <<attempt, account, jar>>
  BY DEF OpenSession
<1>2. StageOK(c) /\ FreshOK(c) /\ CarriedOK(c) /\ SeenOK(c) /\ AttemptOK(c) /\ old \in Record
  BY CallFacts
<1>3. /\ old.kind = "callback" /\ Owned(a, b) /\ attempt[a] = "gone" /\ old.user # None
      /\ \A s \in Tokens : session[s].attempt # a
  BY <1>1, <1>2 DEF StageOK, AttemptOK, Succeeding, Claiming
<1>4. a \in Tokens /\ a # None /\ session[c].status = "none" /\ row \in SessionRow
  BY <1>1, <1>2, <1>3 DEF Owned, Record, FreshOK, SessionRow
<1>5. CASE session' = session /\ call' = Answered(c, FALSE)
  BY <1>1, <1>5, FailsIInv
<1>6. CASE /\ session' = [session EXCEPT ![c] = row]
           /\ \/ old.session # None /\ call' = Went(c, "retire")
              \/ call' = Answered(c, FALSE)
              \/ old.session = None /\ call' = Answered(c, TRUE)
  <2>1. PICK r \in Record : /\ call' = [call EXCEPT ![c] = r] /\ Like(r, old)
                            /\ \/ r.stage = "retire" /\ r.ok = old.ok /\ old.session # None
                               \/ r.stage = "answer" /\ r.ok = FALSE
                               \/ r.stage = "answer" /\ r.ok = TRUE /\ old.session = None
    <3>1. CASE old.session # None /\ call' = Went(c, "retire")
      BY <3>1, WentRecord DEF IInv, Stages
    <3>2. CASE call' = Answered(c, FALSE)
      BY <3>2, AnsweredRecord DEF IInv
    <3>3. CASE old.session = None /\ call' = Answered(c, TRUE)
      BY <3>3, AnsweredRecord DEF IInv
    <3> QED
      BY <1>6, <3>1, <3>2, <3>3
  <2>2. /\ call'[c] = r /\ session'[c] = row /\ \A t \in Tokens : t # c => session'[t] = session[t]
        /\ \A d \in Calls : d # c => call'[d] = call[d]
    BY <1>6, <2>1 DEF IInv, TypesOK
  <2>3. TypesOK'
    BY <1>1, <1>4, <1>6, <2>1 DEF IInv, TypesOK
  <2>4. Older
    BY <1>1, <1>4, <2>2 DEF Older
  <2>5. row.status = "live" /\ row.user = old.user /\ row.attempt = a
    OBVIOUS
  <2>6. StageOK(c)' /\ FreshOK(c)'
    BY <1>1, <1>2, <1>3, <2>1, <2>2 DEF StageOK, FreshOK, Like
  <2>7. CarriedOK(c)' /\ SeenOK(c)'
    <3>1. old.session # c
      BY <1>2, <1>4 DEF CarriedOK
    <3>2. old.session \in Tokens \cup {None}
      BY <1>2 DEF Record
    <3> QED
      BY <1>1, <1>2, <1>3, <2>1, <2>2, <3>1, <3>2 DEF CarriedOK, SeenOK, Like
  <2>8. AttemptOK(c)'
    <3>1. Owned(a, b)'
      BY <1>3, <2>4, OwnedStays
    <3>2. (call[c].attempt = a /\ call[c].browser = b)'
      BY <2>1, <2>2 DEF Like
    <3>3. Owned(call[c].attempt, call[c].browser)'
      BY <3>1, <3>2 DEF Owned
    <3> QED
      BY <2>1, <2>2, <2>5, <3>2, <3>3 DEF AttemptOK, Succeeding, Claiming
  <2>9. SessionsOK'
    <3>1. attempt'[a] = "gone" /\ SessionsOK
      BY <1>1, <1>3 DEF IInv
    <3> QED
      BY <1>1, <1>3, <1>4, <2>2, <2>5, <3>1 DEF SessionsOK
  <2>10. ASSUME NEW d \in Calls \ {c} PROVE Leaves(d, r)
    <3>1. call[d].stage \in Claiming => call[d].attempt # a
      BY <1>1 DEF IInv, PairsOK, Claiming
    <3>2. call[d].stage \in Claiming => \A s \in Tokens : session[s].attempt # call[d].attempt
      BY CallFacts DEF AttemptOK
    <3>3. r.stage \notin Claiming
      BY <2>1 DEF Claiming
    <3> QED
      BY <1>1, <2>2, <2>5, <3>1, <3>2, <3>3 DEF Leaves
  <2>11. CallOK(c)' /\ r.stage # "insert"
    BY <2>1, <2>6, <2>7, <2>8 DEF CallOK
  <2> QED
    BY <1>1, <2>1, <2>3, <2>4, <2>9, <2>10, <2>11, WritesIInv
<1> QED
  BY <1>5, <1>6 DEF OpenSession, Reported

\* What the rows are after a session is revoked.
LEMMA RevokedRows ==
  ASSUME IInv, NEW t \in Tokens, session' = Revoked(t)
  PROVE  /\ session' \in [Tokens -> SessionRow]
         /\ session'[t].status # "live"
         /\ \A s \in Tokens :
              /\ session'[s].user = session[s].user /\ session'[s].attempt = session[s].attempt
              /\ session'[s].status = "none" <=> session[s].status = "none"
              /\ session[s].status # "live" => session'[s].status # "live"
<1>1. session \in [Tokens -> SessionRow]
  BY DEF IInv, TypesOK
<1>2. CASE session[t].status # "live"
  BY <1>1, <1>2 DEF Revoked
<1>3. CASE session[t].status = "live"
  <2> PICK row : row = [session[t] EXCEPT !.status = "revoked"]
    OBVIOUS
  <2>1. session' = [session EXCEPT ![t] = row]
    BY <1>3 DEF Revoked
  <2>2. /\ row \in SessionRow /\ row.status = "revoked"
        /\ row.user = session[t].user /\ row.attempt = session[t].attempt
    BY <1>1 DEF SessionRow
  <2>3. session'[t] = row /\ \A s \in Tokens : s # t => session'[s] = session[s]
    BY <1>1, <2>1
  <2>4. session' \in [Tokens -> SessionRow]
    BY <1>1, <2>1, <2>2
  <2> QED
    BY <1>3, <2>2, <2>3, <2>4
<1> QED
  BY <1>2, <1>3

\* The end of a callback and a logout: the session that the request carried is
\* dead when the answer says so.
LEMMA RevokesIInv ==
  ASSUME IInv, NEW c \in Calls, Retire(c) \/ Revoke(c)
  PROVE  IInv'
<1> PICK old : old = call[c]
  OBVIOUS
<1> PICK t, a, b : t = old.session /\ a = old.attempt /\ b = old.browser
  OBVIOUS
<1>1. /\ old.stage \in {"retire", "revoke"} /\ session' = Revoked(t)
      /\ UNCHANGED <<attempt, account, jar>>
  BY DEF Retire, Revoke
<1>2. StageOK(c) /\ FreshOK(c) /\ CarriedOK(c) /\ SeenOK(c) /\ AttemptOK(c) /\ old \in Record
  BY CallFacts
<1>3. PICK ok \in BOOLEAN : call' = Answered(c, ok)
  BY DEF Retire, Revoke, Reported
<1>4. PICK r \in Record : /\ call' = [call EXCEPT ![c] = r]
                          /\ r.stage = "answer" /\ r.ok = ok /\ Like(r, call[c])
  BY <1>3, AnsweredRecord DEF IInv
<1>5. call'[c] = r /\ \A d \in Calls : d # c => call'[d] = call[d]
  BY <1>4 DEF IInv, TypesOK
<1>6. t \in Tokens
  BY <1>1, <1>2 DEF StageOK, Record
<1>7. /\ session' \in [Tokens -> SessionRow]
      /\ session'[t].status # "live"
      /\ \A s \in Tokens :
           /\ session'[s].user = session[s].user /\ session'[s].attempt = session[s].attempt
           /\ session'[s].status = "none" <=> session[s].status = "none"
           /\ session[s].status # "live" => session'[s].status # "live"
  BY <1>1, <1>6, RevokedRows
<1>8. TypesOK'
  BY <1>1, <1>4, <1>7 DEF IInv, TypesOK
<1>9. Older
  BY <1>1, <1>5, <1>7 DEF Older
<1>10. SessionsOK'
  BY <1>1, <1>7 DEF IInv, SessionsOK
<1>11. ASSUME NEW d \in Calls \ {c} PROVE Leaves(d, r)
  <2>1. call[d].stage \in Claiming => \A s \in Tokens : session[s].attempt # call[d].attempt
    BY CallFacts DEF AttemptOK
  <2> QED
    BY <1>1, <1>4, <1>7, <2>1 DEF Leaves, Claiming
<1>12. StageOK(c)' /\ FreshOK(c)'
  BY <1>1, <1>2, <1>4, <1>5 DEF StageOK, FreshOK, Like
<1>13. CarriedOK(c)' /\ SeenOK(c)'
  <2>1. old.kind \in {"callback", "logout"}
    BY <1>1, <1>2 DEF StageOK
  <2>2. CarriedOK(c)'
    BY <1>1, <1>2, <1>4, <1>5, <1>6, <1>7, <2>1 DEF CarriedOK, Like
  <2> QED
    BY <1>4, <1>5, <2>2 DEF SeenOK
<1>14. AttemptOK(c)'
  <2>1. old.kind = "callback" => Owned(a, b)' /\ session'[c].attempt = a /\ session'[c].status # "none"
    <3>1. old.kind = "callback" => old.stage = "retire"
      BY <1>1, <1>2 DEF StageOK
    <3>2. old.kind = "callback" => Owned(a, b) /\ session[c].attempt = a /\ session[c].status # "none"
      BY <1>2, <3>1 DEF AttemptOK, Succeeding
    <3> QED
      BY <1>7, <1>9, <3>2, OwnedStays
  <2>2. (call[c].attempt = a /\ call[c].browser = b /\ call[c].kind = old.kind /\ call[c].stage = "answer")'
    BY <1>4, <1>5 DEF Like
  <2>3. old.kind = "callback" => Owned(call[c].attempt, call[c].browser)'
    BY <2>1, <2>2 DEF Owned
  <2> QED
    BY <2>1, <2>2, <2>3 DEF AttemptOK, Succeeding, Claiming
<1>15. CallOK(c)' /\ r.stage # "insert"
  BY <1>4, <1>12, <1>13, <1>14 DEF CallOK
<1> QED
  BY <1>1, <1>4, <1>8, <1>9, <1>10, <1>11, <1>15, WritesIInv

-----------------------------------------------------------------------------
(* Answers that reach their browser.                                       *)

LEMMA ArriveIInv ==
  ASSUME IInv, NEW c \in Calls, Arrive(c)
  PROVE  IInv'
<1> PICK old : old = call[c]
  OBVIOUS
<1> PICK b : b = old.browser
  OBVIOUS
<1> PICK cookies : cookies = Cookies(jar[b], c)
  OBVIOUS
<1>1. /\ old.stage = "answer" /\ UNCHANGED <<attempt, account, session>>
      /\ jar' = [jar EXCEPT ![b] = cookies]
  BY DEF Arrive, rows
<1>2. StageOK(c) /\ FreshOK(c) /\ CarriedOK(c) /\ SeenOK(c) /\ AttemptOK(c) /\ old \in Record
  BY CallFacts
<1>3. b \in Browsers
  BY <1>1, <1>2 DEF StageOK, Record
<1>4. PICK r \in Record : /\ call' = [call EXCEPT ![c] = r]
                          /\ r.stage = "over" /\ ~r.ok /\ ~r.dead /\ r.session = None
                          /\ old.kind = "login" /\ old.ok => r.kind = "login" /\ r.browser = b
  <2>1. CASE old.kind = "login" /\ old.ok
    <3> PICK r : r = [NoCall EXCEPT !.kind = "login", !.stage = "over", !.browser = b]
      OBVIOUS
    <3>1. call' = [call EXCEPT ![c] = r]
      BY <2>1 DEF Arrive
    <3>2. r \in Record /\ r.stage = "over" /\ ~r.ok /\ ~r.dead /\ r.session = None /\ r.kind = "login" /\ r.browser = b
      BY <1>3 DEF NoCall, Record, Kinds, Stages
    <3> QED
      BY <3>1, <3>2
  <2>2. CASE ~(old.kind = "login" /\ old.ok)
    BY <2>2, OverRecord DEF Arrive
  <2> QED
    BY <2>1, <2>2
<1>5. jar[b] \in [login : Tokens \cup {None}, session : Tokens \cup {None}] /\ JarOK(b)
  BY <1>3 DEF IInv, TypesOK
<1>6. /\ cookies \in [login : Tokens \cup {None}, session : Tokens \cup {None}]
      /\ \/ cookies.login = jar[b].login
         \/ cookies.login = None
         \/ cookies.login = c /\ old.kind = "login" /\ old.ok
      /\ \/ cookies.session = jar[b].session
         \/ cookies.session = None
         \/ cookies.session = c /\ old.kind = "callback" /\ old.ok
  <2>1. CASE old.kind = "login" /\ old.ok
    BY <1>5, <2>1 DEF Cookies
  <2>2. CASE old.kind = "callback"
    BY <1>5, <2>2 DEF Cookies
  <2>3. CASE old.kind = "logout" /\ old.ok
    BY <1>5, <2>3 DEF Cookies
  <2>4. CASE ~(old.kind = "login" /\ old.ok) /\ old.kind # "callback" /\ ~(old.kind = "logout" /\ old.ok)
    BY <1>5, <2>4 DEF Cookies
  <2> QED
    BY <2>1, <2>2, <2>3, <2>4
<1>7. /\ call'[c] = r /\ jar'[b] = cookies /\ \A d \in Calls : d # c => call'[d] = call[d]
      /\ \A d \in Browsers : d # b => jar'[d] = jar[d]
  BY <1>1, <1>3, <1>4 DEF IInv, TypesOK
<1>8. TypesOK'
  BY <1>1, <1>3, <1>4, <1>6 DEF IInv, TypesOK
<1>9. Older
  BY <1>1, <1>7 DEF Older
<1>10. ASSUME NEW d \in Calls PROVE CallOK(d)'
  <2>1. CASE d = c
    BY <1>4, <1>7, <2>1, OverOK
  <2>2. CASE d # c
    <3>1. call[d].stage \in Claiming => \A s \in Tokens : session[s].attempt # call[d].attempt
      BY CallFacts DEF AttemptOK
    <3> QED
      BY <1>1, <1>7, <1>8, <1>9, <2>2, <3>1, Stable
  <2> QED
    BY <2>1, <2>2
<1>11. PairsOK'
  BY <1>4, <1>7 DEF IInv, PairsOK, Claiming
<1>12. JarOK(b)'
  <2> PICK t, a, l : t = jar[b].session /\ a = session[t].attempt /\ l = jar[b].login
    OBVIOUS
  <2>1. cookies.login # None => Owned(cookies.login, b)'
    <3>1. l # None => Owned(l, b)'
      BY <1>5, <1>9, OwnedStays DEF JarOK
    <3>2. old.kind = "login" /\ old.ok => Owned(c, b)'
      BY <1>4, <1>7 DEF Owned
    <3> QED
      BY <1>6, <3>1, <3>2
  <2>2. cookies.session # None => session[cookies.session].status # "none"
    <3>1. old.kind = "callback" /\ old.ok => session[c].status # "none"
      BY <1>1, <1>2 DEF AttemptOK, Succeeding
    <3> QED
      BY <1>5, <1>6, <3>1 DEF JarOK
  <2>3. t \in Calls => call'[t].stage = "over" /\ Owned(a, b)'
    <3>1. t \in Calls => call[t].stage = "over" /\ Owned(a, b)
      BY <1>5 DEF JarOK
    <3> QED
      BY <1>9, <3>1, OwnedStays DEF Older
  <2>4. old.kind = "callback" /\ old.ok => session[c].attempt = old.attempt /\ Owned(old.attempt, b)'
    <3>1. old.kind = "callback" /\ old.ok => session[c].attempt = old.attempt /\ Owned(old.attempt, b)
      BY <1>1, <1>2 DEF AttemptOK, Succeeding
    <3> QED
      BY <1>9, <3>1, OwnedStays
  <2>5. cookies.session \in Calls =>
          call'[cookies.session].stage = "over" /\ Owned(session[cookies.session].attempt, b)'
    <3>1. CASE cookies.session = jar[b].session
      BY <1>1, <2>3, <3>1
    <3>2. CASE cookies.session = c /\ old.kind = "callback" /\ old.ok
      BY <1>1, <1>4, <1>7, <2>4, <3>2
    <3>3. None \notin Calls
      OBVIOUS
    <3> QED
      BY <1>6, <3>1, <3>2, <3>3
  <2> QED
    BY <1>1, <1>7, <2>1, <2>2, <2>5 DEF JarOK
<1>13. ASSUME NEW d \in Browsers PROVE JarOK(d)'
  BY <1>7, <1>9, <1>12, JarStays
<1>14. SessionsOK'
  BY <1>1 DEF IInv, SessionsOK
<1> QED
  BY <1>8, <1>10, <1>11, <1>13, <1>14 DEF IInv

-----------------------------------------------------------------------------
(* What is not one call's step.                                            *)

\* The provider's configuration fails, or the API stops: calls are answered or over.
LEMMA ManyIInv ==
  ASSUME IInv, UNCHANGED <<attempt, account, session, jar>>, call' \in [Calls -> Record],
         \A c \in Calls : \/ call'[c] = call[c]
                          \/ /\ call[c].stage # "over"
                             /\ call'[c].stage \in {"answer", "over"} /\ CallOK(c)'
  PROVE  IInv'
<1>1. TypesOK'
  BY DEF IInv, TypesOK
<1>2. Older
  BY DEF Older
<1>3. ASSUME NEW c \in Calls PROVE CallOK(c)'
  <2>1. call[c].stage \in Claiming => \A s \in Tokens : session[s].attempt # call[c].attempt
    BY CallFacts DEF AttemptOK
  <2> QED
    BY <1>1, <1>2, <2>1, Stable
<1>4. PairsOK'
  BY DEF IInv, PairsOK, Claiming
<1>5. ASSUME NEW b \in Browsers PROVE JarOK(b)'
  BY <1>2, JarStays
<1>6. SessionsOK'
  BY DEF IInv, SessionsOK
<1> QED
  BY <1>1, <1>3, <1>4, <1>5, <1>6 DEF IInv

LEMMA DiscoveryFailsIInv ==
  ASSUME IInv, DiscoveryFails
  PROVE  IInv'
<1>1. /\ UNCHANGED <<attempt, account, session, jar>>
      /\ call' = [c \in Calls |-> IF call[c].stage \in {"discover", "exchange"}
                                  THEN [call[c] EXCEPT !.stage = "answer"] ELSE call[c]]
  BY DEF DiscoveryFails, rows
<1>2. ASSUME NEW c \in Calls
      PROVE  call[c] \in Record /\ [call[c] EXCEPT !.stage = "answer"] \in Record
  BY StageType, CallFacts DEF Stages
<1>3. call' \in [Calls -> Record]
  BY <1>1, <1>2
<1>4. Older
  BY <1>1 DEF Older
<1>5. TypesOK'
  BY <1>1, <1>3 DEF IInv, TypesOK
<1>6. ASSUME NEW c \in Calls, call[c].stage \in {"discover", "exchange"}
      PROVE  call'[c].stage = "answer" /\ CallOK(c)'
  <2> PICK r : r = [call[c] EXCEPT !.stage = "answer"]
    OBVIOUS
  <2>1. call'[c] = r
    BY <1>1, <1>6
  <2>2. r.stage = "answer" /\ Like(r, call[c]) /\ r.ok = call[c].ok
    BY <1>2 DEF Record, Like
  <2>3. ~call[c].ok
    BY <1>6, CallFacts DEF StageOK
  <2> QED
    BY <1>4, <1>5, <1>6, <2>1, <2>2, <2>3, FailedOK
<1>7. ASSUME NEW c \in Calls, call[c].stage \notin {"discover", "exchange"}
      PROVE  call'[c] = call[c]
  BY <1>1, <1>7
<1> QED
  BY <1>1, <1>3, <1>6, <1>7, ManyIInv

LEMMA RestartIInv ==
  ASSUME IInv, Restart
  PROVE  IInv'
<1> PICK gone : gone = [NoCall EXCEPT !.stage = "over"]
  OBVIOUS
<1>1. /\ UNCHANGED <<attempt, account, session, jar>>
      /\ call' = [c \in Calls |-> IF call[c].stage \notin AtClient THEN gone ELSE call[c]]
  BY DEF Restart, rows
<1>2. gone \in Record /\ gone.stage = "over" /\ ~gone.ok /\ ~gone.dead /\ gone.session = None
  BY DEF NoCall, Record, Kinds, Stages
<1>3. call' \in [Calls -> Record]
  BY <1>1, <1>2 DEF IInv, TypesOK
<1>4. ASSUME NEW c \in Calls, call[c].stage \notin AtClient
      PROVE  call[c].stage # "over" /\ call'[c].stage = "over" /\ CallOK(c)'
  <2>1. call'[c] = gone
    BY <1>1, <1>4
  <2>2. call[c].stage # "over"
    BY <1>4 DEF AtClient
  <2> QED
    BY <1>2, <2>1, <2>2, OverOK
<1>5. ASSUME NEW c \in Calls, call[c].stage \in AtClient
      PROVE  call'[c] = call[c]
  BY <1>1, <1>5
<1> QED
  BY <1>1, <1>3, <1>4, <1>5, ManyIInv

\* Rows that age while no call does anything.
LEMMA AgesIInv ==
  ASSUME IInv, UNCHANGED <<account, jar, call>>, TypesOK', Older,
         \A a \in Tokens : attempt[a] = "none" => attempt'[a] = "none",
         \A t \in Tokens : /\ session[t].status = "none" => session'[t].status = "none"
                           /\ session'[t].user = session[t].user /\ session'[t].attempt = session[t].attempt
  PROVE  IInv'
<1>1. ASSUME NEW c \in Calls PROVE CallOK(c)'
  <2>1. call[c].stage \in Claiming => \A s \in Tokens : session[s].attempt # call[c].attempt
    BY CallFacts DEF AttemptOK
  <2> QED
    BY <2>1, Stable
<1>2. PairsOK'
  BY DEF IInv, PairsOK
<1>3. ASSUME NEW b \in Browsers PROVE JarOK(b)'
  BY JarStays
<1>4. SessionsOK'
  <2>1. SessionsOK /\ session \in [Tokens -> SessionRow]
    BY DEF IInv, TypesOK
  <2>2. \A t \in Tokens : session[t].attempt \in Tokens \cup {None}
    BY <2>1 DEF SessionRow
  <2> QED
    BY <2>1, <2>2 DEF SessionsOK, Older
<1> QED
  BY <1>1, <1>2, <1>3, <1>4 DEF IInv

LEMMA ExpiryIInv ==
  ASSUME IInv, AttemptExpires \/ SessionExpires \/ Excluded
  PROVE  IInv'
<1>1. CASE AttemptExpires
  <2>1. PICK a \in Tokens : attempt[a] = "open" /\ attempt' = [attempt EXCEPT ![a] = "gone"]
    BY <1>1 DEF AttemptExpires
  <2>2. UNCHANGED <<account, jar, call, session>>
    BY <1>1 DEF AttemptExpires
  <2>3. TypesOK'
    BY <2>1, <2>2 DEF IInv, TypesOK
  <2>4. \A b \in Tokens : /\ attempt[b] = "none" => attempt'[b] = "none"
                          /\ attempt[b] = "gone" => attempt'[b] = "gone"
    BY <2>1 DEF IInv, TypesOK
  <2>5. Older
    BY <2>2, <2>4 DEF Older
  <2> QED
    BY <2>2, <2>3, <2>4, <2>5, AgesIInv
<1>2. CASE SessionExpires
  <2>1. PICK t \in Tokens : session[t].status = "live" /\ session' = [session EXCEPT ![t].status = "expired"]
    BY <1>2 DEF SessionExpires
  <2>2. UNCHANGED <<account, jar, call, attempt>>
    BY <1>2 DEF SessionExpires
  <2>3. session \in [Tokens -> SessionRow]
    BY DEF IInv, TypesOK
  <2> PICK row : row = [session[t] EXCEPT !.status = "expired"]
    OBVIOUS
  <2>4. /\ row \in SessionRow /\ row.status = "expired"
        /\ row.user = session[t].user /\ row.attempt = session[t].attempt
    BY <2>3 DEF SessionRow
  <2>5. session' = [session EXCEPT ![t] = row]
    BY <2>1
  <2>6. session'[t] = row /\ \A s \in Tokens : s # t => session'[s] = session[s]
    BY <2>3, <2>5
  <2>7. TypesOK'
    BY <2>2, <2>4, <2>5 DEF IInv, TypesOK
  <2>8. \A s \in Tokens : /\ session[s].status = "none" <=> session'[s].status = "none"
                          /\ session'[s].user = session[s].user /\ session'[s].attempt = session[s].attempt
                          /\ session[s].status # "live" => session'[s].status # "live"
    BY <2>1, <2>4, <2>6
  <2>9. Older
    BY <2>2, <2>8 DEF Older
  <2> QED
    BY <2>2, <2>7, <2>8, <2>9, AgesIInv
<1>3. CASE Excluded
  <2>1. UNCHANGED <<account, jar, call, attempt, session>>
    BY <1>3 DEF Excluded
  <2>2. TypesOK' /\ Older
    BY <2>1 DEF IInv, TypesOK, Older
  <2> QED
    BY <2>1, <2>2, AgesIInv
<1> QED
  BY <1>1, <1>2, <1>3

-----------------------------------------------------------------------------
(* The invariant holds, and with it the properties.                        *)

LEMMA StepIInv == IInv /\ [Next]_vars => IInv'
<1> SUFFICES ASSUME IInv, [Next]_vars PROVE IInv'
  OBVIOUS
<1>1. ASSUME NEW c \in Calls, Server(c) PROVE IInv'
  BY <1>1, RecordAttemptIInv, ConsumeIInv, ExchangeIInv, FindUserIInv, CreateUserIInv, OpenSessionIInv,
     RevokesIInv, ToldIInv, ResolveIInv, AuthorizeIInv, StoreIInv DEF Server
<1>2. ASSUME NEW c \in Calls, Send(c) \/ Arrive(c) \/ LoseAnswer(c) \/ StatementFails(c) PROVE IInv'
  BY <1>2, SendIInv, ArriveIInv, LostIInv
<1>3. ASSUME NEW c \in Calls, NEW b \in Browsers,
             \/ Login(c, b) \/ Read(c, b)
             \/ \E a \in Tokens : Callback(c, b, a)
             \/ \E kind \in PageKinds : Ask(c, b, kind)
      PROVE  IInv'
  BY <1>3, LoginIInv, ReadIInv, CallbackIInv, AskIInv
<1>4. CASE DiscoverySucceeds \/ UNCHANGED vars
  <2>1. UNCHANGED <<account, jar, call, attempt, session>>
    BY <1>4 DEF DiscoverySucceeds, vars, rows
  <2>2. TypesOK' /\ Older
    BY <2>1 DEF IInv, TypesOK, Older
  <2> QED
    BY <2>1, <2>2, AgesIInv
<1>5. CASE DiscoveryFails \/ Restart \/ AttemptExpires \/ SessionExpires \/ Excluded
  BY <1>5, DiscoveryFailsIInv, RestartIInv, ExpiryIInv
<1> QED
  BY <1>1, <1>2, <1>3, <1>4, <1>5 DEF Next

\* What every call has found out, by its stage, is true in every state.
THEOREM Inductive == Spec => []IInv
<1> QED
  BY InitIInv, StepIInv, PTL DEF Spec

\* A browser is signed in only by a login that it began itself, and no attempt
\* signs in twice, wherever and how often the address of the callback is opened.
THEOREM OwnLogins == Spec => []LoginsAreOwned
<1>1. IInv => LoginsAreOwned
  <2> SUFFICES ASSUME IInv PROVE LoginsAreOwned
    OBVIOUS
  <2>1. ASSUME NEW b \in Browsers, jar[b].session \in Calls
        PROVE  BeganIn(session[jar[b].session].attempt) = b
    BY <2>1 DEF IInv, JarOK, Owned, BeganIn
  <2> QED
    BY <2>1 DEF LoginsAreOwned, IInv, SessionsOK
<1> QED
  BY <1>1, Inductive, PTL

\* Whoever is about to insert the account of a person inserts the first one.
THEOREM FirstLogins == Spec => []FirstLoginsDoNotCollide
<1>1. IInv => FirstLoginsDoNotCollide
  BY CallFacts DEF FirstLoginsDoNotCollide, AttemptOK
<1> QED
  BY <1>1, Inductive, PTL

\* A page changes what it changes as the user whom it asked about.
THEOREM SameUser == Spec => []ActsAsSeen
<1>1. IInv => ActsAsSeen
  BY CallFacts DEF ActsAsSeen, SeenOK
<1> QED
  BY <1>1, Inductive, PTL

\* A request whose session was dead when it left reads and changes nothing.
THEOREM DeadDoNothing == Spec => []DeadSessionsAreRefused
<1>1. IInv => DeadSessionsAreRefused
  BY CallFacts DEF DeadSessionsAreRefused, CarriedOK
<1> QED
  BY <1>1, Inductive, PTL

\* When an answer changes the session cookie, the session that its own request
\* carried is dead, whatever failed on the way.
THEOREM CarriedIsDead == Spec => CarriedSessionIsDead
<1> DEFINE Leaving(c) == /\ call[c].stage = "answer" /\ call[c].session # None
                         /\ jar'[call[c].browser].session # jar[call[c].browser].session
                         /\ call'[c].stage = "over"
           Step == \A c \in Calls : Leaving(c) => session[call[c].session].status # "live"
<1>1. IInv /\ [Next]_vars => [Step]_vars
  <2> SUFFICES ASSUME IInv, Next, NEW c \in Calls, Leaving(c)
               PROVE  session[call[c].session].status # "live"
    OBVIOUS
  <2>1. CallOK(c) /\ CarriedOK(c) /\ call[c].browser \in Browsers
    BY CallFacts DEF StageOK, Record
  <2>2. PICK d \in Calls : Arrive(d)
    <3>1. ASSUME NEW d \in Calls, Server(d) PROVE jar' = jar
      BY <3>1 DEF Server, RecordAttempt, Consume, Exchange, FindUser, CreateUser, OpenSession, Retire, Told,
                  Resolve, Authorize, Store, Revoke
    <3>2. ASSUME NEW d \in Calls, Send(d) \/ LoseAnswer(d) \/ StatementFails(d) PROVE jar' = jar
      BY <3>2 DEF Send, LoseAnswer, StatementFails
    <3>3. ASSUME NEW d \in Calls, NEW b \in Browsers,
                 \/ Login(d, b) \/ Read(d, b)
                 \/ \E a \in Tokens : Callback(d, b, a)
                 \/ \E kind \in PageKinds : Ask(d, b, kind)
          PROVE  jar' = jar
      BY <3>3 DEF Login, Read, Callback, Ask
    <3>4. ASSUME \/ DiscoverySucceeds \/ DiscoveryFails \/ Restart
                 \/ AttemptExpires \/ SessionExpires \/ Excluded
          PROVE  jar' = jar
      BY <3>4 DEF DiscoverySucceeds, DiscoveryFails, Restart, AttemptExpires, SessionExpires, Excluded
    <3> QED
      BY <3>1, <3>2, <3>3, <3>4 DEF Next
  <2>3. d = c
    <3>1. PICK r : call' = [call EXCEPT ![d] = r]
      BY <2>2 DEF Arrive, Over
    <3> QED
      BY <3>1 DEF IInv, TypesOK
  <2>4. jar'[call[c].browser] = Cookies(jar[call[c].browser], c)
    BY <2>1, <2>2, <2>3 DEF Arrive, IInv, TypesOK
  <2>5. jar[call[c].browser] \in [login : Tokens \cup {None}, session : Tokens \cup {None}]
    BY <2>1 DEF IInv, TypesOK
  <2>6. call[c].kind \in {"callback", "logout"} /\ call[c].ok
    BY <2>4, <2>5 DEF Cookies
  <2> QED
    BY <2>1, <2>6 DEF CarriedOK
<1> QED
  BY <1>1, Inductive, PTL DEF Spec, CarriedSessionIsDead
=============================================================================
