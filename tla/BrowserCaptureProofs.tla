------------------------ MODULE BrowserCaptureProofs ------------------------
(* Theorems about BrowserCapture, with PageSession and RequestBridge.       *)
(*                                                                         *)
(* The calls into the lifecycle are operators on records: LivesOn says what *)
(* any of them does to session, storage and events, and touch, navigation   *)
(* and start are each shown to do it.  CaptureInv, the inductive invariant, *)
(* relates what survives a reload (tab, active) to the client's lifecycle,  *)
(* the wrappers that are in place to the subscribers of the bridge, and the *)
(* answers that are still pending to the events captured so far.  The       *)
(* action properties follow from it and from StepActs: a step is activity   *)
(* of a session that was announced, or of a new one, or no activity.        *)
EXTENDS BrowserCapture, SubsequencesProofs, SequenceTheorems, FiniteSetTheorems

-----------------------------------------------------------------------------
(* Calls into the lifecycle.                                               *)

Lifecycle == {"session_start", "page_view", "page_route_change"}
Names == Lifecycle \cup Manual \cup Captures
           \cup {"observed_error", "interaction", "web_vital", "navigation", "long_task"}

Captureds == [name : Names, session : Nat \cup {NoSession}, url : Urls \cup {NoPage},
              page : Nat \cup {NoPage}, route : Urls \cup {NoPage}]

Calls == [life : Life, stored : Session \cup {NoSession}, ids : [session : Nat, page : Nat],
          events : Seq(Captureds), failed : BOOLEAN]

\* The contexts are those of the pages shown last, of which the last has the
\* number n.
Recent(contexts, n) ==
  /\ Len(contexts) <= MaxContexts
  /\ \A i \in DOMAIN contexts : contexts[i].page <= n
  /\ \A i, j \in DOMAIN contexts : i < j =>
       contexts[i].page < contexts[j].page /\ contexts[i].url # contexts[j].url

\* The last context is that of the moment.
IsCurrent(life) ==
  /\ life.session \in Session /\ life.page \in PageOf
  /\ life.contexts # <<>> /\ Last(life.contexts) = ContextOf(life)

\* The session of each context.
SessionsOf(contexts) == {contexts[i].session : i \in DOMAIN contexts}

\* What #applyContext makes of the contexts of a page.
LEMMA ContextsAreApplied ==
  ASSUME NEW call \in Calls, call.life.session \in Session, call.life.page \in PageOf,
         NEW n \in Nat, n < call.life.page.id, Recent(call.life.contexts, n)
  PROVE  \E contexts \in Seq(Context) :
           /\ Applied(call) = [call EXCEPT !.life.contexts = contexts]
           /\ Recent(contexts, call.life.page.id)
           /\ contexts # <<>> /\ Last(contexts) = ContextOf(call.life)
           /\ SessionsOf(contexts) \subseteq SessionsOf(call.life.contexts) \cup {call.life.session.id}
<1>1. PICK old : old = call.life.contexts
  OBVIOUS
<1>2. PICK context : context = ContextOf(call.life)
  OBVIOUS
<1>3. context = [url |-> call.life.page.url, session |-> call.life.session.id,
                 page |-> call.life.page.id]
  BY <1>2 DEF ContextOf
<1>4. old \in Seq(Context) /\ context \in Context
  BY <1>1, <1>3 DEF Calls, Life, Context, Session, PageOf
<1>5. PICK chosen : chosen = {i \in DOMAIN old : old[i].url # context.url}
  OBVIOUS
<1>6. PICK others : others = Subsequence(old, chosen)
  OBVIOUS
<1>7. others \in Seq(Context) /\ Len(others) <= Len(old)
  BY <1>4, <1>6, SubsequenceIsPlaced, SubsequenceLength
<1>8. PICK place : IsPlacement(place, others, old, chosen)
  BY <1>4, <1>6, SubsequenceIsPlaced
<1>9. PICK m \in Nat : m = Len(others)
  BY <1>7
<1>10. DOMAIN others = 1..m /\ Len(old) \in Nat /\ DOMAIN old = 1..Len(old)
  BY <1>4, <1>7, <1>9
<1>11. \A k \in 1..m : /\ place[k] \in DOMAIN old /\ others[k] = old[place[k]]
                       /\ old[place[k]].url # context.url
  BY <1>5, <1>8, <1>10 DEF IsPlacement
<1>12. \A k, l \in 1..m : k < l => place[k] < place[l]
  BY <1>8, <1>10 DEF IsPlacement
<1>13. /\ \A i \in DOMAIN old : old[i].page <= n
       /\ \A i, j \in DOMAIN old : i < j => old[i].page < old[j].page /\ old[i].url # old[j].url
       /\ Len(old) <= MaxContexts
  BY <1>1 DEF Recent
<1>14. PICK all : all = Append(others, context)
  OBVIOUS
<1>15. /\ all \in Seq(Context) /\ Len(all) = m + 1
       /\ \A i \in 1..m : all[i] = others[i]
       /\ all[m + 1] = context
  BY <1>4, <1>7, <1>9, <1>14
<1>16. \A i \in 1..(m + 1) : all[i] \in Context
  BY <1>15
<1>17. \A i \in 1..(m + 1) : all[i].page <= context.page
  <2> SUFFICES ASSUME NEW i \in 1..(m + 1) PROVE all[i].page <= context.page
    OBVIOUS
  <2>1. CASE i = m + 1
    BY <1>4, <1>15, <2>1 DEF Context
  <2>2. CASE i \in 1..m
    <3>1. all[i] = old[place[i]] /\ place[i] \in DOMAIN old
      BY <1>11, <1>15, <2>2
    <3>2. all[i].page <= n
      BY <1>13, <3>1
    <3>3. n <= context.page /\ context.page \in Nat /\ all[i].page \in Nat
      BY <1>3, <1>4, <1>16 DEF Context
    <3> QED BY <3>2, <3>3
  <2> QED BY <1>9, <2>1, <2>2
<1>18. ASSUME NEW i \in 1..(m + 1), NEW j \in 1..(m + 1), i < j
       PROVE  all[i].page < all[j].page /\ all[i].url # all[j].url
  <2>1. i \in 1..m /\ all[i] = old[place[i]] /\ place[i] \in DOMAIN old /\ old[place[i]].url # context.url
    BY <1>9, <1>11, <1>15, <1>18
  <2>2. CASE j = m + 1
    <3>1. all[i].page <= n /\ all[i].url # context.url
      BY <1>13, <2>1
    <3>2. n < context.page /\ context.page \in Nat /\ all[i].page \in Nat
      BY <1>3, <1>4, <1>16 DEF Context
    <3> QED BY <1>15, <2>2, <3>1, <3>2
  <2>3. CASE j \in 1..m
    <3>1. all[j] = old[place[j]] /\ place[j] \in DOMAIN old /\ place[i] < place[j]
      BY <1>11, <1>12, <1>15, <1>18, <2>1, <2>3
    <3> QED BY <1>13, <2>1, <3>1
  <2> QED BY <1>9, <2>2, <2>3
<1>19. PICK excess \in Nat : excess = IF Len(all) > MaxContexts THEN Len(all) - MaxContexts ELSE 0
  BY <1>9, <1>15, PageSessionAssumption
<1>20. excess <= 1 /\ excess <= m /\ m + 1 - excess <= MaxContexts /\ MaxContexts \in Nat \ {0}
  BY <1>7, <1>9, <1>10, <1>13, <1>15, <1>19, PageSessionAssumption
<1>21. PICK contexts : contexts = SubSeq(all, excess + 1, Len(all))
  OBVIOUS
<1>22. /\ contexts \in Seq(Context) /\ Len(contexts) = m + 1 - excess
       /\ \A i \in 1..(m + 1 - excess) : contexts[i] = all[i + excess]
  <2>1. excess + 1 \in Int /\ m + 1 \in Int /\ excess + 1 <= m + 1 /\ Len(all) = m + 1
    BY <1>9, <1>15, <1>19, <1>20
  <2>2. \A i \in (excess + 1)..(m + 1) : all[i] \in Context
    BY <1>9, <1>16, <1>19, <2>1
  <2>3. /\ contexts \in Seq(Context)
        /\ Len(contexts) = IF excess + 1 <= m + 1 THEN m + 1 - (excess + 1) + 1 ELSE 0
        /\ \A i \in 1..(m + 1 - (excess + 1) + 1) : contexts[i] = all[excess + 1 + i - 1]
    BY <1>21, <2>1, <2>2, SubSeqProperties
  <2>4. m + 1 - (excess + 1) + 1 = m + 1 - excess /\ \A i \in Int : excess + 1 + i - 1 = i + excess
    BY <1>9, <1>19
  <2> QED BY <2>1, <2>3, <2>4
<1>23. DOMAIN contexts = 1..(m + 1 - excess)
  BY <1>22
<1>24. Applied(call) = [call EXCEPT !.life.contexts = contexts]
  <2>1. context.url = call.life.page.url
    BY <1>3
  <2> QED BY <1>1, <1>2, <1>5, <1>6, <1>14, <1>19, <1>21, <2>1 DEF Applied
<1>25. Recent(contexts, call.life.page.id)
  <2>1. Len(contexts) <= MaxContexts
    BY <1>20, <1>22
  <2>2. \A i \in DOMAIN contexts : i + excess \in 1..(m + 1) /\ contexts[i] = all[i + excess]
    BY <1>9, <1>22, <1>23
  <2>3. \A i \in DOMAIN contexts : contexts[i].page <= context.page
    BY <1>17, <2>2
  <2>4. \A i, j \in DOMAIN contexts : i < j =>
          contexts[i].page < contexts[j].page /\ contexts[i].url # contexts[j].url
    <3> SUFFICES ASSUME NEW i \in DOMAIN contexts, NEW j \in DOMAIN contexts, i < j
                 PROVE  contexts[i].page < contexts[j].page /\ contexts[i].url # contexts[j].url
      OBVIOUS
    <3>1. i + excess < j + excess
      BY <1>23
    <3> QED BY <1>18, <2>2, <3>1
  <2> QED BY <1>3, <2>1, <2>3, <2>4 DEF Recent
<1>26. contexts # <<>> /\ Last(contexts) = context
  <2>1. Len(contexts) \in 1..(m + 1) /\ Len(contexts) + excess = m + 1
    BY <1>9, <1>20, <1>22
  <2> QED BY <1>15, <1>22, <1>23, <2>1 DEF Last
<1>27. ASSUME NEW i \in DOMAIN contexts
       PROVE  contexts[i].session \in SessionsOf(old) \cup {context.session}
  <2>1. PICK j \in 1..(m + 1) : contexts[i] = all[j]
    BY <1>9, <1>22, <1>23
  <2>2. j \in 1..m => \E k \in DOMAIN old : contexts[i] = old[k]
    BY <1>11, <1>15, <2>1
  <2>3. j = m + 1 => contexts[i] = context
    BY <1>15, <2>1
  <2>4. j \in 1..m \/ j = m + 1
    BY <1>9
  <2> QED BY <2>2, <2>3, <2>4 DEF SessionsOf
<1>28. SessionsOf(contexts) \subseteq SessionsOf(call.life.contexts) \cup {call.life.session.id}
  BY <1>1, <1>3, <1>27 DEF SessionsOf
<1> QED BY <1>2, <1>22, <1>24, <1>25, <1>26, <1>28

\* A new page is shown: createPageContext and #applyContext.
LEMMA PageIsShown ==
  ASSUME NEW call \in Calls, call.life.session \in Session, NEW url \in Urls,
         Recent(call.life.contexts, call.ids.page)
  PROVE  \E next \in Calls :
           /\ next = Applied(Shown(call, url))
           /\ next.life.started = call.life.started /\ next.life.session = call.life.session
           /\ next.life.persistedAt = call.life.persistedAt
           /\ next.stored = call.stored /\ next.events = call.events
           /\ next.ids.session = call.ids.session
           /\ IsCurrent(next.life) /\ Recent(next.life.contexts, next.ids.page)
           /\ SessionsOf(next.life.contexts)
                \subseteq SessionsOf(call.life.contexts) \cup {call.life.session.id}
<1>1. PICK shown : shown = Shown(call, url)
  OBVIOUS
<1>2. PICK n \in Nat : n = call.ids.page
  BY DEF Calls
<1>3. /\ shown \in Calls
      /\ shown.life.page = [id |-> n + 1, url |-> url] /\ shown.life.page \in PageOf
      /\ shown.life.started = call.life.started /\ shown.life.session = call.life.session
      /\ shown.life.contexts = call.life.contexts /\ shown.life.persistedAt = call.life.persistedAt
      /\ shown.stored = call.stored /\ shown.events = call.events
      /\ shown.ids.session = call.ids.session /\ shown.ids.page = n + 1
  <2> n + 1 \in Nat
    OBVIOUS
  <2>1. PICK entered \in PageOf : entered = [id |-> n + 1, url |-> url]
    BY DEF PageOf
  <2>2. PICK life \in Life : life = [call.life EXCEPT !.page = entered]
    BY DEF Calls, Life
  <2>3. PICK ids \in [session : Nat, page : Nat] : ids = [call.ids EXCEPT !.page = n + 1]
    BY DEF Calls
  <2>4. call.life \in Life /\ call.ids \in [session : Nat, page : Nat]
    BY DEF Calls
  <2>5. shown = [call EXCEPT !.ids = ids, !.life = life]
    BY <1>1, <1>2, <2>1, <2>2, <2>3 DEF Shown, Calls
  <2>6. shown \in Calls /\ shown.life = life /\ shown.ids = ids /\ shown.stored = call.stored
        /\ shown.events = call.events
    BY <2>5 DEF Calls
  <2>7. ids.session = call.ids.session /\ ids.page = n + 1
    BY <2>3, <2>4
  <2>8. /\ life.page = entered /\ life.started = call.life.started /\ life.session = call.life.session
        /\ life.contexts = call.life.contexts /\ life.persistedAt = call.life.persistedAt
    BY <2>2, <2>4 DEF Life
  <2> QED BY <2>1, <2>6, <2>7, <2>8
<1>4. n < shown.life.page.id /\ shown.life.page.id = n + 1
  BY <1>3
<1>5. PICK contexts \in Seq(Context) :
        /\ Applied(shown) = [shown EXCEPT !.life.contexts = contexts]
        /\ Recent(contexts, shown.life.page.id)
        /\ contexts # <<>> /\ Last(contexts) = ContextOf(shown.life)
        /\ SessionsOf(contexts) \subseteq SessionsOf(shown.life.contexts) \cup {shown.life.session.id}
  BY <1>2, <1>3, <1>4, ContextsAreApplied
<1>6. PICK next : next = [shown EXCEPT !.life.contexts = contexts]
  OBVIOUS
<1>7. /\ next \in Calls /\ next.life.contexts = contexts
      /\ next.life.started = shown.life.started /\ next.life.session = shown.life.session
      /\ next.life.persistedAt = shown.life.persistedAt /\ next.life.page = shown.life.page
      /\ next.stored = shown.stored /\ next.events = shown.events /\ next.ids = shown.ids
  BY <1>3, <1>5, <1>6 DEF Calls, Life
<1>8. ContextOf(next.life) = ContextOf(shown.life)
  BY <1>7 DEF ContextOf
<1>9. IsCurrent(next.life)
  BY <1>3, <1>5, <1>7, <1>8 DEF IsCurrent
<1>10. next.ids.page = shown.life.page.id
  BY <1>3, <1>4, <1>7
<1>11. next = Applied(Shown(call, url)) /\ Recent(next.life.contexts, next.ids.page)
  BY <1>1, <1>5, <1>6, <1>7, <1>10
<1>12. SessionsOf(next.life.contexts) \subseteq SessionsOf(call.life.contexts) \cup {call.life.session.id}
  BY <1>3, <1>5, <1>7
<1> QED BY <1>3, <1>7, <1>9, <1>11, <1>12

\* #persistSession writes the session, or fails, or is throttled.
LEMMA SessionIsPersisted ==
  ASSUME NEW call \in Calls, call.life.session \in Session, NEW now \in Int,
         NEW force \in BOOLEAN, NEW works \in BOOLEAN
  PROVE  \E next \in Calls :
           /\ next = Persisted(call, now, force, works)
           /\ next.life.started = call.life.started /\ next.life.session = call.life.session
           /\ next.life.page = call.life.page /\ next.life.contexts = call.life.contexts
           /\ next.events = call.events /\ next.ids = call.ids
           /\ \/ next.stored = call.life.session /\ next.life.persistedAt = now
              \/ /\ next.stored = call.stored /\ next.life.persistedAt = call.life.persistedAt
                 /\ ~works \/ (~force /\ now - call.life.persistedAt < PersistInterval)
<1>1. CASE ~force /\ now - call.life.persistedAt < PersistInterval
  BY <1>1 DEF Persisted
<1>2. CASE ~(~force /\ now - call.life.persistedAt < PersistInterval) /\ works
  <2>1. PICK next : next = [call EXCEPT !.stored = call.life.session, !.life.persistedAt = now,
                                        !.failed = FALSE]
    OBVIOUS
  <2>2. next = Persisted(call, now, force, works)
    BY <1>2, <2>1 DEF Persisted
  <2>3. PICK life \in Life : life = [call.life EXCEPT !.persistedAt = now]
    BY DEF Calls, Life
  <2>4. next = [call EXCEPT !.stored = call.life.session, !.life = life, !.failed = FALSE]
    BY <2>1, <2>3 DEF Calls
  <2>5. next \in Calls /\ next.life = life /\ next.stored = call.life.session
        /\ next.events = call.events /\ next.ids = call.ids
    BY <2>4 DEF Calls
  <2>6. call.life \in Life
    BY DEF Calls
  <2>7. /\ life.page = call.life.page /\ life.started = call.life.started
        /\ life.session = call.life.session /\ life.contexts = call.life.contexts
        /\ life.persistedAt = now
    BY <2>3, <2>6 DEF Life
  <2> QED BY <2>2, <2>5, <2>7
<1>3. CASE ~(~force /\ now - call.life.persistedAt < PersistInterval) /\ ~works
  <2>1. PICK next : next = [call EXCEPT !.failed = TRUE]
    OBVIOUS
  <2>2. next = Persisted(call, now, force, works)
    BY <1>3, <2>1 DEF Persisted
  <2> QED BY <1>3, <2>1, <2>2 DEF Calls
<1> QED BY <1>1, <1>2, <1>3

\* An event has the session and the page of the moment, and no route of its
\* own.
LEMMA EventIsTyped ==
  ASSUME NEW life \in Life, NEW name \in Names
  PROVE  /\ Event(name, life) \in Captureds
         /\ Event(name, life).name = name /\ Event(name, life).route = NoPage
         /\ life.session \in Session => Event(name, life).session = life.session.id
         /\ life.session = NoSession => Event(name, life).session = NoSession
         /\ life.page = NoPage => Event(name, life).url = NoPage
<1>1. life.session \in Session => life.session # NoSession /\ life.session.id \in Nat
  BY PageSessionAssumption DEF Session
<1>2. life.page \in PageOf => life.page # NoPage /\ life.page.id \in Nat /\ life.page.url \in Urls
  BY PageSessionAssumption DEF PageOf
<1>3. life.session \in Session \cup {NoSession} /\ life.page \in PageOf \cup {NoPage}
  BY DEF Life
<1> QED BY <1>1, <1>2, <1>3 DEF Event, Captureds

\* Captured appends one event and leaves the rest of the call alone.
LEMMA EventIsCaptured ==
  ASSUME NEW call \in Calls, NEW name \in Names
  PROVE  \E next \in Calls :
           /\ next = Captured(call, name)
           /\ next.life = call.life /\ next.ids = call.ids /\ next.stored = call.stored
           /\ Len(next.events) = Len(call.events) + 1
           /\ \A i \in 1..Len(call.events) : next.events[i] = call.events[i]
           /\ next.events[Len(call.events) + 1] = Event(name, call.life)
<1>1. call.life \in Life /\ call.events \in Seq(Captureds)
  BY DEF Calls
<1>2. PICK e \in Captureds : e = Event(name, call.life)
  BY <1>1, EventIsTyped
<1>3. PICK next : next = [call EXCEPT !.events = Append(@, e)]
  OBVIOUS
<1>4. next = Captured(call, name)
  BY <1>2, <1>3 DEF Captured
<1> QED BY <1>1, <1>2, <1>3, <1>4 DEF Calls

\* The session that is found goes on.
Lasts(base, now) == base \in Session /\ ~Expired(base, now)

\* The session of a call: the one that was found, or a new one.
Goes(base, call, next, now) ==
  /\ next.life.session \in Session /\ next.life.session.last = now
  /\ IF Lasts(base, now)
     THEN next.ids.session = call.ids.session /\ next.life.session.id = base.id
     ELSE next.ids.session = call.ids.session + 1 /\ next.life.session.id = call.ids.session + 1

\* What is stored by it: the session, or what was stored, if writing fails or
\* is throttled.
Stores(base, call, next, now, works) ==
  \/ next.stored = next.life.session /\ next.life.persistedAt = now
  \/ /\ next.stored = call.stored
     /\ \/ ~works
        \/ /\ Lasts(base, now) /\ base = call.life.session
           /\ next.life.persistedAt = call.life.persistedAt
           /\ now - call.life.persistedAt < PersistInterval

\* What it captures: events of the session, a new one announced by the first.
Announces(next, new) ==
  /\ \A i \in DOMAIN next.events :
       /\ next.events[i].session = next.life.session.id
       /\ next.events[i].route = NoPage /\ next.events[i].name \in Lifecycle
  /\ new => next.events # <<>> /\ next.events[1].name = "session_start"

LivesOn(base, call, next, now, works) ==
  /\ next \in Calls /\ next.life.started
  /\ IsCurrent(next.life) /\ Recent(next.life.contexts, next.ids.page)
  /\ SessionsOf(next.life.contexts) \subseteq SessionsOf(call.life.contexts) \cup {next.life.session.id}
  /\ Goes(base, call, next, now) /\ Stores(base, call, next, now, works)
  /\ Announces(next, ~Lasts(base, now))

\* The call with its session, and with its page entered too.
Continued(base, call, now) ==
  IF Lasts(base, now) THEN [call EXCEPT !.life.session = [base EXCEPT !.last = now]]
  ELSE Opened(call, now)
Entered(call, url, now, works) == Persisted(Applied(Shown(call, url)), now, TRUE, works)

Continues(base, call, begun, now) ==
  /\ begun \in Calls /\ Goes(base, call, begun, now)
  /\ begun.life.started = call.life.started /\ begun.life.page = call.life.page
  /\ begun.life.contexts = call.life.contexts
  /\ begun.life.persistedAt = call.life.persistedAt
  /\ begun.stored = call.stored /\ begun.events = call.events
  /\ begun.ids.page = call.ids.page

\* What a page that is entered leaves of it.
Enters(call, next, now, works) ==
  /\ next \in Calls
  /\ next.life.started = call.life.started /\ next.life.session = call.life.session
  /\ next.events = call.events /\ next.ids.session = call.ids.session
  /\ IsCurrent(next.life) /\ Recent(next.life.contexts, next.ids.page)
  /\ SessionsOf(next.life.contexts) \subseteq SessionsOf(call.life.contexts) \cup {call.life.session.id}
  /\ \/ next.stored = next.life.session /\ next.life.persistedAt = now
     \/ next.stored = call.stored /\ ~works

\* A session that lasts is continued now; any other gives way to a new one.
LEMMA SessionGoesOn ==
  ASSUME NEW call \in Calls, NEW base, NEW now \in Int, NEW begun,
         begun = Continued(base, call, now)
  PROVE  Continues(base, call, begun, now)
<1>1. /\ call.life \in Life /\ call.ids \in [session : Nat, page : Nat]
      /\ call = [life |-> call.life, stored |-> call.stored, ids |-> call.ids,
                 events |-> call.events, failed |-> call.failed]
  BY DEF Calls
<1>2. CASE Lasts(base, now)
  <2>1. PICK session : session = [base EXCEPT !.last = now]
    OBVIOUS
  <2>2. session \in Session /\ session.last = now /\ session.id = base.id
    BY <1>2, <2>1 DEF Lasts, Session
  <2>3. PICK life : life = [call.life EXCEPT !.session = session]
    OBVIOUS
  <2>4. /\ life \in Life /\ life.session = session /\ life.started = call.life.started
        /\ life.page = call.life.page /\ life.contexts = call.life.contexts
        /\ life.persistedAt = call.life.persistedAt
    BY <1>1, <2>2, <2>3 DEF Life
  <2>5. PICK next : next = [call EXCEPT !.life = life]
    OBVIOUS
  <2>6. next = [call EXCEPT !.life.session = [base EXCEPT !.last = now]]
    BY <1>1, <2>1, <2>3, <2>5
  <2>7. /\ next \in Calls /\ next.life = life /\ next.stored = call.stored
        /\ next.events = call.events /\ next.ids = call.ids
    BY <2>4, <2>5 DEF Calls
  <2>8. Goes(base, call, next, now)
    BY <1>2, <2>2, <2>4, <2>7 DEF Goes
  <2>9. next = begun
    BY <1>2, <2>6 DEF Continued
  <2> QED BY <2>4, <2>7, <2>8, <2>9 DEF Continues
<1>3. CASE ~Lasts(base, now)
  <2>1. PICK n \in Nat : n = call.ids.session + 1
    BY <1>1
  <2>2. PICK session : session = [id |-> n, last |-> now]
    OBVIOUS
  <2>3. session \in Session /\ session.last = now /\ session.id = n
    BY <2>2 DEF Session
  <2>4. PICK life : life = [call.life EXCEPT !.session = session]
    OBVIOUS
  <2>5. /\ life \in Life /\ life.session = session /\ life.started = call.life.started
        /\ life.page = call.life.page /\ life.contexts = call.life.contexts
        /\ life.persistedAt = call.life.persistedAt
    BY <1>1, <2>3, <2>4 DEF Life
  <2>6. PICK ids : ids = [call.ids EXCEPT !.session = n]
    OBVIOUS
  <2>7. ids \in [session : Nat, page : Nat] /\ ids.session = n /\ ids.page = call.ids.page
    BY <1>1, <2>6
  <2>8. PICK next : next = [call EXCEPT !.ids = ids, !.life = life]
    OBVIOUS
  <2>9. next = Opened(call, now)
    BY <1>1, <2>1, <2>2, <2>4, <2>6, <2>8 DEF Opened
  <2>10. /\ next \in Calls /\ next.life = life /\ next.stored = call.stored
         /\ next.events = call.events /\ next.ids = ids
    BY <2>5, <2>7, <2>8 DEF Calls
  <2>11. Goes(base, call, next, now)
    BY <1>3, <2>1, <2>3, <2>5, <2>7, <2>10 DEF Goes
  <2>12. next = begun
    BY <1>3, <2>9 DEF Continued
  <2> QED BY <2>5, <2>7, <2>10, <2>11, <2>12 DEF Continues
<1> QED BY <1>2, <1>3

\* The page of a call is shown and its session written.
LEMMA PageIsEntered ==
  ASSUME NEW call \in Calls, call.life.session \in Session, NEW url \in Urls,
         Recent(call.life.contexts, call.ids.page), NEW now \in Int, NEW works \in BOOLEAN,
         NEW next, next = Entered(call, url, now, works)
  PROVE  Enters(call, next, now, works)
<1>1. PICK shown \in Calls :
        /\ shown = Applied(Shown(call, url))
        /\ shown.life.started = call.life.started /\ shown.life.session = call.life.session
        /\ shown.life.persistedAt = call.life.persistedAt
        /\ shown.stored = call.stored /\ shown.events = call.events
        /\ shown.ids.session = call.ids.session
        /\ IsCurrent(shown.life) /\ Recent(shown.life.contexts, shown.ids.page)
        /\ SessionsOf(shown.life.contexts)
             \subseteq SessionsOf(call.life.contexts) \cup {call.life.session.id}
  BY PageIsShown
<1>2. PICK kept \in Calls :
        /\ kept = Persisted(shown, now, TRUE, works)
        /\ kept.life.started = shown.life.started /\ kept.life.session = shown.life.session
        /\ kept.life.page = shown.life.page /\ kept.life.contexts = shown.life.contexts
        /\ kept.events = shown.events /\ kept.ids = shown.ids
        /\ \/ kept.stored = shown.life.session /\ kept.life.persistedAt = now
           \/ /\ kept.stored = shown.stored /\ kept.life.persistedAt = shown.life.persistedAt
              /\ ~works \/ (~TRUE /\ now - shown.life.persistedAt < PersistInterval)
  BY <1>1, SessionIsPersisted
<1>3. kept = next
  BY <1>1, <1>2 DEF Entered
<1>4. IsCurrent(next.life)
  BY <1>1, <1>2, <1>3 DEF IsCurrent, ContextOf
<1> QED BY <1>1, <1>2, <1>3, <1>4 DEF Enters

\* The events of a call: session_start if it has begun a session, and one more.
LEMMA EventsAreCaptured ==
  ASSUME NEW call \in Calls, call.events = <<>>, call.life.session \in Session,
         NEW new \in BOOLEAN, NEW name \in Lifecycle
  PROVE  \E next \in Calls :
           /\ next = Captured(IF new THEN Captured(call, "session_start") ELSE call, name)
           /\ next.life = call.life /\ next.ids = call.ids /\ next.stored = call.stored
           /\ Announces(next, new)
<1>1. Len(call.events) = 0 /\ name \in Names /\ "session_start" \in Names
  <2>1. Len(call.events) = 0
    OBVIOUS
  <2>2. name \in Names /\ "session_start" \in Names
    BY DEF Lifecycle, Names
  <2> QED BY <2>1, <2>2
<1> call.life \in Life
  BY DEF Calls
<1>2. PICK begun \in Calls :
        /\ begun = Captured(call, "session_start")
        /\ begun.life = call.life /\ begun.ids = call.ids /\ begun.stored = call.stored
        /\ Len(begun.events) = Len(call.events) + 1
        /\ \A i \in 1..Len(call.events) : begun.events[i] = call.events[i]
        /\ begun.events[Len(call.events) + 1] = Event("session_start", call.life)
  BY <1>1, EventIsCaptured
<1>3. /\ Event("session_start", call.life).session = call.life.session.id
      /\ Event("session_start", call.life).route = NoPage
      /\ Event("session_start", call.life).name = "session_start"
      /\ Event(name, call.life).session = call.life.session.id
      /\ Event(name, call.life).route = NoPage /\ Event(name, call.life).name = name
  BY <1>1, EventIsTyped
<1>4. CASE new
  <2>1. PICK next \in Calls :
          /\ next = Captured(begun, name)
          /\ next.life = begun.life /\ next.ids = begun.ids /\ next.stored = begun.stored
          /\ Len(next.events) = Len(begun.events) + 1
          /\ \A i \in 1..Len(begun.events) : next.events[i] = begun.events[i]
          /\ next.events[Len(begun.events) + 1] = Event(name, begun.life)
    BY <1>1, EventIsCaptured
  <2>2. next.events \in Seq(Captureds) /\ DOMAIN next.events = 1..2 /\ next.events # <<>>
    BY <1>1, <1>2, <2>1, SMTT(60) DEF Calls
  <2>3. /\ next.events[1] = Event("session_start", call.life)
        /\ next.events[2] = Event(name, call.life)
    BY <1>1, <1>2, <2>1
  <2>4. \A i \in 1..2 : i = 1 \/ i = 2
    OBVIOUS
  <2>5. Announces(next, new)
    BY <1>2, <1>3, <2>1, <2>2, <2>3, <2>4, SMTT(60) DEF Announces, Lifecycle
  <2> QED BY <1>2, <1>4, <2>1, <2>5
<1>5. CASE ~new
  <2>1. PICK next \in Calls :
          /\ next = Captured(call, name)
          /\ next.life = call.life /\ next.ids = call.ids /\ next.stored = call.stored
          /\ Len(next.events) = Len(call.events) + 1
          /\ \A i \in 1..Len(call.events) : next.events[i] = call.events[i]
          /\ next.events[Len(call.events) + 1] = Event(name, call.life)
    BY <1>1, EventIsCaptured
  <2>2. DOMAIN next.events = 1..1 /\ next.events[1] = Event(name, call.life)
    BY <1>1, <2>1 DEF Calls
  <2>3. Announces(next, new)
    BY <1>3, <1>5, <2>1, <2>2 DEF Announces
  <2> QED BY <1>5, <2>1, <2>3
<1> QED BY <1>4, <1>5

\* The session of a call that was found in the lifecycle has only its last
\* activity changed.
LEMMA SameSession ==
  ASSUME NEW call \in Calls, NEW now \in Int
  PROVE  [call EXCEPT !.life.session.last = now]
           = [call EXCEPT !.life.session = [call.life.session EXCEPT !.last = now]]
<1>1. "life" \in DOMAIN call /\ "session" \in DOMAIN call.life
  BY DEF Calls, Life
<1> QED BY <1>1

\* A call that has entered a page and not told of it.
NewPage(base, call, shown, now, works) ==
  /\ shown \in Calls /\ shown.events = <<>> /\ shown.life.session \in Session
  /\ IsCurrent(shown.life) /\ Recent(shown.life.contexts, shown.ids.page)
  /\ SessionsOf(shown.life.contexts) \subseteq SessionsOf(call.life.contexts) \cup {shown.life.session.id}
  /\ Goes(base, call, shown, now) /\ Stores(base, call, shown, now, works)

\* Both ways to a new page.
LEMMA NewPageLivesOn ==
  ASSUME NEW call \in Calls, call.events = <<>>, Recent(call.life.contexts, call.ids.page),
         NEW base, NEW url \in Urls, NEW now \in Int, NEW works \in BOOLEAN,
         NEW begun,
         begun = Continued(base, call, now),
         NEW shown, shown = Entered(begun, url, now, works)
  PROVE  NewPage(base, call, shown, now, works) /\ shown.life.started = call.life.started
<1>1. Continues(base, call, begun, now)
  BY SessionGoesOn
<1>2. /\ begun \in Calls /\ begun.life.session \in Session
      /\ Recent(begun.life.contexts, begun.ids.page)
  BY <1>1 DEF Continues, Goes
<1>3. Enters(begun, shown, now, works)
  BY <1>2, PageIsEntered
<1>4. Goes(base, call, shown, now) /\ Stores(base, call, shown, now, works)
  BY <1>1, <1>3 DEF Continues, Enters, Goes, Stores
<1> QED BY <1>1, <1>2, <1>3, <1>4 DEF Continues, Enters, NewPage

\* Its events complete it.
LEMMA NewPageIsAnnounced ==
  ASSUME NEW call \in Calls, NEW base, NEW now \in Int, NEW works \in BOOLEAN,
         NEW name \in Lifecycle, NEW shown, NewPage(base, call, shown, now, works), shown.life.started
  PROVE  LivesOn(base, call,
                 Captured(IF ~Lasts(base, now) THEN Captured(shown, "session_start") ELSE shown, name),
                 now, works)
<1>1. /\ (~Lasts(base, now)) \in BOOLEAN
      /\ shown \in Calls /\ shown.events = <<>> /\ shown.life.session \in Session
  BY DEF NewPage
<1>2. PICK next \in Calls :
        /\ next = Captured(IF ~Lasts(base, now) THEN Captured(shown, "session_start") ELSE shown, name)
        /\ next.life = shown.life /\ next.ids = shown.ids /\ next.stored = shown.stored
        /\ Announces(next, ~Lasts(base, now))
  BY <1>1, EventsAreCaptured
<1>3. Goes(base, call, next, now) /\ Stores(base, call, next, now, works)
  BY <1>2 DEF NewPage, Goes, Stores
<1>4. LivesOn(base, call, next, now, works)
  BY <1>2, <1>3 DEF NewPage, LivesOn
<1> QED BY <1>2, <1>4

\* A lifecycle that was started, between two calls.
Living(call) ==
  /\ call \in Calls /\ call.events = <<>> /\ call.life.started
  /\ IsCurrent(call.life) /\ Recent(call.life.contexts, call.ids.page)

\* touch, from its three ways: no change of session, a rotation, a throttled
\* write.
LEMMA TouchLivesOn ==
  ASSUME NEW call, Living(call), NEW url \in Urls, NEW now \in Int, NEW works \in BOOLEAN
  PROVE  LivesOn(call.life.session, call, Touched(call, now, url, works), now, works)
<1>1. PICK base : base = call.life.session
  OBVIOUS
<1>2. /\ call \in Calls /\ call.events = <<>> /\ call.life.started /\ base \in Session
      /\ IsCurrent(call.life) /\ Recent(call.life.contexts, call.ids.page)
  BY <1>1 DEF Living, IsCurrent
<1>3. PICK begun : begun = Continued(base, call, now)
  OBVIOUS
<1>4. CASE Expired(base, now)
  <2>1. ~Lasts(base, now)
    BY <1>4 DEF Lasts
  <2>2. "page_view" \in Lifecycle
    BY DEF Lifecycle
  <2>3. PICK shown : shown = Entered(begun, url, now, works)
    OBVIOUS
  <2>4. NewPage(base, call, shown, now, works) /\ shown.life.started = call.life.started
    BY <1>2, <1>3, <2>3, NewPageLivesOn
  <2>5. PICK next :
          next = Captured(IF ~Lasts(base, now) THEN Captured(shown, "session_start") ELSE shown,
                          "page_view")
    OBVIOUS
  <2>8. shown.life.started
    BY <1>2, <2>4 DEF NewPage
  <2>6. LivesOn(base, call, next, now, works)
    BY <1>2, <2>2, <2>4, <2>5, <2>8, NewPageIsAnnounced
  <2>7. next = Touched(call, now, url, works)
    BY <1>1, <1>2, <1>3, <1>4, <2>1, <2>3, <2>5 DEF Touched, Rotated, Continued, Entered
  <2> QED BY <1>1, <2>6, <2>7
<1>5. CASE ~Expired(base, now)
  <2>1. Lasts(base, now)
    BY <1>2, <1>5 DEF Lasts
  <2>2. /\ begun \in Calls /\ Goes(base, call, begun, now)
        /\ begun.life.started = call.life.started /\ begun.life.page = call.life.page
        /\ begun.life.contexts = call.life.contexts
        /\ begun.life.persistedAt = call.life.persistedAt
        /\ begun.stored = call.stored /\ begun.events = call.events
        /\ begun.ids.page = call.ids.page
    <3>1. Continues(base, call, begun, now)
      BY <1>2, <1>3, SessionGoesOn
    <3> QED BY <3>1 DEF Continues
  <2>3. begun = [call EXCEPT !.life.session.last = now]
    BY <1>1, <1>2, <1>3, <2>1, SameSession DEF Continued
  <2>4. begun.life.session \in Session /\ FALSE \in BOOLEAN
    BY <2>2 DEF Goes
  <2>5. PICK next \in Calls :
          /\ next = Persisted(begun, now, FALSE, works)
          /\ next.life.started = begun.life.started /\ next.life.session = begun.life.session
          /\ next.life.page = begun.life.page /\ next.life.contexts = begun.life.contexts
          /\ next.events = begun.events /\ next.ids = begun.ids
          /\ \/ next.stored = begun.life.session /\ next.life.persistedAt = now
             \/ /\ next.stored = begun.stored /\ next.life.persistedAt = begun.life.persistedAt
                /\ ~works \/ (~FALSE /\ now - begun.life.persistedAt < PersistInterval)
    BY <2>2, <2>4, SessionIsPersisted
  <2>6. next = Touched(call, now, url, works)
    BY <1>1, <1>2, <1>5, <2>3, <2>5 DEF Touched
  <2>7. next.life.session.id = call.life.session.id
    BY <1>1, <2>1, <2>2, <2>5 DEF Goes
  <2>8. IsCurrent(next.life) /\ Recent(next.life.contexts, next.ids.page)
    BY <1>2, <2>2, <2>4, <2>5, <2>7 DEF IsCurrent, ContextOf
  <2>9. Goes(base, call, next, now) /\ Stores(base, call, next, now, works)
    BY <1>1, <2>1, <2>2, <2>5 DEF Goes, Stores
  <2>10. Announces(next, ~Lasts(base, now))
    <3>1. DOMAIN next.events = {}
      <4>1. next.events = <<>>
        BY <1>2, <2>2, <2>5
      <4>2. DOMAIN <<>> = {}
        OBVIOUS
      <4> QED BY <4>1, <4>2, Zenon
    <3> QED BY <2>1, <3>1, Zenon DEF Announces
  <2>11. LivesOn(base, call, next, now, works)
    BY <1>2, <2>2, <2>5, <2>8, <2>9, <2>10 DEF LivesOn
  <2> QED BY <1>1, <2>6, <2>11
<1> QED BY <1>4, <1>5

\* #handleNavigation, to the same URL or to another.
LEMMA NavigationLivesOn ==
  ASSUME NEW call, Living(call), NEW url \in Urls, NEW now \in Int, NEW works \in BOOLEAN
  PROVE  LivesOn(call.life.session, call, Navigated(call, now, url, works), now, works)
<1>1. CASE url = call.life.page.url
  <2>1. Navigated(call, now, url, works) = Touched(call, now, url, works)
    BY <1>1 DEF Navigated, Living
  <2> QED BY <2>1, TouchLivesOn
<1>2. CASE url # call.life.page.url
  <2>1. PICK base : base = call.life.session
    OBVIOUS
  <2>2. /\ call \in Calls /\ call.events = <<>> /\ call.life.started /\ base \in Session
        /\ Recent(call.life.contexts, call.ids.page)
    BY <2>1 DEF Living, IsCurrent
  <2>3. PICK begun : begun = Continued(base, call, now)
    OBVIOUS
  <2>4. Lasts(base, now) <=> ~Expired(base, now)
    BY <2>2 DEF Lasts
  <2>5. begun = IF Expired(base, now) THEN Opened(call, now)
                ELSE [call EXCEPT !.life.session.last = now]
    BY <2>1, <2>2, <2>3, <2>4, SameSession DEF Continued
  <2>6. "page_route_change" \in Lifecycle
    BY DEF Lifecycle
  <2>7. PICK shown : shown = Entered(begun, url, now, works)
    OBVIOUS
  <2>8. NewPage(base, call, shown, now, works) /\ shown.life.started = call.life.started
    BY <2>2, <2>3, <2>7, NewPageLivesOn
  <2>9. PICK next :
          next = Captured(IF ~Lasts(base, now) THEN Captured(shown, "session_start") ELSE shown,
                          "page_route_change")
    OBVIOUS
  <2>12. shown.life.started
    BY <2>2, <2>8 DEF NewPage
  <2>10. LivesOn(base, call, next, now, works)
    BY <2>2, <2>6, <2>8, <2>9, <2>12, NewPageIsAnnounced
  <2>11. next = Navigated(call, now, url, works)
    BY <1>2, <2>1, <2>2, <2>4, <2>5, <2>7, <2>9 DEF Navigated, Entered
  <2> QED BY <2>1, <2>10, <2>11
<1> QED BY <1>1, <1>2

\* The session that start finds: the stored one, if it can be read.
Found(call, reads) == IF reads THEN call.stored ELSE NoSession

\* start, with what could be read from the tab's storage.
LEMMA StartLivesOn ==
  ASSUME NEW call \in Calls, call.life = NewLife, call.events = <<>>, NEW url \in Urls,
         NEW now \in Int, NEW reads \in BOOLEAN, NEW works \in BOOLEAN
  PROVE  LivesOn(Found(call, reads), call, Started(call, now, url, reads, works), now, works)
<1>1. PICK base : base = Found(call, reads)
  OBVIOUS
<1>2. PICK begun : begun = Continued(base, call, now)
  OBVIOUS
<1>3. Lasts(base, now) <=> reads /\ call.stored # NoSession /\ ~Expired(call.stored, now)
  BY <1>1, PageSessionAssumption DEF Lasts, Found, Calls
<1>4. Lasts(base, now) => base = call.stored
  BY <1>1, <1>3 DEF Found
<1>5. Recent(call.life.contexts, call.ids.page)
  <2>1. call.life.contexts = <<>> /\ ~call.life.started
    BY DEF NewLife
  <2>2. Len(call.life.contexts) = 0 /\ DOMAIN call.life.contexts = {} /\ 0 <= MaxContexts
    BY <2>1, PageSessionAssumption
  <2> QED BY <2>2 DEF Recent
<1>6. PICK shown : shown = Entered(begun, url, now, works)
  OBVIOUS
<1>7. NewPage(base, call, shown, now, works)
  BY <1>2, <1>5, <1>6, NewPageLivesOn
<1>8. PICK open : open = [shown EXCEPT !.life.started = TRUE]
  OBVIOUS
<1>9. /\ shown \in Calls /\ shown.life \in Life /\ shown.events \in Seq(Captureds)
      /\ shown = [life |-> shown.life, stored |-> shown.stored, ids |-> shown.ids,
                  events |-> shown.events, failed |-> shown.failed]
  BY <1>7 DEF NewPage, Calls
<1>10. /\ open \in Calls /\ open.life \in Life /\ open.stored = shown.stored /\ open.ids = shown.ids
       /\ open.events = shown.events /\ open.life = [shown.life EXCEPT !.started = TRUE]
       /\ open.failed = shown.failed
  <2>1. PICK life : life = [shown.life EXCEPT !.started = TRUE]
    OBVIOUS
  <2>2. life \in Life
    BY <1>9, <2>1 DEF Life
  <2>3. open = [shown EXCEPT !.life = life]
    BY <1>8, <1>9, <2>1
  <2> QED BY <1>9, <2>1, <2>2, <2>3 DEF Calls
<1>11. /\ open.life.started /\ open.life.session = shown.life.session
       /\ open.life.page = shown.life.page /\ open.life.contexts = shown.life.contexts
       /\ open.life.persistedAt = shown.life.persistedAt
  BY <1>9, <1>10 DEF Life
<1>12. NewPage(base, call, open, now, works)
  BY <1>7, <1>10, <1>11 DEF NewPage, IsCurrent, ContextOf, Goes, Stores
<1>13. LivesOn(base, call,
               Captured(IF ~Lasts(base, now) THEN Captured(open, "session_start") ELSE open, "page_view"),
               now, works)
  BY <1>11, <1>12, NewPageIsAnnounced DEF Lifecycle
<1>14. Captured(open, "session_start") = [Captured(shown, "session_start") EXCEPT !.life.started = TRUE]
  <2>1. PICK e : e = Event("session_start", shown.life)
    OBVIOUS
  <2>2. Event("session_start", open.life) = e
    BY <1>11, <2>1 DEF Event
  <2>3. PICK captured : captured = Append(shown.events, e)
    OBVIOUS
  <2>4. Captured(open, "session_start") = [open EXCEPT !.events = captured]
    BY <1>10, <2>2, <2>3 DEF Captured, Calls
  <2>5. Captured(shown, "session_start") = [shown EXCEPT !.events = captured]
    BY <1>9, <2>1, <2>3 DEF Captured
  <2> QED BY <1>8, <1>9, <2>4, <2>5
<1>15. Started(call, now, url, reads, works)
         = Captured(IF ~Lasts(base, now) THEN Captured(open, "session_start") ELSE open, "page_view")
  <2>1. begun = IF reads /\ call.stored # NoSession /\ ~Expired(call.stored, now)
                THEN [call EXCEPT !.life.session = [call.stored EXCEPT !.last = now]]
                ELSE Opened(call, now)
    BY <1>2, <1>3, <1>4 DEF Continued
  <2>2. CASE Lasts(base, now)
    BY <1>3, <1>6, <1>8, <2>1, <2>2 DEF Started, Entered
  <2>3. CASE ~Lasts(base, now)
    BY <1>3, <1>6, <1>14, <2>1, <2>3 DEF Started, Entered
  <2> QED BY <2>2, <2>3
<1> QED BY <1>1, <1>13, <1>15

-----------------------------------------------------------------------------
(* Patched functions.                                                      *)

Wrapping == Seq(Nat \cup {Foreign})
Patched == [top : Wrapping, own : Wrapping]

\* What the bridge may restore ends with a wrapper of its own, and is all
\* there is unless another library has wrapped the function.
PatchOK(patched) ==
  /\ patched.own # <<>> => Last(patched.own) # Foreign
  /\ ~Covers(patched) => patched.top = patched.own /\ Len(patched.top) <= 1

\* A patched function after a step: covered if and only if it was.
Patches(before, after) ==
  after \in Patched /\ PatchOK(after) /\ (Covers(after) <=> Covers(before))

\* One more wrapper around a function.
LEMMA AppendedWrapper ==
  ASSUME NEW top \in Wrapping, NEW n \in Nat \cup {Foreign}
  PROVE  /\ Append(top, n) \in Wrapping /\ Append(top, n) # <<>> /\ Last(Append(top, n)) = n
         /\ Len(Append(top, n)) = Len(top) + 1
         /\ (\E i \in DOMAIN Append(top, n) : Append(top, n)[i] = Foreign)
              <=> n = Foreign \/ \E i \in DOMAIN top : top[i] = Foreign
<1>1. PICK m \in Nat : m = Len(top)
  BY DEF Wrapping
<1>2. PICK longer : longer = Append(top, n)
  OBVIOUS
<1>3. /\ longer \in Wrapping /\ Len(longer) = m + 1 /\ DOMAIN longer = 1..(m + 1)
      /\ DOMAIN top = 1..m
      /\ \A i \in 1..m : longer[i] = top[i]
      /\ longer[m + 1] = n
  BY <1>1, <1>2 DEF Wrapping
<1>4. \A i \in 1..(m + 1) : i \in 1..m \/ i = m + 1
  BY <1>1
<1>5. m + 1 \in 1..(m + 1) /\ \A i \in 1..m : i \in 1..(m + 1)
  BY <1>1
<1>6. longer # <<>> /\ Last(longer) = n
  BY <1>1, <1>3 DEF Last
<1>7. (\E i \in DOMAIN longer : longer[i] = Foreign) <=> n = Foreign \/ \E i \in DOMAIN top : top[i] = Foreign
  BY <1>3, <1>4, <1>5, Zenon
<1> QED BY <1>1, <1>2, <1>3, <1>6, <1>7

\* #installFetch, #installXhr and the history's: nothing twice, nothing
\* uncovered.
LEMMA InstalledIsPatched ==
  ASSUME NEW patched \in Patched, PatchOK(patched), NEW n \in Nat
  PROVE  Patches(patched, Installed(patched, n))
<1>1. CASE patched.own # NotInstalled
  BY <1>1 DEF Installed, Patches
<1>2. CASE patched.own = NotInstalled
  <2>1. PICK longer : longer = Append(patched.top, n)
    OBVIOUS
  <2>2. /\ longer \in Wrapping /\ longer # <<>> /\ Last(longer) = n
        /\ Len(longer) = Len(patched.top) + 1
        /\ (\E i \in DOMAIN longer : longer[i] = Foreign)
             <=> n = Foreign \/ \E i \in DOMAIN patched.top : patched.top[i] = Foreign
    BY <2>1, AppendedWrapper DEF Patched
  <2>3. PICK after : after = Installed(patched, n)
    OBVIOUS
  <2>4. after = [top |-> longer, own |-> longer]
    BY <1>2, <2>1, <2>3 DEF Installed
  <2>5. after \in Patched /\ after.top = longer /\ after.own = longer
    BY <2>2, <2>4 DEF Patched
  <2>6. n # Foreign
    BY BrowserCaptureAssumption
  <2>7. Covers(after) <=> Covers(patched)
    BY <2>2, <2>5, <2>6 DEF Covers
  <2>8. ~Covers(after) => Len(longer) <= 1
    <3>1. ~Covers(after) => patched.top = <<>>
      BY <1>2, <2>7 DEF PatchOK, NotInstalled
    <3>2. patched.top = <<>> => Len(patched.top) = 0
      OBVIOUS
    <3> QED BY <2>2, <3>1, <3>2
  <2> QED BY <2>2, <2>3, <2>5, <2>6, <2>7, <2>8 DEF Patches, PatchOK
<1> QED BY <1>1, <1>2

\* The function without its outermost wrapper, which is not another library's.
LEMMA FrontOfWrapping ==
  ASSUME NEW top \in Wrapping, top # <<>>, Last(top) # Foreign
  PROVE  /\ Front(top) \in Wrapping /\ Len(Front(top)) = Len(top) - 1
         /\ (\E i \in DOMAIN Front(top) : Front(top)[i] = Foreign) <=> \E i \in DOMAIN top : top[i] = Foreign
<1>1. PICK m \in Nat : m = Len(top) /\ m > 0
  BY DEF Wrapping
<1>2. PICK front : front = Front(top)
  OBVIOUS
<1>3. top \in Seq(Nat \cup {Foreign}) /\ DOMAIN top = 1..m
  BY <1>1 DEF Wrapping
<1>4. front = SubSeq(top, 1, m - 1)
  BY <1>1, <1>2 DEF Front
<1>5. /\ front \in Wrapping /\ Len(front) = m - 1 /\ DOMAIN front = 1..(m - 1)
      /\ \A i \in 1..(m - 1) : front[i] = top[i]
  <2>1. m - 1 \in Int /\ 1 \in Int /\ \A i \in 1..(m - 1) : top[i] \in Nat \cup {Foreign}
    BY <1>1, <1>3
  <2>2. /\ front \in Seq(Nat \cup {Foreign})
        /\ Len(front) = IF 1 <= m - 1 THEN m - 1 - 1 + 1 ELSE 0
        /\ \A i \in 1..(m - 1 - 1 + 1) : front[i] = top[1 + i - 1]
    BY <1>4, <2>1, SubSeqProperties
  <2>3. Len(front) = m - 1 /\ m - 1 - 1 + 1 = m - 1 /\ \A i \in Int : 1 + i - 1 = i
    BY <1>1, <2>2
  <2> QED BY <2>2, <2>3 DEF Wrapping
<1>6. top[m] # Foreign
  BY <1>1 DEF Last
<1>7. \A i \in 1..m : i = m \/ i \in 1..(m - 1)
  BY <1>1
<1>8. \A i \in 1..(m - 1) : i \in 1..m
  BY <1>1
<1>9. (\E i \in DOMAIN front : front[i] = Foreign) <=> \E i \in DOMAIN top : top[i] = Foreign
  BY <1>3, <1>5, <1>6, <1>7, <1>8, Zenon
<1> QED BY <1>1, <1>2, <1>5, <1>9

\* #stopFetch and #stopXhr put back no more than what the bridge has installed.
LEMMA RestoredIsPatched ==
  ASSUME NEW patched \in Patched, PatchOK(patched)
  PROVE  Patches(patched, Restored(patched)) /\ Restored(patched).own = NotInstalled
<1>1. PICK after : after = Restored(patched)
  OBVIOUS
<1>2. patched.top \in Wrapping /\ patched.own \in Wrapping /\ <<>> \in Wrapping
  BY DEF Patched, Wrapping
<1>3. CASE patched.own # NotInstalled /\ patched.top = patched.own
  <2>1. PICK front : front = Front(patched.top)
    OBVIOUS
  <2>2. patched.top # <<>> /\ Last(patched.top) # Foreign
    BY <1>3 DEF PatchOK, NotInstalled
  <2>3. /\ front \in Wrapping /\ Len(front) = Len(patched.top) - 1
        /\ (\E i \in DOMAIN front : front[i] = Foreign)
             <=> \E i \in DOMAIN patched.top : patched.top[i] = Foreign
    BY <1>2, <2>1, <2>2, FrontOfWrapping
  <2>4. after = [top |-> front, own |-> <<>>]
    BY <1>1, <1>3, <2>1 DEF Restored, NotInstalled
  <2>5. after \in Patched /\ after.top = front /\ after.own = <<>>
    BY <1>2, <2>3, <2>4 DEF Patched
  <2>6. Covers(after) <=> Covers(patched)
    BY <2>3, <2>5 DEF Covers
  <2>7. ~Covers(after) => front = <<>>
    <3>1. ~Covers(after) => Len(patched.top) <= 1
      BY <2>6 DEF PatchOK
    <3>2. Len(front) = 0 => front = <<>>
      BY <2>3 DEF Wrapping
    <3>3. Len(patched.top) \in Nat /\ Len(front) \in Nat
      BY <1>2, <2>3 DEF Wrapping
    <3> QED BY <2>3, <3>1, <3>2, <3>3
  <2>8. Len(<<>>) = 0
    OBVIOUS
  <2> QED BY <1>1, <2>5, <2>6, <2>7, <2>8 DEF Patches, PatchOK, NotInstalled
<1>4. CASE ~(patched.own # NotInstalled /\ patched.top = patched.own)
  <2>1. after = [top |-> patched.top, own |-> <<>>]
    BY <1>1, <1>4 DEF Restored, NotInstalled
  <2>2. after \in Patched /\ after.top = patched.top /\ after.own = <<>>
    BY <1>2, <2>1 DEF Patched
  <2>3. Covers(after) <=> Covers(patched)
    BY <2>2 DEF Covers
  <2> QED BY <1>1, <1>4, <2>2, <2>3 DEF Patches, PatchOK, NotInstalled
<1> QED BY <1>3, <1>4

\* Another library's wrapper is all around what there was.
LEMMA CoveredIsCovered ==
  ASSUME NEW patched \in Patched, PatchOK(patched)
  PROVE  /\ Covered(patched) \in Patched /\ PatchOK(Covered(patched)) /\ Covers(Covered(patched))
         /\ Covered(patched).own = patched.own
<1>1. PICK longer : longer = Append(patched.top, Foreign)
  OBVIOUS
<1>2. /\ longer \in Wrapping /\ (\E i \in DOMAIN longer : longer[i] = Foreign)
  BY <1>1, AppendedWrapper DEF Patched
<1>3. PICK after : after = Covered(patched)
  OBVIOUS
<1>4. after = [top |-> longer, own |-> patched.own]
  BY <1>1, <1>3 DEF Covered, Patched
<1>5. after \in Patched /\ after.top = longer /\ after.own = patched.own
  BY <1>2, <1>4 DEF Patched
<1>6. Covers(after)
  BY <1>2, <1>5 DEF Covers
<1> QED BY <1>3, <1>5, <1>6 DEF PatchOK

\* A function that nobody else has wrapped and the bridge has left.
LEMMA NothingIsLeft ==
  ASSUME NEW patched \in Patched, PatchOK(patched), patched.own = NotInstalled, ~Covers(patched)
  PROVE  patched = Native
<1>1. patched = [top |-> patched.top, own |-> patched.own]
  BY DEF Patched
<1>2. patched.top = <<>>
  BY DEF PatchOK, NotInstalled
<1> QED BY <1>1, <1>2 DEF Native

-----------------------------------------------------------------------------
(* The inductive invariant.                                                *)

Subscribers == [client : Nat, captures : SUBSET Captures]
Bridges == [subscribers : SUBSET Subscribers, fetch : Patched, xhr : Patched,
            observing : BOOLEAN, cursor : Nat, seen : Nat]
Sent == [via : {"none", "fetch", "xhr"}, phase : {"new", "sent", "opened", "done"},
         known : BOOLEAN, route : Urls \cup {"none"}, recipients : SUBSET Subscribers,
         pending : Nat, own : BOOLEAN, events : Nat]

CaptureTypes ==
  /\ budget \in Budget /\ clock \in Int /\ location \in Urls
  /\ tab \in [stored : Session \cup {NoSession}, ids : [session : Nat, page : Nat],
              failed : BOOLEAN]
  /\ client \in Client \cup {NoClient} /\ clients \in Nat
  /\ transports \subseteq Wrapping
  /\ bridge \in Bridges /\ history \in Patched
  /\ request \in [Requests -> Sent]
  /\ entries \in [tasks : Nat, resources : Nat, captured : Nat]

\* The current session and those of the contexts were announced, and the
\* contexts are those of the pages shown last.
Lives ==
  /\ IsCurrent(client.life) /\ Recent(client.life.contexts, tab.ids.page)
  /\ client.life.session.id \in announced /\ SessionsOf(client.life.contexts) \subseteq announced
LifeOK ==
  Alive => /\ client.life.started <=> "lifecycle" \in client.features
           /\ client.life.started => Lives
           /\ ~client.life.started => client.life = NewLife

TabOK ==
  /\ announced \subseteq Sessions
  /\ tab.stored # NoSession => tab.stored.id \in announced

\* The last activity is the current session's.  What is stored of its session
\* is no newer; if writing works, it is of that session, and older by less
\* than a persist interval.
ActivityIsCurrent ==
  Alive /\ client.life.started =>
    active = [session |-> client.life.session.id, at |-> client.life.session.last]
StoredIsOlder ==
  active # NoSession /\ tab.stored # NoSession /\ tab.stored.id = active.session =>
    tab.stored.last <= active.at
StoredIsRecent ==
  budget.failures = 0 /\ active # NoSession =>
    /\ tab.stored # NoSession /\ tab.stored.id = active.session
    /\ active.at - tab.stored.last < PersistInterval
    /\ Alive /\ client.life.started => client.life.persistedAt = tab.stored.last
ActiveOK ==
  /\ active # NoSession => active \in Activity /\ active.session <= tab.ids.session
  /\ ActivityIsCurrent /\ StoredIsOlder /\ StoredIsRecent

\* A function is wrapped for the current client, if it is for any; and one at
\* most, unless another library has wrapped it.
WantedOf(b) == UNION {s.captures : s \in b.subscribers}
BridgeOK(b) ==
  /\ PatchOK(b.fetch) /\ PatchOK(b.xhr)
  /\ b.fetch.own # NotInstalled => "fetch" \in WantedOf(b)
  /\ b.xhr.own # NotInstalled => "xhr" \in WantedOf(b)
  /\ b.observing => "resource" \in WantedOf(b)
PatchesOK ==
  /\ BridgeOK(bridge) /\ PatchOK(history)
  /\ history.own # NotInstalled => Alive /\ client.life.started
  /\ \A s \in bridge.subscribers : Alive /\ s.client = client.number
  /\ ~Covers(bridge.fetch) =>
       (\A f \in transports : Len(f) <= 1) /\ (Alive => Len(client.transport) <= 1)

\* A request that has been sent has events for the answers observed; one
\* answer is pending unless another library has wrapped fetch.
AnsweredOnce(r, covered) ==
  /\ r.via = "none" => r.events = 0
  /\ r.via = "xhr" => r.events <= 1 /\ (r.phase # "done" => r.events = 0)
  /\ r.via = "fetch" /\ ~covered => r.events + r.pending <= 1
RequestsOK == \A r \in Requests : AnsweredOnce(request[r], Covers(bridge.fetch))

EntriesOK == entries.captured <= bridge.seen

CaptureInv ==
  /\ CaptureTypes /\ LifeOK /\ TabOK /\ ActiveOK
  /\ PatchesOK /\ RequestsOK /\ EntriesOK /\ ObservationKeepsItsRoute

-----------------------------------------------------------------------------
(* The bridge.                                                             *)

\* A bridge after a step that changes its subscribers.
Bridged(before, after, subscribers) ==
  /\ after \in Bridges /\ BridgeOK(after)
  /\ after.subscribers = subscribers /\ after.seen = before.seen
  /\ (Covers(after.fetch) <=> Covers(before.fetch)) /\ (Covers(after.xhr) <=> Covers(before.xhr))

\* #syncInstrumentation installs what a subscriber wants and stops the rest.
LEMMA SyncedIsBridged ==
  ASSUME NEW before \in Bridges, PatchOK(before.fetch), PatchOK(before.xhr), NEW n \in Nat,
         NEW subscribers \in SUBSET Subscribers
  PROVE  Bridged(before, Synced([before EXCEPT !.subscribers = subscribers], n), subscribers)
<1>1. PICK b : b = [before EXCEPT !.subscribers = subscribers]
  OBVIOUS
<1>2. /\ b \in Bridges /\ b.subscribers = subscribers /\ b.fetch = before.fetch
      /\ b.xhr = before.xhr /\ b.observing = before.observing /\ b.cursor = before.cursor
      /\ b.seen = before.seen
  BY <1>1 DEF Bridges
<1>3. PICK wanted : wanted = WantedOf(b)
  OBVIOUS
<1>4. PICK fetch : fetch = IF "fetch" \in wanted THEN Installed(b.fetch, n) ELSE Restored(b.fetch)
  OBVIOUS
<1>5. PICK xhr : xhr = IF "xhr" \in wanted THEN Installed(b.xhr, n) ELSE Restored(b.xhr)
  OBVIOUS
<1>6. b.fetch \in Patched /\ b.xhr \in Patched /\ PatchOK(b.fetch) /\ PatchOK(b.xhr)
  BY <1>2 DEF Bridges
<1>7. Patches(before.fetch, fetch) /\ (fetch.own # NotInstalled => "fetch" \in wanted)
  BY <1>2, <1>4, <1>6, InstalledIsPatched, RestoredIsPatched
<1>8. Patches(before.xhr, xhr) /\ (xhr.own # NotInstalled => "xhr" \in wanted)
  BY <1>2, <1>5, <1>6, InstalledIsPatched, RestoredIsPatched
<1>9. PICK cursor \in Nat : cursor = IF b.observing THEN b.cursor ELSE 0
  BY <1>2 DEF Bridges
<1>10. PICK observing \in BOOLEAN : observing = ("resource" \in wanted)
  <2>1. ("resource" \in wanted) \in BOOLEAN
    OBVIOUS
  <2> QED BY <2>1, Zenon
<1>11. PICK after : after = [b EXCEPT !.fetch = fetch, !.xhr = xhr, !.cursor = cursor,
                                      !.observing = observing]
  OBVIOUS
<1>12. /\ after.subscribers = subscribers /\ after.fetch = fetch /\ after.xhr = xhr
       /\ after.seen = before.seen /\ after.observing = observing
       /\ after \in Bridges
  BY <1>2, <1>7, <1>8, <1>11 DEF Bridges, Patches
<1>13. after = Synced(b, n)
  BY <1>2, <1>3, <1>4, <1>5, <1>9, <1>10, <1>11 DEF Synced, WantedOf, Bridges
<1>14. WantedOf(after) = wanted
  BY <1>2, <1>3, <1>12 DEF WantedOf
<1>15. BridgeOK(after)
  BY <1>7, <1>8, <1>10, <1>12, <1>14 DEF BridgeOK, Patches
<1>16. Bridged(before, after, subscribers)
  BY <1>7, <1>8, <1>12, <1>15 DEF Bridged, Patches
<1> QED BY <1>1, <1>13, <1>16

\* What is left when the client is destroyed.
LEMMA DestroyedIsLeft ==
  ASSUME CaptureTypes, PatchesOK
  PROVE  /\ Bridged(bridge, Destroyed.bridge, {})
         /\ Patches(history, Destroyed.history) /\ Destroyed.history.own = NotInstalled
         /\ Destroyed.transports \subseteq Wrapping
         /\ ~Covers(bridge.fetch) => \A f \in Destroyed.transports : Len(f) <= 1
<1>1. /\ bridge \in Bridges /\ history \in Patched /\ transports \subseteq Wrapping
      /\ BridgeOK(bridge) /\ PatchOK(bridge.fetch) /\ PatchOK(bridge.xhr) /\ PatchOK(history)
  BY DEF CaptureTypes, PatchesOK, BridgeOK
<1>2. Patches(history, history)
  BY <1>1 DEF Patches
<1>3. CASE Alive
  <2>1. client \in Client /\ client.number \in Nat /\ client.transport \in Wrapping
    BY <1>3 DEF CaptureTypes, Alive, Client, Wrapping
  <2>2. {s \in bridge.subscribers : s.client # client.number} = {}
    BY DEF PatchesOK
  <2>3. {} \in SUBSET Subscribers
    OBVIOUS
  <2>4. Unsubscribed(bridge, client.number) = Synced([bridge EXCEPT !.subscribers = {}], client.number)
    <3>1. [bridge EXCEPT !.subscribers = {s \in @ : s.client # client.number}]
            = [bridge EXCEPT !.subscribers = {}]
      BY <1>1, <2>2 DEF Bridges
    <3> QED BY <3>1 DEF Unsubscribed
  <2>5. Bridged(bridge, Destroyed.bridge, {})
    BY <1>1, <1>3, <2>1, <2>3, <2>4, SyncedIsBridged DEF Destroyed
  <2>6. Patches(history, Destroyed.history) /\ Destroyed.history.own = NotInstalled
    BY <1>1, <1>2, <1>3, RestoredIsPatched DEF Destroyed, PatchesOK
  <2> QED BY <1>1, <1>3, <2>1, <2>5, <2>6 DEF Destroyed, PatchesOK
<1>4. CASE ~Alive
  <2>1. bridge.subscribers = {} /\ history.own = NotInstalled
    BY <1>1, <1>4 DEF PatchesOK
  <2>2. Bridged(bridge, bridge, {})
    BY <1>1, <2>1 DEF Bridged
  <2>3. Destroyed = [bridge |-> bridge, history |-> history, transports |-> transports]
    BY <1>4 DEF Destroyed
  <2> QED BY <1>1, <1>2, <2>1, <2>2, <2>3 DEF PatchesOK
<1> QED BY <1>3, <1>4

\* Without subscribers nothing is installed.
LEMMA NothingIsWanted ==
  ASSUME NEW b, BridgeOK(b), b.subscribers = {}
  PROVE  b.fetch.own = NotInstalled /\ b.xhr.own = NotInstalled /\ ~b.observing
<1>1. WantedOf(b) = {}
  BY DEF WantedOf
<1> QED BY <1>1 DEF BridgeOK

\* The functions of a new document.
LEMMA NativeIsPatched == Native \in Patched /\ PatchOK(Native) /\ ~Covers(Native)
<1>1. <<>> \in Wrapping /\ DOMAIN <<>> = {} /\ Len(<<>>) = 0
  BY DEF Wrapping
<1>2. Native.top = <<>> /\ Native.own = <<>>
  BY DEF Native, NotInstalled
<1>3. Native \in Patched
  BY <1>1 DEF Native, NotInstalled, Patched
<1>4. ~Covers(Native)
  BY <1>1, <1>2, Zenon DEF Covers
<1> QED BY <1>1, <1>2, <1>3, <1>4 DEF PatchOK

\* The bridge of a new document.
LEMMA NewIsBridged ==
  NewBridge \in Bridges /\ BridgeOK(NewBridge) /\ NewBridge.subscribers = {}
<1>1. /\ NewBridge.subscribers = {} /\ NewBridge.fetch = Native /\ NewBridge.xhr = Native
      /\ NewBridge.observing = FALSE
  BY DEF NewBridge
<1>2. NewBridge \in Bridges
  BY NativeIsPatched DEF NewBridge, Bridges
<1>3. Native.own = NotInstalled
  BY DEF Native
<1>4. BridgeOK(NewBridge)
  BY <1>1, <1>3, NativeIsPatched DEF BridgeOK
<1> QED BY <1>1, <1>2, <1>4

-----------------------------------------------------------------------------
(* The lifecycle.                                                          *)

\* What a call knows of the tab.
CallOK(base, call) ==
  /\ call \in Calls /\ call.stored = tab.stored /\ call.ids = tab.ids
  /\ SessionsOf(call.life.contexts) \subseteq announced
  /\ base \in Session => base.id \in announced
  /\ base \in Session /\ tab.stored # NoSession /\ tab.stored.id = base.id =>
       tab.stored.last <= base.last
  /\ budget.failures = 0 /\ base \in Session /\ base = call.life.session =>
       /\ tab.stored # NoSession /\ tab.stored.id = base.id
       /\ call.life.persistedAt = tab.stored.last

\* What it leaves, when final is all that it has captured.
Leaves(final) ==
  /\ tab' \in [stored : Session \cup {NoSession}, ids : [session : Nat, page : Nat],
               failed : BOOLEAN]
  /\ TabOK'
  /\ IsCurrent(final.life) /\ Recent(final.life.contexts, tab'.ids.page)
  /\ final.life.started /\ final.life.session.id \in announced'
  /\ SessionsOf(final.life.contexts) \subseteq announced'
  /\ active' = [session |-> final.life.session.id, at |-> final.life.session.last]
  /\ active' \in Activity /\ active'.session <= tab'.ids.session
  /\ StoredIsOlder'
  /\ budget.failures = 0 =>
       /\ tab'.stored # NoSession /\ tab'.stored.id = active'.session
       /\ active'.at - tab'.stored.last < PersistInterval
       /\ final.life.persistedAt = tab'.stored.last

\* More that is captured, of no other session.
Completes(next, final) ==
  /\ final \in Calls /\ final.life = next.life /\ final.ids = next.ids /\ final.stored = next.stored
  /\ Announcements(final.events) = Announcements(next.events)

\* A call of a lifecycle leaves storage, session and activity in agreement.
LEMMA LifeIsLeft ==
  ASSUME CaptureTypes, TabOK, NEW base, NEW call, CallOK(base, call),
         NEW works \in BOOLEAN, budget.failures = 0 => works,
         NEW next, LivesOn(base, call, next, clock, works),
         NEW final, Completes(next, final), Became(final)
  PROVE  Leaves(final)
<1>1. /\ next \in Calls /\ next.life.started /\ IsCurrent(next.life)
      /\ Recent(next.life.contexts, next.ids.page)
      /\ SessionsOf(next.life.contexts) \subseteq SessionsOf(call.life.contexts) \cup {next.life.session.id}
      /\ Goes(base, call, next, clock) /\ Stores(base, call, next, clock, works)
      /\ Announces(next, ~Lasts(base, clock))
  BY DEF LivesOn
<1>2. PICK n : n = next.life.session.id
  OBVIOUS
<1>3. /\ clock \in Int /\ tab.ids.session \in Nat /\ tab.stored \in Session \cup {NoSession}
      /\ next.ids.session \in Nat /\ next.stored \in Session \cup {NoSession}
      /\ PersistInterval \in Nat \ {0}
  BY <1>1, PageSessionAssumption DEF CaptureTypes, Calls
<1>4. /\ next.life.session \in Session /\ n \in Nat /\ next.life.session.last = clock
  BY <1>1, <1>2 DEF Goes, Session
<1>5. /\ final \in Calls /\ final.life = next.life /\ final.ids = next.ids
      /\ final.stored = next.stored
      /\ Announcements(final.events) = Announcements(next.events)
  BY DEF Completes
<1>6. tab' = [stored |-> final.stored, ids |-> final.ids, failed |-> final.failed]
  BY DEF Became
<1>7. /\ tab' \in [stored : Session \cup {NoSession}, ids : [session : Nat, page : Nat],
                   failed : BOOLEAN]
      /\ tab'.stored = next.stored /\ tab'.ids = next.ids
  BY <1>5, <1>6 DEF Calls
<1>8. active' = [session |-> n, at |-> clock]
  BY <1>1, <1>2, <1>5 DEF Became
<1>9. active' \in Activity /\ active'.session = n /\ active'.at = clock
  BY <1>3, <1>4, <1>8 DEF Activity
<1>10. PICK told : told = Announcements(next.events)
  OBVIOUS
<1>11. announced' = announced \cup told
  BY <1>5, <1>10 DEF Became, Emit
<1>12. told \subseteq {n} /\ (~Lasts(base, clock) => n \in told)
  <2>1. told = {e.session : e \in {e \in ToSet(next.events) : e.name = "session_start"}}
    BY <1>10 DEF Announcements
  <2>2. \A e \in ToSet(next.events) : e.session = n
    BY <1>1, <1>2 DEF Announces, ToSet
  <2>3. ~Lasts(base, clock) => \E e \in ToSet(next.events) : e.name = "session_start"
    <3>1. next.events # <<>> => 1 \in DOMAIN next.events
      BY <1>1 DEF Calls
    <3> QED BY <1>1, <3>1 DEF Announces, ToSet
  <2> QED BY <2>1, <2>2, <2>3
<1>13. announced \subseteq 0..tab.ids.session
  BY DEF TabOK, Sessions
<1>14. /\ Lasts(base, clock) => base \in Session /\ n = base.id /\ next.ids.session = tab.ids.session
                                /\ base.last <= clock
       /\ ~Lasts(base, clock) => n = tab.ids.session + 1 /\ next.ids.session = n
  BY <1>1, <1>2, <1>3 DEF Goes, CallOK, Lasts, Expired, Session
<1>15. n \in announced' /\ n <= next.ids.session /\ tab.ids.session <= next.ids.session
  <2>1. CASE Lasts(base, clock)
    <3>1. n \in announced
      BY <1>14, <2>1 DEF CallOK
    <3> QED BY <1>3, <1>11, <1>13, <1>14, <2>1, <3>1
  <2>2. CASE ~Lasts(base, clock)
    BY <1>3, <1>11, <1>12, <1>14, <2>2
  <2> QED BY <2>1, <2>2
<1>16. \/ next.stored = next.life.session /\ next.life.persistedAt = clock
       \/ /\ next.stored = tab.stored
          /\ \/ ~works
             \/ /\ Lasts(base, clock) /\ base = call.life.session
                /\ next.life.persistedAt = call.life.persistedAt
                /\ clock - call.life.persistedAt < PersistInterval
  BY <1>1 DEF Stores, CallOK
<1>17. TabOK'
  <2>1. announced' \subseteq 0..tab'.ids.session
    BY <1>3, <1>4, <1>7, <1>11, <1>12, <1>13, <1>15
  <2>2. tab'.stored # NoSession => tab'.stored.id \in announced'
    BY <1>2, <1>7, <1>11, <1>15, <1>16 DEF TabOK
  <2> QED BY <2>1, <2>2 DEF TabOK, Sessions
<1>18. SessionsOf(final.life.contexts) \subseteq announced'
  BY <1>1, <1>2, <1>5, <1>11, <1>15 DEF CallOK
<1>19. StoredIsOlder'
  <2> SUFFICES ASSUME tab'.stored # NoSession, tab'.stored.id = n PROVE tab'.stored.last <= clock
    BY <1>9 DEF StoredIsOlder
  <2>1. CASE next.stored = next.life.session
    BY <1>3, <1>4, <1>7, <2>1
  <2>2. CASE next.stored = tab.stored
    <3>1. tab.stored \in Session /\ tab.stored.id = n /\ tab.stored.id \in announced
      BY <1>3, <1>7, <2>2 DEF TabOK
    <3>2. n <= tab.ids.session
      BY <1>3, <1>4, <1>13, <3>1
    <3>3. Lasts(base, clock)
      BY <1>3, <1>14, <3>2
    <3>4. tab.stored.last <= base.last /\ base.last <= clock /\ base \in Session
      BY <1>14, <3>1, <3>3, <1>7, <2>2 DEF CallOK
    <3> QED BY <1>3, <1>7, <2>2, <3>1, <3>4 DEF Session
  <2> QED BY <1>16, <2>1, <2>2
<1>20. ASSUME budget.failures = 0
       PROVE  /\ tab'.stored # NoSession /\ tab'.stored.id = active'.session
              /\ active'.at - tab'.stored.last < PersistInterval
              /\ final.life.persistedAt = tab'.stored.last
  <2>1. CASE next.stored = next.life.session /\ next.life.persistedAt = clock
    <3>1. next.life.session # NoSession
      BY <1>4, PageSessionAssumption
    <3>2. clock - clock < PersistInterval
      BY <1>3
    <3> QED BY <1>2, <1>4, <1>5, <1>7, <1>9, <2>1, <3>1, <3>2
  <2>2. CASE /\ next.stored = tab.stored /\ Lasts(base, clock) /\ base = call.life.session
             /\ next.life.persistedAt = call.life.persistedAt
             /\ clock - call.life.persistedAt < PersistInterval
    <3>1. /\ tab.stored # NoSession /\ tab.stored.id = n
          /\ call.life.persistedAt = tab.stored.last
      BY <1>14, <1>20, <2>2 DEF CallOK
    <3> QED BY <1>5, <1>7, <1>9, <2>2, <3>1
  <2> QED BY <1>16, <1>20, <2>1, <2>2
<1> QED BY <1>1, <1>2, <1>4, <1>5, <1>7, <1>8, <1>9, <1>15, <1>17, <1>18, <1>19, <1>20 DEF Leaves

\* The call of a client that is alive.
LEMMA ClientCalls ==
  ASSUME CaptureTypes, LifeOK, TabOK, ActiveOK, Alive, client.life.started
  PROVE  /\ Living(Call(client.life)) /\ CallOK(client.life.session, Call(client.life))
         /\ Call(client.life).life = client.life
<1>1. PICK call : call = Call(client.life)
  OBVIOUS
<1>2. call = [life |-> client.life, stored |-> tab.stored, ids |-> tab.ids, events |-> <<>>,
              failed |-> tab.failed]
  BY <1>1 DEF Call
<1>3. /\ client \in Client /\ client.life \in Life
      /\ tab \in [stored : Session \cup {NoSession}, ids : [session : Nat, page : Nat],
                  failed : BOOLEAN]
  BY DEF CaptureTypes, Alive, Client
<1>4. call \in Calls /\ call.life = client.life /\ call.stored = tab.stored /\ call.ids = tab.ids
      /\ call.events = <<>>
  BY <1>2, <1>3 DEF Calls
<1>5. Lives
  BY DEF LifeOK
<1>6. Living(call)
  BY <1>4, <1>5 DEF Living, Lives
<1>7. client.life.session \in Session
  BY <1>5 DEF Lives, IsCurrent
<1>8. /\ active = [session |-> client.life.session.id, at |-> client.life.session.last]
      /\ active \in Activity
  BY <1>7 DEF ActiveOK, ActivityIsCurrent, Activity, Session
<1>9. /\ active # NoSession /\ active.session = client.life.session.id
      /\ active.at = client.life.session.last
  BY <1>8, BrowserCaptureAssumption
<1>10. /\ tab.stored # NoSession /\ tab.stored.id = client.life.session.id =>
            tab.stored.last <= client.life.session.last
       /\ budget.failures = 0 =>
            /\ tab.stored # NoSession /\ tab.stored.id = client.life.session.id
            /\ client.life.persistedAt = tab.stored.last
  BY <1>9 DEF ActiveOK, StoredIsOlder, StoredIsRecent
<1>11. CallOK(client.life.session, call)
  BY <1>4, <1>5, <1>10 DEF CallOK, Lives
<1> QED BY <1>1, <1>4, <1>6, <1>11

\* The call of a lifecycle that starts.
LEMMA StartCalls ==
  ASSUME CaptureTypes, TabOK, NEW reads \in BOOLEAN
  PROVE  /\ Call(NewLife) \in Calls /\ Call(NewLife).life = NewLife /\ Call(NewLife).events = <<>>
         /\ Call(NewLife).stored = tab.stored
         /\ CallOK(Found(Call(NewLife), reads), Call(NewLife))
<1>1. PICK call : call = Call(NewLife)
  OBVIOUS
<1>2. call = [life |-> NewLife, stored |-> tab.stored, ids |-> tab.ids, events |-> <<>>,
              failed |-> tab.failed]
  BY <1>1 DEF Call
<1>3. NewLife \in Life /\ NewLife.contexts = <<>> /\ NewLife.session = NoSession
  BY DEF NewLife, Life
<1>4. /\ tab \in [stored : Session \cup {NoSession}, ids : [session : Nat, page : Nat],
                  failed : BOOLEAN]
  BY DEF CaptureTypes
<1>5. call \in Calls /\ call.life = NewLife /\ call.stored = tab.stored /\ call.ids = tab.ids
      /\ call.events = <<>>
  BY <1>2, <1>3, <1>4 DEF Calls
<1>6. SessionsOf(NewLife.contexts) = {}
  <2>1. DOMAIN <<>> = {}
    OBVIOUS
  <2> QED BY <1>3, <2>1, Zenon DEF SessionsOf
<1>7. PICK base : base = Found(call, reads)
  OBVIOUS
<1>8. base = tab.stored \/ base = NoSession
  BY <1>5, <1>7 DEF Found
<1>9. NoSession \notin Session
  BY PageSessionAssumption
<1>10. base \in Session => base = tab.stored /\ base # NoSession
  BY <1>8, <1>9
<1>11. base \in Session => base.id \in announced /\ base.last <= base.last
  BY <1>10 DEF TabOK, Session
<1>12. CallOK(base, call)
  BY <1>3, <1>5, <1>6, <1>9, <1>10, <1>11 DEF CallOK
<1> QED BY <1>1, <1>5, <1>7, <1>12

-----------------------------------------------------------------------------
(* What a step captures.                                                   *)

Watched == Captures \cup {"web_vital", "navigation", "long_task"}

\* At most one observation, of its own route and of a session that was
\* announced.
Observes(captured) ==
  \/ captured = <<>>
  \/ \E o : /\ captured = <<o>> /\ o.name \in Watched
            /\ o.session \in announced \cup {NoSession}
            /\ o.url # NoPage => o.url = o.route

\* An observation has the context of its own route, which was announced.
LEMMA ObservationsAreKept ==
  ASSUME LifeOK, Alive, NEW name \in Watched, NEW route
  PROVE  Observes(Observations(name, route))
<1>1. CASE "lifecycle" \in client.features /\ Known(client.life, route) = {}
  BY <1>1 DEF Observations, Observes
<1>2. CASE "lifecycle" \in client.features /\ Known(client.life, route) # {}
  <2>1. PICK context : context = ContextFor(client.life, route)
    OBVIOUS
  <2>2. \E i \in DOMAIN client.life.contexts :
          client.life.contexts[i].url = route /\ context = client.life.contexts[i]
    <3>1. (CHOOSE i \in Known(client.life, route) : TRUE) \in Known(client.life, route)
      BY <1>2
    <3> QED BY <2>1, <3>1, Zenon DEF ContextFor, Known
  <2>3. SessionsOf(client.life.contexts) \subseteq announced
    BY <1>2 DEF LifeOK, Lives
  <2>4. context.url = route /\ context.session \in announced
    BY <2>2, <2>3 DEF SessionsOf
  <2>5. PICK o : o = [name |-> name, session |-> context.session, url |-> context.url,
                      page |-> context.page, route |-> route]
    OBVIOUS
  <2>6. Observations(name, route) = <<o>>
    BY <1>2, <2>1, <2>5 DEF Observations, Observation
  <2> QED BY <2>4, <2>5, <2>6 DEF Observes
<1>3. CASE "lifecycle" \notin client.features
  <2>1. client.life.session = NoSession /\ client.life.page = NoPage
    BY <1>3 DEF LifeOK, NewLife
  <2>2. PICK o : o = [name |-> name, session |-> NoSession, url |-> NoPage, page |-> NoPage,
                      route |-> route]
    OBVIOUS
  <2>3. Observation(name, client.life, route) = o
    BY <1>3, <2>1, <2>2 DEF Observation, Event
  <2>4. Observations(name, route) = <<o>>
    BY <1>3, <2>3 DEF Observations
  <2> QED BY <2>2, <2>4 DEF Observes
<1> QED BY <1>1, <1>2, <1>3

\* Such a step announces nothing.
LEMMA ObservationIsEmitted ==
  ASSUME NEW captured, Observes(captured), Emit(captured)
  PROVE  /\ announced' = announced /\ ObservationKeepsItsRoute' /\ Len(captured) \in {0, 1}
         /\ \A i \in DOMAIN events' : /\ events'[i].name \in Watched
                                      /\ events'[i].session \in announced \cup {NoSession}
<1>1. events' = captured /\ announced' = announced \cup Announcements(captured)
  BY DEF Emit
<1>2. ASSUME NEW i \in DOMAIN captured
      PROVE  /\ captured[i].name \in Watched
             /\ captured[i].session \in announced \cup {NoSession}
             /\ captured[i].url # NoPage => captured[i].url = captured[i].route
  <2>1. captured # <<>>
    BY <1>2
  <2>2. PICK o : /\ captured = <<o>> /\ o.name \in Watched
                 /\ o.session \in announced \cup {NoSession}
                 /\ o.url # NoPage => o.url = o.route
    BY <2>1 DEF Observes
  <2>3. captured[i] = o
    BY <1>2, <2>2
  <2> QED BY <2>2, <2>3
<1>3. "session_start" \notin Watched
  BY DEF Watched, Captures
<1>4. Announcements(captured) = {}
  <2>1. \A e \in ToSet(captured) : e.name \in Watched
    BY <1>2 DEF ToSet
  <2> QED BY <1>3, <2>1, Zenon DEF Announcements
<1>5. Len(captured) \in {0, 1}
  BY DEF Observes
<1>6. ObservationKeepsItsRoute'
  BY <1>1, <1>2 DEF ObservationKeepsItsRoute
<1> QED BY <1>1, <1>2, <1>4, <1>5, <1>6

\* What a step that captures nothing leaves.
LEMMA QuietIsKept ==
  ASSUME Quiet
  PROVE  /\ UNCHANGED <<tab, active, announced>> /\ ObservationKeepsItsRoute' /\ events' = <<>>
<1>1. Emit(<<>>) /\ UNCHANGED <<tab, active>>
  BY DEF Quiet
<1>2. Observes(<<>>)
  BY DEF Observes
<1>3. events' = <<>>
  BY <1>1 DEF Emit
<1> QED BY <1>1, <1>2, <1>3, ObservationIsEmitted

\* One more event, which is no session_start, completes a call.
LEMMA EventCompletes ==
  ASSUME NEW call \in Calls, NEW name \in ActiveNames
  PROVE  /\ Completes(call, Captured(call, name))
         /\ Len(Captured(call, name).events) = Len(call.events) + 1
         /\ \A i \in 1..Len(call.events) : Captured(call, name).events[i] = call.events[i]
         /\ Captured(call, name).events[Len(call.events) + 1] = Event(name, call.life)
<1>1. name \in Names /\ name # "session_start"
  BY DEF ActiveNames, Manual, ObservedErrors, Interactions, Names
<1>2. PICK next \in Calls :
           /\ next = Captured(call, name)
           /\ next.life = call.life /\ next.ids = call.ids /\ next.stored = call.stored
           /\ Len(next.events) = Len(call.events) + 1
           /\ \A i \in 1..Len(call.events) : next.events[i] = call.events[i]
           /\ next.events[Len(call.events) + 1] = Event(name, call.life)
  BY <1>1, EventIsCaptured
<1>3. PICK n \in Nat : n = Len(call.events)
  BY DEF Calls
<1>4. /\ DOMAIN call.events = 1..n /\ DOMAIN next.events = 1..(n + 1)
  BY <1>2, <1>3 DEF Calls
<1>5. next.events[n + 1].name # "session_start"
  <2>1. call.life \in Life
    BY DEF Calls
  <2> QED BY <1>1, <1>2, <1>3, <2>1, EventIsTyped
<1>6. {e \in ToSet(next.events) : e.name = "session_start"}
        = {e \in ToSet(call.events) : e.name = "session_start"}
  <2>1. \A i \in 1..(n + 1) : i \in 1..n \/ i = n + 1
    BY <1>3
  <2>2. \A i \in 1..n : i \in 1..(n + 1)
    BY <1>3
  <2>3. \A e : e \in ToSet(next.events) <=> \E i \in 1..(n + 1) : e = next.events[i]
    BY <1>4 DEF ToSet
  <2>4. \A e : e \in ToSet(call.events) <=> \E i \in 1..n : e = call.events[i]
    BY <1>4 DEF ToSet
  <2>5. \A i \in 1..n : next.events[i] = call.events[i]
    BY <1>2, <1>3
  <2>6. ASSUME NEW e, e.name = "session_start"
        PROVE  e \in ToSet(next.events) <=> e \in ToSet(call.events)
    <3>1. ASSUME e \in ToSet(next.events) PROVE e \in ToSet(call.events)
      <4>1. PICK i \in 1..(n + 1) : e = next.events[i]
        BY <2>3, <3>1
      <4>2. i # n + 1
        BY <1>5, <2>6, <4>1
      <4> QED BY <2>1, <2>4, <2>5, <4>1, <4>2
    <3>2. ASSUME e \in ToSet(call.events) PROVE e \in ToSet(next.events)
      BY <2>2, <2>3, <2>4, <2>5, <3>2
    <3> QED BY <3>1, <3>2
  <2> QED BY <2>6, Zenon
<1>7. Completes(call, next)
  BY <1>2, <1>6, Zenon DEF Completes, Announcements
<1> QED BY <1>2, <1>7

-----------------------------------------------------------------------------
(* Steps of the lifecycle.                                                 *)

LifeKept ==
  /\ LifeOK' /\ TabOK' /\ ActiveOK'
  /\ tab' \in [stored : Session \cup {NoSession}, ids : [session : Nat, page : Nat],
               failed : BOOLEAN]

\* The client is the same but for its lifecycle.
SameClient ==
  /\ client' \in Client /\ client'.number = client.number /\ client'.features = client.features
  /\ client'.transport = client.transport /\ client'.life.started = client.life.started

\* sessionStorage throws only in a behaviour that has failures.
LEMMA WritingWorks ==
  ASSUME CaptureTypes, NEW works \in Works
  PROVE  works \in BOOLEAN /\ (budget.failures = 0 => works)
<1>1. budget.failures = 0 => ~(budget.failures > 0)
  BY DEF CaptureTypes, Budget
<1>2. Works \subseteq BOOLEAN
  BY Zenon DEF Works
<1>3. budget.failures = 0 => Works = {TRUE}
  BY <1>1, Zenon DEF Works
<1>4. budget.failures = 0 => works = TRUE
  BY <1>3
<1> QED BY <1>2, <1>4

\* A call of the current client's lifecycle.
LEMMA LivedIsKept ==
  ASSUME CaptureInv, Alive, client.life.started, NEW works \in Works, NEW next,
         LivesOn(client.life.session, Call(client.life), next, clock, works),
         NEW final, Completes(next, final), Lived(final), budget'.failures = budget.failures
  PROVE  LifeKept /\ SameClient
<1>1. CaptureTypes /\ LifeOK /\ TabOK /\ ActiveOK
  BY DEF CaptureInv
<1>2. works \in BOOLEAN /\ (budget.failures = 0 => works)
  BY <1>1, WritingWorks
<1>3. Became(final) /\ client' = [client EXCEPT !.life = final.life]
  BY DEF Lived
<1>4. CallOK(client.life.session, Call(client.life))
  BY <1>1, ClientCalls
<1>5. Leaves(final)
  BY <1>1, <1>2, <1>3, <1>4, LifeIsLeft
<1>6. final.life \in Life
  BY DEF Completes, Calls
<1>7. client \in Client
  BY <1>1 DEF CaptureTypes, Alive
<1>8. /\ client' \in Client /\ client'.number = client.number
      /\ client'.features = client.features /\ client'.transport = client.transport
      /\ client'.life = final.life
  BY <1>3, <1>6, <1>7 DEF Client
<1>9. client' # NoClient /\ client'.life.started
  BY <1>5, <1>8, BrowserCaptureAssumption DEF Leaves
<1>10. LifeOK'
  BY <1>1, <1>5, <1>8, <1>9 DEF LifeOK, Leaves, Lives
<1>11. ActiveOK'
  BY <1>5, <1>8 DEF ActiveOK, ActivityIsCurrent, StoredIsRecent, Leaves
<1> QED BY <1>5, <1>8, <1>9, <1>10, <1>11 DEF Leaves, LifeKept, SameClient

\* Steps that leave the lifecycle and the tab alone.
LEMMA LifeIsKept ==
  ASSUME CaptureInv, UNCHANGED <<tab, active, announced>>, budget'.failures = budget.failures,
         \/ client' = NoClient
         \/ Alive /\ client' \in Client /\ client'.life = client.life
            /\ client'.features = client.features
  PROVE  LifeKept
<1>1. CaptureTypes /\ LifeOK /\ TabOK /\ ActiveOK
  BY DEF CaptureInv
<1>2. LifeOK'
  BY <1>1 DEF LifeOK, Lives, Alive
<1>3. TabOK'
  BY <1>1 DEF TabOK, Sessions
<1>4. ActiveOK'
  BY <1>1 DEF ActiveOK, ActivityIsCurrent, StoredIsOlder, StoredIsRecent, Alive
<1> QED BY <1>1, <1>2, <1>3, <1>4 DEF CaptureTypes, LifeKept

\* All events of a call are of no observation.
LEMMA CallKeepsRoutes ==
  ASSUME NEW final, \A i \in DOMAIN final.events : final.events[i].route = NoPage,
         events' = final.events
  PROVE  ObservationKeepsItsRoute'
BY DEF ObservationKeepsItsRoute

LEMMA TouchKeeps ==
  ASSUME CaptureInv, Touch
  PROVE  LifeKept /\ SameClient /\ ObservationKeepsItsRoute'
<1>1. Alive /\ client.life.started /\ budget' = budget
  BY DEF Touch
<1>2. PICK works \in Works : Lived(Touched(Call(client.life), clock, location, works))
  BY DEF Touch
<1>3. PICK next : next = Touched(Call(client.life), clock, location, works)
  OBVIOUS
<1>4. /\ CaptureTypes /\ LifeOK /\ TabOK /\ ActiveOK
      /\ clock \in Int /\ location \in Urls /\ works \in BOOLEAN
  BY WritingWorks DEF CaptureInv, CaptureTypes
<1>5. Living(Call(client.life)) /\ Call(client.life).life = client.life
  BY <1>1, <1>4, ClientCalls
<1>6. LivesOn(client.life.session, Call(client.life), next, clock, works)
  BY <1>3, <1>4, <1>5, TouchLivesOn
<1>7. Completes(next, next) /\ \A i \in DOMAIN next.events : next.events[i].route = NoPage
  BY <1>6 DEF LivesOn, Completes, Announces
<1>8. Lived(next) /\ events' = next.events
  BY <1>2, <1>3 DEF Lived, Became, Emit
<1> QED BY <1>1, <1>6, <1>7, <1>8, LivedIsKept, CallKeepsRoutes

\* Capture without a lifecycle changes nothing but the events.
LEMMA BareCapture ==
  ASSUME CaptureInv, Alive, ~client.life.started, NEW name \in ActiveNames, NEW works,
         NEW final, final = Captured(Touched(Call(client.life), clock, location, works), name),
         Lived(final)
  PROVE  /\ UNCHANGED <<client, tab, active, announced>>
         /\ events' = <<Event(name, client.life)>> /\ Event(name, client.life).session = NoSession
         /\ Event(name, client.life).route = NoPage /\ Event(name, client.life).name = name
<1>1. CaptureTypes /\ client \in Client /\ client.life \in Life /\ client.life = NewLife
  BY DEF CaptureInv, CaptureTypes, LifeOK, Alive, Client
<1>2. PICK call : call = Call(client.life)
  OBVIOUS
<1>3. call = [life |-> client.life, stored |-> tab.stored, ids |-> tab.ids, events |-> <<>>,
              failed |-> tab.failed]
  BY <1>2 DEF Call
<1>4. call \in Calls /\ call.life = client.life /\ call.events = <<>>
  BY <1>1, <1>3 DEF Calls, CaptureTypes
<1>5. Touched(call, clock, location, works) = call
  BY <1>4 DEF Touched
<1>6. PICK e : e = Event(name, client.life)
  OBVIOUS
<1>7. final = [call EXCEPT !.events = <<e>>]
  BY <1>2, <1>3, <1>4, <1>5, <1>6 DEF Captured
<1>8. /\ final.life = client.life /\ final.stored = tab.stored /\ final.ids = tab.ids
      /\ final.failed = tab.failed /\ final.events = <<e>>
  BY <1>3, <1>7
<1>9. client' = client
  BY <1>1, <1>8 DEF Lived, Client
<1>10. tab' = tab
  BY <1>1, <1>8 DEF Lived, Became, CaptureTypes
<1>11. active' = active
  BY <1>8 DEF Lived, Became
<1>12. /\ e.session = NoSession /\ e.route = NoPage /\ e.name = name
  BY <1>1, <1>6 DEF Event, NewLife
<1>13. events' = <<e>> /\ announced' = announced \cup Announcements(<<e>>)
  BY <1>8 DEF Lived, Became, Emit
<1>14. name # "session_start"
  BY DEF ActiveNames, Manual, ObservedErrors, Interactions
<1>15. ToSet(<<e>>) = {e}
  BY DEF ToSet
<1>16. Announcements(<<e>>) = {}
  BY <1>12, <1>14, <1>15 DEF Announcements
<1> QED BY <1>6, <1>9, <1>10, <1>11, <1>12, <1>13, <1>16

LEMMA CaptureKeeps ==
  ASSUME CaptureInv, Capture
  PROVE  LifeKept /\ SameClient /\ ObservationKeepsItsRoute'
<1>1. Alive /\ budget' = budget
  BY DEF Capture
<1>2. PICK works \in Works, name \in ActiveNames :
        Lived(Captured(Touched(Call(client.life), clock, location, works), name))
  BY DEF Capture
<1>3. PICK next : next = Touched(Call(client.life), clock, location, works)
  OBVIOUS
<1>4. PICK final : final = Captured(next, name)
  OBVIOUS
<1>5. Lived(final) /\ events' = final.events
  BY <1>2, <1>3, <1>4 DEF Lived, Became, Emit
<1>6. client \in Client
  BY <1>1 DEF CaptureInv, CaptureTypes, Alive
<1>7. CASE client.life.started
  <2>1. /\ CaptureTypes /\ LifeOK /\ TabOK /\ ActiveOK
        /\ clock \in Int /\ location \in Urls /\ works \in BOOLEAN
    BY WritingWorks DEF CaptureInv, CaptureTypes
  <2>2. Living(Call(client.life)) /\ Call(client.life).life = client.life
    BY <1>1, <1>7, <2>1, ClientCalls
  <2>3. LivesOn(client.life.session, Call(client.life), next, clock, works)
    BY <1>3, <2>1, <2>2, TouchLivesOn
  <2>4. /\ next \in Calls /\ next.life \in Life /\ next.events \in Seq(Captureds)
        /\ \A i \in DOMAIN next.events : next.events[i].route = NoPage
    BY <2>3 DEF LivesOn, Announces, Calls
  <2>5. /\ Completes(next, final) /\ Len(final.events) = Len(next.events) + 1
        /\ \A i \in 1..Len(next.events) : final.events[i] = next.events[i]
        /\ final.events[Len(next.events) + 1] = Event(name, next.life)
    BY <1>4, <2>4, EventCompletes
  <2>6. Event(name, next.life).route = NoPage
    BY DEF Event
  <2>7. \A i \in DOMAIN final.events : final.events[i].route = NoPage
    <3>1. PICK n \in Nat : n = Len(next.events)
      BY <2>4
    <3>2. DOMAIN final.events = 1..(n + 1) /\ DOMAIN next.events = 1..n
      BY <2>4, <2>5, <3>1 DEF Completes, Calls
    <3>3. \A i \in 1..(n + 1) : i \in 1..n \/ i = n + 1
      BY <3>1
    <3> QED BY <2>4, <2>5, <2>6, <3>1, <3>2, <3>3
  <2> QED BY <1>1, <1>5, <1>7, <2>3, <2>5, <2>7, LivedIsKept, CallKeepsRoutes
<1>8. CASE ~client.life.started
  <2>1. /\ UNCHANGED <<client, tab, active, announced>>
        /\ events' = <<Event(name, client.life)>> /\ Event(name, client.life).route = NoPage
    BY <1>1, <1>3, <1>4, <1>5, <1>8, BareCapture
  <2>2. LifeKept
    BY <1>1, <1>6, <2>1, LifeIsKept
  <2>3. ObservationKeepsItsRoute'
    BY <2>1 DEF ObservationKeepsItsRoute
  <2> QED BY <1>6, <2>1, <2>2, <2>3 DEF SameClient
<1> QED BY <1>7, <1>8

\* The listener of a navigation: Navigate and HashChange.
LEMMA ListenedKeeps ==
  ASSUME CaptureInv, NEW url \in Urls, NEW works \in Works, Listened(url, works),
         budget'.failures = budget.failures
  PROVE  LifeKept /\ (Alive => SameClient) /\ (~Alive => client' = client)
         /\ ObservationKeepsItsRoute'
<1>1. CASE Alive /\ client.life.started
  <2>1. PICK next : next = Navigated(Call(client.life), clock, url, works)
    OBVIOUS
  <2>2. /\ CaptureTypes /\ LifeOK /\ TabOK /\ ActiveOK
        /\ clock \in Int /\ works \in BOOLEAN
    BY WritingWorks DEF CaptureInv, CaptureTypes
  <2>3. Living(Call(client.life)) /\ Call(client.life).life = client.life
    BY <1>1, <2>2, ClientCalls
  <2>4. LivesOn(client.life.session, Call(client.life), next, clock, works)
    BY <2>1, <2>2, <2>3, NavigationLivesOn
  <2>5. Completes(next, next) /\ \A i \in DOMAIN next.events : next.events[i].route = NoPage
    BY <2>4 DEF LivesOn, Completes, Announces
  <2>6. Lived(next)
    BY <1>1, <2>1 DEF Listened
  <2>7. events' = next.events
    BY <2>6 DEF Lived, Became, Emit
  <2> QED BY <1>1, <2>4, <2>5, <2>6, <2>7, LivedIsKept, CallKeepsRoutes
<1>2. CASE ~(Alive /\ client.life.started)
  <2>1. Quiet /\ client' = client
    BY <1>2 DEF Listened
  <2>2. client \in Client \cup {NoClient}
    BY DEF CaptureInv, CaptureTypes
  <2>3. LifeKept
    BY <2>1, <2>2, QuietIsKept, LifeIsKept DEF Alive
  <2> QED BY <2>1, <2>2, <2>3, QuietIsKept DEF SameClient, Alive
<1> QED BY <1>1, <1>2

-----------------------------------------------------------------------------
(* Clients that come and go.                                               *)

\* What Spend leaves of the budget.
LEMMA BudgetIsSpent ==
  ASSUME budget \in Budget, NEW what, Spend(what),
         what \in {"ticks", "setbacks", "clients", "pages", "covers", "entries", "requests"}
  PROVE  /\ budget' \in Budget /\ budget'.failures = budget.failures
         /\ budget'.features = budget.features
         /\ what # "pages" => budget'.pages = budget.pages
         /\ what = "pages" => budget'.pages # budget.pages
<1>1. budget[what] \in Nat /\ budget[what] > 0 /\ budget' = [budget EXCEPT ![what] = budget[what] - 1]
  BY DEF Spend, Budget
<1>2. budget[what] - 1 \in Nat /\ budget[what] - 1 # budget[what]
  BY <1>1
<1> QED BY <1>1, <1>2 DEF Budget

\* What Begin leaves.
Begun(features) ==
  \/ client' = NoClient /\ bridge' = Destroyed.bridge /\ history' = Destroyed.history
  \/ /\ client' \in Client /\ client'.number = clients + 1 /\ client'.features = features
     /\ client'.life.started <=> "lifecycle" \in features
     /\ client'.transport = Destroyed.bridge.fetch.top
     /\ bridge' = IF features \cap Captures = {} THEN Destroyed.bridge
                  ELSE Subscribed(Destroyed.bridge, clients + 1, features \cap Captures)
     /\ history' = IF "lifecycle" \in features THEN Installed(Destroyed.history, clients + 1)
                   ELSE Destroyed.history

LEMMA BeginKeeps ==
  ASSUME CaptureInv, NEW features \in SUBSET Features,
         NEW fails \in {{}, {"lifecycle"}, {"performance"}}, NEW reads \in Works, NEW works \in Works,
         Begin(features, fails, reads, works), budget'.failures = budget.failures
  PROVE  /\ LifeKept /\ ObservationKeepsItsRoute' /\ Begun(features)
         /\ clients' = clients + 1
         /\ transports' \subseteq Destroyed.transports \cup {Destroyed.bridge.fetch.top}
<1>1. PICK life \in BOOLEAN : life <=> "lifecycle" \in features
  OBVIOUS
<1>2. PICK call : call = Call(NewLife)
  OBVIOUS
<1>3. PICK started : started = IF life THEN Started(call, clock, location, reads, works) ELSE call
  OBVIOUS
<1>4. PICK failed \in BOOLEAN : failed <=> fails \cap features # {}
  OBVIOUS
<1>5. CaptureTypes /\ TabOK /\ clock \in Int /\ location \in Urls /\ clients \in Nat
      /\ Destroyed.bridge.fetch.top \in Seq(Nat \cup {Foreign})
  BY DestroyedIsLeft DEF CaptureInv, CaptureTypes, Bridged, Bridges, Patched, Wrapping
<1>6. /\ works \in BOOLEAN /\ (budget.failures = 0 => works) /\ reads \in BOOLEAN
  BY <1>5, WritingWorks
<1>7. /\ call \in Calls /\ call.life = NewLife /\ call.events = <<>> /\ call.stored = tab.stored
      /\ CallOK(Found(call, reads), call)
  BY <1>2, <1>5, <1>6, StartCalls
<1>8. /\ clients' = clients + 1
      /\ transports' = Destroyed.transports \cup {t \in {Destroyed.bridge.fetch.top} : failed}
      /\ IF "lifecycle" \in fails /\ life THEN Quiet
         ELSE IF life THEN Became(started) ELSE Quiet
      /\ IF failed
         THEN /\ client' = NoClient
              /\ bridge' = Destroyed.bridge
              /\ history' = Destroyed.history
         ELSE /\ client' = [number |-> clients + 1, features |-> features, life |-> started.life,
                            transport |-> Destroyed.bridge.fetch.top,
                            timing |-> "performance" \in features, tasks |-> 0]
              /\ bridge' = IF features \cap Captures = {} THEN Destroyed.bridge
                           ELSE Subscribed(Destroyed.bridge, clients + 1, features \cap Captures)
              /\ history' = IF life THEN Installed(Destroyed.history, clients + 1)
                            ELSE Destroyed.history
  BY <1>1, <1>2, <1>3, <1>4 DEF Begin
<1>9. ASSUME life
      PROVE  LivesOn(Found(call, reads), call, started, clock, works)
  BY <1>3, <1>5, <1>6, <1>7, <1>9, StartLivesOn
<1>10. started.life \in Life /\ (started.life.started <=> life)
  <2>1. CASE life
    BY <1>9, <2>1 DEF LivesOn, Calls
  <2>2. CASE ~life
    BY <1>3, <1>7, <2>2 DEF Calls, NewLife
  <2> QED BY <2>1, <2>2
<1>11. ASSUME ~failed
       PROVE  /\ client' \in Client /\ client' # NoClient /\ client'.life = started.life
              /\ client'.features = features /\ client'.number = clients + 1
              /\ client'.transport = Destroyed.bridge.fetch.top
  <2>1. PICK timing \in BOOLEAN : timing = ("performance" \in features)
    <3>1. ("performance" \in features) \in BOOLEAN
      OBVIOUS
    <3> QED BY <3>1, Zenon
  <2>2. client' = [number |-> clients + 1, features |-> features, life |-> started.life,
                   transport |-> Destroyed.bridge.fetch.top, timing |-> timing, tasks |-> 0]
    BY <1>8, <1>11, <2>1
  <2>3. client' \in Client
    BY <1>5, <1>10, <2>2 DEF Client
  <2> QED BY <2>2, <2>3, BrowserCaptureAssumption
<1>12. Begun(features)
  BY <1>1, <1>8, <1>10, <1>11 DEF Begun
<1>13. CASE life /\ "lifecycle" \notin fails
  <2>1. Became(started) /\ LivesOn(Found(call, reads), call, started, clock, works)
    BY <1>8, <1>9, <1>13
  <2>2. Completes(started, started) /\ \A i \in DOMAIN started.events : started.events[i].route = NoPage
    BY <2>1 DEF LivesOn, Completes, Announces
  <2>3. Leaves(started)
    BY <1>5, <1>6, <1>7, <2>1, <2>2, LifeIsLeft
  <2>4. events' = started.events
    BY <2>1 DEF Became, Emit
  <2>5. client' = NoClient \/ (~failed /\ client'.life = started.life)
    BY <1>8, <1>11
  <2>6. LifeOK'
    BY <1>1, <1>11, <1>13, <2>3, <2>5 DEF LifeOK, Leaves, Lives, Alive
  <2>7. ActiveOK'
    BY <2>3, <2>5 DEF ActiveOK, ActivityIsCurrent, StoredIsRecent, Leaves, Alive
  <2>8. LifeKept
    BY <2>3, <2>6, <2>7 DEF LifeKept, Leaves
  <2> QED BY <1>8, <1>12, <2>2, <2>4, <2>8, CallKeepsRoutes
<1>14. CASE ~(life /\ "lifecycle" \notin fails)
  <2>1. Quiet
    BY <1>8, <1>14
  <2>2. UNCHANGED <<tab, active, announced>> /\ ObservationKeepsItsRoute'
    BY <2>1, QuietIsKept
  <2>3. client' # NoClient => ~life /\ ~failed
    <3>1. life => failed
      BY <1>1, <1>4, <1>14
    <3> QED BY <1>8, <3>1
  <2>4. client' # NoClient => client'.life = NewLife /\ ~client'.life.started
                              /\ client'.features = features
    BY <1>3, <1>7, <1>10, <1>11, <2>3
  <2>5. LifeOK'
    BY <1>1, <2>3, <2>4 DEF LifeOK, Alive
  <2>6. TabOK' /\ ActiveOK'
    BY <2>2, <2>4 DEF CaptureInv, TabOK, Sessions, ActiveOK, ActivityIsCurrent, StoredIsOlder,
                      StoredIsRecent, Alive
  <2>7. LifeKept
    BY <1>5, <2>2, <2>5, <2>6 DEF LifeKept, CaptureTypes
  <2> QED BY <1>8, <1>12, <2>2, <2>7
<1> QED BY <1>13, <1>14

\* The functions that are patched, after a step that keeps what others have
\* wrapped.
PatchesKept ==
  /\ PatchesOK' /\ bridge' \in Bridges /\ history' \in Patched /\ transports' \subseteq Wrapping
CoversKept ==
  /\ (Covers(bridge.fetch))' <=> Covers(bridge.fetch)
  /\ (Covers(bridge.xhr))' <=> Covers(bridge.xhr)
  /\ (Covers(history))' <=> Covers(history)
NothingLeft ==
  \A patched \in {bridge.fetch, bridge.xhr, history} : ~Covers(patched) => patched = Native

\* Without a client nothing is installed.
LEMMA NothingIsInstalled ==
  ASSUME CaptureTypes, PatchesOK, ~Alive
  PROVE  NothingLeft
<1>1. /\ bridge.subscribers = {} /\ BridgeOK(bridge) /\ PatchOK(history)
      /\ history.own = NotInstalled
      /\ bridge.fetch \in Patched /\ bridge.xhr \in Patched /\ history \in Patched
  <2>1. bridge \in Bridges /\ history \in Patched
    BY DEF CaptureTypes
  <2> QED BY <2>1 DEF PatchesOK, Bridges
<1>2. bridge.fetch.own = NotInstalled /\ bridge.xhr.own = NotInstalled
  BY <1>1, NothingIsWanted
<1>3. PatchOK(bridge.fetch) /\ PatchOK(bridge.xhr)
  BY <1>1 DEF BridgeOK
<1> QED BY <1>1, <1>2, <1>3, NothingIsLeft DEF NothingLeft

LEMMA BegunIsPatched ==
  ASSUME CaptureInv, NEW features \in SUBSET Features, Begun(features),
         transports' \subseteq Destroyed.transports \cup {Destroyed.bridge.fetch.top}
  PROVE  PatchesKept /\ CoversKept /\ bridge'.seen = bridge.seen
<1>1. CaptureTypes /\ PatchesOK /\ clients + 1 \in Nat
  BY DEF CaptureInv, CaptureTypes
<1>2. PICK left : left = Destroyed.bridge
  OBVIOUS
<1>3. PICK past : past = Destroyed.history
  OBVIOUS
<1>4. /\ Bridged(bridge, left, {}) /\ Patches(history, past) /\ past.own = NotInstalled
      /\ Destroyed.transports \subseteq Wrapping
      /\ ~Covers(bridge.fetch) => \A f \in Destroyed.transports : Len(f) <= 1
  BY <1>1, <1>2, <1>3, DestroyedIsLeft
<1>5. /\ left \in Bridges /\ BridgeOK(left) /\ left.subscribers = {} /\ left.seen = bridge.seen
      /\ (Covers(left.fetch) <=> Covers(bridge.fetch)) /\ (Covers(left.xhr) <=> Covers(bridge.xhr))
      /\ past \in Patched /\ PatchOK(past) /\ (Covers(past) <=> Covers(history))
      /\ left.fetch \in Patched /\ left.fetch.top \in Wrapping
      /\ PatchOK(left.fetch) /\ PatchOK(left.xhr)
  BY <1>4 DEF Bridged, Patches, Bridges, Patched, BridgeOK
<1>6. transports' \subseteq Wrapping /\ (~Covers(bridge.fetch) => \A f \in transports' : Len(f) <= 1)
  BY <1>2, <1>4, <1>5 DEF PatchOK
<1>7. CASE client' = NoClient /\ bridge' = Destroyed.bridge /\ history' = Destroyed.history
  <2>1. bridge' = left /\ history' = past /\ ~Alive'
    BY <1>2, <1>3, <1>7 DEF Alive
  <2>2. PatchesOK'
    BY <1>4, <1>5, <1>6, <2>1 DEF PatchesOK
  <2>3. CoversKept
    BY <1>5, <2>1 DEF CoversKept, Covers
  <2> QED BY <1>5, <1>6, <2>1, <2>2, <2>3 DEF PatchesKept
<1>8. ASSUME /\ client' \in Client /\ client'.number = clients + 1
             /\ client'.life.started <=> "lifecycle" \in features
             /\ client'.transport = Destroyed.bridge.fetch.top
             /\ bridge' = IF features \cap Captures = {} THEN Destroyed.bridge
                          ELSE Subscribed(Destroyed.bridge, clients + 1, features \cap Captures)
             /\ history' = IF "lifecycle" \in features THEN Installed(Destroyed.history, clients + 1)
                           ELSE Destroyed.history
      PROVE  PatchesKept /\ CoversKept /\ bridge'.seen = bridge.seen
  <2>1. PICK n \in Nat : n = clients + 1
    BY <1>1
  <2>2. PICK subscribers : subscribers = {[client |-> n, captures |-> features \cap Captures]}
    OBVIOUS
  <2>3. subscribers \in SUBSET Subscribers /\ \A s \in subscribers : s.client = n
    BY <2>2 DEF Subscribers
  <2>4. Subscribed(left, n, features \cap Captures)
          = Synced([left EXCEPT !.subscribers = subscribers], n)
    <3>1. [left EXCEPT !.subscribers = @ \cup {[client |-> n, captures |-> features \cap Captures]}]
            = [left EXCEPT !.subscribers = subscribers]
      BY <1>5, <2>2 DEF Bridges
    <3> QED BY <3>1 DEF Subscribed
  <2>5. Bridged(left, Subscribed(left, n, features \cap Captures), subscribers)
    BY <1>5, <2>1, <2>3, <2>4, SyncedIsBridged
  <2>6. Bridged(left, left, {})
    BY <1>5 DEF Bridged
  <2>7. \/ Bridged(left, bridge', subscribers)
        \/ Bridged(left, bridge', {})
    BY <1>2, <1>8, <2>1, <2>5, <2>6
  <2>8. /\ bridge' \in Bridges /\ BridgeOK(bridge') /\ bridge'.seen = left.seen
        /\ (Covers(bridge'.fetch) <=> Covers(left.fetch)) /\ (Covers(bridge'.xhr) <=> Covers(left.xhr))
        /\ \A s \in bridge'.subscribers : s.client = n
    BY <2>3, <2>7 DEF Bridged
  <2>9. Patches(past, past)
    BY <1>5 DEF Patches
  <2>10. Patches(past, history')
    BY <1>3, <1>5, <1>8, <2>1, <2>9, InstalledIsPatched
  <2>11. history'.own # NotInstalled => client'.life.started
    BY <1>3, <1>4, <1>8
  <2>12. client' # NoClient /\ client'.number = n /\ client'.transport = left.fetch.top
    BY <1>2, <1>8, <2>1, BrowserCaptureAssumption
  <2>13. ~Covers(bridge.fetch) => Len(client'.transport) <= 1
    BY <1>5, <2>12 DEF PatchOK
  <2>14. CoversKept
    BY <1>5, <2>8, <2>10 DEF CoversKept, Covers, Patches
  <2>15. PatchesOK'
    BY <1>6, <2>8, <2>10, <2>11, <2>12, <2>13, <2>14 DEF PatchesOK, Alive, Patches, CoversKept
  <2> QED BY <1>5, <1>6, <2>8, <2>10, <2>14, <2>15 DEF PatchesKept, Patches
<1> QED BY <1>7, <1>8 DEF Begun

LEMMA DestroyKeeps ==
  ASSUME CaptureInv, Destroy
  PROVE  /\ LifeKept /\ ObservationKeepsItsRoute' /\ PatchesKept /\ CoversKept
         /\ bridge'.seen = bridge.seen /\ client' = NoClient
<1>1. /\ client' = NoClient /\ bridge' = Destroyed.bridge /\ history' = Destroyed.history
      /\ transports' = Destroyed.transports /\ Quiet /\ budget' = budget
  BY DEF Destroy
<1>2. UNCHANGED <<tab, active, announced>> /\ ObservationKeepsItsRoute'
  BY <1>1, QuietIsKept
<1>3. LifeKept
  BY <1>1, <1>2, LifeIsKept
<1>4. {} \in SUBSET Features /\ Begun({})
  BY <1>1 DEF Begun
<1>5. PatchesKept /\ CoversKept /\ bridge'.seen = bridge.seen
  BY <1>1, <1>4, BegunIsPatched
<1> QED BY <1>1, <1>2, <1>3, <1>5

\* Steps that leave bridge and clients alone.
LEMMA PatchesAreKept ==
  ASSUME CaptureInv, bridge' = [bridge EXCEPT !.cursor = bridge'.cursor, !.seen = bridge'.seen],
         bridge' \in Bridges, UNCHANGED <<history, transports>>,
         \/ client' = client
         \/ Alive /\ SameClient
  PROVE  PatchesKept /\ CoversKept
<1>1. CaptureTypes /\ PatchesOK /\ bridge \in Bridges
  BY DEF CaptureInv, CaptureTypes
<1>2. /\ bridge'.fetch = bridge.fetch /\ bridge'.xhr = bridge.xhr
      /\ bridge'.subscribers = bridge.subscribers /\ bridge'.observing = bridge.observing
  BY <1>1 DEF Bridges
<1>3. BridgeOK(bridge')
  BY <1>1, <1>2 DEF PatchesOK, BridgeOK, WantedOf
<1>4. CoversKept
  BY <1>2 DEF CoversKept, Covers
<1>5. /\ Alive' <=> Alive
      /\ Alive => /\ client'.number = client.number /\ client'.transport = client.transport
                  /\ client'.life.started = client.life.started
  BY BrowserCaptureAssumption DEF Alive, SameClient
<1>6. PatchesOK'
  BY <1>1, <1>2, <1>3, <1>4, <1>5 DEF PatchesOK, CoversKept
<1> QED BY <1>1, <1>4, <1>6 DEF PatchesKept, CaptureTypes

LEMMA CoverKeeps ==
  ASSUME CaptureInv, Cover
  PROVE  /\ PatchesKept /\ bridge'.seen = bridge.seen
         /\ Covers(bridge'.fetch) /\ Covers(bridge'.xhr) /\ Covers(history')
<1>1. /\ bridge' = [bridge EXCEPT !.fetch = Covered(@), !.xhr = Covered(@)]
      /\ history' = Covered(history) /\ client' = client /\ transports' = transports
  BY DEF Cover, page
<1>2. /\ CaptureTypes /\ PatchesOK /\ bridge \in Bridges /\ history \in Patched
      /\ transports \subseteq Wrapping
      /\ PatchOK(bridge.fetch) /\ PatchOK(bridge.xhr) /\ PatchOK(history)
      /\ bridge.fetch \in Patched /\ bridge.xhr \in Patched
  BY DEF CaptureInv, CaptureTypes, PatchesOK, BridgeOK, Bridges
<1>3. PICK fetch : fetch = Covered(bridge.fetch)
  OBVIOUS
<1>4. PICK xhr : xhr = Covered(bridge.xhr)
  OBVIOUS
<1>5. /\ fetch \in Patched /\ PatchOK(fetch) /\ Covers(fetch) /\ fetch.own = bridge.fetch.own
      /\ xhr \in Patched /\ PatchOK(xhr) /\ Covers(xhr) /\ xhr.own = bridge.xhr.own
      /\ history' \in Patched /\ PatchOK(history') /\ Covers(history') /\ history'.own = history.own
  BY <1>1, <1>2, <1>3, <1>4, CoveredIsCovered
<1>6. bridge' = [bridge EXCEPT !.fetch = fetch, !.xhr = xhr]
  BY <1>1, <1>2, <1>3, <1>4 DEF Bridges
<1>7. /\ bridge' \in Bridges /\ bridge'.fetch = fetch /\ bridge'.xhr = xhr
      /\ bridge'.subscribers = bridge.subscribers /\ bridge'.observing = bridge.observing
      /\ bridge'.seen = bridge.seen
  BY <1>2, <1>5, <1>6 DEF Bridges
<1>8. BridgeOK(bridge')
  BY <1>2, <1>5, <1>7 DEF PatchesOK, BridgeOK, WantedOf
<1>9. PatchesOK'
  <2>1. (Covers(bridge.fetch))'
    BY <1>5, <1>7 DEF Covers
  <2> QED BY <1>1, <1>2, <1>5, <1>7, <1>8, <2>1 DEF PatchesOK, Alive
<1> QED BY <1>1, <1>2, <1>5, <1>7, <1>9 DEF PatchesKept

-----------------------------------------------------------------------------
(* Requests.                                                               *)

\* A call passes at most as many of the bridge's wrappers as there are
\* wrappers.
LEMMA WrappersAreCounted ==
  ASSUME NEW function \in Wrapping
  PROVE  Wrappers(function) \in Nat /\ Wrappers(function) <= Len(function)
<1>1. PICK n \in Nat : n = Len(function) /\ DOMAIN function = 1..n
  BY DEF Wrapping
<1>2. IsFiniteSet(1..n) /\ Cardinality(1..n) = n
  <2>1. 1 \in Int /\ n \in Int
    BY <1>1
  <2>2. IsFiniteSet(1..n) /\ Cardinality(1..n) = IF 1 > n THEN 0 ELSE n - 1 + 1
    BY <2>1, FS_Interval, Zenon
  <2>3. (IF 1 > n THEN 0 ELSE n - 1 + 1) = n
    BY <1>1
  <2> QED BY <2>2, <2>3
<1>3. {i \in DOMAIN function : function[i] # Foreign} \subseteq 1..n
  BY <1>1
<1> QED BY <1>1, <1>2, <1>3, FS_Subset, FS_CardinalityType DEF Wrappers

\* One request that changes, without the bridge.
LEMMA RequestedKeeps ==
  ASSUME CaptureInv, NEW r \in Requests, NEW next \in Sent, Requested(r, next),
         AnsweredOnce(next, Covers(bridge.fetch)), bridge' = bridge
  PROVE  RequestsOK' /\ request' \in [Requests -> Sent]
<1>1. request \in [Requests -> Sent] /\ request' = [request EXCEPT ![r] = next]
  BY DEF CaptureInv, CaptureTypes, Requested
<1>2. request' \in [Requests -> Sent] /\ \A q \in Requests : request'[q] = next \/ request'[q] = request[q]
  BY <1>1
<1>3. \A q \in Requests : AnsweredOnce(request'[q], Covers(bridge.fetch))
  BY <1>2 DEF CaptureInv, RequestsOK
<1>4. \A q \in Requests : AnsweredOnce(request[q], Covers(bridge.fetch))'
                            <=> AnsweredOnce(request'[q], Covers(bridge.fetch))
  BY DEF AnsweredOnce, Covers
<1> QED BY <1>2, <1>3, <1>4 DEF RequestsOK

\* Steps that leave the requests alone, and cover nothing.
LEMMA RequestsAreKept ==
  ASSUME CaptureInv, request' = request, Covers(bridge.fetch) => (Covers(bridge.fetch))'
  PROVE  RequestsOK' /\ request' \in [Requests -> Sent]
BY DEF CaptureInv, CaptureTypes, RequestsOK, AnsweredOnce

\* A fetch that is sent through a function of the page.
LEMMA FetchedIsAnswered ==
  ASSUME CaptureInv, NEW function \in Wrapping, ~Covers(bridge.fetch) => Len(function) <= 1,
         NEW own \in BOOLEAN
  PROVE  LET next == Fetched(bridge, function, location, own)
         IN  next \in Sent /\ AnsweredOnce(next, Covers(bridge.fetch))
<1>1. PICK n \in Nat : n = Wrappers(function) /\ n <= Len(function)
  BY WrappersAreCounted
<1>2. PICK next : next = Fetched(bridge, function, location, own)
  OBVIOUS
<1>3. next = [via |-> "fetch", phase |-> "sent", known |-> TRUE, route |-> location,
              recipients |-> bridge.subscribers, pending |-> n, own |-> own, events |-> 0]
  BY <1>1, <1>2 DEF Fetched, Unused
<1>4. location \in Urls /\ bridge.subscribers \in SUBSET Subscribers /\ Len(function) \in Nat
  BY DEF CaptureInv, CaptureTypes, Bridges, Wrapping
<1>5. next \in Sent
  BY <1>3, <1>4 DEF Sent
<1>6. AnsweredOnce(next, Covers(bridge.fetch))
  BY <1>1, <1>3, <1>4 DEF AnsweredOnce
<1> QED BY <1>2, <1>5, <1>6

LEMMA FetchKeeps ==
  ASSUME CaptureInv, NEW r \in Requests, Fetch(r)
  PROVE  RequestsOK' /\ request' \in [Requests -> Sent]
<1>1. bridge.fetch.top \in Wrapping /\ (~Covers(bridge.fetch) => Len(bridge.fetch.top) <= 1)
  BY DEF CaptureInv, CaptureTypes, Bridges, Patched, PatchesOK, BridgeOK, PatchOK
<1>2. Requested(r, Fetched(bridge, bridge.fetch.top, location, FALSE)) /\ bridge' = bridge
  BY DEF Fetch, Unobserved
<1> QED BY <1>1, <1>2, FetchedIsAnswered, RequestedKeeps

LEMMA DeliverKeeps ==
  ASSUME CaptureInv, NEW r \in Requests, Deliver(r)
  PROVE  RequestsOK' /\ request' \in [Requests -> Sent]
<1>1. PICK function \in transports \cup {client.transport : c \in {c \in {client} : Alive}} :
        Requested(r, Fetched(bridge, function, location, TRUE))
  BY DEF Deliver
<1>2. function \in transports \/ (Alive /\ function = client.transport)
  BY <1>1
<1>3. function \in Wrapping /\ (~Covers(bridge.fetch) => Len(function) <= 1)
  BY <1>2 DEF CaptureInv, CaptureTypes, PatchesOK, Alive, Client, Wrapping
<1>4. bridge' = bridge
  BY DEF Deliver, Unobserved
<1> QED BY <1>1, <1>3, <1>4, FetchedIsAnswered, RequestedKeeps

LEMMA OpenXhrKeeps ==
  ASSUME CaptureInv, NEW r \in Requests, OpenXhr(r)
  PROVE  RequestsOK' /\ request' \in [Requests -> Sent]
<1>1. /\ Requested(r, XhrOpened(bridge, request[r])) /\ bridge' = bridge
      /\ request[r].via \in {"none", "xhr"} /\ request[r].phase \in {"new", "sent"}
  BY DEF OpenXhr, Unobserved
<1>2. PICK old \in Sent : old = request[r] /\ AnsweredOnce(old, Covers(bridge.fetch))
  BY DEF CaptureInv, CaptureTypes, RequestsOK
<1>3. PICK known \in BOOLEAN : known = (old.known \/ Wrappers(bridge.xhr.top) > 0)
  <2>1. (old.known \/ Wrappers(bridge.xhr.top) > 0) \in BOOLEAN
    OBVIOUS
  <2> QED BY <2>1, Zenon
<1>4. PICK next : next = [old EXCEPT !.via = "xhr", !.phase = "opened", !.known = known]
  OBVIOUS
<1>5. next = XhrOpened(bridge, request[r])
  BY <1>2, <1>3, <1>4 DEF XhrOpened, Sent
<1>6. next \in Sent /\ next.via = "xhr" /\ next.phase = "opened" /\ next.events = old.events
  BY <1>2, <1>4 DEF Sent
<1>7. AnsweredOnce(next, Covers(bridge.fetch))
  BY <1>1, <1>2, <1>6 DEF AnsweredOnce
<1> QED BY <1>1, <1>5, <1>6, <1>7, RequestedKeeps

LEMMA SendXhrKeeps ==
  ASSUME CaptureInv, NEW r \in Requests, SendXhr(r)
  PROVE  RequestsOK' /\ request' \in [Requests -> Sent]
<1>1. /\ Requested(r, XhrSent(bridge, request[r], location)) /\ bridge' = bridge
      /\ request[r].via = "xhr" /\ request[r].phase = "opened"
  BY DEF SendXhr, Unobserved
<1>2. PICK old \in Sent : old = request[r] /\ AnsweredOnce(old, Covers(bridge.fetch))
  BY DEF CaptureInv, CaptureTypes, RequestsOK
<1>3. bridge.xhr.top \in Wrapping /\ location \in Urls /\ bridge.subscribers \in SUBSET Subscribers
  BY DEF CaptureInv, CaptureTypes, Bridges, Patched
<1>4. PICK layers \in Nat : layers = Wrappers(bridge.xhr.top)
  BY <1>3, WrappersAreCounted
<1>5. PICK next : next = XhrSent(bridge, old, location)
  OBVIOUS
<1>6. next \in Sent /\ next.via = "xhr" /\ next.phase = "sent" /\ next.events = old.events
  <2>1. CASE ~old.known \/ layers = 0
    <3>1. next = [old EXCEPT !.phase = "sent"]
      BY <1>4, <1>5, <2>1 DEF XhrSent
    <3> QED BY <1>1, <1>2, <3>1 DEF Sent
  <2>2. CASE ~(~old.known \/ layers = 0)
    <3>1. PICK pending \in Nat : pending = old.pending + layers
      BY <1>2 DEF Sent
    <3>2. next = [old EXCEPT !.phase = "sent", !.route = location,
                             !.recipients = bridge.subscribers, !.pending = pending]
      BY <1>2, <1>4, <1>5, <2>2, <3>1 DEF XhrSent, Sent
    <3> QED BY <1>1, <1>2, <1>3, <3>2 DEF Sent
  <2> QED BY <2>1, <2>2
<1>7. AnsweredOnce(next, Covers(bridge.fetch))
  BY <1>1, <1>2, <1>6 DEF AnsweredOnce
<1> QED BY <1>1, <1>2, <1>5, <1>6, <1>7, RequestedKeeps

\* What is captured of a request.
LEMMA OfRequestObserves ==
  ASSUME CaptureInv, NEW r \in Requests, request[r].via \in {"fetch", "xhr"}
  PROVE  Observes(OfRequest(r))
<1>1. CASE Alive /\ client.number \in Listeners(bridge, request[r]) /\ Wanted(r)
  <2>1. request[r].via \in Watched /\ LifeOK
    BY DEF Watched, Captures, CaptureInv
  <2> QED BY <1>1, <2>1, ObservationsAreKept DEF OfRequest
<1>2. CASE ~(Alive /\ client.number \in Listeners(bridge, request[r]) /\ Wanted(r))
  <2>1. OfRequest(r) = <<>>
    BY <1>2 DEF OfRequest
  <2> QED BY <2>1 DEF Observes
<1> QED BY <1>1, <1>2

\* A completion is observed once or not at all.
LEMMA RepeatObserves ==
  ASSUME NEW captured, Observes(captured), NEW n \in {0, 1}
  PROVE  Repeat(captured, n) = IF n = 0 THEN <<>> ELSE captured
<1>1. CASE captured = <<>>
  <2>1. Len(captured) = 0 /\ n * 0 = 0
    BY <1>1
  <2>2. Repeat(captured, n) = [i \in 1..0 |-> captured[((i - 1) % 0) + 1]]
    BY <2>1 DEF Repeat
  <2>3. 1..0 = {}
    OBVIOUS
  <2> QED BY <1>1, <2>2, <2>3
<1>2. ASSUME NEW o, captured = <<o>>
      PROVE  Repeat(captured, n) = IF n = 0 THEN <<>> ELSE captured
  <2>1. Len(captured) = 1 /\ n * 1 = n
    BY <1>2
  <2>2. Repeat(captured, n) = [i \in 1..n |-> captured[((i - 1) % 1) + 1]]
    BY <2>1 DEF Repeat
  <2>3. \A i \in 1..n : ((i - 1) % 1) + 1 = 1
    OBVIOUS
  <2>4. Repeat(captured, n) = [i \in 1..n |-> o]
    BY <1>2, <2>2, <2>3
  <2>5. n = 0 => 1..n = {}
    OBVIOUS
  <2>6. n = 1 => [i \in 1..n |-> o] = <<o>>
    OBVIOUS
  <2> QED BY <1>2, <2>4, <2>5, <2>6
<1> QED BY <1>1, <1>2 DEF Observes

\* What an observation leaves alone.
LEMMA ObservingKeeps ==
  ASSUME CaptureInv, NEW captured, Observes(captured), Emit(captured),
         UNCHANGED <<tab, active, history, transports>>, budget'.failures = budget.failures,
         \/ client' = client
         \/ /\ Alive /\ client' \in Client /\ client'.life = client.life
            /\ client'.number = client.number /\ client'.features = client.features
            /\ client'.transport = client.transport,
         bridge' = [bridge EXCEPT !.cursor = bridge'.cursor, !.seen = bridge'.seen],
         bridge' \in Bridges
  PROVE  LifeKept /\ PatchesKept /\ CoversKept /\ ObservationKeepsItsRoute'
<1>1. announced' = announced /\ ObservationKeepsItsRoute'
  BY ObservationIsEmitted
<1>2. client \in Client \cup {NoClient}
  BY DEF CaptureInv, CaptureTypes
<1>3. LifeKept
  BY <1>1, <1>2, LifeIsKept DEF Alive
<1>4. client' = client \/ (Alive /\ SameClient)
  BY DEF SameClient
<1> QED BY <1>1, <1>3, <1>4, PatchesAreKept

\* A bridge that is left alone, in the form that PatchesAreKept takes.
LEMMA SameBridge ==
  ASSUME CaptureInv, bridge' = bridge
  PROVE  bridge' = [bridge EXCEPT !.cursor = bridge'.cursor, !.seen = bridge'.seen] /\ bridge' \in Bridges
BY DEF CaptureInv, CaptureTypes, Bridges

\* An answer that was observed.
LEMMA FetchSettlesKeeps ==
  ASSUME CaptureInv, NEW r \in Requests, FetchSettles(r)
  PROVE  /\ LifeKept /\ PatchesKept /\ CoversKept /\ ObservationKeepsItsRoute'
         /\ RequestsOK' /\ request' \in [Requests -> Sent]
<1>1. PICK captured : captured = OfRequest(r)
  OBVIOUS
<1>2. /\ request[r].via = "fetch" /\ request[r].phase = "sent" /\ request[r].pending > 0
      /\ Requested(r, [request[r] EXCEPT !.pending = @ - 1, !.events = @ + Len(captured)])
      /\ Emit(captured) /\ UNCHANGED <<budget, tab, client, bridge, history, active, transports>>
  BY <1>1 DEF FetchSettles, page
<1>3. Observes(captured) /\ Len(captured) \in {0, 1}
  BY <1>1, <1>2, OfRequestObserves, ObservationIsEmitted
<1>4. PICK old \in Sent : old = request[r] /\ AnsweredOnce(old, Covers(bridge.fetch))
  BY DEF CaptureInv, CaptureTypes, RequestsOK
<1>5. PICK next : next = [old EXCEPT !.pending = old.pending - 1, !.events = old.events + Len(captured)]
  OBVIOUS
<1>6. next = [request[r] EXCEPT !.pending = @ - 1, !.events = @ + Len(captured)]
  BY <1>4, <1>5 DEF Sent
<1>7. /\ next \in Sent /\ next.via = "fetch"
      /\ next.events + next.pending <= old.events + old.pending
  <2>1. PICK n \in {0, 1} : n = Len(captured)
    BY <1>3
  <2>2. PICK sent \in Nat, left \in Nat : sent = old.events /\ left = old.pending
    BY DEF Sent
  <2>3. n \in Nat /\ n <= 1 /\ left > 0
    BY <1>2, <1>4, <2>1, <2>2
  <2>4. PICK now \in Nat, less \in Nat : now = sent + n /\ less = left - 1
    BY <2>2, <2>3
  <2>5. next = [old EXCEPT !.pending = less, !.events = now]
    BY <1>5, <2>1, <2>2, <2>4
  <2>6. next \in Sent /\ next.via = "fetch" /\ next.events = now /\ next.pending = less
    BY <1>2, <1>4, <2>5 DEF Sent
  <2>7. now + less <= sent + left
    BY <2>2, <2>3, <2>4
  <2> QED BY <2>2, <2>6, <2>7
<1>8. AnsweredOnce(next, Covers(bridge.fetch))
  BY <1>2, <1>4, <1>7 DEF AnsweredOnce, Sent
<1>9. RequestsOK' /\ request' \in [Requests -> Sent]
  BY <1>2, <1>6, <1>7, <1>8, RequestedKeeps
<1>10. LifeKept /\ PatchesKept /\ CoversKept /\ ObservationKeepsItsRoute'
  BY <1>2, <1>3, SameBridge, ObservingKeeps
<1> QED BY <1>9, <1>10

LEMMA XhrEndsKeeps ==
  ASSUME CaptureInv, NEW r \in Requests, XhrEnds(r)
  PROVE  /\ LifeKept /\ PatchesKept /\ CoversKept /\ ObservationKeepsItsRoute'
         /\ RequestsOK' /\ request' \in [Requests -> Sent]
<1>1. PICK n : n = Completions(request[r])
  OBVIOUS
<1>2. PICK captured : captured = Repeat(OfRequest(r), n)
  OBVIOUS
<1>3. /\ request[r].via = "xhr" /\ request[r].phase = "sent"
      /\ Requested(r, [request[r] EXCEPT !.phase = "done", !.pending = 0, !.events = @ + Len(captured)])
      /\ Emit(captured) /\ UNCHANGED <<budget, tab, client, bridge, history, active, transports>>
  BY <1>1, <1>2 DEF XhrEnds, page
<1>4. n \in {0, 1} /\ Observes(OfRequest(r))
  BY <1>1, <1>3, OfRequestObserves DEF Completions
<1>5. captured = IF n = 0 THEN <<>> ELSE OfRequest(r)
  BY <1>2, <1>4, RepeatObserves
<1>6. Observes(captured)
  BY <1>4, <1>5 DEF Observes
<1>7. Len(captured) \in {0, 1}
  BY <1>3, <1>6, ObservationIsEmitted
<1>8. PICK old \in Sent : old = request[r] /\ AnsweredOnce(old, Covers(bridge.fetch))
  BY DEF CaptureInv, CaptureTypes, RequestsOK
<1>9. PICK next : next = [old EXCEPT !.phase = "done", !.pending = 0, !.events = old.events + Len(captured)]
  OBVIOUS
<1>10. next = [request[r] EXCEPT !.phase = "done", !.pending = 0, !.events = @ + Len(captured)]
  BY <1>8, <1>9 DEF Sent
<1>11. old.events = 0
  BY <1>3, <1>8 DEF AnsweredOnce
<1>12. next \in Sent /\ next.via = "xhr" /\ next.phase = "done" /\ next.events <= 1
  <2>1. PICK k \in {0, 1} : k = old.events + Len(captured)
    BY <1>7, <1>11
  <2>2. next = [old EXCEPT !.phase = "done", !.pending = 0, !.events = k]
    BY <1>9, <2>1
  <2>3. k \in Nat /\ k <= 1 /\ 0 \in Nat
    BY <2>1
  <2>4. next \in Sent
    BY <2>2, <2>3 DEF Sent
  <2>5. next.via = "xhr" /\ next.phase = "done" /\ next.events = k
    BY <1>3, <1>8, <2>2 DEF Sent
  <2> QED BY <2>3, <2>4, <2>5
<1>13. AnsweredOnce(next, Covers(bridge.fetch))
  BY <1>12 DEF AnsweredOnce
<1>14. RequestsOK' /\ request' \in [Requests -> Sent]
  BY <1>3, <1>10, <1>12, <1>13, RequestedKeeps
<1>15. LifeKept /\ PatchesKept /\ CoversKept /\ ObservationKeepsItsRoute'
  BY <1>3, <1>6, SameBridge, ObservingKeeps
<1> QED BY <1>14, <1>15

-----------------------------------------------------------------------------
(* Performance.                                                            *)

LEMMA WebVitalKeeps ==
  ASSUME CaptureInv, WebVital
  PROVE  LifeKept /\ PatchesKept /\ CoversKept /\ ObservationKeepsItsRoute'
<1>1. PICK url \in Urls : Emit(Observations("web_vital", url))
  BY DEF WebVital
<1>2. Alive /\ UNCHANGED <<budget, tab, client, bridge, history, active, transports>>
  BY DEF WebVital, Measures, page
<1>3. PICK captured : captured = Observations("web_vital", url)
  OBVIOUS
<1>4. Observes(captured)
  BY <1>2, <1>3, ObservationsAreKept DEF CaptureInv, Watched
<1> QED BY <1>1, <1>2, <1>3, <1>4, SameBridge, ObservingKeeps

LEMMA NavigationTimingKeeps ==
  ASSUME CaptureInv, NavigationTiming
  PROVE  /\ LifeKept /\ PatchesKept /\ CoversKept /\ ObservationKeepsItsRoute'
         /\ client' \in Client /\ client'.number = client.number
<1>1. PICK url \in Urls : Emit(Observations("navigation", url))
  BY DEF NavigationTiming
<1>2. /\ Alive /\ UNCHANGED <<budget, tab, bridge, history, active, transports>>
      /\ client' = [client EXCEPT !.timing = FALSE]
  BY DEF NavigationTiming, Measures, page
<1>3. PICK captured : captured = Observations("navigation", url)
  OBVIOUS
<1>4. Observes(captured)
  BY <1>2, <1>3, ObservationsAreKept DEF CaptureInv, Watched
<1>5. client \in Client
  BY <1>2 DEF CaptureInv, CaptureTypes, Alive
<1>6. /\ client' \in Client /\ client'.life = client.life
      /\ client'.number = client.number /\ client'.features = client.features
      /\ client'.transport = client.transport
  BY <1>2, <1>5 DEF Client
<1> QED BY <1>1, <1>2, <1>3, <1>4, <1>6, SameBridge, ObservingKeeps

LEMMA LongTaskKeeps ==
  ASSUME CaptureInv, LongTask
  PROVE  /\ LifeKept /\ PatchesKept /\ CoversKept /\ ObservationKeepsItsRoute'
         /\ client' \in Client /\ client'.number = client.number
<1>1. PICK captured : captured = Observations("long_task", location)
  OBVIOUS
<1>2. /\ Alive /\ UNCHANGED <<budget, tab, bridge, history, active, transports>>
      /\ client' = [client EXCEPT !.tasks = @ + 1] /\ Emit(captured)
  BY <1>1 DEF LongTask, Measures, page
<1>4. Observes(captured)
  BY <1>1, <1>2, ObservationsAreKept DEF CaptureInv, Watched
<1>5. client \in Client
  BY <1>2 DEF CaptureInv, CaptureTypes, Alive
<1>6. /\ client' \in Client /\ client'.life = client.life
      /\ client'.number = client.number /\ client'.features = client.features
      /\ client'.transport = client.transport
  BY <1>2, <1>5 DEF Client
<1> QED BY <1>2, <1>4, <1>6, SameBridge, ObservingKeeps

LEMMA ResourceKeeps ==
  ASSUME CaptureInv, Resource
  PROVE  /\ LifeKept /\ PatchesKept /\ CoversKept /\ ObservationKeepsItsRoute'
         /\ EntriesOK' /\ entries' \in [tasks : Nat, resources : Nat, captured : Nat]
         /\ client' = client
<1>1. PICK captured : captured = IF Fresh(bridge) THEN Observations("resource", location) ELSE <<>>
  OBVIOUS
<1>2. /\ bridge.observing /\ bridge' = Observed(bridge) /\ Emit(captured)
      /\ entries' = [entries EXCEPT !.captured = @ + Len(captured)]
      /\ UNCHANGED <<budget, tab, client, history, active, transports>>
  BY <1>1 DEF Resource
<1>3. /\ CaptureTypes /\ PatchesOK /\ LifeOK /\ EntriesOK /\ bridge \in Bridges
      /\ entries \in [tasks : Nat, resources : Nat, captured : Nat]
  BY DEF CaptureInv, CaptureTypes
<1>4. Alive
  <2>1. "resource" \in WantedOf(bridge)
    BY <1>2, <1>3 DEF PatchesOK, BridgeOK
  <2>2. PICK s \in bridge.subscribers : "resource" \in s.captures
    BY <2>1 DEF WantedOf
  <2> QED BY <1>3, <2>2 DEF PatchesOK
<1>5. Observes(captured)
  <2>1. Observes(Observations("resource", location))
    BY <1>3, <1>4, ObservationsAreKept DEF Watched, Captures
  <2> QED BY <1>1, <2>1 DEF Observes
<1>6. PICK n \in {0, 1} : n = Len(captured)
  BY <1>2, <1>5, ObservationIsEmitted
<1>7. PICK cursor \in Nat, seen \in Nat : cursor = bridge.cursor /\ seen = bridge.seen
  BY <1>3 DEF Bridges
<1>8. PICK later \in Nat : later = IF seen < cursor + 1 THEN cursor + 1 ELSE seen
  BY <1>7
<1>9. bridge' = [bridge EXCEPT !.cursor = cursor + 1, !.seen = later]
  BY <1>2, <1>3, <1>7, <1>8 DEF Observed, Bridges
<1>10. /\ bridge' \in Bridges /\ bridge'.cursor = cursor + 1 /\ bridge'.seen = later
       /\ bridge' = [bridge EXCEPT !.cursor = bridge'.cursor, !.seen = bridge'.seen]
  <2>1. PICK next \in Nat : next = cursor + 1
    BY <1>7
  <2>2. bridge' = [bridge EXCEPT !.cursor = next, !.seen = later]
    BY <1>9, <2>1
  <2>3. bridge' \in Bridges /\ bridge'.cursor = next /\ bridge'.seen = later
    BY <1>3, <2>2 DEF Bridges
  <2> QED BY <2>1, <2>2, <2>3
<1>11. n = 1 => cursor + 1 > seen
  <2>1. captured = <<>> => Len(captured) = 0
    OBVIOUS
  <2> QED BY <1>1, <1>6, <1>7, <2>1 DEF Fresh
<1>12. entries.captured <= seen /\ entries.captured \in Nat
  BY <1>3, <1>7 DEF EntriesOK
<1>13. entries.captured + n <= later
  <2>1. PICK k \in Nat : k = entries.captured /\ k <= seen
    BY <1>12
  <2>2. seen <= later /\ cursor + 1 <= later
    BY <1>8
  <2>3. k + n <= later
    <3>1. CASE n = 0
      BY <2>1, <2>2, <3>1
    <3>2. CASE n = 1
      BY <1>11, <2>1, <2>2, <3>2
    <3> QED BY <3>1, <3>2
  <2> QED BY <2>1, <2>3
<1>14. entries'.captured = entries.captured + n
  BY <1>2, <1>3, <1>6
<1>15. EntriesOK'
  BY <1>10, <1>13, <1>14 DEF EntriesOK
<1>16. entries' \in [tasks : Nat, resources : Nat, captured : Nat]
  BY <1>2, <1>3, <1>6
<1>17. LifeKept /\ PatchesKept /\ CoversKept /\ ObservationKeepsItsRoute'
  BY <1>2, <1>5, <1>10, ObservingKeeps
<1> QED BY <1>2, <1>15, <1>16, <1>17

-----------------------------------------------------------------------------
(* Every step.                                                             *)

EntryCounts == [tasks : Nat, resources : Nat, captured : Nat]
RequestsKept == RequestsOK' /\ request' \in [Requests -> Sent]
RestKept ==
  /\ budget' \in Budget /\ clock' \in Int /\ location' \in Urls
  /\ client' \in Client \cup {NoClient} /\ clients' \in Nat
  /\ entries' \in EntryCounts /\ EntriesOK'

\* The parts of CaptureInv', as the lemmas above give them.
LEMMA InvIsKept ==
  ASSUME LifeKept, PatchesKept, RequestsKept, RestKept, ObservationKeepsItsRoute'
  PROVE  CaptureInv'
<1>1. CaptureTypes'
  BY DEF CaptureTypes, LifeKept, PatchesKept, RequestsKept, RestKept, EntryCounts
<1> QED BY <1>1 DEF CaptureInv, LifeKept, PatchesKept, RequestsKept, RestKept

\* What CaptureInv says of the variables that a step leaves alone.
LEMMA Typed ==
  ASSUME CaptureInv
  PROVE  /\ budget \in Budget /\ clock \in Int /\ location \in Urls
         /\ client \in Client \cup {NoClient} /\ clients \in Nat
         /\ entries \in EntryCounts /\ entries.captured <= bridge.seen
         /\ bridge \in Bridges /\ history \in Patched /\ transports \subseteq Wrapping
         /\ request \in [Requests -> Sent]
BY DEF CaptureInv, CaptureTypes, EntryCounts, EntriesOK

\* A step that captures nothing and leaves the clients alone.
LEMMA QuietKeeps ==
  ASSUME CaptureInv, Quiet, UNCHANGED <<client, bridge, history, transports>>,
         budget'.failures = budget.failures
  PROVE  LifeKept /\ PatchesKept /\ CoversKept /\ ObservationKeepsItsRoute'
<1>1. PICK captured : captured = <<>>
  OBVIOUS
<1>2. Observes(captured) /\ Emit(captured)
  BY <1>1 DEF Observes, Quiet
<1> QED BY <1>2, SameBridge, ObservingKeeps DEF Quiet

LEMMA TimeKeeps ==
  ASSUME CaptureInv, Tick \/ SetBack
  PROVE  CaptureInv'
<1>1. Quiet /\ UNCHANGED <<client, bridge, history, request, location, clients, transports, entries>>
  BY DEF Tick, SetBack, page
<1>2. budget' \in Budget /\ budget'.failures = budget.failures /\ clock' \in Int
  BY Typed, BudgetIsSpent DEF Tick, SetBack
<1>3. LifeKept /\ PatchesKept /\ ObservationKeepsItsRoute' /\ CoversKept
  BY <1>1, <1>2, QuietKeeps
<1>4. RequestsKept
  BY <1>1, RequestsAreKept DEF RequestsKept, Covers
<1>5. RestKept
  BY <1>1, <1>2, Typed DEF RestKept, EntriesOK
<1> QED BY <1>3, <1>4, <1>5, InvIsKept

LEMMA SetHashKeeps ==
  ASSUME CaptureInv, SetHash
  PROVE  CaptureInv'
<1>1. /\ Quiet /\ UNCHANGED <<client, bridge, history, request, clock, clients, transports, entries>>
      /\ Spend("pages") /\ location' \in Urls
  BY DEF SetHash
<1>2. budget' \in Budget /\ budget'.failures = budget.failures
  BY <1>1, Typed, BudgetIsSpent
<1>3. LifeKept /\ PatchesKept /\ ObservationKeepsItsRoute' /\ CoversKept
  BY <1>1, <1>2, QuietKeeps
<1>4. RequestsKept
  BY <1>1, RequestsAreKept DEF RequestsKept, Covers
<1>5. RestKept
  BY <1>1, <1>2, Typed DEF RestKept, EntriesOK
<1> QED BY <1>3, <1>4, <1>5, InvIsKept

LEMMA EntryKeeps ==
  ASSUME CaptureInv, NEW kind \in {"tasks", "resources"}, Entry(kind)
  PROVE  CaptureInv'
<1>1. /\ Quiet /\ UNCHANGED <<client, bridge, history, request, clock, location, clients, transports>>
      /\ Spend("entries") /\ entries' = [entries EXCEPT ![kind] = @ + 1]
  BY DEF Entry
<1>2. budget' \in Budget /\ budget'.failures = budget.failures
  BY <1>1, Typed, BudgetIsSpent
<1>3. LifeKept /\ PatchesKept /\ ObservationKeepsItsRoute' /\ CoversKept
  BY <1>1, <1>2, QuietKeeps
<1>4. RequestsKept
  BY <1>1, RequestsAreKept DEF RequestsKept, Covers
<1>5. entries' \in EntryCounts /\ entries'.captured = entries.captured
  BY <1>1, Typed DEF EntryCounts
<1>6. RestKept
  BY <1>1, <1>2, <1>5, Typed DEF RestKept, EntriesOK
<1> QED BY <1>3, <1>4, <1>6, InvIsKept

\* The steps of a request that nothing observes yet.
LEMMA SendingKeeps ==
  ASSUME CaptureInv, NEW r \in Requests, Fetch(r) \/ Deliver(r) \/ OpenXhr(r) \/ SendXhr(r)
  PROVE  CaptureInv'
<1>1. /\ Quiet
      /\ UNCHANGED <<client, bridge, history, clock, location, clients, transports, entries>>
      /\ Spend("requests") \/ budget' = budget
  BY DEF Fetch, Deliver, OpenXhr, SendXhr, Unobserved, page
<1>2. budget' \in Budget /\ budget'.failures = budget.failures
  BY <1>1, Typed, BudgetIsSpent
<1>3. LifeKept /\ PatchesKept /\ ObservationKeepsItsRoute'
  BY <1>1, <1>2, QuietKeeps
<1>4. RequestsKept
  BY FetchKeeps, DeliverKeeps, OpenXhrKeeps, SendXhrKeeps DEF RequestsKept
<1>5. RestKept
  BY <1>1, <1>2, Typed DEF RestKept, EntriesOK
<1> QED BY <1>3, <1>4, <1>5, InvIsKept

LEMMA AnswerKeeps ==
  ASSUME CaptureInv, NEW r \in Requests, FetchSettles(r) \/ XhrEnds(r)
  PROVE  CaptureInv'
<1>1. UNCHANGED <<budget, client, bridge, clock, location, clients, entries>>
  BY DEF FetchSettles, XhrEnds, page
<1>2. LifeKept /\ PatchesKept /\ ObservationKeepsItsRoute' /\ RequestsKept
  BY FetchSettlesKeeps, XhrEndsKeeps DEF RequestsKept
<1>3. RestKept
  BY <1>1, Typed DEF RestKept, EntriesOK
<1> QED BY <1>2, <1>3, InvIsKept

LEMMA PerformanceKeeps ==
  ASSUME CaptureInv, WebVital \/ NavigationTiming \/ LongTask \/ Resource
  PROVE  CaptureInv'
<1>1. /\ UNCHANGED <<budget, clock, location, clients, request>>
      /\ LifeKept /\ PatchesKept /\ CoversKept /\ ObservationKeepsItsRoute'
  BY WebVitalKeeps, NavigationTimingKeeps, LongTaskKeeps, ResourceKeeps
     DEF WebVital, NavigationTiming, LongTask, Resource, page
<1>2. RequestsKept
  BY <1>1, RequestsAreKept DEF RequestsKept, CoversKept
<1>3. RestKept
  <2>1. CASE Resource
    BY <1>1, <2>1, Typed, ResourceKeeps DEF RestKept, EntryCounts
  <2>2. CASE WebVital \/ NavigationTiming \/ LongTask
    <3>1. UNCHANGED <<bridge, entries>>
      BY <2>2 DEF WebVital, NavigationTiming, LongTask, page
    <3>2. client' \in Client \cup {NoClient}
      BY <2>2, Typed, NavigationTimingKeeps, LongTaskKeeps DEF WebVital
    <3> QED BY <1>1, <3>1, <3>2, Typed DEF RestKept, EntriesOK
  <2> QED BY <2>1, <2>2
<1> QED BY <1>1, <1>2, <1>3, InvIsKept

LEMMA TouchingKeeps ==
  ASSUME CaptureInv, Touch \/ Capture
  PROVE  CaptureInv'
<1>1. /\ Alive /\ UNCHANGED <<budget, clock, location, clients, entries, bridge, history, request, transports>>
  BY DEF Touch, Capture, page
<1>2. LifeKept /\ SameClient /\ ObservationKeepsItsRoute'
  BY TouchKeeps, CaptureKeeps
<1>3. PatchesKept /\ CoversKept
  BY <1>1, <1>2, SameBridge, PatchesAreKept
<1>4. RequestsKept
  BY <1>1, RequestsAreKept DEF RequestsKept, Covers
<1>5. RestKept
  BY <1>1, <1>2, Typed DEF RestKept, EntriesOK, SameClient
<1> QED BY <1>2, <1>3, <1>4, <1>5, InvIsKept

LEMMA NavigatingKeeps ==
  ASSUME CaptureInv, Navigate \/ HashChange
  PROVE  CaptureInv'
<1>1. /\ UNCHANGED <<clock, clients, entries, bridge, history, request, transports>>
      /\ location' \in Urls /\ budget' \in Budget /\ budget'.failures = budget.failures
  BY Typed, BudgetIsSpent DEF Navigate, HashChange
<1>2. PICK url \in Urls, works \in Works : Listened(url, works)
  BY Typed DEF Navigate, HashChange
<1>3. LifeKept /\ (Alive => SameClient) /\ (~Alive => client' = client) /\ ObservationKeepsItsRoute'
  BY <1>1, <1>2, ListenedKeeps
<1>4. client' = client \/ (Alive /\ SameClient)
  BY <1>3
<1>5. PatchesKept /\ CoversKept
  BY <1>1, <1>4, SameBridge, PatchesAreKept
<1>6. RequestsKept
  BY <1>1, RequestsAreKept DEF RequestsKept, Covers
<1>7. RestKept
  BY <1>1, <1>4, Typed DEF RestKept, EntriesOK, SameClient
<1> QED BY <1>3, <1>5, <1>6, <1>7, InvIsKept

LEMMA CoveringKeeps ==
  ASSUME CaptureInv, Cover
  PROVE  CaptureInv'
<1>1. /\ Quiet /\ Spend("covers")
      /\ UNCHANGED <<client, clock, location, clients, entries, request, transports>>
  BY DEF Cover, page
<1>2. budget' \in Budget /\ budget'.failures = budget.failures
  BY <1>1, Typed, BudgetIsSpent
<1>3. UNCHANGED <<tab, active, announced>> /\ ObservationKeepsItsRoute'
  BY <1>1, QuietIsKept
<1>4. LifeKept
  BY <1>1, <1>2, <1>3, Typed, LifeIsKept DEF Alive
<1>5. PatchesKept /\ bridge'.seen = bridge.seen /\ Covers(bridge'.fetch)
  BY CoverKeeps
<1>6. RequestsKept
  BY <1>1, <1>5, RequestsAreKept DEF RequestsKept, Covers
<1>7. RestKept
  BY <1>1, <1>2, <1>5, Typed DEF RestKept, EntriesOK
<1> QED BY <1>3, <1>4, <1>5, <1>6, <1>7, InvIsKept

LEMMA DestroyingKeeps ==
  ASSUME CaptureInv, Destroy
  PROVE  CaptureInv'
<1>1. UNCHANGED <<budget, clock, location, clients, request, entries>>
  BY DEF Destroy
<1>2. /\ LifeKept /\ ObservationKeepsItsRoute' /\ PatchesKept /\ CoversKept
      /\ bridge'.seen = bridge.seen /\ client' = NoClient
  BY DestroyKeeps
<1>3. RequestsKept
  BY <1>1, <1>2, RequestsAreKept DEF RequestsKept, CoversKept
<1>4. RestKept
  BY <1>1, <1>2, Typed DEF RestKept, EntriesOK
<1> QED BY <1>2, <1>3, <1>4, InvIsKept

\* A request that was not made yet.
LEMMA UnusedIsAnswered ==
  Unused \in Sent /\ \A covered : AnsweredOnce(Unused, covered)
<1>1. 0 \in Nat /\ {} \in SUBSET Subscribers
  OBVIOUS
<1>2. Unused \in Sent
  BY <1>1 DEF Unused, Sent
<1>3. Unused.via = "none" /\ Unused.events = 0
  BY DEF Unused
<1> QED BY <1>2, <1>3 DEF AnsweredOnce

LEMMA ReloadKeeps ==
  ASSUME CaptureInv, Reload
  PROVE  CaptureInv'
<1>1. /\ Quiet /\ Spend("pages") /\ location' \in Urls /\ client' = NoClient
      /\ bridge' = NewBridge /\ history' = Native /\ request' = [r \in Requests |-> Unused]
      /\ clients' = 0 /\ transports' = {} /\ clock' = clock
      /\ entries' = [tasks |-> 0, resources |-> 0, captured |-> 0]
  BY DEF Reload
<1>2. budget' \in Budget /\ budget'.failures = budget.failures
  BY <1>1, Typed, BudgetIsSpent
<1>3. UNCHANGED <<tab, active, announced>> /\ ObservationKeepsItsRoute'
  BY <1>1, QuietIsKept
<1>4. LifeKept
  BY <1>1, <1>2, <1>3, LifeIsKept
<1>5. PatchesOK'
  BY <1>1, NewIsBridged, NativeIsPatched DEF PatchesOK, Native, Alive
<1>6. PatchesKept
  BY <1>1, <1>5, NewIsBridged, NativeIsPatched DEF PatchesKept
<1>7. RequestsKept
  <2>1. request' \in [Requests -> Sent]
    BY <1>1, UnusedIsAnswered
  <2>2. \A r \in Requests : AnsweredOnce(request'[r], Covers(bridge'.fetch))
    BY <1>1, UnusedIsAnswered
  <2>3. RequestsOK'
    BY <2>2 DEF RequestsOK, AnsweredOnce, Covers
  <2> QED BY <2>1, <2>3 DEF RequestsKept
<1>8. RestKept
  <2>1. entries'.captured = 0 /\ bridge'.seen = 0 /\ entries' \in EntryCounts
    BY <1>1 DEF NewBridge, EntryCounts
  <2> QED BY <1>1, <1>2, <2>1, Typed DEF RestKept, EntriesOK
<1> QED BY <1>3, <1>4, <1>6, <1>7, <1>8, InvIsKept

LEMMA InitClientKeeps ==
  ASSUME CaptureInv, InitClient
  PROVE  /\ CaptureInv' /\ CoversKept
         /\ \E features \in budget.features : Begun(features)
<1>1. /\ Spend("clients") /\ UNCHANGED <<clock, location, request, entries>>
  BY DEF InitClient
<1>2. PICK features \in budget.features, fails \in {{}, {"lifecycle"}, {"performance"}},
           reads \in Works, works \in Works : Begin(features, fails, reads, works)
  BY DEF InitClient
<1>3. features \in SUBSET Features
  BY <1>2, Typed DEF Budget
<1>4. budget' \in Budget /\ budget'.failures = budget.failures
  BY <1>1, Typed, BudgetIsSpent
<1>5. /\ LifeKept /\ ObservationKeepsItsRoute' /\ Begun(features) /\ clients' = clients + 1
      /\ transports' \subseteq Destroyed.transports \cup {Destroyed.bridge.fetch.top}
  BY <1>2, <1>3, <1>4, BeginKeeps
<1>6. PatchesKept /\ CoversKept /\ bridge'.seen = bridge.seen
  BY <1>3, <1>5, BegunIsPatched
<1>7. RequestsKept
  BY <1>1, <1>6, RequestsAreKept DEF RequestsKept, CoversKept
<1>8. RestKept
  BY <1>1, <1>4, <1>5, <1>6, Typed DEF RestKept, EntriesOK, Begun
<1> QED BY <1>2, <1>5, <1>6, <1>7, <1>8, InvIsKept

\* CaptureInv is inductive.
LEMMA StepKeeps ==
  ASSUME CaptureInv, [Next]_vars
  PROVE  CaptureInv'
<1>1. CASE UNCHANGED vars
  BY <1>1 DEF vars, page, CaptureInv, CaptureTypes, LifeOK, Lives, TabOK, Sessions, ActiveOK,
     ActivityIsCurrent, StoredIsOlder, StoredIsRecent, PatchesOK, RequestsOK, EntriesOK, Alive,
     AnsweredOnce, Covers, ObservationKeepsItsRoute
<1>2. CASE InitClient \/ Destroy \/ Reload \/ Cover
  BY <1>2, InitClientKeeps, DestroyingKeeps, ReloadKeeps, CoveringKeeps
<1>3. CASE Tick \/ SetBack \/ Touch \/ Capture \/ Navigate \/ SetHash \/ HashChange
  BY <1>3, TimeKeeps, TouchingKeeps, NavigatingKeeps, SetHashKeeps
<1>4. CASE \E r \in Requests :
             Fetch(r) \/ Deliver(r) \/ OpenXhr(r) \/ SendXhr(r) \/ FetchSettles(r) \/ XhrEnds(r)
  BY <1>4, SendingKeeps, AnswerKeeps
<1>5. CASE \E kind \in {"tasks", "resources"} : Entry(kind)
  BY <1>5, EntryKeeps
<1>6. CASE WebVital \/ NavigationTiming \/ LongTask \/ Resource
  BY <1>6, PerformanceKeeps
<1> QED BY <1>1, <1>2, <1>3, <1>4, <1>5, <1>6 DEF Next

\* CaptureInv holds when the tab opens.
LEMMA InitInv == Init => CaptureInv
<1> SUFFICES ASSUME Init PROVE CaptureInv
  OBVIOUS
<1>1. /\ budget \in Budget /\ clock \in Int /\ location \in Urls
  BY BrowserCaptureAssumption, PageSessionAssumption DEF Init
<1>2. /\ tab \in [stored : Session \cup {NoSession}, ids : [session : Nat, page : Nat],
                  failed : BOOLEAN]
      /\ entries \in EntryCounts /\ entries.captured = 0
  BY DEF Init, EntryCounts
<1>3. /\ client = NoClient /\ clients = 0 /\ transports = {} /\ bridge = NewBridge
      /\ history = Native /\ request = [r \in Requests |-> Unused]
      /\ events = <<>> /\ announced = {} /\ active = NoSession /\ tab.stored = NoSession
  BY DEF Init
<1>4. CaptureTypes
  BY <1>1, <1>2, <1>3, NewIsBridged, NativeIsPatched, UnusedIsAnswered DEF CaptureTypes, EntryCounts
<1>5. LifeOK /\ TabOK /\ ActiveOK
  BY <1>3 DEF LifeOK, TabOK, ActiveOK, ActivityIsCurrent, StoredIsOlder, StoredIsRecent, Alive
<1>6. PatchesOK
  BY <1>3, NewIsBridged, NativeIsPatched DEF PatchesOK, Native, Alive
<1>7. RequestsOK
  BY <1>3, UnusedIsAnswered DEF RequestsOK
<1>8. EntriesOK
  BY <1>2, <1>3 DEF EntriesOK, NewBridge
<1>9. ObservationKeepsItsRoute
  BY <1>3 DEF ObservationKeepsItsRoute
<1> QED BY <1>4, <1>5, <1>6, <1>7, <1>8, <1>9 DEF CaptureInv

-----------------------------------------------------------------------------
(* What the activity of a step is.                                         *)

\* The session that a step continues, or tries to: the client's, or what a
\* client that starts reads from the tab's storage.
Before(base) ==
  \/ Alive /\ client.life.started /\ base = client.life.session
  \/ \E reads \in Works : base = IF reads THEN tab.stored ELSE NoSession

\* A step of a lifecycle: activity, now, of that session or of a new one.
ActsOn(base) ==
  /\ Before(base) /\ (base \in Session => base.id \in announced)
  /\ active'.at = clock
  /\ active'.session = IF Lasts(base, clock) THEN base.id ELSE tab.ids.session + 1
  /\ events' \in Seq(Captureds) /\ \A i \in DOMAIN events' : events'[i].session = active'.session
  /\ ~Lasts(base, clock) => events' # <<>> /\ events'[1].name = "session_start"
Acts == \E base : ActsOn(base)

\* Any other step: observations, and events without a lifecycle.
Watches ==
  /\ active' = active
  /\ \A i \in DOMAIN events' :
       \/ events'[i].session = NoSession
       \/ events'[i].session \in announced /\ events'[i].name \in Watched

\* A call of a lifecycle is activity of the session it found, or of a new one.
LEMMA LivingActs ==
  ASSUME CaptureInv, NEW base, NEW call, CallOK(base, call), NEW works,
         NEW next, LivesOn(base, call, next, clock, works), NEW final, Completes(next, final),
         Became(final), \A i \in DOMAIN final.events : final.events[i].session = next.life.session.id,
         ~Lasts(base, clock) => final.events # <<>> /\ final.events[1].name = "session_start",
         Before(base)
  PROVE  Acts
<1>1. next.life.started /\ Goes(base, call, next, clock) /\ call.ids = tab.ids
      /\ (base \in Session => base.id \in announced)
  BY DEF LivesOn, CallOK
<1>2. final.life = next.life /\ final.events \in Seq(Captureds)
  BY DEF Completes, Calls
<1>3. events' = final.events /\ active' = [session |-> next.life.session.id, at |-> clock]
  BY <1>1, <1>2 DEF Became, Emit
<1>4. active'.at = clock /\ active'.session = next.life.session.id
  BY <1>3
<1>5. next.life.session.id = IF Lasts(base, clock) THEN base.id ELSE tab.ids.session + 1
  BY <1>1 DEF Goes
<1>6. ActsOn(base)
  BY <1>1, <1>2, <1>3, <1>4, <1>5 DEF ActsOn
<1> QED BY <1>6 DEF Acts

LEMMA BeginActs ==
  ASSUME CaptureInv, NEW features, NEW fails, NEW reads \in Works, NEW works \in Works,
         Begin(features, fails, reads, works)
  PROVE  Acts \/ Watches
<1>1. PICK call : call = Call(NewLife)
  OBVIOUS
<1>2. PICK started : started = Started(call, clock, location, reads, works)
  OBVIOUS
<1>3. CaptureTypes /\ TabOK /\ clock \in Int /\ location \in Urls
  BY DEF CaptureInv, CaptureTypes
<1>4. works \in BOOLEAN /\ reads \in BOOLEAN
  BY <1>3, WritingWorks
<1>5. Quiet \/ Became(started)
  BY <1>1, <1>2 DEF Begin
<1>6. CASE Quiet
  <2>1. DOMAIN events' = {} /\ active' = active
    <3>1. DOMAIN <<>> = {}
      OBVIOUS
    <3>2. events' = <<>> /\ active' = active
      BY <1>6 DEF Quiet, Emit
    <3> QED BY <3>1, <3>2, Zenon
  <2> QED BY <2>1 DEF Watches
<1>7. CASE Became(started)
  <2>1. /\ call \in Calls /\ call.life = NewLife /\ call.events = <<>> /\ call.stored = tab.stored
        /\ CallOK(Found(call, reads), call)
    BY <1>1, <1>3, <1>4, StartCalls
  <2>2. PICK base : base = Found(call, reads)
    OBVIOUS
  <2>3. LivesOn(base, call, started, clock, works)
    BY <1>2, <1>3, <1>4, <2>1, <2>2, StartLivesOn
  <2>4. Completes(started, started) /\ Announces(started, ~Lasts(base, clock))
    BY <2>3 DEF LivesOn, Completes
  <2>5. Before(base)
    BY <2>1, <2>2 DEF Before, Found
  <2>6. Acts
    BY <1>7, <2>1, <2>2, <2>3, <2>4, <2>5, LivingActs DEF Announces
  <2> QED BY <2>6
<1> QED BY <1>5, <1>6, <1>7

LEMMA TouchActs ==
  ASSUME CaptureInv, Touch
  PROVE  Acts
<1>1. Alive /\ client.life.started
  BY DEF Touch
<1>2. PICK works \in Works : Lived(Touched(Call(client.life), clock, location, works))
  BY DEF Touch
<1>3. PICK next : next = Touched(Call(client.life), clock, location, works)
  OBVIOUS
<1>4. /\ CaptureTypes /\ LifeOK /\ TabOK /\ ActiveOK
      /\ clock \in Int /\ location \in Urls /\ works \in BOOLEAN
  BY WritingWorks DEF CaptureInv, CaptureTypes
<1>5. Living(Call(client.life)) /\ CallOK(client.life.session, Call(client.life))
      /\ Call(client.life).life = client.life
  BY <1>1, <1>4, ClientCalls
<1>6. LivesOn(client.life.session, Call(client.life), next, clock, works)
  BY <1>3, <1>4, <1>5, TouchLivesOn
<1>7. Completes(next, next) /\ Announces(next, ~Lasts(client.life.session, clock))
  BY <1>6 DEF LivesOn, Completes
<1>8. Became(next) /\ Before(client.life.session)
  BY <1>1, <1>2, <1>3 DEF Lived, Before
<1> QED BY <1>5, <1>6, <1>7, <1>8, LivingActs DEF Announces

LEMMA ListenedActs ==
  ASSUME CaptureInv, NEW url \in Urls, NEW works \in Works, Listened(url, works)
  PROVE  Acts \/ Watches
<1>1. CASE Alive /\ client.life.started
  <2>1. PICK next : next = Navigated(Call(client.life), clock, url, works)
    OBVIOUS
  <2>2. /\ CaptureTypes /\ LifeOK /\ TabOK /\ ActiveOK
        /\ clock \in Int /\ works \in BOOLEAN
    BY WritingWorks DEF CaptureInv, CaptureTypes
  <2>3. Living(Call(client.life)) /\ CallOK(client.life.session, Call(client.life))
        /\ Call(client.life).life = client.life
    BY <1>1, <2>2, ClientCalls
  <2>4. LivesOn(client.life.session, Call(client.life), next, clock, works)
    BY <2>1, <2>2, <2>3, NavigationLivesOn
  <2>5. Completes(next, next) /\ Announces(next, ~Lasts(client.life.session, clock))
    BY <2>4 DEF LivesOn, Completes
  <2>6. Became(next) /\ Before(client.life.session)
    BY <1>1, <2>1 DEF Listened, Lived, Before
  <2> QED BY <2>3, <2>4, <2>5, <2>6, LivingActs DEF Announces
<1>2. CASE ~(Alive /\ client.life.started)
  <2>1. Quiet
    BY <1>2 DEF Listened
  <2>2. DOMAIN events' = {} /\ active' = active
    <3>1. DOMAIN <<>> = {}
      OBVIOUS
    <3>2. events' = <<>> /\ active' = active
      BY <2>1 DEF Quiet, Emit
    <3> QED BY <3>1, <3>2, Zenon
  <2> QED BY <2>2 DEF Watches
<1> QED BY <1>1, <1>2

LEMMA CaptureActs ==
  ASSUME CaptureInv, Capture
  PROVE  Acts \/ Watches
<1>1. Alive
  BY DEF Capture
<1>2. PICK works \in Works, name \in ActiveNames :
        Lived(Captured(Touched(Call(client.life), clock, location, works), name))
  BY DEF Capture
<1>3. PICK next : next = Touched(Call(client.life), clock, location, works)
  OBVIOUS
<1>4. PICK final : final = Captured(next, name)
  OBVIOUS
<1>5. Lived(final) /\ Became(final)
  BY <1>2, <1>3, <1>4 DEF Lived
<1>6. CASE client.life.started
  <2>1. /\ CaptureTypes /\ LifeOK /\ TabOK /\ ActiveOK
        /\ clock \in Int /\ location \in Urls /\ works \in BOOLEAN
    BY WritingWorks DEF CaptureInv, CaptureTypes
  <2>2. Living(Call(client.life)) /\ CallOK(client.life.session, Call(client.life))
        /\ Call(client.life).life = client.life
    BY <1>1, <1>6, <2>1, ClientCalls
  <2>3. LivesOn(client.life.session, Call(client.life), next, clock, works)
    BY <1>3, <2>1, <2>2, TouchLivesOn
  <2>4. /\ next \in Calls /\ next.life \in Life /\ next.events \in Seq(Captureds)
        /\ next.life.session \in Session /\ Announces(next, ~Lasts(client.life.session, clock))
    BY <2>3 DEF LivesOn, IsCurrent, Calls
  <2>5. /\ Completes(next, final) /\ Len(final.events) = Len(next.events) + 1
        /\ \A i \in 1..Len(next.events) : final.events[i] = next.events[i]
        /\ final.events[Len(next.events) + 1] = Event(name, next.life)
    BY <1>4, <2>4, EventCompletes
  <2>6. Event(name, next.life).session = next.life.session.id
    BY <2>4, PageSessionAssumption DEF Event
  <2>7. PICK n \in Nat : n = Len(next.events)
    BY <2>4
  <2>8. DOMAIN final.events = 1..(n + 1) /\ DOMAIN next.events = 1..n
    BY <2>4, <2>5, <2>7 DEF Completes, Calls
  <2>9. \A i \in DOMAIN final.events : final.events[i].session = next.life.session.id
    <3>1. \A i \in 1..(n + 1) : i \in 1..n \/ i = n + 1
      BY <2>7
    <3> QED BY <2>4, <2>5, <2>6, <2>7, <2>8, <3>1 DEF Announces
  <2>10. ASSUME ~Lasts(client.life.session, clock)
         PROVE  final.events # <<>> /\ final.events[1].name = "session_start"
    <3>1. next.events # <<>> /\ next.events[1].name = "session_start"
      BY <2>4, <2>10 DEF Announces
    <3>2. 1 \in 1..n
      BY <2>4, <2>7, <3>1
    <3>3. final.events[1] = next.events[1] /\ 1 \in DOMAIN final.events
      BY <2>5, <2>7, <2>8, <3>2
    <3>4. final.events # <<>>
      <4>1. DOMAIN <<>> = {}
        OBVIOUS
      <4> QED BY <3>3, <4>1, Zenon
    <3> QED BY <3>1, <3>3, <3>4
  <2>11. Before(client.life.session)
    BY <1>1, <1>6 DEF Before
  <2> QED BY <1>5, <2>2, <2>3, <2>5, <2>9, <2>10, <2>11, LivingActs
<1>7. CASE ~client.life.started
  <2>1. /\ active' = active /\ events' = <<Event(name, client.life)>>
        /\ Event(name, client.life).session = NoSession
    BY <1>1, <1>3, <1>4, <1>5, <1>7, BareCapture
  <2>2. \A i \in DOMAIN events' : events'[i].session = NoSession
    BY <2>1
  <2> QED BY <2>1, <2>2 DEF Watches
<1> QED BY <1>6, <1>7

\* An observation is no activity.
LEMMA ObservingWatches ==
  ASSUME NEW captured, Observes(captured), Emit(captured), active' = active
  PROVE  Watches
<1>1. \A i \in DOMAIN events' : /\ events'[i].name \in Watched
                                /\ events'[i].session \in announced \cup {NoSession}
  BY ObservationIsEmitted
<1> QED BY <1>1 DEF Watches

LEMMA QuietWatches ==
  ASSUME Quiet
  PROVE  Watches
<1>1. PICK captured : captured = <<>>
  OBVIOUS
<1>2. Observes(captured) /\ Emit(captured) /\ active' = active
  BY <1>1 DEF Observes, Quiet
<1> QED BY <1>2, ObservingWatches

LEMMA AnswerWatches ==
  ASSUME CaptureInv, NEW r \in Requests, FetchSettles(r) \/ XhrEnds(r)
  PROVE  Watches
<1>1. CASE FetchSettles(r)
  <2>1. PICK captured : captured = OfRequest(r)
    OBVIOUS
  <2>2. request[r].via = "fetch" /\ Emit(captured) /\ active' = active
    BY <1>1, <2>1 DEF FetchSettles
  <2> QED BY <2>1, <2>2, OfRequestObserves, ObservingWatches
<1>2. CASE XhrEnds(r)
  <2>1. PICK n : n = Completions(request[r])
    OBVIOUS
  <2>2. PICK captured : captured = Repeat(OfRequest(r), n)
    OBVIOUS
  <2>3. request[r].via = "xhr" /\ Emit(captured) /\ active' = active
    BY <1>2, <2>1, <2>2 DEF XhrEnds
  <2>4. n \in {0, 1} /\ Observes(OfRequest(r))
    BY <2>1, <2>3, OfRequestObserves DEF Completions
  <2>5. captured = IF n = 0 THEN <<>> ELSE OfRequest(r)
    BY <2>2, <2>4, RepeatObserves
  <2>6. Observes(captured)
    BY <2>4, <2>5 DEF Observes
  <2> QED BY <2>3, <2>6, ObservingWatches
<1> QED BY <1>1, <1>2

LEMMA PerformanceWatches ==
  ASSUME CaptureInv, WebVital \/ NavigationTiming \/ LongTask \/ Resource
  PROVE  Watches
<1>1. LifeOK
  BY DEF CaptureInv
<1>2. ASSUME NEW name \in Watched, NEW route, Alive, Emit(Observations(name, route)), active' = active
      PROVE  Watches
  <2>1. PICK captured : captured = Observations(name, route)
    OBVIOUS
  <2>2. Observes(captured)
    BY <1>1, <1>2, <2>1, ObservationsAreKept
  <2> QED BY <1>2, <2>1, <2>2, ObservingWatches
<1>3. CASE WebVital \/ NavigationTiming \/ LongTask
  <2>1. PICK name \in Watched, route \in Urls :
          Alive /\ Emit(Observations(name, route)) /\ active' = active
    BY <1>3, Typed DEF WebVital, NavigationTiming, LongTask, Measures, Watched
  <2> QED BY <1>2, <2>1
<1>4. CASE Resource
  <2>1. Alive
    <3>1. "resource" \in WantedOf(bridge)
      BY <1>4 DEF Resource, CaptureInv, PatchesOK, BridgeOK
    <3>2. PICK s \in bridge.subscribers : "resource" \in s.captures
      BY <3>1 DEF WantedOf
    <3> QED BY <3>2 DEF CaptureInv, PatchesOK
  <2>2. active' = active /\ (Emit(Observations("resource", location)) \/ Emit(<<>>))
    BY <1>4 DEF Resource
  <2>3. "resource" \in Watched
    BY DEF Watched, Captures
  <2>4. ASSUME Emit(<<>>) PROVE Watches
    <3>1. PICK captured : captured = <<>>
      OBVIOUS
    <3>2. Observes(captured) /\ Emit(captured)
      BY <2>4, <3>1 DEF Observes
    <3> QED BY <2>2, <3>2, ObservingWatches
  <2> QED BY <1>2, <2>1, <2>2, <2>3, <2>4
<1> QED BY <1>3, <1>4

\* Every step is one or the other.
LEMMA StepActs ==
  ASSUME CaptureInv, Next
  PROVE  Acts \/ Watches
<1>1. CASE InitClient
  <2>1. PICK features \in budget.features, fails \in {{}, {"lifecycle"}, {"performance"}},
             reads \in Works, works \in Works : Begin(features, fails, reads, works)
    BY <1>1 DEF InitClient
  <2> QED BY <2>1, BeginActs
<1>2. CASE Destroy \/ Reload \/ Cover \/ Tick \/ SetBack \/ SetHash
  BY <1>2, QuietWatches DEF Destroy, Reload, Cover, Tick, SetBack, SetHash
<1>3. CASE Touch \/ Capture
  BY <1>3, TouchActs, CaptureActs
<1>4. CASE Navigate \/ HashChange
  <2>1. PICK url \in Urls, works \in Works : Listened(url, works)
    BY <1>4, Typed DEF Navigate, HashChange
  <2> QED BY <2>1, ListenedActs
<1>5. CASE \E r \in Requests :
             Fetch(r) \/ Deliver(r) \/ OpenXhr(r) \/ SendXhr(r) \/ FetchSettles(r) \/ XhrEnds(r)
  BY <1>5, QuietWatches, AnswerWatches DEF Fetch, Deliver, OpenXhr, SendXhr, Unobserved
<1>6. CASE \E kind \in {"tasks", "resources"} : Entry(kind)
  BY <1>6, QuietWatches DEF Entry
<1>7. CASE WebVital \/ NavigationTiming \/ LongTask \/ Resource
  BY <1>7, PerformanceWatches
<1> QED BY <1>1, <1>2, <1>3, <1>4, <1>5, <1>6, <1>7 DEF Next

-----------------------------------------------------------------------------
(* The requests that a step captures.                                      *)

\* Only an answer adds to a request's events, and for a subscriber that was
\* there.
LEMMA CapturedIsWitnessed ==
  ASSUME CaptureInv, Next, NEW r \in Requests, request'[r].events > request[r].events
  PROVE  ~request[r].own /\ client.number \in {s.client : s \in request[r].recipients}
<1>1. request \in [Requests -> Sent] /\ request[r] \in Sent /\ request[r].events \in Nat
  BY Typed DEF Sent
<1>2. request # request'
  BY <1>1
<1>3. ~Reload
  <2>1. Reload => request'[r].events = 0
    BY DEF Reload, Unused
  <2> QED BY <1>1, <2>1
<1>4. PICK q \in Requests :
        Fetch(q) \/ Deliver(q) \/ OpenXhr(q) \/ SendXhr(q) \/ FetchSettles(q) \/ XhrEnds(q)
  BY <1>2, <1>3 DEF Next, InitClient, Destroy, Cover, Tick, SetBack, Touch, Capture, Navigate, SetHash,
     HashChange, Entry, WebVital, NavigationTiming, LongTask, Resource
<1>5. ASSUME NEW next, Requested(q, next)
      PROVE  q = r /\ next.events > request[r].events
  BY <1>1, <1>5 DEF Requested
<1>6. ~(Fetch(q) \/ Deliver(q))
  <2>1. ASSUME NEW function, NEW own, Requested(q, Fetched(bridge, function, location, own))
        PROVE  FALSE
    <3>1. Fetched(bridge, function, location, own).events = 0
      BY DEF Fetched, Unused
    <3> QED BY <1>1, <1>5, <2>1, <3>1
  <2> QED BY <2>1 DEF Fetch, Deliver
<1>7. ~OpenXhr(q)
  <2>1. XhrOpened(bridge, request[r]).events = request[r].events
    BY <1>1 DEF XhrOpened, Sent
  <2> QED BY <1>1, <1>5, <2>1 DEF OpenXhr
<1>8. ~SendXhr(q)
  <2>1. XhrSent(bridge, request[r], location).events = request[r].events
    BY <1>1 DEF XhrSent, Sent
  <2> QED BY <1>1, <1>5, <2>1 DEF SendXhr
<1>9. ASSUME NEW captured, captured # <<>> => OfRequest(r) # <<>>,
             Len(captured) # 0
      PROVE  ~request[r].own /\ client.number \in {s.client : s \in request[r].recipients}
  <2>1. captured # <<>>
    BY <1>9
  <2>2. client.number \in Listeners(bridge, request[r]) /\ Wanted(r)
    BY <1>9, <2>1 DEF OfRequest
  <2> QED BY <2>2 DEF Listeners, Wanted
<1>10. CASE FetchSettles(q)
  <2>1. PICK captured : captured = OfRequest(q)
    OBVIOUS
  <2>2. PICK next : next = [request[q] EXCEPT !.pending = @ - 1, !.events = @ + Len(captured)]
    OBVIOUS
  <2>3. Requested(q, next)
    BY <1>10, <2>1, <2>2 DEF FetchSettles
  <2>4. q = r /\ next.events > request[r].events
    BY <1>5, <2>3
  <2>5. next.events = request[r].events + Len(captured)
    BY <1>1, <2>2, <2>4 DEF Sent
  <2>6. Len(captured) # 0
    BY <1>1, <2>4, <2>5
  <2> QED BY <1>9, <2>1, <2>4, <2>6
<1>11. CASE XhrEnds(q)
  <2>1. PICK n : n = Completions(request[q])
    OBVIOUS
  <2>2. PICK captured : captured = Repeat(OfRequest(q), n)
    OBVIOUS
  <2>3. PICK next : next = [request[q] EXCEPT !.phase = "done", !.pending = 0, !.events = @ + Len(captured)]
    OBVIOUS
  <2>4. Requested(q, next) /\ request[q].via = "xhr"
    BY <1>11, <2>1, <2>2, <2>3 DEF XhrEnds
  <2>5. q = r /\ next.events > request[r].events
    BY <1>5, <2>4
  <2>6. next.events = request[r].events + Len(captured)
    BY <1>1, <2>3, <2>5 DEF Sent
  <2>7. Len(captured) # 0
    BY <1>1, <2>5, <2>6
  <2>8. n \in {0, 1} /\ Observes(OfRequest(q))
    BY <2>1, <2>4, OfRequestObserves DEF Completions
  <2>9. captured # <<>> => OfRequest(r) # <<>>
    BY <2>2, <2>5, <2>8, RepeatObserves
  <2> QED BY <1>9, <2>7, <2>9
<1> QED BY <1>4, <1>6, <1>7, <1>8, <1>10, <1>11

-----------------------------------------------------------------------------
(* The client is the last one made, with features that the budget allows.  *)

ClientOK == Alive => client.number = clients /\ client.features \in budget.features

\* ClientOK is preserved by every step.
LEMMA ClientIsKept ==
  ASSUME CaptureInv, ClientOK, [Next]_vars
  PROVE  ClientOK'
<1>1. budget \in Budget
  BY Typed
<1>2. budget'.features = budget.features
  BY <1>1, BudgetIsSpent DEF Next, InitClient, Destroy, Reload, Cover, Tick, SetBack, Touch, Capture,
     Navigate, SetHash, HashChange, Fetch, Deliver, OpenXhr, SendXhr, FetchSettles, XhrEnds, Entry,
     WebVital, NavigationTiming, LongTask, Resource, vars
<1>3. CASE InitClient
  <2>1. PICK features \in budget.features : Begun(features)
    BY <1>3, InitClientKeeps
  <2>2. clients' = clients + 1
    BY <1>3 DEF InitClient, Begin
  <2> QED BY <1>2, <2>1, <2>2 DEF Begun, ClientOK, Alive
<1>4. CASE Destroy \/ Reload
  BY <1>4 DEF Destroy, Reload, ClientOK, Alive
<1>5. CASE clients' = clients /\ client' = client
  BY <1>2, <1>5 DEF ClientOK, Alive
<1>6. CASE clients' = clients /\ Alive /\ client'.number = client.number /\ client'.features = client.features
  BY <1>2, <1>6 DEF ClientOK
<1>7. CASE Touch \/ Capture
  <2>1. clients' = clients /\ Alive
    BY <1>7 DEF Touch, Capture, page
  <2>2. SameClient
    BY <1>7, TouchKeeps, CaptureKeeps
  <2> QED BY <1>6, <2>1, <2>2 DEF SameClient
<1>8. CASE Navigate \/ HashChange
  <2>1. clients' = clients /\ budget'.failures = budget.failures
    BY <1>1, <1>8, BudgetIsSpent DEF Navigate, HashChange
  <2>2. PICK url \in Urls, works \in Works : Listened(url, works)
    BY <1>8, Typed DEF Navigate, HashChange
  <2>3. (Alive => SameClient) /\ (~Alive => client' = client)
    BY <2>1, <2>2, ListenedKeeps
  <2> QED BY <1>5, <1>6, <2>1, <2>3 DEF SameClient
<1>9. CASE NavigationTiming \/ LongTask
  <2>1. clients' = clients /\ Alive /\ client \in Client
    BY <1>9, Typed DEF NavigationTiming, LongTask, Measures, page, Alive
  <2>2. client'.number = client.number /\ client'.features = client.features
    BY <1>9, <2>1 DEF NavigationTiming, LongTask, Client
  <2> QED BY <1>6, <2>1, <2>2
<1>10. CASE \/ Cover \/ Tick \/ SetBack \/ SetHash \/ WebVital \/ Resource \/ UNCHANGED vars
            \/ \E r \in Requests : Fetch(r) \/ Deliver(r) \/ OpenXhr(r) \/ SendXhr(r)
                                   \/ FetchSettles(r) \/ XhrEnds(r)
            \/ \E kind \in {"tasks", "resources"} : Entry(kind)
  <2>1. clients' = clients /\ client' = client
    BY <1>10 DEF Cover, Tick, SetBack, SetHash, WebVital, Resource, Fetch, Deliver, OpenXhr, SendXhr,
       Unobserved, FetchSettles, XhrEnds, Entry, vars, page
  <2> QED BY <1>5, <2>1
<1> QED BY <1>3, <1>4, <1>7, <1>8, <1>9, <1>10 DEF Next

-----------------------------------------------------------------------------
(* The theorems.                                                           *)

\* Every reachable state satisfies CaptureInv and ClientOK.
THEOREM CaptureIsInvariant == Spec => [](CaptureInv /\ ClientOK)
<1>1. Init => CaptureInv /\ ClientOK
  <2>1. Init => ClientOK
    BY DEF Init, ClientOK, Alive
  <2> QED BY <2>1, InitInv
<1>2. CaptureInv /\ ClientOK /\ [Next]_vars => (CaptureInv /\ ClientOK)'
  BY StepKeeps, ClientIsKept
<1> QED BY <1>1, <1>2, PTL DEF Spec

\* The type invariant: above all, subscribers of the bridge and the client of
\* the page agree, and the contexts kept are bounded.
THEOREM CaptureTypeCorrect == Spec => []TypeOK
<1>1. CaptureInv /\ ClientOK => TypeOK
  <2> SUFFICES ASSUME CaptureInv, ClientOK PROVE TypeOK
    OBVIOUS
  <2>1. location \in Urls /\ announced \subseteq Sessions
    BY Typed DEF CaptureInv, TabOK
  <2>2. ASSUME Alive
        PROVE  /\ client.number = clients /\ client.features \in budget.features
               /\ client.life.started = ("lifecycle" \in client.features)
               /\ Len(client.life.contexts) <= MaxContexts
    <3>1. client.number = clients /\ client.features \in budget.features
      BY <2>2 DEF ClientOK
    <3>2. client \in Client /\ client.life.started \in BOOLEAN
      BY <2>2, Typed DEF Alive, Client, Life
    <3>3. client.life.started = ("lifecycle" \in client.features)
      <4>1. ("lifecycle" \in client.features) \in BOOLEAN
        OBVIOUS
      <4>2. client.life.started <=> "lifecycle" \in client.features
        BY <2>2 DEF CaptureInv, LifeOK
      <4>3. PICK has \in BOOLEAN : has = ("lifecycle" \in client.features)
        BY <4>1, Zenon
      <4>4. has <=> "lifecycle" \in client.features
        BY <4>3
      <4>5. client.life.started = has
        BY <3>2, <4>2, <4>4
      <4> QED BY <4>3, <4>5, Zenon
    <3>4. Len(client.life.contexts) <= MaxContexts
      <4>1. CASE client.life.started
        BY <2>2, <4>1 DEF CaptureInv, LifeOK, Lives, Recent
      <4>2. CASE ~client.life.started
        <5>1. client.life.contexts = <<>>
          BY <2>2, <4>2 DEF CaptureInv, LifeOK, NewLife
        <5>2. Len(client.life.contexts) = 0 /\ MaxContexts \in Nat
          BY <5>1, PageSessionAssumption
        <5> QED BY <5>2
      <4> QED BY <4>1, <4>2
    <3> QED BY <3>1, <3>3, <3>4
  <2>3. {s.client : s \in bridge.subscribers} \subseteq {client.number : c \in {c \in {client} : Alive}}
    BY DEF CaptureInv, PatchesOK
  <2>4. \A r \in Requests : request[r].pending \in Nat /\ request[r].events \in Nat
    BY Typed DEF Sent
  <2> QED BY <2>1, <2>2, <2>3, <2>4 DEF TypeOK, Alive
<1> QED BY <1>1, CaptureIsInvariant, PTL

\* The contexts that are kept are those of the pages shown last; the last one
\* is that of the moment.
THEOREM LatestContexts == Spec => []ContextsAreRecent
<1>1. CaptureInv => ContextsAreRecent
  BY DEF CaptureInv, LifeOK, Lives, IsCurrent, Recent, ContextsAreRecent
<1> QED BY <1>1, CaptureIsInvariant, PTL

\* No late observation takes the context of another route than its own.
THEOREM OwnRoute == Spec => []ObservationKeepsItsRoute
<1>1. CaptureInv => ObservationKeepsItsRoute
  BY DEF CaptureInv
<1> QED BY <1>1, CaptureIsInvariant, PTL

\* An XMLHttpRequest is captured once; a fetch too, unless another library
\* wraps it; a resource as well, however many observers it is delivered to.
THEOREM EachOnce == Spec => []CapturedOnce
<1>1. CaptureInv => CapturedOnce
  <2> SUFFICES ASSUME CaptureInv PROVE CapturedOnce
    OBVIOUS
  <2>1. ASSUME NEW r \in Requests, request[r].via = "xhr" \/ ~Covers(bridge.fetch)
        PROVE  request[r].events <= 1
    <3>1. PICK q \in Sent : q = request[r] /\ AnsweredOnce(q, Covers(bridge.fetch))
      BY DEF CaptureInv, CaptureTypes, RequestsOK
    <3>2. q.via \in {"none", "fetch", "xhr"} /\ q.events \in Nat /\ q.pending \in Nat
      BY DEF Sent
    <3>3. CASE q.via = "fetch"
      <4>1. q.events + q.pending <= 1
        BY <2>1, <3>1, <3>3 DEF AnsweredOnce
      <4> QED BY <3>1, <3>2, <4>1
    <3>4. CASE q.via # "fetch"
      BY <3>1, <3>2, <3>4 DEF AnsweredOnce
    <3> QED BY <3>3, <3>4
  <2> QED BY <2>1 DEF CaptureInv, EntriesOK, CapturedOnce
<1> QED BY <1>1, CaptureIsInvariant, PTL

\* A new session is announced before its first event, whichever call found
\* that the old one had expired.
THEOREM Announced == Spec => SessionAnnounced
<1>1. CaptureInv /\ [Next]_vars =>
        [\A i \in DOMAIN events' :
           \/ events'[i].session \in announced \cup {NoSession}
           \/ \E j \in 1..i : events'[j].name = "session_start" /\ events'[j].session = events'[i].session]_vars
  <2> SUFFICES ASSUME CaptureInv, Next, NEW i \in DOMAIN events'
               PROVE  \/ events'[i].session \in announced \cup {NoSession}
                      \/ \E j \in 1..i : /\ events'[j].name = "session_start"
                                         /\ events'[j].session = events'[i].session
    OBVIOUS
  <2>1. CASE Watches
    BY <2>1 DEF Watches
  <2>2. ASSUME NEW base, ActsOn(base)
        PROVE  \/ events'[i].session \in announced
               \/ \E j \in 1..i : /\ events'[j].name = "session_start"
                                  /\ events'[j].session = events'[i].session
    <3>1. CASE Lasts(base, clock)
      BY <2>2, <3>1 DEF ActsOn, Lasts
    <3>2. CASE ~Lasts(base, clock)
      <4>1. events' \in Seq(Captureds) /\ events' # <<>> /\ events'[1].name = "session_start"
        BY <2>2, <3>2 DEF ActsOn
      <4>2. PICK n \in Nat : DOMAIN events' = 1..n
        BY <4>1
      <4>3. 1 \in DOMAIN events' /\ 1 \in 1..i
        BY <4>2
      <4>4. events'[1].session = events'[i].session
        BY <2>2, <4>3 DEF ActsOn
      <4> QED BY <4>1, <4>3, <4>4
    <3> QED BY <3>1, <3>2
  <2> QED BY <2>1, <2>2, StepActs DEF Acts
<1>2. Spec => [][Next]_vars
  BY DEF Spec
<1> QED BY <1>1, <1>2, CaptureIsInvariant, PTL DEF SessionAnnounced

\* A session ends with the first activity after the timeout, and before only if
\* the clock went back or a write to the tab's storage has failed, up to the
\* interval at which the activity is stored.
THEOREM RotationIsDue == Spec => RotationFollowsIdleness
<1>1. CaptureInv /\ [Next]_vars =>
        [active # NoSession /\ active' # active /\ active'.at = clock =>
           /\ Idle >= SessionTimeout => active'.session # active.session
           /\ active'.session # active.session =>
                \/ Idle > SessionTimeout - PersistInterval
                \/ Idle < 0
                \/ budget.failures > 0]_vars
  <2> SUFFICES ASSUME CaptureInv, Next, active # NoSession, active' # active, active'.at = clock
               PROVE  /\ Idle >= SessionTimeout => active'.session # active.session
                      /\ active'.session # active.session =>
                           \/ Idle > SessionTimeout - PersistInterval
                           \/ Idle < 0
                           \/ budget.failures > 0
    OBVIOUS
  <2>1. PICK base : ActsOn(base)
    BY StepActs DEF Watches, Acts
  <2>2. /\ CaptureTypes /\ clock \in Int /\ budget.failures \in Nat
        /\ tab.stored \in Session \cup {NoSession} /\ tab.ids.session \in Nat
    BY DEF CaptureInv, CaptureTypes, Budget
  <2>3. PICK session \in Nat, at \in Int :
          session = active.session /\ at = active.at /\ session <= tab.ids.session
    BY DEF CaptureInv, ActiveOK, Activity
  <2>4. /\ active'.session = IF Lasts(base, clock) THEN base.id ELSE tab.ids.session + 1
        /\ Before(base)
    BY <2>1 DEF ActsOn
  <2>5. Idle = clock - at
    BY <2>3 DEF Idle
  <2>6. SessionTimeout \in Nat /\ PersistInterval \in Nat /\ PersistInterval > 0 /\ SessionTimeout > 0
    BY PageSessionAssumption
  <2>7. Lasts(base, clock) <=> /\ base \in Session
                               /\ ~(base.last > clock \/ clock - base.last >= SessionTimeout)
    BY DEF Lasts, Expired
  <2>8. base \in Session => base.last \in Int /\ base.id \in Nat
    BY DEF Session
  \* The client's own session.
  <2>9. CASE Alive /\ client.life.started /\ base = client.life.session
    <3>1. base \in Session /\ base.id = session /\ base.last = at
      <4>1. active = [session |-> base.id, at |-> base.last] /\ base \in Session
        BY <2>9 DEF CaptureInv, ActiveOK, ActivityIsCurrent, LifeOK, Lives, IsCurrent
      <4> QED BY <2>3, <4>1
    <3>2. CASE Lasts(base, clock)
      <4>1. active'.session = session /\ clock - at < SessionTimeout
        BY <2>2, <2>3, <2>4, <2>6, <2>7, <3>1, <3>2
      <4> QED BY <2>2, <2>3, <2>5, <2>6, <4>1
    <3>3. CASE ~Lasts(base, clock)
      <4>1. active'.session = tab.ids.session + 1 /\ active'.session # session
        BY <2>2, <2>3, <2>4, <3>3
      <4>2. clock - at < 0 \/ clock - at >= SessionTimeout
        BY <2>2, <2>3, <2>7, <3>1, <3>3
      <4>3. clock - at < 0 \/ clock - at > SessionTimeout - PersistInterval
        BY <2>2, <2>3, <2>6, <4>2
      <4> QED BY <2>3, <2>5, <4>1, <4>3
    <3> QED BY <3>2, <3>3
  \* A client that starts.
  <2>10. ASSUME NEW reads \in Works, base = IF reads THEN tab.stored ELSE NoSession
         PROVE  /\ Idle >= SessionTimeout => active'.session # active.session
                /\ active'.session # active.session =>
                     \/ Idle > SessionTimeout - PersistInterval
                     \/ Idle < 0
                     \/ budget.failures > 0
    <3>1. base \in Session => base = tab.stored /\ tab.stored # NoSession
      BY <2>10, PageSessionAssumption
    <3>2. CASE Lasts(base, clock)
      <4>1. base \in Session /\ base = tab.stored /\ active'.session = base.id
        BY <2>4, <3>1, <3>2 DEF Lasts
      <4>2. base.id = session => base.last <= at
        BY <2>3, <3>1, <4>1 DEF CaptureInv, ActiveOK, StoredIsOlder
      <4>3. base.id = session => clock - at < SessionTimeout
        BY <2>2, <2>3, <2>6, <2>7, <2>8, <3>2, <4>1, <4>2
      <4>4. budget.failures = 0 => base.id = session
        BY <2>3, <4>1 DEF CaptureInv, ActiveOK, StoredIsRecent
      <4>5. budget.failures = 0 \/ budget.failures > 0
        BY <2>2
      <4>6. base.id = session => ~(Idle >= SessionTimeout)
        BY <2>2, <2>3, <2>5, <2>6, <4>3
      <4> QED BY <2>3, <4>1, <4>4, <4>5, <4>6
    <3>3. CASE ~Lasts(base, clock)
      <4>1. active'.session # session
        BY <2>2, <2>3, <2>4, <3>3
      <4>2. budget.failures = 0 => /\ base = tab.stored /\ base \in Session
                                    /\ at - base.last < PersistInterval /\ base.last <= at
        <5> SUFFICES ASSUME budget.failures = 0
                     PROVE  /\ base = tab.stored /\ base \in Session
                            /\ at - base.last < PersistInterval /\ base.last <= at
          OBVIOUS
        <5>1. reads
          BY <2>2, <2>10, WritingWorks
        <5>2. /\ tab.stored # NoSession /\ tab.stored.id = session
              /\ at - tab.stored.last < PersistInterval
          BY <2>3 DEF CaptureInv, ActiveOK, StoredIsRecent
        <5>3. tab.stored.last <= at
          BY <2>3, <5>2 DEF CaptureInv, ActiveOK, StoredIsOlder
        <5> QED BY <2>2, <2>10, <5>1, <5>2, <5>3
      <4>3. budget.failures = 0 => clock - at < 0 \/ clock - at > SessionTimeout - PersistInterval
        <5> SUFFICES ASSUME budget.failures = 0
                     PROVE  clock - at < 0 \/ clock - at > SessionTimeout - PersistInterval
          OBVIOUS
        <5>1. PICK last \in Int : last = base.last /\ at - last < PersistInterval /\ last <= at
          BY <2>8, <4>2
        <5>2. last > clock \/ clock - last >= SessionTimeout
          BY <2>7, <3>3, <4>2, <5>1
        <5> QED BY <2>2, <2>3, <2>6, <5>1, <5>2
      <4>4. budget.failures = 0 \/ budget.failures > 0
        BY <2>2
      <4> QED BY <2>2, <2>3, <2>5, <2>6, <4>1, <4>3, <4>4
    <3> QED BY <3>2, <3>3
  <2> QED BY <2>4, <2>9, <2>10 DEF Before
<1>2. Spec => [][Next]_vars
  BY DEF Spec
<1> QED BY <1>1, <1>2, CaptureIsInvariant, PTL DEF RotationFollowsIdleness

\* An event that counts as activity belongs to a session that is not expired.
THEOREM ActivityIsNow == Spec => ActivityIsFresh
<1>1. CaptureInv /\ [Next]_vars =>
        [\A i \in DOMAIN events' :
           events'[i].name \in {"custom", "manual_error", "observed_error", "interaction"}
             /\ events'[i].session # NoSession
           => active'.session = events'[i].session /\ active'.at = clock]_vars
  <2> SUFFICES ASSUME CaptureInv, Next, NEW i \in DOMAIN events',
                      events'[i].name \in {"custom", "manual_error", "observed_error", "interaction"},
                      events'[i].session # NoSession
               PROVE  active'.session = events'[i].session /\ active'.at = clock
    OBVIOUS
  <2>1. ~Watches
    BY DEF Watches, Watched, Captures
  <2>2. PICK base : ActsOn(base)
    BY <2>1, StepActs DEF Acts
  <2> QED BY <2>2 DEF ActsOn
<1>2. Spec => [][Next]_vars
  BY DEF Spec
<1> QED BY <1>1, <1>2, CaptureIsInvariant, PTL DEF ActivityIsFresh

\* A request is captured only by a client that was there when it began, and a
\* delivery never.
THEOREM Witnessed == Spec => OnlyWitnessesCapture
<1>1. CaptureInv /\ [Next]_vars =>
        [\A r \in Requests : request'[r].events > request[r].events =>
           /\ ~request[r].own
           /\ client.number \in {s.client : s \in request[r].recipients}]_vars
  BY CapturedIsWitnessed
<1>2. Spec => [][Next]_vars
  BY DEF Spec
<1> QED BY <1>1, <1>2, CaptureIsInvariant, PTL DEF OnlyWitnessesCapture

\* What another library has wrapped stays so while the page lives.
LEMMA CoversStay ==
  ASSUME CaptureInv, Next, budget'.pages = budget.pages
  PROVE  /\ Covers(bridge.fetch) => Covers(bridge'.fetch)
         /\ Covers(bridge.xhr) => Covers(bridge'.xhr)
         /\ Covers(history) => Covers(history')
<1>1. budget \in Budget
  BY Typed
<1>2. ~(Reload \/ Navigate \/ SetHash)
  BY <1>1, BudgetIsSpent DEF Reload, Navigate, SetHash
<1>3. ASSUME CoversKept
      PROVE  /\ Covers(bridge.fetch) => Covers(bridge'.fetch)
             /\ Covers(bridge.xhr) => Covers(bridge'.xhr)
             /\ Covers(history) => Covers(history')
  BY <1>3 DEF CoversKept, Covers
<1>4. CASE UNCHANGED <<bridge, history>>
  BY <1>4
<1>5. CASE InitClient \/ Destroy
  BY <1>3, <1>5, InitClientKeeps, DestroyKeeps
<1>6. CASE Cover
  BY <1>6, CoverKeeps
<1>7. CASE Resource
  BY <1>3, <1>7, ResourceKeeps
<1>8. CASE Tick \/ SetBack \/ Touch \/ Capture \/ HashChange \/ WebVital \/ NavigationTiming \/ LongTask
  BY <1>4, <1>8 DEF Tick, SetBack, Touch, Capture, HashChange, WebVital, NavigationTiming, LongTask
<1>9. CASE \/ \E r \in Requests : Fetch(r) \/ Deliver(r) \/ OpenXhr(r) \/ SendXhr(r)
                                  \/ FetchSettles(r) \/ XhrEnds(r)
           \/ \E kind \in {"tasks", "resources"} : Entry(kind)
  BY <1>4, <1>9 DEF Fetch, Deliver, OpenXhr, SendXhr, FetchSettles, XhrEnds, Unobserved, Entry
<1> QED BY <1>2, <1>5, <1>6, <1>7, <1>8, <1>9 DEF Next

\* Without a client nothing of the SDK is left in place, and what another
\* library has wrapped around the SDK is never undone.
THEOREM Respectful == Spec => WrappersAreRespected
<1> DEFINE Left == ~Alive => NothingLeft
<1>1. CaptureInv => Left
  BY NothingIsInstalled DEF CaptureInv
<1>2. CaptureInv /\ Left' /\ [Next]_vars =>
        [/\ client' = NoClient =>
              \A patched \in {bridge'.fetch, bridge'.xhr, history'} :
                ~Covers(patched) => patched = Native
         /\ budget'.pages = budget.pages =>
              /\ Covers(bridge.fetch) => Covers(bridge'.fetch)
              /\ Covers(bridge.xhr) => Covers(bridge'.xhr)
              /\ Covers(history) => Covers(history')]_vars
  <2> SUFFICES ASSUME CaptureInv, Left', Next
               PROVE  /\ client' = NoClient =>
                           \A patched \in {bridge'.fetch, bridge'.xhr, history'} :
                             ~Covers(patched) => patched = Native
                      /\ budget'.pages = budget.pages =>
                           /\ Covers(bridge.fetch) => Covers(bridge'.fetch)
                           /\ Covers(bridge.xhr) => Covers(bridge'.xhr)
                           /\ Covers(history) => Covers(history')
    OBVIOUS
  <2>1. client' = NoClient =>
          \A patched \in {bridge'.fetch, bridge'.xhr, history'} : ~Covers(patched) => patched = Native
    BY DEF Alive, NothingLeft, Covers
  <2> QED BY <2>1, CoversStay
<1>3. Spec => [][Next]_vars
  BY DEF Spec
<1> QED BY <1>1, <1>2, <1>3, CaptureIsInvariant, PTL DEF WrappersAreRespected

=============================================================================
