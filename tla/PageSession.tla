------------------------------ MODULE PageSession ---------------------------
(* The browser SDK's sessions and pages (packages/browser/src/lifecycle.ts). *)
(*                                                                         *)
(* A session lasts as long as the visitor is active and survives reloads   *)
(* through a record in the tab's sessionStorage, which activity refreshes  *)
(* at most once per PersistInterval.  Each URL the visitor sees is a page. *)
(* The session and page of the moment are the context of every event; the  *)
(* last few are kept by URL for observations that arrive late.             *)
(*                                                                         *)
(* The operators transform what one synchronous call touches:              *)
(*   life    SessionPageLifecycle's fields                                 *)
(*   stored  the record in sessionStorage, or NoSession                    *)
(*   ids     the last session and page id given out                        *)
(*   events  what the call has captured so far, in order                   *)
(*   failed  whether the last write to sessionStorage failed               *)
EXTENDS Integers, Sequences, SequencesExt, Subsequences

CONSTANTS
  SessionTimeout,   \* sessionTimeoutMs
  PersistInterval,  \* ACTIVITY_PERSIST_INTERVAL_MS
  MaxContexts,      \* MAX_PAGE_CONTEXT_HISTORY
  Urls,             \* sanitized URLs of the application
  NoSession,        \* no session, or no valid record of one
  NoPage            \* no page, or a URL without context

Session == [id : Nat, last : Int]
PageOf == [id : Nat, url : Urls]
Context == [url : Urls, session : Nat, page : Nat]
Life == [started : BOOLEAN, session : Session \cup {NoSession}, page : PageOf \cup {NoPage},
         contexts : Seq(Context), persistedAt : Int]

ASSUME PageSessionAssumption ==
  /\ {SessionTimeout, PersistInterval, MaxContexts} \subseteq Nat \ {0}
  /\ NoSession \notin Nat \cup Session /\ NoPage \notin Urls \cup PageOf

\* A lifecycle that was constructed and not started.
NewLife ==
  [started |-> FALSE, session |-> NoSession, page |-> NoPage, contexts |-> <<>>, persistedAt |-> 0]

\* #isExpired: too long inactive, or dated in the future.  A session never
\* starts after its last activity, so its start needs no check of its own.
Expired(session, now) ==
  session.last > now \/ now - session.last >= SessionTimeout

\* #newSession
Opened(call, now) ==
  [call EXCEPT !.ids.session = @ + 1,
               !.life.session = [id |-> call.ids.session + 1, last |-> now]]

\* createPageContext
Shown(call, url) ==
  [call EXCEPT !.ids.page = @ + 1,
               !.life.page = [id |-> call.ids.page + 1, url |-> url]]

ContextOf(life) == [url |-> life.page.url, session |-> life.session.id, page |-> life.page.id]

\* Mutant: Map.set without the delete before it keeps the URL's old place.
AppliedInPlace(call) ==
  LET old == call.life.contexts
      context == ContextOf(call.life)
      contexts == IF \E i \in DOMAIN old : old[i].url = context.url
                  THEN [i \in DOMAIN old |-> IF old[i].url = context.url THEN context ELSE old[i]]
                  ELSE Append(old, context)
      excess == IF Len(contexts) > MaxContexts THEN Len(contexts) - MaxContexts ELSE 0
  IN  [call EXCEPT !.life.contexts = SubSeq(contexts, excess + 1, Len(contexts))]

\* #applyContext: the context becomes the client's, and the newest by its URL.
Applied(call) ==
  LET old == call.life.contexts
      others == Subsequence(old, {i \in DOMAIN old : old[i].url # call.life.page.url})
      contexts == Append(others, ContextOf(call.life))
      excess == IF Len(contexts) > MaxContexts THEN Len(contexts) - MaxContexts ELSE 0
  IN  [call EXCEPT !.life.contexts = SubSeq(contexts, excess + 1, Len(contexts))]

\* #persistSession: throttled unless forced; a failed write is tried again by
\* the next call.
Persisted(call, now, force, works) ==
  IF ~force /\ now - call.life.persistedAt < PersistInterval THEN call
  ELSE IF works
  THEN [call EXCEPT !.stored = call.life.session, !.life.persistedAt = now, !.failed = FALSE]
  ELSE [call EXCEPT !.failed = TRUE]

\* An event with the client's context.
Event(name, life) ==
  [name |-> name,
   session |-> IF life.session = NoSession THEN NoSession ELSE life.session.id,
   url |-> IF life.page = NoPage THEN NoPage ELSE life.page.url,
   page |-> IF life.page = NoPage THEN NoPage ELSE life.page.id,
   route |-> NoPage]

Captured(call, name) == [call EXCEPT !.events = Append(@, Event(name, call.life))]

\* Mutant: a rotation that activity finds does not announce its session.
RotatedQuietly(call, now, url, works) ==
  Captured(Persisted(Applied(Shown(Opened(call, now), url)), now, TRUE, works), "page_view")

\* touch, when the session has expired: a new session and a new page.
Rotated(call, now, url, works) ==
  LET stored == Persisted(Applied(Shown(Opened(call, now), url)), now, TRUE, works)
  IN  Captured(Captured(stored, "session_start"), "page_view")

\* touch
Touched(call, now, url, works) ==
  IF ~call.life.started THEN call
  ELSE IF Expired(call.life.session, now) THEN Rotated(call, now, url, works)
  ELSE Persisted([call EXCEPT !.life.session.last = now], now, FALSE, works)

\* Mutant: a route change does not look at the session's expiry.
NavigatedOn(call, now, url, works) ==
  IF ~call.life.started THEN call
  ELSE IF url = call.life.page.url THEN Touched(call, now, url, works)
  ELSE LET active == [call EXCEPT !.life.session.last = now]
       IN  Captured(Persisted(Applied(Shown(active, url)), now, TRUE, works), "page_route_change")

\* #handleNavigation: the location may have changed; a new URL is a new page,
\* in a new session if the old one had expired.
Navigated(call, now, url, works) ==
  IF ~call.life.started THEN call
  ELSE IF url = call.life.page.url THEN Touched(call, now, url, works)
  ELSE LET expired == Expired(call.life.session, now)
           active == IF expired THEN Opened(call, now)
                     ELSE [call EXCEPT !.life.session.last = now]
           shown == Persisted(Applied(Shown(active, url)), now, TRUE, works)
       IN  Captured(IF expired THEN Captured(shown, "session_start") ELSE shown,
                    "page_route_change")

\* start: continues the stored session if it can be read and has not expired.
Started(call, now, url, reads, works) ==
  LET continued == reads /\ call.stored # NoSession /\ ~Expired(call.stored, now)
      begun == IF continued
               THEN [call EXCEPT !.life.session = [call.stored EXCEPT !.last = now]]
               ELSE Opened(call, now)
      shown == Persisted(Applied(Shown(begun, url)), now, TRUE, works)
      announced == IF continued THEN shown ELSE Captured(shown, "session_start")
  IN  Captured([announced EXCEPT !.life.started = TRUE], "page_view")

\* contextForNavigationUrl: the last context of a URL, if it is still known.
Known(life, url) == {i \in DOMAIN life.contexts : life.contexts[i].url = url}
ContextFor(life, url) == life.contexts[CHOOSE i \in Known(life, url) : TRUE]
=============================================================================
