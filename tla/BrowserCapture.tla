---------------------------- MODULE BrowserCapture --------------------------
(* What the browser SDK captures on a tab: clients that come and go        *)
(* (packages/browser/src/index.ts) over PageSession and RequestBridge,     *)
(* with the captures of errors, interactions, performance and network.     *)
(*                                                                         *)
(* Everything runs on one thread; an action is one task.  Interleaved are  *)
(* the application's calls, navigations, reloads, timers, requests that    *)
(* are under way and observers that deliver late.  events holds what the   *)
(* last step captured.                                                     *)
EXTENDS PageSession, RequestBridge

CONSTANTS
  Requests,         \* the requests made on a page
  Budgets,          \* bounds of a behaviour, one of which is chosen: how many
                    \* [ticks, setbacks, clients, pages, covers, entries, requests],
                    \* whether sessionStorage may throw (failures), and the sets
                    \* of features a client may be configured with (features)
  NoClient

Features == {"lifecycle", "errors", "interactions", "performance"} \cup Captures
Client == [number : Nat, features : SUBSET Features, life : Life, transport : Seq(Nat \cup {Foreign}),
           timing : BOOLEAN, tasks : Nat]

Budget == [ticks : Nat, setbacks : Nat, clients : Nat, pages : Nat, covers : Nat, entries : Nat,
           requests : Nat, failures : Nat, features : SUBSET SUBSET Features]
Activity == [session : Nat, at : Int]

ASSUME BrowserCaptureAssumption ==
  /\ Budgets \subseteq Budget
  /\ Foreign \notin Nat
  /\ NoClient \notin Client /\ NoSession \notin Activity

VARIABLES
  budget,      \* the budget that was chosen, as far as it is not used up
  clock,
  location,    \* window.location, sanitized
  hashChanged, \* the location's hash changed, hashchange was not dispatched yet
  tab,         \* [stored, ids, failed]: what survives a reload, see PageSession
  client,      \* [number, features, life, transport, timing, tasks]
  clients,     \* clients made on this page
  transports,  \* the fetch functions of the destroyed ones' transports
  bridge,
  history,     \* history.pushState and replaceState, patched
  request,
  entries,     \* [tasks, resources]: performance entries of the page; captured:
               \* the events made of the resources
  events,
  active,      \* the session and the time of the tab's last activity
  announced    \* the sessions whose session_start was captured

page == <<location, hashChanged, clients, transports, entries>>
vars == <<budget, clock, tab, client, bridge, history, request, events, active, announced, page>>

Works == IF budget.failures > 0 THEN BOOLEAN ELSE {TRUE}
Alive == client # NoClient
Spend(what) == budget[what] > 0 /\ budget' = [budget EXCEPT ![what] = @ - 1]

-----------------------------------------------------------------------------
(* Calls into the lifecycle and the core.                                  *)

Call(life) == [life |-> life, stored |-> tab.stored, ids |-> tab.ids,
               events |-> <<>>, failed |-> tab.failed]

Announcements(captured) == {e.session : e \in {e \in ToSet(captured) : e.name = "session_start"}}

\* What a call has captured; of no interest to a later step.
Emit(captured) ==
  /\ events' = captured
  /\ announced' = announced \cup Announcements(captured)

\* A call that counts as activity.
Became(call) ==
  /\ tab' = [stored |-> call.stored, ids |-> call.ids, failed |-> call.failed]
  /\ active' = IF call.life.started THEN [session |-> call.life.session.id, at |-> clock] ELSE active
  /\ Emit(call.events)

Quiet == Emit(<<>>) /\ UNCHANGED <<tab, active>>

\* Mutant: the page of the moment, whatever the observation is of.
ContextNow(name, life, route) == [Event(name, life) EXCEPT !.route = route]

\* The captures of performance and network: the context of the observation's
\* URL, and nothing if that is not known.
Observation(name, life, route) ==
  IF "lifecycle" \notin client.features THEN [Event(name, life) EXCEPT !.route = route]
  ELSE LET context == ContextFor(life, route)
       IN  [name |-> name, session |-> context.session, url |-> context.url,
            page |-> context.page, route |-> route]

Observations(name, route) ==
  IF "lifecycle" \in client.features /\ Known(client.life, route) = {} THEN <<>>
  ELSE <<Observation(name, client.life, route)>>

-----------------------------------------------------------------------------
(* Clients.                                                                *)

\* stop of the patched history functions, of the subscription and the rest.
Destroyed ==
  [bridge |-> IF Alive THEN Unsubscribed(bridge, client.number) ELSE bridge,
   history |-> IF Alive /\ client.life.started THEN Restored(history) ELSE history,
   transports |-> IF Alive THEN transports \cup {client.transport} ELSE transports]

\* init: the previous client is destroyed; the constructor starts the captures
\* one after the other and stops them all if one throws, as lifecycle (no
\* source of ids) and performance (an observer that is refused) may.
Begin(features, fails, reads, works) ==
  LET number == clients + 1
      life == "lifecycle" \in features
      started == IF life THEN Started(Call(NewLife), clock, location, reads, works) ELSE Call(NewLife)
      failed == fails \cap features # {}
  IN  /\ clients' = number
      /\ transports' = Destroyed.transports
                         \cup {t \in {Destroyed.bridge.fetch.top} : failed}
      /\ IF "lifecycle" \in fails /\ life THEN Quiet
         ELSE IF life THEN Became(started) ELSE Quiet
      /\ IF failed
         THEN /\ client' = NoClient
              /\ bridge' = Destroyed.bridge
              /\ history' = Destroyed.history
         ELSE /\ client' = [number |-> number, features |-> features, life |-> started.life,
                            transport |-> Destroyed.bridge.fetch.top,
                            timing |-> "performance" \in features, tasks |-> 0]
              /\ bridge' = IF features \cap Captures = {} THEN Destroyed.bridge
                           ELSE Subscribed(Destroyed.bridge, number, features \cap Captures)
              /\ history' = IF life THEN Installed(Destroyed.history, number) ELSE Destroyed.history

InitClient ==
  /\ Spend("clients")
  /\ \E features \in budget.features, fails \in {{}, {"lifecycle"}, {"performance"}},
        reads \in Works, works \in Works : Begin(features, fails, reads, works)
  /\ UNCHANGED <<clock, location, hashChanged, request, entries>>

Destroy ==
  /\ Alive
  /\ client' = NoClient
  /\ bridge' = Destroyed.bridge
  /\ history' = Destroyed.history
  /\ transports' = Destroyed.transports
  /\ Quiet
  /\ UNCHANGED <<budget, clock, location, hashChanged, clients, request, entries>>

\* A new document in the tab: only sessionStorage survives.
Reload ==
  /\ Spend("pages")
  /\ location' \in Urls
  /\ client' = NoClient
  /\ bridge' = NewBridge
  /\ history' = Native
  /\ request' = [r \in Requests |-> Unused]
  /\ hashChanged' = FALSE /\ clients' = 0 /\ transports' = {}
  /\ entries' = [tasks |-> 0, resources |-> 0, captured |-> 0]
  /\ Quiet
  /\ UNCHANGED clock

\* Another library wraps fetch, XMLHttpRequest and the history functions.
Cover ==
  /\ Spend("covers")
  /\ bridge' = [bridge EXCEPT !.fetch = Covered(@), !.xhr = Covered(@)]
  /\ history' = Covered(history)
  /\ Quiet
  /\ UNCHANGED <<clock, client, request, page>>

-----------------------------------------------------------------------------
(* Activity and navigation.                                                *)

Tick == Spend("ticks") /\ clock' = clock + 1 /\ Quiet
        /\ UNCHANGED <<client, bridge, history, request, page>>

SetBack == Spend("setbacks") /\ clock' = clock - 1 /\ Quiet
           /\ UNCHANGED <<client, bridge, history, request, page>>

\* A call that changes only the lifecycle and what it captures.
Lived(call) ==
  /\ client' = [client EXCEPT !.life = call.life]
  /\ Became(call)

\* Pointer, keyboard, scroll and visibility events.
Touch ==
  /\ Alive /\ client.life.started
  /\ \E works \in Works : Lived(Touched(Call(client.life), clock, location, works))
  /\ UNCHANGED <<budget, clock, bridge, history, request, page>>

\* The events that count as activity: track and captureException are always
\* there, observers where they are configured.
Manual == {"custom", "manual_error"}
ObservedErrors == {n \in {"observed_error"} : "errors" \in client.features}
Interactions == {n \in {"interaction"} : "interactions" \in client.features}
ActiveNames == Manual \cup ObservedErrors \cup Interactions

\* Mutant: the event is captured before the activity is noted.
CaptureThenTouch ==
  /\ Alive
  /\ \E works \in Works, name \in ActiveNames :
       LET touched == Touched(Call(client.life), clock, location, works)
       IN  Lived([touched EXCEPT !.events = <<Event(name, client.life)>> \o @])
  /\ UNCHANGED <<budget, clock, bridge, history, request, page>>

\* track, captureException, an error or an interaction that was observed:
\* touch, then capture.
Capture ==
  /\ Alive
  /\ \E works \in Works, name \in ActiveNames :
       Lived(Captured(Touched(Call(client.life), clock, location, works), name))
  /\ UNCHANGED <<budget, clock, bridge, history, request, page>>

\* The listener that the client added to the history functions and to window.
\* A wrapper of a destroyed client still calls one that does nothing.
Listened(url, works) ==
  IF Alive /\ client.life.started
  THEN Lived(Navigated(Call(client.life), clock, url, works))
  ELSE Quiet /\ UNCHANGED client

\* pushState, replaceState or a traversal, which changes the location and
\* runs the listeners in one task.
Navigate ==
  /\ Spend("pages")
  /\ location' \in Urls
  /\ \E works \in Works : Listened(location', works)
  /\ UNCHANGED <<clock, hashChanged, clients, transports, entries, bridge, history, request>>

\* location.hash = ...: the listeners run in a later task.
SetHash ==
  /\ Spend("pages")
  /\ location' \in Urls \ {location}
  /\ hashChanged' = TRUE
  /\ Quiet
  /\ UNCHANGED <<clock, client, clients, transports, entries, bridge, history, request>>

HashChange ==
  /\ hashChanged /\ hashChanged' = FALSE
  /\ \E works \in Works : Listened(location, works)
  /\ UNCHANGED <<budget, clock, location, clients, transports, entries, bridge, history, request>>

-----------------------------------------------------------------------------
(* Requests.                                                               *)

Unobserved == /\ UNCHANGED <<client, bridge, history, page, clock>>
              /\ Quiet
Requested(r, next) == request' = [request EXCEPT ![r] = next]

\* The application calls fetch.
Fetch(r) ==
  /\ request[r].phase = "new" /\ Spend("requests")
  /\ Requested(r, Fetched(bridge, bridge.fetch.top, location, FALSE))
  /\ Unobserved

\* A client delivers through the fetch that it found when it was made; a
\* destroyed one may still have a flush to follow up.
Deliver(r) ==
  /\ request[r].phase = "new" /\ Spend("requests")
  /\ \E function \in transports \cup {client.transport : c \in {c \in {client} : Alive}} :
       Requested(r, Fetched(bridge, function, location, TRUE))
  /\ Unobserved

OpenXhr(r) ==
  /\ request[r].via \in {"none", "xhr"} /\ request[r].phase \in {"new", "sent"} /\ Spend("requests")
  /\ Requested(r, XhrOpened(bridge, request[r]))
  /\ Unobserved

SendXhr(r) ==
  /\ request[r].phase = "opened" /\ request[r].via = "xhr"
  /\ Requested(r, XhrSent(bridge, request[r], location))
  /\ Unobserved /\ UNCHANGED budget

\* BrowserNetworkCapture: the ingestion URL is left out.
Wanted(r) == ~request[r].own

\* What the current client captures of one observation of r.
OfRequest(r) ==
  IF Alive /\ client.number \in Listeners(bridge, request[r]) /\ Wanted(r)
  THEN Observations(request[r].via, request[r].route) ELSE <<>>

Repeat(captured, n) ==
  [i \in 1..(n * Len(captured)) |-> captured[((i - 1) % Len(captured)) + 1]]

\* A response, a rejection or a synchronous throw, as one of the wrappers
\* observes it; wrappers of the same fetch observe it in different microtasks.
FetchSettles(r) ==
  /\ request[r].via = "fetch" /\ request[r].phase = "sent" /\ request[r].pending > 0
  /\ LET captured == OfRequest(r)
     IN  /\ Requested(r, [request[r] EXCEPT !.pending = @ - 1, !.events = @ + Len(captured)])
         /\ Emit(captured)
  /\ UNCHANGED <<budget, clock, tab, client, bridge, history, active, page>>

\* loadend, after a load, an error, a timeout or an abort: all listeners run.
XhrEnds(r) ==
  /\ request[r].via = "xhr" /\ request[r].phase = "sent"
  /\ LET captured == Repeat(OfRequest(r), Completions(request[r]))
     IN  /\ Requested(r, [request[r] EXCEPT !.phase = "done", !.pending = 0,
                                            !.events = @ + Len(captured)])
         /\ Emit(captured)
  /\ UNCHANGED <<budget, clock, tab, client, bridge, history, active, page>>

-----------------------------------------------------------------------------
(* Performance.                                                            *)

Measures == Alive /\ "performance" \in client.features

\* The browser buffers a long task, or a resource that is no request.
Entry(kind) ==
  /\ Spend("entries")
  /\ entries' = [entries EXCEPT ![kind] = @ + 1]
  /\ Quiet
  /\ UNCHANGED <<clock, client, bridge, history, request, location, hashChanged, clients, transports>>

\* web-vitals reports a metric of a URL that the page has shown, to the
\* subscribers of the bridge that registered once.
WebVital ==
  /\ Measures
  /\ \E url \in Urls : Emit(Observations("web_vital", url))
  /\ UNCHANGED <<budget, clock, tab, client, bridge, history, request, active, page>>

\* The timer that a client starts: the navigation entry names a URL of the
\* document, which the client may never have seen.
NavigationTiming ==
  /\ Measures /\ client.timing
  /\ client' = [client EXCEPT !.timing = FALSE]
  /\ \E url \in Urls : Emit(Observations("navigation", url))
  /\ UNCHANGED <<budget, clock, tab, bridge, history, request, active, page>>

\* A client's observer begins with the buffered tasks; a task counts as one
\* of the page at which it is delivered.
LongTask ==
  /\ Measures /\ client.tasks < entries.tasks
  /\ client' = [client EXCEPT !.tasks = @ + 1]
  /\ Emit(Observations("long_task", location))
  /\ UNCHANGED <<budget, clock, tab, bridge, history, request, active, page>>

\* The bridge's observer delivers a resource, likewise.
Resource ==
  /\ bridge.observing /\ bridge.cursor < entries.resources
  /\ bridge' = Observed(bridge)
  /\ LET captured == IF Fresh(bridge) THEN Observations("resource", location) ELSE <<>>
     IN  /\ Emit(captured)
         /\ entries' = [entries EXCEPT !.captured = @ + Len(captured)]
  /\ UNCHANGED <<budget, clock, tab, client, history, request, active,
                 location, hashChanged, clients, transports>>

-----------------------------------------------------------------------------
Init ==
  /\ budget \in Budgets
  /\ clock = PersistInterval   \* long after the zero of #lastPersistedAt
  /\ location \in Urls
  /\ hashChanged = FALSE
  /\ tab = [stored |-> NoSession, ids |-> [session |-> 0, page |-> 0], failed |-> FALSE]
  /\ client = NoClient /\ clients = 0 /\ transports = {}
  /\ bridge = NewBridge
  /\ history = Native
  /\ request = [r \in Requests |-> Unused]
  /\ entries = [tasks |-> 0, resources |-> 0, captured |-> 0]
  /\ events = <<>> /\ announced = {}
  /\ active = NoSession

Next ==
  \/ InitClient \/ Destroy \/ Reload \/ Cover
  \/ Tick \/ SetBack \/ Touch \/ Capture
  \/ Navigate \/ SetHash \/ HashChange
  \/ \E r \in Requests :
       Fetch(r) \/ Deliver(r) \/ OpenXhr(r) \/ SendXhr(r) \/ FetchSettles(r) \/ XhrEnds(r)
  \/ \E kind \in {"tasks", "resources"} : Entry(kind)
  \/ WebVital \/ NavigationTiming \/ LongTask \/ Resource

Spec == Init /\ [][Next]_vars

-----------------------------------------------------------------------------
(* Properties.                                                             *)

Sessions == 0..tab.ids.session

TypeOK ==
  /\ location \in Urls
  /\ announced \subseteq Sessions
  /\ client # NoClient =>
       /\ client.number = clients
       /\ client.features \in budget.features
       /\ client.life.started = ("lifecycle" \in client.features)
       /\ Len(client.life.contexts) <= MaxContexts
  /\ {s.client : s \in bridge.subscribers} \subseteq {client.number : c \in {c \in {client} : Alive}}
  /\ \A r \in Requests : request[r].pending \in Nat /\ request[r].events \in Nat

\* ADR-036: a new session emits session_start before the first event of it,
\* whichever call found that the old one had expired.
SessionAnnounced ==
  [][\A i \in DOMAIN events' :
       \/ events'[i].session \in announced \cup {NoSession}
       \/ \E j \in 1..i : events'[j].name = "session_start" /\ events'[j].session = events'[i].session]_vars

\* ADR-036: a session ends with the first activity after the timeout, and
\* before only if the clock went back.  A reload reads the stored activity,
\* which is older than the last one by less than a persist interval if
\* writing it has worked.
Idle == clock - active.at
RotationFollowsIdleness ==
  [][active # NoSession /\ active' # active /\ active'.at = clock =>
       /\ Idle >= SessionTimeout => active'.session # active.session
       /\ active'.session # active.session =>
            \/ Idle > SessionTimeout - PersistInterval
            \/ Idle < 0
            \/ budget.failures > 0]_vars

\* The contexts that are kept are those of the pages shown last, so that the
\* one evicted is the least recent; the last is the context of the moment.
ContextsAreRecent ==
  Alive /\ client.life.started =>
    LET contexts == client.life.contexts
    IN  /\ Last(contexts) = ContextOf(client.life)
        /\ \A i, j \in DOMAIN contexts : i < j =>
             contexts[i].page < contexts[j].page /\ contexts[i].url # contexts[j].url

\* An event that counts as activity belongs to a session that is not expired.
ActivityIsFresh ==
  [][\A i \in DOMAIN events' :
       events'[i].name \in {"custom", "manual_error", "observed_error", "interaction"}
         /\ events'[i].session # NoSession
       => active'.session = events'[i].session /\ active'.at = clock]_vars

\* ADR-038, ADR-039: a late observation never takes the context of another
\* route than its own; it is dropped instead.
ObservationKeepsItsRoute ==
  \A i \in DOMAIN events : events[i].route # NoPage /\ events[i].url # NoPage
    => events[i].url = events[i].route

\* A request is captured only by a client that was there when it began, not by
\* the next one, although a wrapper may outlive them both; and ADR-039: a
\* delivery is not captured, also when it passes such a wrapper.
OnlyWitnessesCapture ==
  [][\A r \in Requests : request'[r].events > request[r].events =>
       /\ ~request[r].own
       /\ client.number \in {s.client : s \in request[r].recipients}]_vars

\* Whether another library has wrapped a function of this page.
Covers(patched) == \E i \in DOMAIN patched.top : patched.top[i] = Foreign

\* An XMLHttpRequest is captured at most once, however often it is opened
\* again and whoever wraps what; a fetch, unless another library wraps it; a
\* resource, however many observers it is delivered to.
CapturedOnce ==
  /\ \A r \in Requests :
       request[r].via = "xhr" \/ ~Covers(bridge.fetch) => request[r].events <= 1
  /\ entries.captured <= bridge.seen

\* ADR-036, ADR-039: without a client nothing of the SDK is left in place, and
\* what another library has wrapped around the SDK is never undone.
WrappersAreRespected ==
  [][/\ client' = NoClient =>
          \A patched \in {bridge'.fetch, bridge'.xhr, history'} :
            ~Covers(patched) => patched = Native
     /\ budget'.pages = budget.pages =>
          /\ Covers(bridge.fetch) => Covers(bridge'.fetch)
          /\ Covers(bridge.xhr) => Covers(bridge'.xhr)
          /\ Covers(history) => Covers(history')]_vars

-----------------------------------------------------------------------------
(* What the documentation says and the code does not keep.                 *)

\* ADR-039: patching on every init is rejected "because reinitialization would
\* stack wrappers, duplicate events".
FetchCapturedOnce == \A r \in Requests : request[r].events <= 1
=============================================================================
