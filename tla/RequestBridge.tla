----------------------------- MODULE RequestBridge --------------------------
(* The instrumentation shared by the clients of a page                     *)
(* (packages/browser/src/network-runtime.ts).                              *)
(*                                                                         *)
(* A patched function is the sequence of the wrappers around the native    *)
(* one, innermost first: the number of the installation for one of the     *)
(* bridge's, Foreign for another library's.  Whoever took a reference      *)
(* keeps the whole sequence.  own is what the bridge may restore.          *)
EXTENDS Integers, Sequences, SequencesExt, FiniteSets

CONSTANT Foreign   \* another library's wrapper

Captures == {"fetch", "xhr", "resource"}
NotInstalled == <<>>
Native == [top |-> <<>>, own |-> NotInstalled]

\* The number of the bridge's wrappers that a call passes.
Wrappers(function) == Cardinality({i \in DOMAIN function : function[i] # Foreign})

\* #installFetch, #installXhr: once, until the next stop.
Installed(patched, n) ==
  IF patched.own # NotInstalled THEN patched
  ELSE [top |-> Append(patched.top, n), own |-> Append(patched.top, n)]

\* Mutant: the wrapper is not compared before the original is put back.
Clobbered(patched) ==
  [top |-> IF patched.own = NotInstalled THEN patched.top ELSE Front(patched.own),
   own |-> NotInstalled]

\* #stopFetch, #stopXhr: put back only if nobody has wrapped it since.
Restored(patched) ==
  [top |-> IF patched.own # NotInstalled /\ patched.top = patched.own
           THEN Front(patched.top) ELSE patched.top,
   own |-> NotInstalled]

Covered(patched) == [patched EXCEPT !.top = Append(@, Foreign)]

\* A bridge: the subscribers, [client, captures], the two patched functions,
\* whether resources are observed, the entries that the observer has delivered
\* and those seen by any observer.
NewBridge ==
  [subscribers |-> {}, fetch |-> Native, xhr |-> Native,
   observing |-> FALSE, cursor |-> 0, seen |-> 0]

\* #syncInstrumentation
Synced(bridge, n) ==
  LET wanted == UNION {s.captures : s \in bridge.subscribers}
  IN  [bridge EXCEPT
        !.fetch = IF "fetch" \in wanted THEN Installed(@, n) ELSE Restored(@),
        !.xhr = IF "xhr" \in wanted THEN Installed(@, n) ELSE Restored(@),
        !.cursor = IF bridge.observing THEN @ ELSE 0,
        !.observing = "resource" \in wanted]

Subscribed(bridge, client, captures) ==
  Synced([bridge EXCEPT !.subscribers = @ \cup {[client |-> client, captures |-> captures]}], client)

Unsubscribed(bridge, client) ==
  Synced([bridge EXCEPT !.subscribers = {s \in @ : s.client # client}], client)

\* A request, as far as the bridge has observed it.
Unused ==
  [via |-> "none", phase |-> "new", known |-> FALSE, route |-> "none",
   recipients |-> {}, pending |-> 0, own |-> FALSE, events |-> 0]

\* The wrapped fetch: each wrapper notes the page and the subscribers, calls
\* the next one and will be called back.
Fetched(bridge, function, route, own) ==
  [Unused EXCEPT !.via = "fetch", !.phase = "sent", !.known = TRUE, !.route = route,
                 !.recipients = bridge.subscribers, !.pending = Wrappers(function), !.own = own]

\* wrappedOpen: remembered by whichever wrapper is in place.
XhrOpened(bridge, request) ==
  [request EXCEPT !.via = "xhr", !.phase = "opened",
                  !.known = @ \/ Wrappers(bridge.xhr.top) > 0]

\* wrappedSend: each wrapper replaces what is pending and adds a listener.
XhrSent(bridge, request, route) ==
  LET layers == Wrappers(bridge.xhr.top)
  IN  IF ~request.known \/ layers = 0 THEN [request EXCEPT !.phase = "sent"]
      ELSE [request EXCEPT !.phase = "sent", !.route = route,
                           !.recipients = bridge.subscribers, !.pending = @ + layers]

\* Mutant: the observations of one fetch go to whoever subscribes now.
ListenersNow(bridge, request) ==
  {s.client : s \in {s \in bridge.subscribers : request.via \in s.captures}}

\* #dispatch: to those who were there when the request began and still are.
Listeners(bridge, request) ==
  {s.client : s \in {s \in bridge.subscribers \cap request.recipients : request.via \in s.captures}}

\* Mutant: a completion leaves the entry of #pendingXhrs.
XhrCompletions(request) == request.pending

\* #completeXhr: every listener runs, the first takes what is pending.
Completions(request) == IF request.pending > 0 THEN 1 ELSE 0

\* #captureResource: a new observer delivers the buffered entries again.
Fresh(bridge) == bridge.cursor + 1 > bridge.seen
Observed(bridge) ==
  [bridge EXCEPT !.cursor = @ + 1, !.seen = IF @ < bridge.cursor + 1 THEN bridge.cursor + 1 ELSE @]
=============================================================================
