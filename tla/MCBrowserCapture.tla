-------------------------- MODULE MCBrowserCapture --------------------------
(* Model values for BrowserCapture.                                        *)
EXTENDS BrowserCapture

Nothing == [ticks |-> 0, setbacks |-> 0, clients |-> 1, pages |-> 0, covers |-> 0,
            entries |-> 0, requests |-> 0, failures |-> 0, features |-> {}]

\* A visit over time, on storage that works or not; clients that come and go
\* around requests and another library; observers that deliver late.
Visit == {{"lifecycle", "errors"}}
Network == {{"lifecycle", "fetch", "xhr"}}
Observing == {{"lifecycle", "performance", "interactions", "resource"}, {"performance", "resource"}}
MCBudgets ==
  {[Nothing EXCEPT !.features = Visit, !.ticks = 5, !.setbacks = 1, !.clients = 2, !.pages = 2],
   [Nothing EXCEPT !.features = Visit, !.ticks = 4, !.clients = 2, !.pages = 2, !.failures = 1],
   [Nothing EXCEPT !.features = Network, !.clients = 3, !.covers = 1, !.requests = 3],
   [Nothing EXCEPT !.features = Network, !.clients = 1, !.pages = 2, !.requests = 2],
   [Nothing EXCEPT !.features = Observing, !.clients = 2, !.pages = 2, !.entries = 2]}

Alike == Permutations(Urls) \cup Permutations(Requests)
=============================================================================
