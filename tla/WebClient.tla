----------------------------- MODULE WebClient ------------------------------
(***************************************************************************)
(* One tab of the dashboard (dm-web/templates/js) against the web server   *)
(* of run_serve (dm-web server.rs, auth.rs).  The page asks for a login if *)
(* a password is set; once shown, it loads a page of the history and opens *)
(* a socket on which the server sends each event after the process task    *)
(* has stored it.  A socket that closes is opened anew by a timer.         *)
(*                                                                         *)
(* Rows are numbered in the order they are stored; their timestamps may be *)
(* in another order.  The tab keeps its filters, which the server applies  *)
(* to the pages of the history and not to what it sends on the socket.     *)
(* What count and query see apart is in EventStore, what a failed insert   *)
(* does in EventPipeline.                                                  *)
(***************************************************************************)
EXTENDS Integers, Sequences, FiniteSets, FiniteSetsExt

CONSTANTS PerPage,     \* rows of a page of the history
          Capacity,    \* of the broadcast channel to the sockets
          Stamp,       \* the timestamp of each row
          Matching,    \* the rows that match the tab's filters
          FirstRows,   \* rows that are in the database before the server starts
          MaxRows,     \* bound
          MaxShows,    \* bound on how often the main page is shown
          MaxLoads,    \* bound on the loads under way
          MaxTroubles  \* bound on the deaths of the server, connections that
                       \* break, tokens that expire, passwords set or removed
                       \* and logouts together

ASSUME WebAssumption ==
  /\ PerPage \in Nat \ {0} /\ Capacity \in Nat \ {0}
  /\ {MaxRows, MaxShows, MaxLoads, MaxTroubles} \subseteq Nat
  /\ FirstRows \in 0..MaxRows
  /\ Stamp \in [1..MaxRows -> Nat]
  /\ \A r, s \in 1..MaxRows : Stamp[r] = Stamp[s] => r = s
  /\ Matching \subseteq 1..MaxRows

VARIABLES up,       \* the server runs
          password, \* one is set in the configuration
          tokens,   \* the tokens it has issued and not forgotten: "fresh" or "expired"
          stored,   \* rows in the database
          sent,     \* the rows up to this one were sent to the sockets
          page,     \* what the tab shows: "start", "verify", "login" or "main"
          token,    \* the tab's token, also in localStorage; 0: none
          authRequired, \* the server has said that a password is set
          socks,    \* the sockets not yet closed, and what each has to receive
          ws,       \* the one created last, 0 once it is closed
          timers,   \* the reconnect timers that run
          timer,    \* reconnectTimer: the one set last
          loads,    \* the requests for a page under way
          view,     \* events and liveEvents, current page, number of pages
          troubles, shows, issued, \* counted for the bounds
          exact     \* history: see ViewExact

server == <<up, tokens, stored, sent>>
lines == <<socks, ws, timers, timer>>
bounds == <<troubles, shows, issued>>
tab == <<page, token, authRequired>>
vars == <<server, password, tab, lines, loads, view, bounds, exact>>

Token == 1..(MaxShows + 1)
Slot == 1..(MaxShows + 1)  \* names for sockets and timers, used again
Free(used) == Min(Slot \ used)

\* a socket is connecting, accepted, open or closing (on its way to onclose);
\* subscribed once the server's task for it has a receiver
Sock(state, t) == [state |-> state, subscribed |-> FALSE, queue |-> <<>>, token |-> t]
OpenSockets == {i \in DOMAIN socks : socks[i].state = "open"}

NewView == [events |-> {}, live |-> <<>>, page |-> 1, pages |-> 1]
Unknown == [on |-> FALSE, upto |-> 0]

Init ==
  /\ up = TRUE /\ password \in BOOLEAN
  /\ stored = FirstRows /\ sent = FirstRows
  /\ page = "start" /\ authRequired = FALSE
  /\ token \in {0, 1}  \* of an earlier visit, in localStorage
  /\ tokens = [t \in {token} \ {0} |-> "fresh"]
  /\ socks = <<>> /\ ws = 0 /\ timers = {} /\ timer = 0
  /\ loads = {} /\ view = NewView
  /\ troubles = 0 /\ shows = 0 /\ issued = token
  /\ exact = Unknown

\* check_auth, and the same check in ws_handler: an expired token is refused
\* whether or not the cleanup task has removed it
Accepted(t) == ~password \/ (t \in DOMAIN tokens /\ tokens[t] = "fresh")

Disturbed == {[l EXCEPT !.alone = FALSE] : l \in loads}

Trouble == troubles < MaxTroubles /\ troubles' = troubles + 1

-----------------------------------------------------------------------------
(* The server *)

Store ==
  /\ up /\ sent = stored /\ stored < MaxRows
  /\ stored' = stored + 1
  /\ loads' = Disturbed
  /\ UNCHANGED <<up, tokens, sent, password, tab, lines, view, bounds, exact>>

\* the newest Capacity rows of a receiver's backlog: Lagged skips the others
Kept(queue) == SubSeq(queue, Max({1, Len(queue) - Capacity + 1}), Len(queue))

\* event_tx.send: each subscribed socket's receiver has one more row to send
Publish ==
  /\ up /\ sent < stored
  /\ sent' = sent + 1
  /\ socks' = [i \in DOMAIN socks |->
                 IF socks[i].subscribed
                 THEN [socks[i] EXCEPT !.queue = Kept(Append(@, sent + 1))] ELSE socks[i]]
  /\ exact' = IF \E i \in DOMAIN socks : Len(socks[i].queue) = Capacity
              THEN Unknown ELSE exact
  /\ loads' = Disturbed
  /\ UNCHANGED <<up, tokens, stored, password, tab, ws, timers, timer, view, bounds>>

\* TOKEN_TTL_SECS have passed
Expire(t) ==
  /\ t \in DOMAIN tokens /\ tokens[t] = "fresh" /\ Trouble
  /\ tokens' = [tokens EXCEPT ![t] = "expired"]
  /\ UNCHANGED <<up, stored, sent, password, tab, lines, loads, view, shows, issued, exact>>

\* the cleanup task's tick
Cleanup ==
  /\ up
  /\ tokens' = [t \in {u \in DOMAIN tokens : tokens[u] = "fresh"} |-> "fresh"]
  /\ UNCHANGED <<up, stored, sent, password, tab, lines, loads, view, bounds, exact>>

\* the tokens are lost with the process, the rows are not; a row stored but not
\* sent is never sent
Die ==
  /\ up /\ Trouble
  /\ up' = FALSE /\ tokens' = <<>> /\ sent' = stored
  /\ socks' = [i \in DOMAIN socks |->
                 IF socks[i].state = "connecting" THEN socks[i] ELSE Sock("closing", 0)]
  /\ exact' = Unknown
  /\ UNCHANGED <<stored, password, tab, ws, timers, timer, loads, view, shows, issued>>

Start ==
  /\ ~up /\ up' = TRUE
  /\ UNCHANGED <<tokens, stored, sent, password, tab, lines, loads, view,
                 bounds, exact>>

\* a reload that another client asks for takes over the password of the file
Reconfigure ==
  /\ up /\ Trouble
  /\ password' = ~password
  /\ UNCHANGED <<server, tab, lines, loads, view, shows, issued, exact>>

-----------------------------------------------------------------------------
(* Sockets and their timers *)

\* connect, called with token t: the new socket and where it is kept
Connected(t) ==
  LET i == Free(DOMAIN socks)
  IN  /\ socks' = [j \in DOMAIN socks \cup {i} |->
                     IF j = i THEN Sock("connecting", t) ELSE socks[j]]
      /\ ws' = i

\* the sockets once those in `closed` are on their way to onclose
Closing(closed) ==
  [i \in DOMAIN socks |-> IF i \in closed THEN Sock("closing", 0) ELSE socks[i]]

\* ws_handler lets the socket in and answers 101
Upgrade(i) ==
  /\ up /\ socks[i].state = "connecting" /\ Accepted(socks[i].token)
  /\ socks' = [socks EXCEPT ![i] = Sock("accepted", 0)]
  /\ exact' = Unknown
  /\ UNCHANGED <<server, password, tab, ws, timers, timer, loads, view, bounds>>

\* handle_ws, a task that on_upgrade starts once the answer is on its way: the
\* tab's onopen may come first
Subscribe(i) ==
  /\ up /\ socks[i].state \in {"accepted", "open"} /\ ~socks[i].subscribed
  /\ socks' = [socks EXCEPT ![i].subscribed = TRUE]
  /\ UNCHANGED <<server, password, tab, ws, timers, timer, loads, view, bounds, exact>>

\* onopen: the timer set last is cleared if it still runs
OnOpen(i) ==
  /\ socks[i].state = "accepted"
  /\ socks' = [socks EXCEPT ![i].state = "open"]
  /\ timers' = timers \ {timer} /\ timer' = 0
  /\ UNCHANGED <<server, password, tab, ws, loads, view, bounds, exact>>

\* onerror closes the socket created last, whichever failed
OnError(i) ==
  /\ socks' = Closing({i, ws} \cap DOMAIN socks)
  /\ exact' = Unknown
  /\ UNCHANGED <<server, password, tab, ws, timers, timer, loads, view,
                 shows, issued>>

\* the handshake is refused, by 401 or because nobody listens
Refused(i) ==
  /\ socks[i].state = "connecting" /\ (~up \/ ~Accepted(socks[i].token))
  /\ OnError(i) /\ UNCHANGED troubles

\* the network breaks the connection
Breaks(i) == socks[i].state # "closing" /\ Trouble /\ OnError(i)

\* mutant: no reconnect while the login page is shown
MutOnClose(i) ==
  /\ socks[i].state = "closing"
  /\ socks' = [j \in DOMAIN socks \ {i} |-> socks[j]]
  /\ IF page = "login" THEN UNCHANGED <<timer, timers>>
     ELSE timer' = Free(timers) /\ timers' = timers \cup {timer'}
  /\ ws' = IF ws = i THEN 0 ELSE ws
  /\ UNCHANGED <<server, password, tab, loads, view, bounds, exact>>

\* onclose: reconnectTimer = setTimeout(connect, 2000)
OnClose(i) ==
  /\ socks[i].state = "closing"
  /\ socks' = [j \in DOMAIN socks \ {i} |-> socks[j]]
  /\ ws' = IF ws = i THEN 0 ELSE ws
  /\ timer' = Free(timers) /\ timers' = timers \cup {timer'}
  /\ UNCHANGED <<server, password, tab, loads, view, bounds, exact>>

\* mutant: the socket opened anew is sent without the token
MutTimerFires(t) ==
  /\ t \in timers
  /\ timers' = timers \ {t}
  /\ timer' = IF timer = t THEN 0 ELSE timer
  /\ Connected(0)
  /\ UNCHANGED <<server, password, tab, loads, view, bounds, exact>>

\* connect, called by a timer
TimerFires(t) ==
  /\ t \in timers
  /\ timers' = timers \ {t}
  /\ timer' = IF timer = t THEN 0 ELSE timer
  /\ Connected(token)
  /\ UNCHANGED <<server, password, tab, loads, view, bounds, exact>>

\* mutant: the newest event is added at the end
MutOnMessage(i) ==
  /\ socks[i].state = "open" /\ socks[i].queue # <<>>
  /\ socks' = [socks EXCEPT ![i].queue = Tail(@)]
  /\ LET live == Append(view.live, Head(socks[i].queue))
     IN  view' = [view EXCEPT !.live = SubSeq(live, 1, Min({Len(live), PerPage}))]
  /\ loads' = Disturbed
  /\ UNCHANGED <<server, password, tab, ws, timers, timer, bounds, exact>>

\* onmessage, addEvent: newest first, the oldest beyond PerPage leaves
OnMessage(i) ==
  /\ socks[i].state = "open" /\ socks[i].queue # <<>>
  /\ socks' = [socks EXCEPT ![i].queue = Tail(@)]
  /\ LET live == <<Head(socks[i].queue)>> \o view.live
     IN  view' = [view EXCEPT !.live = SubSeq(live, 1, Min({Len(live), PerPage}))]
  /\ loads' = Disturbed
  /\ UNCHANGED <<server, password, tab, ws, timers, timer, bounds, exact>>

-----------------------------------------------------------------------------
(* Loading a page of the history *)

\* loadHistory: the request; alone as long as there is no other and no row on its
\* way to the tab
Requested(p, t) ==
  loads' = Disturbed \cup
           {[id |-> Min((1..MaxLoads) \ {l.id : l \in loads}), page |-> p, token |-> t,
             step |-> "asked", upto |-> 0,
             alone |-> /\ loads = {} /\ sent = stored
                       /\ \A i \in DOMAIN socks : socks[i].queue = <<>>]}

\* a filter (page 1), a page of those there are, or the page shown once more
LoadHistory(p) ==
  /\ page = "main" /\ Cardinality(loads) < MaxLoads
  /\ p \in {1, view.page} \cup 1..view.pages
  /\ Requested(p, token)
  /\ UNCHANGED <<server, password, tab, lines, view, bounds, exact>>

\* events_handler
Answer(l) ==
  /\ up /\ l.step = "asked"
  /\ loads' = (loads \ {l}) \cup
              {IF Accepted(l.token)
               THEN [l EXCEPT !.step = "answered", !.upto = stored, !.token = 0]
               ELSE [l EXCEPT !.step = "refused", !.token = 0, !.alone = FALSE]}
  /\ UNCHANGED <<server, password, tab, lines, view, bounds, exact>>

\* the rows up to n that match, how many are as new as one of them, and a page
\* of them, newest first
Found(n) == (1..n) \cap Matching
Place(r, n) == Cardinality({s \in Found(n) : Stamp[s] >= Stamp[r]})
PageOf(n, p) == {r \in Found(n) : Place(r, n) \in ((p - 1) * PerPage + 1)..(p * PerPage)}
TotalPages(n) == Max({1, (Cardinality(Found(n)) + PerPage - 1) \div PerPage})

\* mutant: the live events stay, and are in the page as well
MutShown(l) ==
  /\ l.step = "answered"
  /\ loads' = loads \ {l}
  /\ view' = [events |-> PageOf(l.upto, l.page), live |-> view.live, page |-> l.page,
              pages |-> TotalPages(l.upto)]
  /\ exact' = IF l.alone /\ Cardinality(DOMAIN socks) = 1
                 /\ \E i \in OpenSockets : socks[i].subscribed
              THEN [on |-> TRUE, upto |-> l.upto] ELSE Unknown
  /\ UNCHANGED <<server, password, tab, lines, bounds>>

\* the answers arrive in any order; the live events make way for the page
Shown(l) ==
  /\ l.step = "answered"
  /\ loads' = loads \ {l}
  /\ view' = [events |-> PageOf(l.upto, l.page), live |-> <<>>, page |-> l.page,
              pages |-> TotalPages(l.upto)]
  /\ exact' = IF l.alone /\ Cardinality(DOMAIN socks) = 1
                 /\ \E i \in OpenSockets : socks[i].subscribed
              THEN [on |-> TRUE, upto |-> l.upto] ELSE Unknown
  /\ UNCHANGED <<server, password, tab, lines, bounds>>

\* 401 (its body is no JSON), or no answer: loadHistory does nothing
Ignored(l) ==
  /\ \/ l.step = "refused" /\ UNCHANGED troubles
     \/ l.step = "asked" /\ ~up /\ UNCHANGED troubles
     \/ Trouble
  /\ loads' = loads \ {l}
  /\ UNCHANGED <<server, password, tab, lines, view, shows, issued, exact>>

-----------------------------------------------------------------------------
(* The login *)

\* showMain: the page, a load of the page kept in localStorage, a new socket
ShowMain(t) ==
  /\ shows < MaxShows /\ Cardinality(loads) < MaxLoads
  /\ page' = "main" /\ shows' = shows + 1
  /\ token' = t
  /\ Requested(view.page, t)
  /\ Connected(t)
  /\ UNCHANGED <<timers, timer, view, troubles, exact>>

ShowLogin ==
  /\ page' = "login"
  /\ UNCHANGED <<lines, loads, view, bounds, exact>>

\* checkAuth: whether a password is set
AuthStatus ==
  /\ page = "start"
  /\ \/ up /\ ~password /\ ShowMain(0) /\ UNCHANGED issued
     \/ up /\ password /\ token = 0 /\ ShowLogin /\ UNCHANGED token
     \/ up /\ password /\ token # 0 /\ page' = "verify"
        /\ UNCHANGED <<token, lines, loads, view, bounds, exact>>
     \/ ~up /\ ShowLogin /\ UNCHANGED token
  /\ authRequired' = (up /\ password)
  /\ UNCHANGED <<server, password>>

\* checkAuth: whether the token kept in localStorage is still good
Verify ==
  /\ page = "verify"
  /\ \/ up /\ Accepted(token) /\ ShowMain(token) /\ UNCHANGED issued
     \/ up /\ ~Accepted(token) /\ ShowLogin /\ token' = 0
     \/ ~up /\ ShowLogin /\ UNCHANGED token
  /\ UNCHANGED <<server, password, authRequired>>

\* doLogin with the right password: a token of its own for each login
Login ==
  /\ page = "login" /\ up
  /\ IF password
     THEN /\ issued' = issued + 1
          /\ tokens' = [t \in DOMAIN tokens \cup {issued + 1} |->
                          IF t = issued + 1 THEN "fresh" ELSE tokens[t]]
          /\ ShowMain(issued + 1)
     ELSE ShowMain(token) /\ UNCHANGED <<tokens, issued>>
  /\ UNCHANGED <<up, stored, sent, password, authRequired>>

\* the dashboard's refresh is answered 401: only the login page is shown
RefreshRefused ==
  /\ page = "main" /\ up /\ ~Accepted(token)
  /\ ShowLogin
  /\ UNCHANGED <<server, password, token, authRequired>>

\* the logout button, hidden if no login was required: ws.close() has no effect on a socket that is closed
Logout ==
  /\ page = "main" /\ authRequired /\ Trouble
  /\ page' = "login" /\ token' = 0
  /\ socks' = Closing({ws} \cap DOMAIN socks)
  /\ exact' = Unknown
  /\ UNCHANGED <<server, password, authRequired, ws, timers, timer, loads, view,
                 shows, issued>>

\* what a socket does by itself in the end, and what may happen to it
Settles(i) == i \in DOMAIN socks /\ (Upgrade(i) \/ OnOpen(i) \/ Refused(i) \/ OnClose(i))
Socket(i) ==
  Settles(i) \/ (i \in DOMAIN socks /\ (Subscribe(i) \/ Breaks(i) \/ OnMessage(i)))

Next ==
  \/ Store \/ Publish \/ (\E t \in Token : Expire(t)) \/ Cleanup
  \/ Die \/ Start \/ Reconfigure
  \/ \E i \in Slot : Socket(i) \/ TimerFires(i)
  \/ \E p \in 1..(MaxRows + 1) : LoadHistory(p)
  \/ \E l \in loads : Answer(l) \/ Shown(l) \/ Ignored(l)
  \/ AuthStatus \/ Verify \/ Login \/ RefreshRefused \/ Logout

Spec == Init /\ [][Next]_vars

\* Browsers end a handshake one way or the other, deliver onclose and run their
\* timers.  The server and the user may do nothing at all, and the network breaks
\* no more connections than MaxTroubles.
FairSpec == Spec /\ \A i \in Slot : WF_vars(Settles(i)) /\ WF_vars(TimerFires(i))

-----------------------------------------------------------------------------
(* Properties *)

\* Once the main page was shown the tab never gives up: there is a socket or a
\* timer that will make one, whatever was refused, broken, logged out of or
\* cleared by onopen; and there are no more than the page was shown times
\* (connect, events.js:226).
LineKept ==
  shows > 0 => Cardinality(DOMAIN socks) + Cardinality(timers) \in 1..shows

Descending(rows) == \A i, j \in DOMAIN rows : i < j => rows[i] > rows[j]

\* The live events are newest first and none is repeated, through reconnects,
\* restarts and lag, as long as the page was not shown again by a second login,
\* which adds a socket to the one there is (addEvent, events.js:176).
LiveInOrder == shows = 1 => Descending(view.live)

\* from row n down to row m
Down(n, m) == [k \in 1..(n - m + 1) |-> n - k + 1]

\* After a load of the first page that overlapped no other and no event, with
\* one socket that is open and subscribed, the live events are the rows stored
\* since then without a gap, and the page below them the newest that match of
\* those before, none of them twice; until a connection ends, a receiver lags or
\* more than a page of live events came (renderEvents, events.js:152).
ViewExact ==
  exact.on /\ view.page = 1 =>
    \A i \in OpenSockets :
      LET newest == sent - Len(socks[i].queue)
      IN  newest - exact.upto <= PerPage =>
            /\ view.live = Down(newest, exact.upto + 1)
            /\ view.events \subseteq Found(exact.upto)
            /\ \A r \in Found(exact.upto) \ view.events :
                 /\ Cardinality(view.events) = PerPage
                 /\ \A s \in view.events : Stamp[s] > Stamp[r]

\* If in the end the server runs and accepts the tab's token, a socket is open
\* in the end (connect, events.js:226).
Reconnects ==
  <>[](shows > 0 /\ up /\ Accepted(token)) => <>[](OpenSockets # {})
=============================================================================
