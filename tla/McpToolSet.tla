----------------------------- MODULE McpToolSet -----------------------------
(***************************************************************************)
(* The ToolSet of an MCP server (adapter/mcp/toolset.go, tool.go): the     *)
(* connection its callers share and make again, the list of Tools it       *)
(* caches, a Tool call sent to the server, and Close.                      *)
(*                                                                         *)
(* The server is external.  It changes its list (a version), tells its     *)
(* clients so by a notification that takes its time, and it may restart:   *)
(* then it knows no session, and a connection to it is closed.             *)
(***************************************************************************)
EXTENDS Naturals, Sequences

CONSTANTS
  Lister,    \* calls of Tools
  Caller,    \* calls of a Tool's Execute
  McpLoads   \* the ToolSets: the calls made and, as bounds, the changes of the
             \* server's list, its restarts, the cancels (contexts that end),
             \* late dials (that pass the timeout) and closes

User == Lister \cup Caller

VARIABLES
  server,    \* its list's version, and how often it started
  notices,   \* the notifications on their way
  sessions,  \* the client sessions there have been: their server, open or not
  conn,      \* connMu: the session in use, closed, and who is connecting
  gen,       \* ToolSet.gen
  told,      \* the version of the list the ToolSet was told of
  cache,     \* cacheMu: the list's version, cachedGen and haveList
  user,      \* where each call is: its session, its gen, its attempt, its list
  ran,       \* how often the server ran each caller's call
  dials,     \* the dials given up that go on, and the sessions they got and have
             \* not closed yet
  spare      \* the load

mcpVars == <<server, notices, sessions, conn, gen, told, cache, user, ran, dials, spare>>

\* What the constants are.
McpLoadRec ==
  [calls : SUBSET User, changes : Nat, restarts : Nat, cancels : Nat, late : Nat, drops : Nat,
   closes : BOOLEAN, sessions : Nat]

NoCaller == "none"

McpAssumption == NoCaller \notin User /\ McpLoads \subseteq McpLoadRec

NoSession == 0

ClientSession == DOMAIN sessions

\* A session the server still serves.
Alive(x) == sessions[x].open /\ sessions[x].boot = server.boot

Goto(u, where) == user' = [user EXCEPT ![u].at = where]

Ends(u, how) == user' = [user EXCEPT ![u].at = "over", ![u].how = how]

-----------------------------------------------------------------------------
(* connect and dial.                                                       *)

\* fromCache: the cached list, if the ToolSet heard of no later one.
FromCache(u) ==
  /\ u \in Lister \cap spare.calls /\ user[u].at = "out"
  /\ IF cache.have /\ cache.gen = gen
     THEN user' = [user EXCEPT ![u].at = "over", ![u].how = "cached", ![u].list = cache.version,
                               ![u].told = told]
     ELSE Goto(u, "connect")
  /\ UNCHANGED <<server, notices, sessions, conn, gen, told, cache, ran, dials, spare>>

Execute(u) ==
  /\ u \in Caller \cap spare.calls /\ user[u].at = "out"
  /\ Goto(u, "connect")
  /\ UNCHANGED <<server, notices, sessions, conn, gen, told, cache, ran, dials, spare>>

Ready(u) == IF u \in Lister THEN "lists" ELSE "calls"

\* connect under connMu: the session, another's attempt to wait for, or a dial.
Connect(u) ==
  /\ user[u].at = "connect"
  /\ IF conn.closed
     THEN Ends(u, "closed") /\ UNCHANGED conn
     ELSE IF conn.session # NoSession
     THEN user' = [user EXCEPT ![u].at = Ready(u), ![u].session = conn.session] /\ UNCHANGED conn
     ELSE IF conn.dialer # NoCaller
     THEN user' = [user EXCEPT ![u].at = "awaits", ![u].waitsFor = conn.dialer] /\ UNCHANGED conn
     ELSE Goto(u, "dials") /\ conn' = [conn EXCEPT !.dialer = u]
  /\ UNCHANGED <<server, notices, sessions, gen, told, cache, ran, dials, spare>>

\* Wrong: an attempt that ends tells none of those who wait for it.
WaitersForgotten(u) == {}

Waiters(u) == {w \in User : user[w].at = "awaits" /\ user[w].waitsFor = u}

\* What those who wait for an attempt do with its result: they go on with the
\* session, try again when it failed for its own caller's context alone, or fail.
Resume(w, session, how) ==
  IF session # NoSession THEN [user[w] EXCEPT !.at = Ready(w), !.session = session]
  ELSE IF how = "canceled" /\ ~user[w].ended THEN [user[w] EXCEPT !.at = "connect"]
  ELSE [user[w] EXCEPT !.at = "over", !.how = how]

Settles(u, session, how) ==
  user' = [w \in User |-> IF w = u /\ session = NoSession
                          THEN [user[u] EXCEPT !.at = "over", !.how = how]
                          ELSE IF w = u \/ w \in Waiters(u) THEN Resume(w, session, how)
                          ELSE user[w]]

\* The dial succeeds; a ToolSet that was closed meanwhile closes the session.
Dialed(u) ==
  /\ user[u].at = "dials" /\ Len(sessions) < spare.sessions
  /\ sessions' = Append(sessions, [boot |-> server.boot, open |-> ~conn.closed])
  /\ IF conn.closed
     THEN /\ conn' = [conn EXCEPT !.dialer = NoCaller]
          /\ Settles(u, NoSession, "closed")
          /\ UNCHANGED <<gen, told>>
     ELSE /\ conn' = [conn EXCEPT !.dialer = NoCaller, !.session = Len(sessions) + 1]
          /\ gen' = gen + 1 /\ told' = server.version
          /\ Settles(u, Len(sessions) + 1, "connected")
  /\ UNCHANGED <<server, notices, cache, ran, dials, spare>>

\* The caller's context ends the dial, or the connect timeout does: what the
\* dial still brings is closed by a goroutine of its own.
DialGivenUp(u) ==
  /\ user[u].at = "dials"
  /\ \/ user[u].ended /\ Settles(u, NoSession, "canceled") /\ UNCHANGED spare
     \/ /\ spare.late > 0 /\ spare' = [spare EXCEPT !.late = @ - 1]
        /\ Settles(u, NoSession, "timeout")
  /\ conn' = [conn EXCEPT !.dialer = NoCaller]
  /\ dials' = [dials EXCEPT !.going = @ + 1]
  /\ UNCHANGED <<server, notices, sessions, gen, told, cache, ran>>

\* That dial ends after all: it fails, or the server opened a session for it.
LateDial ==
  /\ dials.going > 0
  /\ \/ dials' = [dials EXCEPT !.going = @ - 1] /\ UNCHANGED sessions
     \/ /\ Len(sessions) < spare.sessions
        /\ sessions' = Append(sessions, [boot |-> server.boot, open |-> TRUE])
        /\ dials' = [going |-> dials.going - 1, got |-> dials.got \cup {Len(sessions) + 1}]
  /\ UNCHANGED <<server, notices, conn, gen, told, cache, user, ran, spare>>

\* The goroutine that waited for it closes it.
LateClose ==
  /\ \E x \in dials.got :
       /\ dials' = [dials EXCEPT !.got = @ \ {x}]
       /\ sessions' = [sessions EXCEPT ![x].open = FALSE]
  /\ UNCHANGED <<server, notices, conn, gen, told, cache, user, ran, spare>>

AwaitEnds(u) ==
  /\ user[u].at = "awaits" /\ user[u].ended
  /\ Ends(u, "canceled")
  /\ UNCHANGED <<server, notices, sessions, conn, gen, told, cache, ran, dials, spare>>

\* drop: a session that is gone is taken out of use, if it is the one in use.
Drop(x) ==
  /\ conn' = IF conn.session = x THEN [conn EXCEPT !.session = NoSession] ELSE conn
  /\ sessions' = [sessions EXCEPT ![x].open = FALSE]

-----------------------------------------------------------------------------
(* list and Tools.                                                         *)

\* list: gen is read before the list is asked for.
LoadGen(u) ==
  /\ user[u].at = "lists"
  /\ user' = [user EXCEPT ![u].at = "reads", ![u].gen = gen]
  /\ UNCHANGED <<server, notices, sessions, conn, gen, told, cache, ran, dials, spare>>

\* The server answers, or the session is gone: one more attempt, on another.
ReadList(u) ==
  /\ user[u].at = "reads"
  /\ IF Alive(user[u].session)
     THEN /\ user' = [user EXCEPT ![u].at = "caches", ![u].list = server.version]
          /\ UNCHANGED <<conn, sessions>>
     ELSE /\ Drop(user[u].session)
          /\ IF user[u].tries = 0 /\ ~user[u].ended
             THEN user' = [user EXCEPT ![u].at = "connect", ![u].tries = 1]
             ELSE Ends(u, "failed")
  /\ UNCHANGED <<server, notices, gen, told, cache, ran, dials, spare>>

\* Wrong: the list is kept under the gen of now.
StoreListNow(u) ==
  /\ user[u].at = "caches"
  /\ cache' = [have |-> TRUE, gen |-> gen, version |-> user[u].list]
  /\ Ends(u, "listed")
  /\ UNCHANGED <<server, notices, sessions, conn, gen, told, ran, dials, spare>>

\* Tools, at its end: a list asked for before the cached one does not replace it.
StoreList(u) ==
  /\ user[u].at = "caches"
  /\ cache' = IF user[u].gen >= cache.gen
              THEN [have |-> TRUE, gen |-> user[u].gen, version |-> user[u].list]
              ELSE cache
  /\ Ends(u, "listed")
  /\ UNCHANGED <<server, notices, sessions, conn, gen, told, ran, dials, spare>>

-----------------------------------------------------------------------------
(* Execute.                                                                *)

\* Only a server that forgot the session ran nothing.
Resend(missing) == missing

\* CallTool: the server runs the call and answers; or it restarted and forgot
\* the session; or the connection closes, before the call ran or after.
CallTool(u) ==
  /\ user[u].at = "calls"
  /\ LET x == user[u].session
         again(missing) == Resend(missing) /\ user[u].tries = 0 /\ ~user[u].ended
         lost(missing) == /\ Drop(x)
                          /\ IF again(missing)
                             THEN user' = [user EXCEPT ![u].at = "connect", ![u].tries = 1]
                             ELSE Ends(u, "failed")
     IN \/ /\ Alive(x)
           /\ ran' = [ran EXCEPT ![u] = @ + 1]
           /\ Ends(u, "called")
           /\ UNCHANGED <<conn, sessions, spare>>
        \/ ~Alive(x) /\ lost(TRUE) /\ UNCHANGED <<ran, spare>>
        \/ ~Alive(x) /\ lost(FALSE) /\ UNCHANGED <<ran, spare>>
        \/ /\ Alive(x) /\ spare.drops > 0
           /\ spare' = [spare EXCEPT !.drops = @ - 1]
           /\ lost(FALSE)
           /\ ran' = [ran EXCEPT ![u] = @ + 1]
  /\ UNCHANGED <<server, notices, gen, told, cache, dials>>

-----------------------------------------------------------------------------
(* Close, and what the server and the callers do.                          *)

Close ==
  /\ ~conn.closed /\ spare.closes
  /\ conn' = [conn EXCEPT !.closed = TRUE, !.session = NoSession]
  /\ sessions' = IF conn.session = NoSession THEN sessions
                 ELSE [sessions EXCEPT ![conn.session].open = FALSE]
  /\ UNCHANGED <<server, notices, gen, told, cache, user, ran, dials, spare>>

ServerChanges ==
  /\ spare.changes > 0 /\ spare' = [spare EXCEPT !.changes = @ - 1]
  /\ server' = [server EXCEPT !.version = @ + 1]
  /\ notices' = notices \cup {[boot |-> server.boot, version |-> server.version + 1]}
  /\ UNCHANGED <<sessions, conn, gen, told, cache, user, ran, dials>>

\* A restarted server has another list, maybe, and tells nobody.
ServerRestarts ==
  /\ spare.restarts > 0 /\ spare' = [spare EXCEPT !.restarts = @ - 1]
  /\ server' = [boot |-> server.boot + 1, version |-> server.version + 1]
  /\ UNCHANGED <<notices, sessions, conn, gen, told, cache, user, ran, dials>>

\* ToolListChangedHandler, of whatever session of this client hears of it.
Notified(n) ==
  /\ n \in notices
  /\ notices' = notices \ {n}
  /\ IF \E x \in ({conn.session} \ {NoSession}) \cup dials.got : sessions[x].boot = n.boot
     THEN gen' = gen + 1 /\ told' = IF n.version > told THEN n.version ELSE told
     ELSE UNCHANGED <<gen, told>>
  /\ UNCHANGED <<server, sessions, conn, cache, user, ran, dials, spare>>

ContextEnds(u) ==
  /\ spare.cancels > 0 /\ ~user[u].ended /\ user[u].at \notin {"out", "over"}
  /\ spare' = [spare EXCEPT !.cancels = @ - 1]
  /\ user' = [user EXCEPT ![u].ended = TRUE]
  /\ UNCHANGED <<server, notices, sessions, conn, gen, told, cache, ran, dials>>

-----------------------------------------------------------------------------

McpInit ==
  /\ server = [boot |-> 1, version |-> 1] /\ notices = {}
  /\ sessions = <<>>
  /\ conn = [session |-> NoSession, closed |-> FALSE, dialer |-> NoCaller]
  /\ gen = 0 /\ told = 0
  /\ cache = [have |-> FALSE, gen |-> 0, version |-> 0]
  /\ user = [u \in User |-> [at |-> "out", session |-> NoSession, gen |-> 0, tries |-> 0, list |-> 0,
                             told |-> 0, waitsFor |-> NoCaller, ended |-> FALSE, how |-> "none"]]
  /\ ran = [u \in Caller |-> 0]
  /\ dials = [going |-> 0, got |-> {}]
  /\ spare \in McpLoads

McpGoes ==
  \/ \E u \in User :
       \/ FromCache(u) \/ Execute(u) \/ Connect(u) \/ Dialed(u) \/ DialGivenUp(u) \/ AwaitEnds(u)
       \/ LoadGen(u) \/ ReadList(u) \/ StoreList(u) \/ CallTool(u)
  \/ LateDial \/ LateClose
  \/ Close

Around ==
  \/ ServerChanges \/ ServerRestarts
  \/ \E n \in notices : Notified(n)
  \/ \E u \in User : ContextEnds(u)

McpNext == McpGoes \/ Around

McpSpec == McpInit /\ [][McpNext]_mcpVars /\ WF_mcpVars(McpGoes)

-----------------------------------------------------------------------------

\* A list served from the cache is no older than what the ToolSet had been told
\* of, by the server or by connecting to it again, when it was served.
CachedListIsCurrent == \A u \in Lister : user[u].how = "cached" => user[u].list >= user[u].told

\* A session is open while it is the one in use, or while a goroutine of a dial that
\* was given up is about to close it; and such a goroutine never closes the one in use.
NoSessionLeaks ==
  /\ \A x \in ClientSession : sessions[x].open => x = conn.session \/ x \in dials.got
  /\ conn.session \notin dials.got

\* The server runs a call once at most, whatever is sent again.
CallsRunOnce == \A u \in Caller : ran[u] <= 1

\* Every call returns, and every dial given up ends, its session closed.
McpCallsEnd ==
  /\ \A u \in spare.calls : user[u].at = "over"
  /\ dials.going = 0 /\ dials.got = {}
=============================================================================
