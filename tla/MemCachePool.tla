---------------------------- MODULE MemCachePool ----------------------------
(***************************************************************************)
(* The pool of memcached connections of a worker process:                  *)
(* twistedcaldav/memcachepool.py.                                          *)
(*                                                                         *)
(* A client is a MemCacheClientFactory together with its current protocol  *)
(* instance.  The pool knows clients by its sets of busy and free ones; a  *)
(* request goes to a free client, or to a new connection, or, with         *)
(* MaxClients in use, to the queue _commands.  A factory reconnects when   *)
(* its connection is lost; the protocol instance of the new connection is  *)
(* not told to the pool, because the factory's Deferred has fired already. *)
(*                                                                         *)
(* The steps are events of the reactor (one thread): a request of the      *)
(* server, a connection made or lost, a reply, a time-out, the shutdown.   *)
(* What Twisted 16.6 (MemCacheProtocol, ReconnectingClientFactory) does in *)
(* them is external: a lost connection first fails its requests and then   *)
(* informs the factory, a request on a lost connection fails at once, and  *)
(* a time-out fails the requests and then closes the connection.           *)
(* A failed connection attempt is repeated and changes nothing here.       *)
(***************************************************************************)
EXTENDS Integers, Sequences, FiniteSets

CONSTANTS Clients,     \* factories (bound: connections ever opened)
          Commands,    \* requests of the server
          MaxClients,  \* _maxClients
          None,        \* no request
          MaxLosses,   \* bound: connections that are lost or time out
          Shutdown     \* whether the process may be shut down

ASSUME PoolAssumption ==
    /\ MaxClients \in Nat \ {0} /\ MaxLosses \in Nat
    /\ Shutdown \in BOOLEAN
    /\ None \notin Commands
    /\ IsFiniteSet(Clients)

VARIABLES
    conn,      \* the connection of each client
    cur,       \* the request it executes, or opens the connection for
    busy,      \* _busyClients
    free,      \* _freeClients
    commands,  \* _commands, the queue
    queued,    \* the requests that have been in the queue
    ans,       \* the answer to each request
    shutdown,  \* shutdown_requested and the state of shutdown_deferred
    forgotten, \* (history) clients that have reconnected
    losses     \* (bound) connections that were lost or timed out

vars == <<conn, cur, busy, free, commands, queued, ans, shutdown, forgotten, losses>>

PendingConnects == {f \in Clients : conn[f] = "connecting"}
Connected(f) == conn[f] \in {"up", "closing"}
InQueue == {commands[i] : i \in DOMAIN commands}

Init ==
    /\ conn = [f \in Clients |-> "unused"]
    /\ cur = [f \in Clients |-> None]
    /\ busy = {} /\ free = {}
    /\ commands = <<>> /\ queued = {}
    /\ ans = [k \in Commands |-> "new"]
    /\ shutdown = "no"
    /\ forgotten = {}
    /\ losses = 0

-----------------------------------------------------------------------------
\* The shutdown Deferred.  clientFree fires it each time it finds the pool
\* idle; a second time raises AlreadyCalledError.

\* Mutant: connections being opened are not looked at.
isIdle_busy(b, q) == b = {} /\ q = <<>>

isIdle(b, q) == b = {} /\ q = <<>> /\ PendingConnects = {}

FireShutdown(b, q) ==
    shutdown' = IF shutdown = "waiting" /\ isIdle(b, q) THEN "fired" ELSE shutdown

Raises(b, q) == shutdown = "fired" /\ isIdle(b, q)

\* The result r reaches the caller of k, unless clientFree raised an error:
\* then the caller gets the error, and for a queued request nothing.
Answer(k, r, raised) ==
    CASE ~raised -> r
      [] raised /\ k \in queued -> ans[k]
      [] raised /\ k \notin queued -> "error"

-----------------------------------------------------------------------------
clientBusy(f) == free' = free \ {f} /\ busy' = busy \cup {f}
clientGone(f) == free' = free \ {f} /\ busy' = busy \ {f}

-----------------------------------------------------------------------------
\* performRequest

UseFreeClient(k, f) ==
    /\ ans[k] = "new"
    /\ f \in free /\ Connected(f)
    /\ clientBusy(f)
    /\ cur' = [cur EXCEPT ![f] = k]
    /\ ans' = [ans EXCEPT ![k] = "waiting"]
    /\ UNCHANGED <<conn, commands, queued, shutdown, forgotten, losses>>

\* A client whose connection was lost during the shutdown is still free: the
\* request fails at once, and the client is free again.
UseDeadClient(k, f) ==
    /\ ans[k] = "new"
    /\ f \in free /\ conn[f] = "dead"
    /\ ans' = [ans EXCEPT ![k] = Answer(k, "none", Raises(busy, commands))]
    /\ FireShutdown(busy, commands)
    /\ UNCHANGED <<conn, cur, busy, free, commands, queued, forgotten, losses>>

\* Mutant: connections being opened are not counted.
Full_connected == Cardinality(busy) >= MaxClients

Full == Cardinality(busy) + Cardinality(PendingConnects) >= MaxClients

QueueCommand(k) ==
    /\ ans[k] = "new"
    /\ free = {} /\ Full
    /\ commands' = Append(commands, k)
    /\ queued' = queued \cup {k}
    /\ ans' = [ans EXCEPT ![k] = "waiting"]
    /\ UNCHANGED <<conn, cur, busy, free, shutdown, forgotten, losses>>

\* _newClientConnection
NewClientConnection(k, f) ==
    /\ ans[k] = "new"
    /\ free = {} /\ ~Full
    /\ conn[f] = "unused"
    /\ conn' = [conn EXCEPT ![f] = "connecting"]
    /\ cur' = [cur EXCEPT ![f] = k]
    /\ ans' = [ans EXCEPT ![k] = "waiting"]
    /\ UNCHANGED <<busy, free, commands, queued, shutdown, forgotten, losses>>

-----------------------------------------------------------------------------
\* Connections

\* The first connection of a factory: its Deferred has the request performed.
connectionMade(f) ==
    /\ conn[f] = "connecting"
    /\ conn' = [conn EXCEPT ![f] = "up"]
    /\ clientBusy(f)
    /\ UNCHANGED <<cur, commands, queued, ans, shutdown, forgotten, losses>>

\* A later one: buildProtocol has the pool remove the old protocol instance
\* (clientGone), and nothing adds the new one.
Reconnect(f) ==
    /\ conn[f] = "down"
    /\ conn' = [conn EXCEPT ![f] = "up"]
    /\ clientGone(f)
    /\ forgotten' = forgotten \cup {f}
    /\ UNCHANGED <<cur, commands, queued, ans, shutdown, losses>>

\* Mutant: a freed client leaves the queue alone.
clientFree_idle(f) ==
    /\ FireShutdown(busy \ {f}, commands)
    /\ busy' = busy \ {f}
    /\ free' = free \cup {f}
    /\ cur' = [cur EXCEPT ![f] = None]
    /\ UNCHANGED commands

\* Mutant: the shutdown is looked at before the client is taken off the busy
\* ones.
clientFree_early(f) ==
    /\ FireShutdown(busy, commands)
    /\ IF commands = <<>>
       THEN /\ busy' = busy \ {f}
            /\ free' = free \cup {f}
            /\ cur' = [cur EXCEPT ![f] = None]
            /\ UNCHANGED commands
       ELSE /\ cur' = [cur EXCEPT ![f] = Head(commands)]
            /\ commands' = Tail(commands)
            /\ UNCHANGED <<busy, free>>

\* The first queued request, if any, goes to a free client; with requests in
\* the queue there is no other than f (NoQueueWhileFree).
clientFree(f) ==
    /\ FireShutdown(busy \ {f}, commands)
    /\ IF commands = <<>>
       THEN /\ busy' = busy \ {f}
            /\ free' = free \cup {f}
            /\ cur' = [cur EXCEPT ![f] = None]
            /\ UNCHANGED commands
       ELSE /\ cur' = [cur EXCEPT ![f] = Head(commands)]
            /\ commands' = Tail(commands)
            /\ UNCHANGED <<busy, free>>

\* memcached replies with a result, or with an error, which is logged and
\* becomes the result None.
Reply(f, r) ==
    /\ conn[f] = "up" /\ cur[f] # None
    /\ ans' = [ans EXCEPT ![cur[f]] = Answer(cur[f], r, Raises(busy \ {f}, commands))]
    /\ clientFree(f)
    /\ UNCHANGED <<conn, queued, forgotten, losses>>

\* A request on f has failed, and so does each queued request that clientFree
\* then performs on f: all of the queue is answered with None.
FailAll(f) ==
    LET lastOne == IF commands = <<>> THEN cur[f] ELSE commands[Len(commands)]
        raised == Raises(busy \ {f}, <<>>)
    IN  /\ ans' = [k \in Commands |->
                     IF k \in {cur[f]} \cup InQueue
                     THEN Answer(k, "none", raised /\ k = lastOne)
                     ELSE ans[k]]
        /\ commands' = <<>>
        /\ cur' = [cur EXCEPT ![f] = None]
        /\ FireShutdown(busy \ {f}, <<>>)

\* MemCacheProtocol.timeoutConnection
Timeout(f) ==
    /\ conn[f] = "up" /\ cur[f] # None
    /\ losses < MaxLosses
    /\ losses' = losses + 1
    /\ FailAll(f)
    /\ busy' = busy \ {f}
    /\ free' = free \cup {f}
    /\ conn' = [conn EXCEPT ![f] = "closing"]
    /\ UNCHANGED <<queued, forgotten>>

FailRequests(f) ==
    IF cur[f] = None THEN UNCHANGED <<ans, commands, cur, shutdown>> ELSE FailAll(f)

\* Mutant: the client of a lost connection stays free.
LoseConnection_free(f) ==
    /\ Connected(f)
    /\ FailRequests(f)
    /\ conn' = [conn EXCEPT ![f] = "down"]
    /\ busy' = busy \ {f}
    /\ free' = free \cup {f}
    /\ UNCHANGED <<queued, forgotten>>

\* Requests fail; clientConnectionLost then makes the client busy until it has
\* reconnected, or, when the process stops, leaves it where it is.
LoseConnection(f) ==
    /\ Connected(f)
    /\ FailRequests(f)
    /\ IF shutdown = "no"
       THEN conn' = [conn EXCEPT ![f] = "down"] /\ clientBusy(f)
       ELSE /\ conn' = [conn EXCEPT ![f] = "dead"]
            /\ busy' = IF cur[f] = None THEN busy ELSE busy \ {f}
            /\ free' = IF cur[f] = None THEN free ELSE free \cup {f}
    /\ UNCHANGED <<queued, forgotten>>

Lost(f) ==
    /\ conn[f] = "up" /\ losses < MaxLosses
    /\ losses' = losses + 1
    /\ LoseConnection(f)

\* A connection that is being closed ends.
Closed(f) ==
    /\ conn[f] = "closing"
    /\ UNCHANGED losses
    /\ LoseConnection(f)

_shutdownCallback ==
    /\ Shutdown /\ shutdown = "no"
    /\ shutdown' = IF isIdle(busy, commands) THEN "requested" ELSE "waiting"
    /\ UNCHANGED <<conn, cur, busy, free, commands, queued, ans, forgotten, losses>>

-----------------------------------------------------------------------------
performRequest(k) ==
    \/ \E f \in Clients : UseFreeClient(k, f)
    \/ \E f \in Clients : UseDeadClient(k, f)
    \/ QueueCommand(k)
    \/ \E f \in Clients : NewClientConnection(k, f)

Next ==
    \/ \E k \in Commands : performRequest(k)
    \/ \E f \in Clients :
          \/ connectionMade(f) \/ Reconnect(f)
          \/ \E r \in {"ok", "none"} : Reply(f, r)
          \/ Timeout(f) \/ Lost(f) \/ Closed(f)
    \/ _shutdownCallback

\* memcached is there and replies, connection attempts are repeated until one
\* succeeds, and a connection that is being closed ends.  Nobody has to make
\* another request, and nothing has to be lost.
Fairness ==
    \A f \in Clients :
        /\ WF_vars(connectionMade(f)) /\ WF_vars(Reconnect(f)) /\ WF_vars(Closed(f))
        /\ WF_vars(\E r \in {"ok", "none"} : Reply(f, r))

Spec == Init /\ [][Next]_vars /\ Fairness

-----------------------------------------------------------------------------
\* Properties

\* Types; no client is in the set of busy and in that of free ones.
TypeOK ==
    /\ conn \in [Clients -> {"unused", "connecting", "up", "closing", "down", "dead"}]
    /\ cur \in [Clients -> Commands \cup {None}]
    /\ busy \subseteq Clients /\ free \subseteq Clients /\ busy \cap free = {}
    /\ commands \in Seq(Commands) /\ queued \subseteq Commands
    /\ ans \in [Commands -> {"new", "waiting", "ok", "none", "error"}]
    /\ shutdown \in {"no", "requested", "waiting", "fired"}
    /\ forgotten \subseteq Clients
    /\ losses \in 0..MaxLosses

\* A client that can be handed out has no request and no lost connection, so
\* that two requests never share a client: a client is busy from clientBusy
\* to the answer and from the loss of its connection to the next one.
FreeMeansIdle ==
    \A f \in free : cur[f] = None /\ (Connected(f) \/ shutdown # "no")

\* No request waits in the queue while a client is free.
NoQueueWhileFree == commands = <<>> \/ free = {}

\* The limit of the pool holds but for clients that have reconnected: each of
\* those keeps a connection open and leaves room for a new one.
ConnectionsBounded ==
    Cardinality({f \in Clients : conn[f] \notin {"unused", "dead"}})
      <= MaxClients + Cardinality(forgotten)

\* Every request is answered, over time-outs and lost connections, until a
\* client has reconnected or the shutdown has let the process go.
AnsweredUntilForgotten ==
    \A k \in Commands :
        ans[k] = "waiting" ~> ans[k] # "waiting" \/ forgotten # {} \/ shutdown = "fired"

\* The shutdown waits for the requests and then goes on, unless a client has
\* reconnected.
ShutdownEnds == shutdown = "waiting" ~> shutdown = "fired" \/ forgotten # {}

\* The shutdown does not go on before the pool has finished its requests.
ShutdownWaits ==
    [][shutdown = "waiting" /\ shutdown' = "fired" =>
         \A k \in Commands : ans'[k] # "waiting"]_vars
=============================================================================
