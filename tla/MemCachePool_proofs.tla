------------------------- MODULE MemCachePool_proofs -------------------------
(***************************************************************************)
(* Proofs about MemCachePool for any set of clients and requests, any      *)
(* limit and any number of lost connections.                               *)
(***************************************************************************)
EXTENDS MemCachePool, FiniteSetTheorems, TLAPS

\* A free client has no request and is connected, or was cut off during the
\* shutdown; a client with a request is busy, or connecting for it, and has not
\* lost its connection.
ClientsInv ==
    /\ \A f \in free : cur[f] = None /\ conn[f] \in {"up", "closing", "dead"}
    /\ \A f \in Clients : cur[f] # None => conn[f] = "connecting" \/ f \in busy
    /\ \A f \in Clients : conn[f] \in {"unused", "down", "dead"} => cur[f] = None
    /\ \A f \in Clients : conn[f] = "dead" => shutdown # "no"

\* Until the shutdown goes on, a request that waits is in the queue or with a
\* client.
LocatedInv ==
    shutdown # "fired" =>
      \A k \in Commands :
          ans[k] = "waiting" => k \in InQueue \/ \E f \in Clients : cur[f] = k

IndInv == TypeOK /\ NoQueueWhileFree /\ ClientsInv /\ LocatedInv

ConnStates == {"unused", "connecting", "up", "closing", "down", "dead"}
Answers == {"new", "waiting", "ok", "none", "error"}

\* What an answer is, and that a request is answered when nothing was raised.
LEMMA AnswerType ==
  ASSUME TypeOK, NEW k \in Commands, NEW r \in {"ok", "none"}, NEW b \in BOOLEAN
  PROVE  /\ Answer(k, r, b) \in Answers
         /\ ~b => Answer(k, r, b) = r
BY DEF Answer, TypeOK, Answers

\* The queue loses its head, and nothing else, when a request is taken from it.
LEMMA QueueTail ==
  ASSUME commands \in Seq(Commands), commands # <<>>, commands' = Tail(commands)
  PROVE  InQueue \subseteq InQueue' \cup {Head(commands)}
<1>1. SUFFICES ASSUME NEW i \in DOMAIN commands, commands[i] # Head(commands)
               PROVE  commands[i] \in InQueue'
  BY DEF InQueue
<1>2. i \in 1..Len(commands) /\ i # 1
  BY <1>1
<1>3. i - 1 \in 1..Len(Tail(commands)) /\ Tail(commands)[i - 1] = commands[i]
  BY <1>2
<1>4. i - 1 \in DOMAIN Tail(commands)
  BY <1>3
<1> QED
  BY <1>3, <1>4 DEF InQueue

\* A request that is appended is in the queue, with all the others.
LEMMA QueueAppend ==
  ASSUME commands \in Seq(Commands), NEW k \in Commands,
         commands' = Append(commands, k)
  PROVE  InQueue \cup {k} \subseteq InQueue'
<1>1. Len(commands) + 1 \in DOMAIN Append(commands, k)
      /\ Append(commands, k)[Len(commands) + 1] = k
  OBVIOUS
<1>2. ASSUME NEW i \in DOMAIN commands
      PROVE  i \in DOMAIN Append(commands, k) /\ Append(commands, k)[i] = commands[i]
  OBVIOUS
<1>3. k \in InQueue'
  BY <1>1 DEF InQueue
<1> QED
  BY <1>2, <1>3 DEF InQueue

\* A pool without connections satisfies the invariant (MemCachePool.__init__).
LEMMA Initially == Init => IndInv
<1> SUFFICES ASSUME Init PROVE IndInv
  OBVIOUS
<1> USE PoolAssumption DEF Init
<1>1. TypeOK
  BY DEF TypeOK
<1>2. NoQueueWhileFree /\ ClientsInv /\ LocatedInv
  BY DEF NoQueueWhileFree, ClientsInv, LocatedInv
<1> QED
  BY <1>1, <1>2 DEF IndInv

-----------------------------------------------------------------------------
\* Requests and connections preserve the inductive invariant.
LEMMA RequestStep ==
  ASSUME IndInv, NEW k \in Commands, performRequest(k)
  PROVE  IndInv'
<1> USE DEF IndInv, Connected, PendingConnects
<1>1. ASSUME NEW f \in Clients, UseFreeClient(k, f) PROVE IndInv'
  <2> USE <1>1 DEF UseFreeClient, clientBusy
  <2>1. TypeOK'
    BY DEF TypeOK
  <2>2. NoQueueWhileFree' /\ ClientsInv'
    BY DEF NoQueueWhileFree, ClientsInv, TypeOK
  <2>3. LocatedInv'
    BY PoolAssumption DEF LocatedInv, ClientsInv, InQueue, TypeOK
  <2> QED BY <2>1, <2>2, <2>3
<1>2. ASSUME NEW f \in Clients, UseDeadClient(k, f) PROVE IndInv'
  <2> USE <1>2 DEF UseDeadClient
  <2>1. Answer(k, "none", Raises(busy, commands)) \in Answers \ {"waiting"}
    BY DEF Answer, Answers, TypeOK
  <2>2. shutdown' \in {"no", "requested", "waiting", "fired"}
        /\ (shutdown = "fired" => shutdown' = "fired")
        /\ (shutdown # "no" => shutdown' # "no")
    BY DEF FireShutdown, TypeOK
  <2>3. TypeOK'
    BY <2>1, <2>2 DEF TypeOK, Answers
  <2>4. NoQueueWhileFree' /\ ClientsInv'
    BY <2>2 DEF NoQueueWhileFree, ClientsInv, TypeOK
  <2>5. LocatedInv'
    BY <2>1, <2>2 DEF LocatedInv, InQueue, TypeOK
  <2> QED BY <2>3, <2>4, <2>5
<1>3. ASSUME QueueCommand(k) PROVE IndInv'
  <2> USE <1>3 DEF QueueCommand
  <2>1. TypeOK'
    BY DEF TypeOK
  <2>2. NoQueueWhileFree' /\ ClientsInv'
    BY DEF NoQueueWhileFree, ClientsInv, TypeOK
  <2>3. InQueue \cup {k} \subseteq InQueue'
    BY QueueAppend DEF TypeOK
  <2>4. LocatedInv'
    BY <2>3 DEF LocatedInv, TypeOK
  <2> QED BY <2>1, <2>2, <2>4
<1>4. ASSUME NEW f \in Clients, NewClientConnection(k, f) PROVE IndInv'
  <2> USE <1>4 DEF NewClientConnection
  <2>1. TypeOK'
    BY DEF TypeOK
  <2>2. NoQueueWhileFree' /\ ClientsInv'
    BY DEF NoQueueWhileFree, ClientsInv, TypeOK
  <2>3. LocatedInv'
    BY PoolAssumption DEF LocatedInv, ClientsInv, InQueue, TypeOK
  <2> QED BY <2>1, <2>2, <2>3
<1> QED
  BY <1>1, <1>2, <1>3, <1>4 DEF performRequest

\* A connection that is made, or made again, preserves it.
LEMMA ConnectionStep ==
  ASSUME IndInv, NEW f \in Clients, connectionMade(f) \/ Reconnect(f)
  PROVE  IndInv'
<1> USE DEF IndInv, PendingConnects
<1>1. CASE connectionMade(f)
  <2> USE <1>1 DEF connectionMade, clientBusy
  <2>1. TypeOK'
    BY DEF TypeOK, ClientsInv
  <2>2. NoQueueWhileFree' /\ ClientsInv'
    BY DEF NoQueueWhileFree, ClientsInv, TypeOK
  <2>3. LocatedInv'
    BY DEF LocatedInv, InQueue, TypeOK
  <2> QED BY <2>1, <2>2, <2>3
<1>2. CASE Reconnect(f)
  <2> USE <1>2 DEF Reconnect, clientGone
  <2>1. TypeOK'
    BY DEF TypeOK
  <2>2. NoQueueWhileFree'
    BY DEF NoQueueWhileFree
  <2>3. ClientsInv'
    BY DEF ClientsInv, TypeOK
  <2>4. LocatedInv'
    BY DEF LocatedInv, InQueue, TypeOK
  <2> QED BY <2>1, <2>2, <2>3, <2>4
<1> QED
  BY <1>1, <1>2

\* So does a reply, with the clientFree that follows it; and if that fires the
\* shutdown, nothing is waiting.
LEMMA ReplyStep ==
  ASSUME IndInv, NEW f \in Clients, NEW r \in {"ok", "none"}, Reply(f, r)
  PROVE  IndInv' /\ (shutdown = "waiting" /\ shutdown' = "fired" =>
                       \A k \in Commands : ans'[k] # "waiting")
<1> DEFINE a == Answer(cur[f], r, Raises(busy \ {f}, commands))
<1> USE DEF IndInv
<1>1. cur[f] \in Commands /\ conn[f] = "up" /\ f \in busy /\ f \notin free
  BY DEF Reply, TypeOK, ClientsInv
<1>2. a \in Answers /\ ans' = [ans EXCEPT ![cur[f]] = a]
  <2>1. Raises(busy \ {f}, commands) \in BOOLEAN
    BY DEF Raises, isIdle
  <2> QED BY <1>1, <2>1, AnswerType DEF Reply
<1>3. shutdown # "fired" => a # "waiting"
  BY <1>1 DEF Answer, Raises
<1>4. /\ shutdown' \in {"no", "requested", "waiting", "fired"}
      /\ shutdown # "no" => shutdown' # "no"
      /\ shutdown = "fired" => shutdown' = "fired"
  BY DEF Reply, clientFree, FireShutdown, TypeOK
<1>5. UNCHANGED <<conn, queued, forgotten, losses>>
  BY DEF Reply
<1> HIDE DEF a
<1>6. CASE commands = <<>>
  <2>1. /\ busy' = busy \ {f} /\ free' = free \cup {f}
        /\ cur' = [cur EXCEPT ![f] = None] /\ commands' = commands
    BY <1>6 DEF Reply, clientFree
  <2>2. TypeOK'
    BY <1>1, <1>2, <1>4, <1>5, <2>1 DEF TypeOK, Answers
  <2>3. NoQueueWhileFree'
    BY <1>6, <2>1 DEF NoQueueWhileFree
  <2>4. ClientsInv'
    BY <1>1, <1>4, <1>5, <2>1 DEF ClientsInv, TypeOK
  <2>5. LocatedInv'
    BY <1>1, <1>2, <1>3, <1>4, <2>1 DEF LocatedInv, InQueue, TypeOK
  <2>6. ASSUME shutdown = "waiting", shutdown' = "fired", NEW k \in Commands,
               k # cur[f], ans[k] = "waiting"
        PROVE  FALSE
    <3>1. busy \ {f} = {} /\ \A g \in Clients : conn[g] # "connecting"
      BY <2>6 DEF Reply, clientFree, FireShutdown, isIdle, PendingConnects
    <3>2. k \notin InQueue
      BY <1>6 DEF InQueue
    <3>3. PICK g \in Clients : cur[g] = k
      BY <2>6, <3>2 DEF LocatedInv
    <3>4. g \in busy
      BY <3>1, <3>3, PoolAssumption DEF ClientsInv
    <3> QED BY <2>6, <3>1, <3>3, <3>4
  <2>7. shutdown = "waiting" /\ shutdown' = "fired" =>
          \A k \in Commands : ans'[k] # "waiting"
    BY <1>1, <1>2, <1>3, <2>6 DEF TypeOK
  <2> QED BY <2>2, <2>3, <2>4, <2>5, <2>7
<1>7. CASE commands # <<>>
  <2>1. /\ busy' = busy /\ free' = free
        /\ cur' = [cur EXCEPT ![f] = Head(commands)] /\ commands' = Tail(commands)
    BY <1>7 DEF Reply, clientFree
  <2>2. Head(commands) \in Commands /\ Tail(commands) \in Seq(Commands)
    BY <1>7 DEF TypeOK
  <2>3. TypeOK'
    BY <1>1, <1>2, <1>4, <1>5, <2>1, <2>2 DEF TypeOK, Answers
  <2>4. NoQueueWhileFree'
    BY <1>7, <2>1 DEF NoQueueWhileFree
  <2>5. ClientsInv'
    BY <1>1, <1>4, <1>5, <2>1, <2>2 DEF ClientsInv, TypeOK
  <2>6. InQueue \subseteq InQueue' \cup {Head(commands)}
    BY <1>7, <2>1, QueueTail DEF TypeOK
  <2>7. LocatedInv'
    <3> SUFFICES ASSUME shutdown' # "fired", NEW k \in Commands, ans'[k] = "waiting"
                 PROVE  k \in InQueue' \/ \E g \in Clients : cur'[g] = k
      BY DEF LocatedInv
    <3>1. k # cur[f] /\ ans[k] = "waiting" /\ shutdown # "fired"
      BY <1>1, <1>2, <1>3, <1>4 DEF TypeOK
    <3>2. CASE k \in InQueue
      BY <3>2, <2>6, <2>1 DEF TypeOK
    <3>3. CASE \E g \in Clients : cur[g] = k
      BY <3>1, <3>3, <2>1 DEF TypeOK
    <3> QED BY <3>1, <3>2, <3>3 DEF LocatedInv
  <2>8. shutdown = "waiting" => shutdown' # "fired"
    BY <1>7 DEF Reply, clientFree, FireShutdown, isIdle
  <2> QED BY <2>3, <2>4, <2>5, <2>7, <2>8
<1> QED BY <1>6, <1>7

-----------------------------------------------------------------------------
\* Lost connections.  What FailAll does to the requests, whatever becomes of
\* the client.
LEMMA FailAllFacts ==
  ASSUME IndInv, NEW f \in Clients, cur[f] # None, FailAll(f)
  PROVE  /\ ans' \in [Commands -> Answers]
         /\ cur' = [cur EXCEPT ![f] = None] /\ commands' = <<>>
         /\ shutdown' \in {"no", "requested", "waiting", "fired"}
         /\ shutdown = "no" <=> shutdown' = "no"
         /\ shutdown = "fired" => shutdown' = "fired"
         /\ shutdown # "fired" =>
              \A k \in Commands : ans'[k] = "waiting" =>
                  \E g \in Clients : g # f /\ cur[g] = k
         /\ shutdown = "waiting" /\ shutdown' = "fired" =>
              busy \ {f} = {} /\ \A g \in Clients : conn[g] # "connecting"
<1> DEFINE raised == Raises(busy \ {f}, <<>>)
           lastOne == IF commands = <<>> THEN cur[f] ELSE commands[Len(commands)]
           Hit(k) == k \in {cur[f]} \cup InQueue
           to(k) == Answer(k, "none", raised /\ k = lastOne)
<1> USE DEF IndInv
<1>1. ans' = [k \in Commands |-> IF Hit(k) THEN to(k) ELSE ans[k]]
  BY DEF FailAll
<1>2. \A k \in Commands : to(k) \in Answers
  <2>1. TAKE k \in Commands
  <2>2. (raised /\ k = lastOne) \in BOOLEAN
    BY DEF Raises, isIdle
  <2> QED BY <2>2, AnswerType
<1>3. ASSUME shutdown # "fired" PROVE \A k \in Commands : to(k) = "none"
  BY <1>3 DEF Answer, Raises
<1> HIDE DEF to, lastOne, raised
<1>4. ans' \in [Commands -> Answers]
  BY <1>1, <1>2 DEF TypeOK, Answers
<1>5. /\ cur' = [cur EXCEPT ![f] = None] /\ commands' = <<>>
      /\ FireShutdown(busy \ {f}, <<>>)
  BY DEF FailAll
<1>6. /\ shutdown' \in {"no", "requested", "waiting", "fired"}
      /\ shutdown = "no" <=> shutdown' = "no"
      /\ shutdown = "fired" => shutdown' = "fired"
      /\ shutdown = "waiting" /\ shutdown' = "fired" => isIdle(busy \ {f}, <<>>)
  BY <1>5 DEF FireShutdown, TypeOK
<1>7. isIdle(busy \ {f}, <<>>) =>
        busy \ {f} = {} /\ \A g \in Clients : conn[g] # "connecting"
  BY DEF isIdle, PendingConnects
<1>8. ASSUME shutdown # "fired", NEW k \in Commands, ans'[k] = "waiting"
      PROVE  \E g \in Clients : g # f /\ cur[g] = k
  <2>1. ~Hit(k) /\ ans[k] = "waiting"
    BY <1>1, <1>3, <1>8
  <2>2. k \notin InQueue /\ k # cur[f]
    BY <2>1
  <2> QED BY <1>8, <2>1, <2>2 DEF LocatedInv
<1> QED BY <1>4, <1>5, <1>6, <1>7, <1>8

\* The same for a request that times out ...
LEMMA TimeoutStep ==
  ASSUME IndInv, NEW f \in Clients, Timeout(f)
  PROVE  IndInv' /\ (shutdown = "waiting" /\ shutdown' = "fired" =>
                       \A k \in Commands : ans'[k] # "waiting")
<1> USE DEF IndInv
<1>1. /\ conn[f] = "up" /\ cur[f] # None /\ FailAll(f)
      /\ busy' = busy \ {f} /\ free' = free \cup {f}
      /\ conn' = [conn EXCEPT ![f] = "closing"]
      /\ losses < MaxLosses /\ losses' = losses + 1
      /\ UNCHANGED <<queued, forgotten>>
  BY DEF Timeout
<1> DEFINE Rest == \A k \in Commands : ans'[k] = "waiting" =>
                       \E g \in Clients : g # f /\ cur[g] = k
<1>2. /\ ans' \in [Commands -> Answers]
      /\ cur' = [cur EXCEPT ![f] = None] /\ commands' = <<>>
      /\ shutdown' \in {"no", "requested", "waiting", "fired"}
      /\ shutdown = "no" <=> shutdown' = "no"
      /\ shutdown = "fired" => shutdown' = "fired"
      /\ shutdown # "fired" => Rest
      /\ shutdown = "waiting" /\ shutdown' = "fired" =>
           busy \ {f} = {} /\ \A g \in Clients : conn[g] # "connecting"
  BY <1>1, FailAllFacts
<1>3. TypeOK'
  BY <1>1, <1>2, PoolAssumption DEF TypeOK, Answers
<1>4. NoQueueWhileFree'
  BY <1>2 DEF NoQueueWhileFree
<1>5. ClientsInv'
  BY <1>1, <1>2 DEF ClientsInv, TypeOK
<1>6. LocatedInv'
  BY <1>2 DEF LocatedInv, TypeOK
<1>7. ASSUME shutdown = "waiting", shutdown' = "fired", NEW k \in Commands,
             ans'[k] = "waiting"
      PROVE  FALSE
  <2>1. PICK g \in Clients : g # f /\ cur[g] = k
    BY <1>2, <1>7
  <2>2. g \in busy
    BY <1>2, <1>7, <2>1, PoolAssumption DEF ClientsInv
  <2> QED BY <1>2, <1>7, <2>1, <2>2
<1> QED BY <1>3, <1>4, <1>5, <1>6, <1>7

\* ... and for a connection that is lost.
LEMMA LoseStep ==
  ASSUME IndInv, NEW f \in Clients, LoseConnection(f), losses' \in 0..MaxLosses
  PROVE  IndInv' /\ (shutdown = "waiting" /\ shutdown' = "fired" =>
                       \A k \in Commands : ans'[k] # "waiting")
<1> USE DEF IndInv
<1>1. /\ conn[f] \in {"up", "closing"}
      /\ FailRequests(f)
      /\ UNCHANGED <<queued, forgotten>>
  BY DEF LoseConnection, Connected
<1>2. CASE cur[f] = None
  <2>1. UNCHANGED <<ans, commands, cur, shutdown>>
    BY <1>1, <1>2 DEF FailRequests
  <2>2. \/ /\ shutdown = "no" /\ conn' = [conn EXCEPT ![f] = "down"]
           /\ busy' = busy \cup {f} /\ free' = free \ {f}
        \/ /\ shutdown # "no" /\ conn' = [conn EXCEPT ![f] = "dead"]
           /\ busy' = busy /\ free' = free
    BY <1>2 DEF LoseConnection, clientBusy
  <2>3. TypeOK'
    BY <1>1, <2>1, <2>2 DEF TypeOK
  <2>4. NoQueueWhileFree'
    BY <2>1, <2>2 DEF NoQueueWhileFree
  <2>5. ClientsInv'
    BY <1>1, <1>2, <2>1, <2>2 DEF ClientsInv, TypeOK
  <2>6. LocatedInv'
    BY <2>1 DEF LocatedInv, InQueue
  <2> QED BY <2>1, <2>3, <2>4, <2>5, <2>6
<1>3. CASE cur[f] # None
  <2> DEFINE Rest == \A k \in Commands : ans'[k] = "waiting" =>
                       \E g \in Clients : g # f /\ cur[g] = k
  <2>1. /\ ans' \in [Commands -> Answers]
        /\ cur' = [cur EXCEPT ![f] = None] /\ commands' = <<>>
        /\ shutdown' \in {"no", "requested", "waiting", "fired"}
        /\ shutdown = "no" <=> shutdown' = "no"
        /\ shutdown = "fired" => shutdown' = "fired"
        /\ shutdown # "fired" => Rest
        /\ shutdown = "waiting" /\ shutdown' = "fired" =>
             busy \ {f} = {} /\ \A g \in Clients : conn[g] # "connecting"
    BY <1>1, <1>3, FailAllFacts DEF FailRequests
  <2>2. \/ /\ shutdown = "no" /\ conn' = [conn EXCEPT ![f] = "down"]
           /\ busy' = busy \cup {f} /\ free' = free \ {f}
        \/ /\ shutdown # "no" /\ conn' = [conn EXCEPT ![f] = "dead"]
           /\ busy' = busy \ {f} /\ free' = free \cup {f}
    BY <1>3 DEF LoseConnection, clientBusy
  <2>3. TypeOK'
    BY <1>1, <2>1, <2>2 DEF TypeOK, Answers
  <2>4. NoQueueWhileFree'
    BY <2>1 DEF NoQueueWhileFree
  <2>5. ClientsInv'
    BY <1>1, <2>1, <2>2 DEF ClientsInv, TypeOK
  <2>6. LocatedInv'
    BY <2>1 DEF LocatedInv, TypeOK
  <2>7. ASSUME shutdown = "waiting", shutdown' = "fired", NEW k \in Commands,
               ans'[k] = "waiting"
        PROVE  FALSE
    <3>1. PICK g \in Clients : g # f /\ cur[g] = k
      BY <2>1, <2>7
    <3>2. g \in busy
      BY <2>1, <2>7, <3>1, PoolAssumption DEF ClientsInv
    <3> QED BY <2>1, <2>7, <3>1, <3>2
  <2> QED BY <2>3, <2>4, <2>5, <2>6, <2>7
<1> QED BY <1>2, <1>3

-----------------------------------------------------------------------------
\* A request that fails at once on a client without connection may fire the
\* shutdown: nothing else is waiting then.
LEMMA DeadClientFires ==
  ASSUME IndInv, NEW k \in Commands, NEW f \in Clients, UseDeadClient(k, f),
         shutdown = "waiting", shutdown' = "fired"
  PROVE  \A h \in Commands : ans'[h] # "waiting"
<1> USE DEF IndInv
<1>1. /\ busy = {} /\ commands = <<>>
      /\ \A g \in Clients : conn[g] # "connecting"
  BY DEF UseDeadClient, FireShutdown, isIdle, PendingConnects
<1>2. \A g \in Clients : cur[g] = None
  BY <1>1 DEF ClientsInv
<1>3. \A h \in Commands : ans[h] # "waiting"
  BY <1>1, <1>2, PoolAssumption DEF LocatedInv, InQueue
<1>4. ans' = [ans EXCEPT ![k] = "none"]
  BY DEF UseDeadClient, Answer, Raises
<1> QED BY <1>3, <1>4 DEF TypeOK

\* _shutdownCallback preserves the invariant.
LEMMA ShutdownStep ==
  ASSUME IndInv, _shutdownCallback
  PROVE  IndInv'
<1> USE DEF IndInv, _shutdownCallback
<1>1. shutdown' \in {"requested", "waiting"} /\ shutdown = "no"
  OBVIOUS
<1>2. TypeOK'
  BY <1>1 DEF TypeOK
<1>3. NoQueueWhileFree' /\ ClientsInv'
  BY <1>1 DEF NoQueueWhileFree, ClientsInv
<1>4. LocatedInv'
  BY <1>1 DEF LocatedInv, InQueue
<1> QED BY <1>2, <1>3, <1>4

\* The step does not let the shutdown go on while a request waits.
FiresWhenDone ==
    shutdown = "waiting" /\ shutdown' = "fired" =>
      \A k \in Commands : ans'[k] # "waiting"

\* Every step preserves it, and fires the shutdown only when all is answered.
LEMMA NextStep == IndInv /\ [Next]_vars => IndInv' /\ FiresWhenDone
<1> SUFFICES ASSUME IndInv, [Next]_vars PROVE IndInv' /\ FiresWhenDone
  OBVIOUS
<1>1. ASSUME NEW k \in Commands, performRequest(k) PROVE IndInv' /\ FiresWhenDone
  <2>1. IndInv'
    BY <1>1, RequestStep
  <2>2. ASSUME NEW f \in Clients, UseDeadClient(k, f) PROVE FiresWhenDone
    BY <2>2, DeadClientFires DEF FiresWhenDone
  <2>3. \/ \E f \in Clients : UseDeadClient(k, f)
        \/ shutdown' = shutdown
    BY <1>1 DEF performRequest, UseFreeClient, QueueCommand, NewClientConnection
  <2> QED BY <2>1, <2>2, <2>3 DEF FiresWhenDone
<1>2. ASSUME NEW f \in Clients, connectionMade(f) \/ Reconnect(f)
      PROVE  IndInv' /\ FiresWhenDone
  <2>1. shutdown' = shutdown
    BY <1>2 DEF connectionMade, Reconnect
  <2> QED BY <1>2, <2>1, ConnectionStep DEF FiresWhenDone
<1>3. ASSUME NEW f \in Clients, NEW r \in {"ok", "none"}, Reply(f, r)
      PROVE  IndInv' /\ FiresWhenDone
  BY <1>3, ReplyStep DEF FiresWhenDone
<1>4. ASSUME NEW f \in Clients, Timeout(f) PROVE IndInv' /\ FiresWhenDone
  BY <1>4, TimeoutStep DEF FiresWhenDone
<1>5. ASSUME NEW f \in Clients, Lost(f) \/ Closed(f) PROVE IndInv' /\ FiresWhenDone
  <2>1. losses' \in 0..MaxLosses /\ LoseConnection(f)
    BY <1>5, PoolAssumption DEF Lost, Closed, IndInv, TypeOK
  <2> QED BY <2>1, LoseStep DEF FiresWhenDone
<1>6. CASE _shutdownCallback
  <2>1. shutdown = "no"
    BY <1>6 DEF _shutdownCallback
  <2> QED BY <1>6, <2>1, ShutdownStep DEF FiresWhenDone
<1>7. CASE UNCHANGED vars
  <2>1. IndInv'
    BY <1>7 DEF vars, IndInv, TypeOK, NoQueueWhileFree, ClientsInv, LocatedInv, InQueue
  <2> QED BY <1>7, <2>1 DEF vars, FiresWhenDone
<1> QED
  BY <1>1, <1>2, <1>3, <1>4, <1>5, <1>6, <1>7 DEF Next

\* The state of the pool is consistent after any sequence of requests,
\* replies, time-outs, losses, reconnections and a shutdown.
THEOREM InductiveInvariant == Spec => []IndInv
<1>1. Init => IndInv
  BY Initially
<1>2. IndInv /\ [Next]_vars => IndInv'
  BY NextStep
<1> QED BY <1>1, <1>2, PTL DEF Spec

\* Type correctness; no client is both busy and free.
THEOREM TypeCorrect == Spec => []TypeOK
<1>1. IndInv => TypeOK
  BY DEF IndInv
<1> QED BY <1>1, InductiveInvariant, PTL

\* clientFree and performRequest never leave a request in the queue while a
\* client is free.
THEOREM QueueOnlyWhenNoneFree == Spec => []NoQueueWhileFree
<1>1. IndInv => NoQueueWhileFree
  BY DEF IndInv
<1> QED BY <1>1, InductiveInvariant, PTL

\* A client that performRequest can take has no request, and it is connected
\* unless the process is stopping.
THEOREM FreeClientsIdle == Spec => []FreeMeansIdle
<1>1. IndInv => FreeMeansIdle
  BY DEF IndInv, ClientsInv, FreeMeansIdle, Connected, TypeOK
<1> QED BY <1>1, InductiveInvariant, PTL

\* The Deferred of _shutdownCallback fires only when every request made so far
\* has been answered.
THEOREM ShutdownAfterRequests == Spec => ShutdownWaits
<1>1. IndInv /\ [Next]_vars =>
        [shutdown = "waiting" /\ shutdown' = "fired" =>
           \A k \in Commands : ans'[k] # "waiting"]_vars
  BY NextStep DEF FiresWhenDone
<1> QED BY <1>1, InductiveInvariant, PTL DEF Spec, ShutdownWaits
-----------------------------------------------------------------------------
\* The clients that the pool has a place for: those it knows and those being
\* connected, without those that have reconnected behind its back.
Placed == (busy \cup free \cup PendingConnects) \ forgotten

\* A client with a connection, or one that is to be made again, has a place or
\* has been forgotten, and there are no more places than maxClients.
PlacesInv ==
    /\ \A f \in Clients : conn[f] \in {"up", "closing", "down"} =>
          f \in busy \cup free \cup forgotten
    /\ Cardinality(Placed) <= MaxClients

\* The sets of the pool are finite.
LEMMA PlacesFinite ==
  ASSUME TypeOK
  PROVE  /\ IsFiniteSet(busy) /\ IsFiniteSet(PendingConnects)
         /\ IsFiniteSet(Placed) /\ IsFiniteSet(forgotten)
         /\ Cardinality(Placed) \in Nat
<1>1. /\ busy \in SUBSET Clients /\ PendingConnects \in SUBSET Clients
      /\ Placed \in SUBSET Clients /\ forgotten \in SUBSET Clients
  BY DEF TypeOK, PendingConnects, Placed
<1>2. /\ IsFiniteSet(busy) /\ IsFiniteSet(PendingConnects)
      /\ IsFiniteSet(Placed) /\ IsFiniteSet(forgotten)
  BY <1>1, FS_Subset, PoolAssumption
<1> QED BY <1>2, FS_CardinalityType

\* A step that gives nobody a place keeps the limit.
LEMMA NoNewPlace ==
  ASSUME TypeOK, Cardinality(Placed) <= MaxClients, Placed' \subseteq Placed
  PROVE  Cardinality(Placed') <= MaxClients
<1>1. IsFiniteSet(Placed) /\ Cardinality(Placed) \in Nat
  BY PlacesFinite
<1>2. IsFiniteSet(Placed') /\ Cardinality(Placed') <= Cardinality(Placed)
  BY <1>1, FS_Subset
<1>3. Cardinality(Placed') \in Nat
  BY <1>2, FS_CardinalityType
<1> QED BY <1>1, <1>2, <1>3, PoolAssumption

\* A new connection is opened only while there is a place.
LEMMA NewPlace ==
  ASSUME TypeOK, TypeOK', NEW k \in Commands, NEW f \in Clients,
         NewClientConnection(k, f)
  PROVE  Cardinality(Placed') <= MaxClients
<1>1. /\ busy' = busy /\ free' = {} /\ free = {}
      /\ PendingConnects' = PendingConnects \cup {f}
      /\ f \notin PendingConnects
  BY DEF NewClientConnection, PendingConnects, TypeOK
<1>2. Cardinality(busy) + Cardinality(PendingConnects) < MaxClients
  <2>1. Cardinality(busy) \in Nat /\ Cardinality(PendingConnects) \in Nat
    BY PlacesFinite, FS_CardinalityType
  <2> QED BY <2>1, PoolAssumption DEF NewClientConnection, Full
<1> DEFINE P == PendingConnects \cup {f}
<1>3. IsFiniteSet(P) /\ Cardinality(P) = Cardinality(PendingConnects) + 1
  BY <1>1, PlacesFinite, FS_AddElement
<1>4. /\ IsFiniteSet(busy \cup P)
      /\ Cardinality(busy \cup P) =
           Cardinality(busy) + Cardinality(P) - Cardinality(busy \cap P)
  BY <1>3, PlacesFinite, FS_Union
<1>5. /\ Cardinality(busy \cap P) \in Nat /\ Cardinality(busy) \in Nat
      /\ Cardinality(PendingConnects) \in Nat
  <2>1. IsFiniteSet(busy \cap P)
    BY PlacesFinite, FS_Intersection
  <2> QED BY <2>1, PlacesFinite, FS_CardinalityType
<1>6. Cardinality(busy \cup P) <= MaxClients
  BY <1>2, <1>3, <1>4, <1>5, PoolAssumption
<1>7. Placed' \in SUBSET (busy \cup P)
  BY <1>1 DEF Placed
<1>8. Cardinality(Placed') <= Cardinality(busy \cup P)
  BY <1>4, <1>7, FS_Subset
<1>9. Cardinality(Placed') \in Nat /\ Cardinality(busy \cup P) \in Nat
  BY <1>4, <1>7, FS_Subset, FS_CardinalityType
<1> QED BY <1>6, <1>8, <1>9, PoolAssumption

\* Connections that are made, lost or made again move a client between the sets
\* but give no place to one that had none.
LEMMA PlacesKept ==
  ASSUME IndInv, PlacesInv, NEW f \in Clients,
         \/ connectionMade(f) \/ Reconnect(f) \/ Timeout(f) \/ LoseConnection(f)
         \/ \E r \in {"ok", "none"} : Reply(f, r)
  PROVE  PlacesInv'
<1> USE DEF IndInv
<1>0. \A g \in Clients : conn[g] \in {"up", "closing", "down"} =>
          g \in busy \cup free \cup forgotten
  BY DEF PlacesInv
<1>1. SUFFICES /\ \A g \in Clients : conn'[g] \in {"up", "closing", "down"} =>
                     g \in busy' \cup free' \cup forgotten'
               /\ Placed' \subseteq Placed
  BY NoNewPlace DEF PlacesInv
<1>2. CASE connectionMade(f)
  BY <1>0, <1>2 DEF connectionMade, clientBusy, Placed, PendingConnects, TypeOK
<1>3. CASE Reconnect(f)
  BY <1>0, <1>3 DEF Reconnect, clientGone, Placed, PendingConnects, TypeOK
<1>4. CASE Timeout(f)
  <2>1. f \in busy /\ conn[f] = "up"
    BY <1>4 DEF Timeout, ClientsInv
  <2> QED BY <1>0, <1>4, <2>1 DEF Timeout, Placed, PendingConnects, TypeOK
<1>5. CASE LoseConnection(f)
  <2>1. conn[f] \in {"up", "closing"} /\ f \in busy \cup free \cup forgotten
    BY <1>0, <1>5 DEF LoseConnection, Connected
  <2>2. /\ conn' = [conn EXCEPT ![f] = conn'[f]] /\ conn'[f] \in {"down", "dead"}
        /\ \/ busy' = busy \cup {f} /\ free' = free \ {f}
           \/ UNCHANGED <<busy, free>>
           \/ busy' = busy \ {f} /\ free' = free \cup {f}
        /\ conn'[f] = "down" => f \in busy'
        /\ forgotten' = forgotten
    BY <1>5 DEF LoseConnection, clientBusy, TypeOK
  <2> QED BY <1>0, <2>1, <2>2 DEF Placed, PendingConnects, TypeOK
<1>6. CASE \E r \in {"ok", "none"} : Reply(f, r)
  <2>1. f \in busy /\ UNCHANGED <<conn, forgotten>>
    BY <1>6 DEF Reply, ClientsInv
  <2>2. \/ busy' = busy \ {f} /\ free' = free \cup {f}
        \/ UNCHANGED <<busy, free>>
    BY <1>6 DEF Reply, clientFree
  <2> QED BY <1>0, <2>1, <2>2 DEF Placed, PendingConnects
<1> QED BY <1>2, <1>3, <1>4, <1>5, <1>6

\* The limit of the pool, maxClients, is kept but for the clients that have
\* reconnected, whatever is requested, lost, timed out or shut down when.
THEOREM ConnectionsLimited == Spec => []ConnectionsBounded
<1>1. Init => PlacesInv
  <2> SUFFICES ASSUME Init PROVE PlacesInv
    OBVIOUS
  <2>1. Placed = {}
    BY DEF Init, Placed, PendingConnects
  <2>2. Cardinality(Placed) = 0
    BY <2>1, FS_EmptySet
  <2> QED BY <2>2, PoolAssumption DEF Init, PlacesInv
<1>2. IndInv /\ IndInv' /\ PlacesInv /\ [Next]_vars => PlacesInv'
  <2> SUFFICES ASSUME IndInv, IndInv', PlacesInv, [Next]_vars PROVE PlacesInv'
    OBVIOUS
  <2>1. ASSUME NEW k \in Commands, performRequest(k) PROVE PlacesInv'
    <3>1. ASSUME NEW f \in Clients, NewClientConnection(k, f) PROVE PlacesInv'
      <4>1. Cardinality(Placed') <= MaxClients
        BY <3>1, NewPlace DEF IndInv
      <4> QED BY <3>1, <4>1 DEF PlacesInv, NewClientConnection, IndInv, TypeOK
    <3>2. ASSUME NEW f \in Clients, UseFreeClient(k, f) PROVE PlacesInv'
      <4>1. Placed' \subseteq Placed
        BY <3>2 DEF UseFreeClient, clientBusy, Placed, PendingConnects
      <4>2. Cardinality(Placed') <= MaxClients
        BY <4>1, NoNewPlace DEF PlacesInv, IndInv
      <4> QED BY <3>2, <4>2 DEF PlacesInv, UseFreeClient, clientBusy
    <3>3. ASSUME \/ \E f \in Clients : UseDeadClient(k, f)
                 \/ QueueCommand(k)
          PROVE  PlacesInv'
      BY <3>3 DEF UseDeadClient, QueueCommand, PlacesInv, Placed, PendingConnects
    <3> QED BY <2>1, <3>1, <3>2, <3>3 DEF performRequest
  <2>2. ASSUME NEW f \in Clients,
               \/ connectionMade(f) \/ Reconnect(f) \/ Timeout(f) \/ Lost(f) \/ Closed(f)
               \/ \E r \in {"ok", "none"} : Reply(f, r)
        PROVE  PlacesInv'
    BY <2>2, PlacesKept DEF Lost, Closed
  <2>3. CASE _shutdownCallback \/ UNCHANGED vars
    BY <2>3 DEF _shutdownCallback, vars, PlacesInv, Placed, PendingConnects
  <2> QED BY <2>1, <2>2, <2>3 DEF Next
<1>3. IndInv /\ PlacesInv => ConnectionsBounded
  <2> SUFFICES ASSUME IndInv, PlacesInv PROVE ConnectionsBounded
    OBVIOUS
  <2> DEFINE Open == {f \in Clients : conn[f] \notin {"unused", "dead"}}
  <2>1. IsFiniteSet(Placed) /\ IsFiniteSet(forgotten) /\ Cardinality(Placed) \in Nat
    BY PlacesFinite DEF IndInv
  <2>2. /\ IsFiniteSet(Placed \cup forgotten)
        /\ Cardinality(Placed \cup forgotten) =
             Cardinality(Placed) + Cardinality(forgotten)
               - Cardinality(Placed \cap forgotten)
    BY <2>1, FS_Union
  <2>3. Placed \cap forgotten = {}
    BY DEF Placed
  <2>4. Cardinality(Placed \cap forgotten) = 0
    BY <2>3, FS_EmptySet
  <2>5. Open \in SUBSET (Placed \cup forgotten)
    BY DEF Placed, PlacesInv, PendingConnects, IndInv, TypeOK
  <2>6. IsFiniteSet(Open) /\ Cardinality(Open) <= Cardinality(Placed \cup forgotten)
    BY <2>2, <2>5, FS_Subset
  <2>7. Cardinality(Open) \in Nat /\ Cardinality(forgotten) \in Nat
    BY <2>1, <2>6, FS_CardinalityType
  <2>8. Cardinality(Open) <= MaxClients + Cardinality(forgotten)
    <3> HIDE DEF Open
    <3> QED BY <2>1, <2>2, <2>4, <2>6, <2>7, PoolAssumption DEF PlacesInv
  <2> QED BY <2>8 DEF ConnectionsBounded
<1> QED
  BY <1>1, <1>2, <1>3, InductiveInvariant, PTL DEF Spec
=============================================================================
