-------------------------- MODULE ConnectionLimiter --------------------------
(***************************************************************************)
(* The master process hands accepted sockets to its workers:               *)
(* txweb2/metafd.py (ConnectionLimiter, WorkerStatus, the reporting HTTP   *)
(* service and factory of the workers) with the process events that        *)
(* calendarserver/tap/caldav.py delivers (TwistdSlaveProcess.starting and  *)
(* stopped).                                                               *)
(*                                                                         *)
(* Each worker slot has one meta socket, which outlives the processes that *)
(* run in the slot: sockets go down it (pipe) and status messages come     *)
(* back (msgs).  A process that dies leaves both behind: its successor     *)
(* takes the sockets, and the master may read the messages after it has    *)
(* been told of the death.                                                 *)
(*                                                                         *)
(* Left out of WorkerStatus: total and started, which are statistics that  *)
(* nothing reads back, and unclosed, which is 1 only between the two calls *)
(* the dispatcher makes for one "+" (statusFromMessage and then            *)
(* closeCountFromStatus).                                                  *)
(***************************************************************************)
EXTENDS Integers, Sequences, FiniteSetsExt

CONSTANTS Workers,       \* worker slots
          MaxRequests,   \* connections the whole server is to have at once
          WorkerMax,     \* HTTPFactory.maxRequests of one worker
          MaxSockets,    \* bound: connections made by clients
          MaxDeaths      \* bound: deaths of worker processes

ASSUME LimiterAssumption ==
    /\ MaxRequests \in Nat \ {0} /\ WorkerMax \in Nat \ {0}
    /\ MaxSockets \in Nat /\ MaxDeaths \in Nat
    /\ IsFiniteSet(Workers)

VARIABLES
    status,    \* WorkerStatus of each slot
    reading,   \* whether the listening port accepts connections
    held,      \* sockets sent to a slot that the master has not closed yet
    pipe,      \* sockets sent to a slot and not taken by a process
    msgs,      \* status messages on their way to the master
    proc,      \* the process of the slot
    conns,     \* connections the process is working on
    accepted,  \* (bound) connections accepted so far
    deaths,    \* (bound) deaths so far
    stale,     \* (history) how many of the messages are of a dead process
    lateAcks,  \* (history) "+" read after the death of its process was noted
    lateReady  \* (history) whether the "0" of an earlier process was read late

masterVars == <<status, reading, held>>
boundVars == <<accepted, deaths>>
lateVars == <<lateAcks, lateReady>>
vars == <<masterVars, pipe, msgs, proc, conns, boundVars, stale, lateVars>>

-----------------------------------------------------------------------------
\* WorkerStatus

\* The status of a slot whose first process is starting
initialStatus == [acknowledged |-> 0, unacknowledged |-> 0, abandoned |-> 0,
                  starting |-> TRUE, stopped |-> FALSE]

\* Mutant: the counters may go below zero.
adjust_unclamped(s, da, du) ==
    [s EXCEPT !.acknowledged = @ + da, !.unacknowledged = @ + du]

adjust(s, da, du) ==
    [s EXCEPT !.acknowledged = Max({0, @ + da}),
              !.unacknowledged = Max({0, @ + du})]

\* Mutant: the sockets that a dead process left count as load for ever.
effective_abandoned(s) == s.acknowledged + s.unacknowledged + s.abandoned

effective(s) == s.acknowledged + s.unacknowledged
active(s) == ~s.starting /\ ~s.stopped

\* Mutant: a slot that is restarted can be dispatched to at once.
start_ready(s) == [s EXCEPT !.stopped = FALSE]

start(s) == [s EXCEPT !.starting = TRUE, !.stopped = FALSE]
restarted(s) == [s EXCEPT !.starting = FALSE]

\* Mutant: what the dead process had acknowledged stays on the books.
stop_keeps(s) ==
    [s EXCEPT !.unacknowledged = 0, !.starting = FALSE, !.stopped = TRUE,
              !.abandoned = @ + s.unacknowledged]

stop(s) ==
    [s EXCEPT !.acknowledged = 0, !.unacknowledged = 0,
              !.abandoned = @ + s.unacknowledged,
              !.starting = FALSE, !.stopped = TRUE]

statusFromMessage(s, m) ==
    CASE m = "-" -> adjust(s, -1, 0)
      [] m = "0" -> restarted(s)
      [] m = "+" -> adjust(s, 1, -1)

\* Mutant: a connection counts only once the worker has acknowledged it.
newConnectionStatus_later(s) == s

newConnectionStatus(s) == adjust(s, 0, 1)

-----------------------------------------------------------------------------
\* ConnectionLimiter.statusesChanged

\* The sum of n[w] over the slots, as the number of pairs <<w, i>> with i up to n[w]
Total(n) == Cardinality(UNION {{w} \X (1..n[w]) : w \in Workers})

Current(st) == Total([w \in Workers |-> effective(st[w])])

Overloaded(st) ==
    \/ Current(st) >= MaxRequests
    \/ \A w \in Workers : ~active(st[w])

statusesChanged(st) == status' = st /\ reading' = ~Overloaded(st)

SetStatus(w, s) == statusesChanged([status EXCEPT ![w] = s])

-----------------------------------------------------------------------------
\* The master has started, and is starting its workers
Init ==
    /\ status = [w \in Workers |-> initialStatus]
    /\ reading = FALSE
    /\ held = [w \in Workers |-> 0]
    /\ pipe = [w \in Workers |-> 0]
    /\ msgs = [w \in Workers |-> <<>>]
    /\ proc = [w \in Workers |-> "booting"]
    /\ conns = [w \in Workers |-> 0]
    /\ accepted = 0
    /\ deaths = 0
    /\ stale = [w \in Workers |-> 0]
    /\ lateAcks = [w \in Workers |-> 0]
    /\ lateReady = [w \in Workers |-> FALSE]

-----------------------------------------------------------------------------
\* The master

\* A connection is accepted and its socket sent to the least loaded active
\* worker.  The master keeps its copy of the socket until the next "+".
Accept(w) ==
    /\ reading
    /\ accepted < MaxSockets
    /\ active(status[w])
    /\ \A v \in Workers :
          active(status[v]) => effective(status[w]) <= effective(status[v])
    /\ SetStatus(w, newConnectionStatus(status[w]))
    /\ pipe' = [pipe EXCEPT ![w] = @ + 1]
    /\ held' = [held EXCEPT ![w] = @ + 1]
    /\ accepted' = accepted + 1
    /\ UNCHANGED <<msgs, proc, conns, deaths, stale, lateVars>>

\* Mutant: a socket is closed for every connection message.
closeCountFromStatus_any(m) == IF m = "0" THEN 0 ELSE 1

closeCountFromStatus(m) == IF m = "+" THEN 1 ELSE 0

\* One status message is read.
StatusMessage(w) ==
    /\ msgs[w] # <<>>
    /\ LET m == Head(msgs[w]) IN
       /\ SetStatus(w, statusFromMessage(status[w], m))
       /\ held' = [held EXCEPT ![w] = @ - closeCountFromStatus(m)]
       /\ lateAcks' = [lateAcks EXCEPT ![w] =
             @ + IF m = "+" /\ stale[w] > 0 /\ proc[w] # "dead" THEN 1 ELSE 0]
       /\ lateReady' = [lateReady EXCEPT ![w] =
             @ \/ (m = "0" /\ stale[w] > 0 /\ proc[w] # "dead")]
    /\ msgs' = [msgs EXCEPT ![w] = Tail(@)]
    /\ stale' = [stale EXCEPT ![w] = Max({0, @ - 1})]
    /\ UNCHANGED <<pipe, proc, conns, boundVars>>

\* The process monitor reports that a process has ended.  What the process had
\* reported may still be on its way: signal and pipe are not ordered.
ProcessEnded(w) ==
    /\ proc[w] = "dead"
    /\ proc' = [proc EXCEPT ![w] = "down"]
    /\ SetStatus(w, stop(status[w]))
    /\ UNCHANGED <<held, pipe, msgs, conns, boundVars, stale, lateVars>>

\* Mutant: a worker that died is not replaced.
StartProcess_never(w) == proc[w] = "down" /\ deaths = 0 /\ UNCHANGED vars

\* The process monitor starts another process in the slot.
StartProcess(w) ==
    /\ proc[w] = "down"
    /\ proc' = [proc EXCEPT ![w] = "booting"]
    /\ SetStatus(w, start(status[w]))
    /\ lateReady' = [lateReady EXCEPT ![w] = FALSE]
    /\ UNCHANGED <<held, pipe, msgs, conns, boundVars, stale, lateAcks>>

-----------------------------------------------------------------------------
\* The workers

reportStatus(w, m) == msgs' = [msgs EXCEPT ![w] = Append(@, m)]

StartService(w) ==
    /\ proc[w] = "booting"
    /\ proc' = [proc EXCEPT ![w] = "up"]
    /\ reportStatus(w, "0")
    /\ UNCHANGED <<masterVars, pipe, conns, boundVars, stale, lateVars>>

\* The worker takes a socket, and a channel is connected to it.
addConnectedChannel(w) ==
    /\ proc[w] = "up" /\ pipe[w] > 0 /\ conns[w] < WorkerMax
    /\ pipe' = [pipe EXCEPT ![w] = @ - 1]
    /\ conns' = [conns EXCEPT ![w] = @ + 1]
    /\ reportStatus(w, "+")
    /\ UNCHANGED <<masterVars, proc, boundVars, stale, lateVars>>

\* The worker takes a socket while it has maxRequests channels: the socket is
\* answered by an OverloadedServerProtocol, which is no channel of the factory,
\* so nothing is reported.
TakeOverloaded(w) ==
    /\ proc[w] = "up" /\ pipe[w] > 0 /\ conns[w] >= WorkerMax
    /\ pipe' = [pipe EXCEPT ![w] = @ - 1]
    /\ UNCHANGED <<masterVars, msgs, proc, conns, boundVars, stale, lateVars>>

removeConnectedChannel(w) ==
    /\ proc[w] \in {"up", "draining"} /\ conns[w] > 0
    /\ conns' = [conns EXCEPT ![w] = @ - 1]
    /\ reportStatus(w, "-")
    /\ UNCHANGED <<masterVars, pipe, proc, boundVars, stale, lateVars>>

Ends(w) ==
    /\ proc' = [proc EXCEPT ![w] = "dead"]
    /\ conns' = [conns EXCEPT ![w] = 0]
    /\ deaths' = deaths + 1
    /\ stale' = [stale EXCEPT ![w] = Len(msgs[w])]
    /\ UNCHANGED <<masterVars, pipe, msgs, accepted, lateVars>>

\* A process told to stop takes no more sockets, and exits when its last
\* connection is closed.
StopService(w) ==
    /\ proc[w] = "up" /\ deaths < MaxDeaths
    /\ proc' = [proc EXCEPT ![w] = "draining"]
    /\ UNCHANGED <<masterVars, pipe, msgs, conns, boundVars, stale, lateVars>>

AllConnectionsClosed(w) == proc[w] = "draining" /\ conns[w] = 0 /\ Ends(w)

\* A process crashes or is killed.
Crash(w) ==
    /\ proc[w] \in {"booting", "up", "draining"} /\ deaths < MaxDeaths
    /\ Ends(w)

-----------------------------------------------------------------------------
Step(w) ==
    \/ Accept(w) \/ StatusMessage(w) \/ ProcessEnded(w) \/ StartProcess(w)
    \/ StartService(w) \/ addConnectedChannel(w) \/ TakeOverloaded(w)
    \/ removeConnectedChannel(w) \/ StopService(w) \/ AllConnectionsClosed(w)
    \/ Crash(w)

Next == \E w \in Workers : Step(w)

\* The master's reactor and the process monitor keep running, a process that
\* was started gets ready or dies, a worker reads its meta socket, and a
\* connection ends (the channel has time-outs).  Nobody has to connect, to
\* crash or to be stopped.
Fairness ==
    \A w \in Workers :
       /\ WF_vars(StatusMessage(w)) /\ WF_vars(ProcessEnded(w))
       /\ WF_vars(StartProcess(w)) /\ WF_vars(StartService(w))
       /\ WF_vars(addConnectedChannel(w) \/ TakeOverloaded(w))
       /\ WF_vars(removeConnectedChannel(w)) /\ WF_vars(AllConnectionsClosed(w))

Spec == Init /\ [][Next]_vars /\ Fairness

-----------------------------------------------------------------------------
\* Properties

\* Types; the counters of WorkerStatus never go below zero (adjust).
TypeOK ==
    /\ status \in [Workers -> [acknowledged : Nat, unacknowledged : Nat, abandoned : Nat,
                               starting : BOOLEAN, stopped : BOOLEAN]]
    /\ reading \in BOOLEAN
    /\ held \in [Workers -> Int]
    /\ pipe \in [Workers -> Nat] /\ conns \in [Workers -> Nat]
    /\ msgs \in [Workers -> Seq({"0", "+", "-"})]
    /\ proc \in [Workers -> {"booting", "up", "draining", "dead", "down"}]
    /\ accepted \in 0..MaxSockets /\ deaths \in Nat
    /\ stale \in [Workers -> Nat] /\ \A w \in Workers : stale[w] <= Len(msgs[w])
    /\ lateAcks \in [Workers -> Nat] /\ lateReady \in [Workers -> BOOLEAN]

\* How many of the messages ms after the first k are m
CountAfter(ms, k, m) == Cardinality({i \in (k + 1)..Len(ms) : ms[i] = m})

\* The connections of the live process that the master knows of, once it has
\* read the "+" and not yet the "-" (in WorkerStatus: "the number of
\* connections which we know the subprocess to be presently processing")
Known(w) == conns[w] - CountAfter(msgs[w], stale[w], "+")
                     + CountAfter(msgs[w], stale[w], "-")

\* While a slot runs a process, acknowledged is never less than what the
\* process works on as far as it has reported, and never more than that plus
\* the "+" of earlier processes that were read after stop() had reset the
\* counters (statusFromMessage does not know which process a message is from).
AcknowledgedTracksWork ==
    \A w \in Workers : proc[w] \in {"booting", "up", "draining"} /\ stale[w] = 0 =>
       /\ status[w].acknowledged >= Known(w)
       /\ status[w].acknowledged <= Known(w) + lateAcks[w]

\* Every "+" on its way finds a socket that the master still holds: the count
\* of closeCountFromStatus never exceeds what was sent, also when a process
\* dies with sockets untaken and its successor takes them.
EveryAckHasASocket ==
    \A w \in Workers : held[w] >= pipe[w] + CountAfter(msgs[w], 0, "+")

ServerLoad == Total([w \in Workers |-> pipe[w] + conns[w]])
Abandoned == Total([w \in Workers |-> status[w].abandoned])

\* The connections of the whole server (sent or being worked on) exceed the
\* limit only by connections that were written off as abandoned when a process
\* ended and that its successor then finds in the meta socket.
LoadBounded == ServerLoad <= MaxRequests + Abandoned

\* A slot is dispatched to only after the process in it has said that it is
\* ready (WorkerStatus.starting: "Do not dispatch to it until we receive the
\* started message"), unless the "0" of the process before it came late.
ReadyWhenActive ==
    \A w \in Workers : active(status[w]) => proc[w] # "booting" \/ lateReady[w]

\* The master always comes back to accepting connections: connections close,
\* dead workers are replaced, and what they had on the books is cleared.  Only
\* a "+" that was read late can stay on the books.
AcceptsAgain == []<>(reading \/ \E w \in Workers : lateAcks[w] > 0)

\* A socket that was sent to a slot is taken by a process of that slot in the
\* end, whatever dies in between.
SocketsTaken == \A w \in Workers : pipe[w] > 0 ~> pipe[w] = 0
=============================================================================
