--------------------------- MODULE ProcessMonitor ---------------------------
(***************************************************************************)
(* The master's process monitor: DelayedStartupProcessMonitor in           *)
(* calendarserver/tap/caldav.py, with MemoryLimitService                   *)
(* (calendarserver/tap/util.py) as a second caller of stopProcess.         *)
(*                                                                         *)
(* A name is started by startProcess, which only schedules delayedStart;   *)
(* delayedStart spawns the process unless there is one.  When a process    *)
(* ends, startProcess is scheduled again after a back-off of up to an hour. *)
(* How long the delays are is left out: a timer fires at any time.         *)
(* removeProcess and restartAll have no caller in the server.              *)
(***************************************************************************)
EXTENDS Integers

CONSTANTS Names,      \* names of monitored processes
          MaxExits    \* bound: processes that end without being told to

ASSUME MonitorAssumption == MaxExits \in Nat

VARIABLES
    running,    \* Service.running
    stopping,   \* stopService has been called
    processes,  \* names that were added
    protocols,  \* protocols[name] and the state of its process: "none" when
                \* the name has no protocol, "alive", "ended" (not reaped yet)
    starts,     \* delayedStart calls that are scheduled
    restart,    \* names with a scheduled startProcess
    murder,     \* names with a scheduled _forceStopProcess
    termed,     \* (history) names whose process was sent TERM
    deferreds,  \* names stopService still waits for
    result,     \* whether the deferred of stopService has fired
    exits,      \* (bound)
    quiet       \* (history) nothing was about to start when stopService ran

monitorVars == <<running, stopping, processes, protocols, starts, restart, murder,
                 termed, deferreds, result, exits, quiet>>

-----------------------------------------------------------------------------
MonitorInit ==
    /\ running = FALSE /\ stopping = FALSE
    /\ processes = {}
    /\ protocols = [n \in Names |-> "none"]
    /\ starts = [n \in Names |-> 0]
    /\ restart = {} /\ murder = {} /\ termed = {}
    /\ deferreds = {}
    /\ result = FALSE
    /\ exits = 0
    /\ quiet = TRUE

\* startProcess for the names in S
startProcess(S) == starts' = [n \in Names |-> starts[n] + IF n \in S THEN 1 ELSE 0]

\* stopProcess for the names in S: TERM, and a timer to KILL, for those that
\* have a process (one that has ended already is left alone)
stopProcess(S) ==
    LET told == {n \in S : protocols[n] = "alive"}
    IN  /\ murder' = murder \cup told
        /\ termed' = termed \cup told

Add(n, started) ==
    /\ n \notin processes
    /\ processes' = processes \cup {n}
    /\ startProcess(IF started THEN {n} ELSE {})
    /\ UNCHANGED <<running, stopping, protocols, restart, murder, termed, deferreds,
                   result, exits, quiet>>

\* Mutant: an added process is always started.
addProcessObject_always(n) == Add(n, TRUE)

addProcessObject(n) == Add(n, running)

startService ==
    /\ ~running /\ ~stopping
    /\ running' = TRUE
    /\ startProcess(processes)
    /\ UNCHANGED <<stopping, processes, protocols, restart, murder, termed, deferreds,
                   result, exits, quiet>>

\* The deferred that is returned gathers one deferred for every name, with a
\* process or without.
stopService ==
    /\ running
    /\ running' = FALSE /\ stopping' = TRUE
    /\ deferreds' = processes
    /\ result' = (processes = {})
    /\ restart' = {}
    /\ stopProcess(processes)
    /\ quiet' = \A n \in processes : protocols[n] # "none"
    /\ UNCHANGED <<processes, protocols, starts, exits>>

\* checkMemory of MemoryLimitService finds a process too large.
checkMemory(n) ==
    /\ n \in processes /\ protocols[n] = "alive"
    /\ n \notin termed /\ exits < MaxExits
    /\ stopProcess({n})
    /\ exits' = exits + 1
    /\ UNCHANGED <<running, stopping, processes, protocols, starts, restart, deferreds,
                   result, quiet>>

\* The scheduled startProcess of processEnded
RestartTimer(n) ==
    /\ n \in restart
    /\ restart' = restart \ {n}
    /\ startProcess({n})
    /\ UNCHANGED <<running, stopping, processes, protocols, murder, termed, deferreds,
                   result, exits, quiet>>

\* delayedStart and reallyStartProcess
delayedStart(n) ==
    /\ starts[n] > 0
    /\ starts' = [starts EXCEPT ![n] = @ - 1]
    /\ protocols' = [protocols EXCEPT ![n] = IF @ = "none" THEN "alive" ELSE @]
    /\ UNCHANGED <<running, stopping, processes, restart, murder, termed,
                   deferreds, result, exits, quiet>>

\* The process of n is gone; n is to start again if "again" holds, and the
\* deferred of stopService fires if "done" holds.
Reap(n, again, done) ==
    /\ protocols[n] = "ended"
    /\ protocols' = [protocols EXCEPT ![n] = "none"]
    /\ murder' = murder \ {n} /\ termed' = termed \ {n}
    /\ restart' = IF again THEN restart \cup {n} ELSE restart
    /\ deferreds' = deferreds \ {n}
    /\ result' = (result \/ done)
    /\ UNCHANGED <<running, stopping, processes, starts, exits, quiet>>

\* Mutants: the deferred fires with the first process that ends; it does not
\* fire; a process that was stopped on purpose is not started again.
processEnded_first(n) == Reap(n, running, stopping)
processEnded_silent(n) == Reap(n, running, FALSE)
processEnded_stopped(n) ==
    Reap(n, running /\ n \notin termed, stopping /\ deferreds \ {n} = {})

processEnded(n) == Reap(n, running, stopping /\ deferreds \ {n} = {})

_forceStopProcess(n) ==
    /\ n \in murder
    /\ murder' = murder \ {n}
    /\ protocols' = [protocols EXCEPT ![n] = IF @ = "alive" THEN "ended" ELSE @]
    /\ UNCHANGED <<running, stopping, processes, starts, restart, termed,
                   deferreds, result, exits, quiet>>

\* A process ends: it was sent TERM, or it dies by itself.
Exit(n) ==
    /\ protocols[n] = "alive"
    /\ n \in termed \/ exits < MaxExits
    /\ exits' = IF n \in termed THEN exits ELSE exits + 1
    /\ protocols' = [protocols EXCEPT ![n] = "ended"]
    /\ UNCHANGED <<running, stopping, processes, starts, restart, murder, termed,
                   deferreds, result, quiet>>

-----------------------------------------------------------------------------
MonitorNext ==
    \/ startService \/ stopService
    \/ \E n \in Names :
          \/ addProcessObject(n) \/ checkMemory(n) \/ RestartTimer(n)
          \/ delayedStart(n) \/ processEnded(n) \/ _forceStopProcess(n) \/ Exit(n)

\* The reactor runs its timers and reaps processes.  A process is not assumed
\* to obey TERM: _forceStopProcess is there for that.
MonitorFairness ==
    \A n \in Names :
       /\ WF_monitorVars(RestartTimer(n)) /\ WF_monitorVars(delayedStart(n))
       /\ WF_monitorVars(processEnded(n)) /\ WF_monitorVars(_forceStopProcess(n))

MonitorSpec == MonitorInit /\ [][MonitorNext]_monitorVars /\ MonitorFairness

-----------------------------------------------------------------------------
\* Properties

\* Types
MonitorTypeOK ==
    /\ running \in BOOLEAN /\ stopping \in BOOLEAN /\ result \in BOOLEAN
    /\ quiet \in BOOLEAN
    /\ processes \subseteq Names /\ restart \subseteq processes
    /\ murder \subseteq processes /\ termed \subseteq processes
    /\ deferreds \subseteq processes
    /\ protocols \in [Names -> {"none", "alive", "ended"}]
    /\ starts \in [Names -> Nat] /\ exits \in 0..MaxExits

\* A name has one process, one scheduled start or one scheduled restart and
\* never two of them: the processes of a slot share its meta socket.
OneProcessPerName ==
    \A n \in Names :
       starts[n] + (IF n \in restart THEN 1 ELSE 0)
         + (IF protocols[n] = "none" THEN 0 ELSE 1) <= 1

\* No process, and none about to start
Idle(n) == protocols[n] = "none" /\ starts[n] = 0 /\ n \notin restart

\* The deferred of stopService fires only when all processes have shut down,
\* and nothing starts afterwards (class docstring of the monitor).
StoppedMeansGone ==
    result => \A n \in Names : Idle(n)

\* While the service runs, every process that was added comes to run, and a
\* process that ends is replaced.
KeptRunning ==
    \A n \in Names : (running /\ n \in processes) ~> (protocols[n] = "alive" \/ stopping)

\* stopService completes when every process was up as it was called.
QuietStopEnds == (stopping /\ quiet) ~> result
=============================================================================
