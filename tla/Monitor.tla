------------------------------- MODULE Monitor ------------------------------
(***************************************************************************)
(* Monitor and a plugin it watches that runs out of process                *)
(* (Monitor/Monitor.h and .cpp; WebKitBrowser/WebKitBrowser.cpp, and       *)
(* Spark, WebServer and OCDM, which do the same).                          *)
(*                                                                         *)
(* The plugin holds a memory interface to its process and hands Monitor    *)
(* one too. A process that is lost is reported twice: by its connection to *)
(* the plugin, and by the Probe of Monitor, which also reports one that    *)
(* uses too much memory. Each report is a job to deactivate the plugin;    *)
(* Monitor answers to the deactivation with a job to activate it again, as *)
(* long as its limit for the window allows. The jobs are run by the        *)
(* workers of the plugin host, which is outside this repository: it lets a *)
(* plugin through its states one transition at a time, and reports every   *)
(* state to Monitor after it has been assigned.                            *)
(***************************************************************************)
EXTENDS Naturals, SequencesExt

CONSTANTS
    Workers,      \* threads of the worker pool of the host
    Processes,    \* identities for the process of the plugin and its interface
    NoProcess,
    Causes,       \* failures that are counted: FAILURE and MEMORY_EXCEEDED
    Failure,      \* the one that is reported for a connection that is lost
    RestartAllowed, \* _operationalEvaluate: the plugin is restarted at all
    Limits,       \* bound: the limits that are set,
    MaxLimit,     \* at most this, but for a negative one
    MaxJobs       \* bound: jobs that wait for a worker

Others    == {"requested", "automatic", "initialization failed"}
Reasons   == Causes \cup Others
Unlimited == MaxLimit + 1     \* a negative limit

ASSUME MonitorAssumption ==
    /\ NoProcess \notin Processes
    /\ Failure \in Causes
    /\ Causes \cap Others = {}
    /\ RestartAllowed \in BOOLEAN
    /\ MaxLimit \in Nat
    /\ Limits \subseteq 0 .. Unlimited
    /\ MaxJobs \in Nat \ {0}

States == {"deactivated", "activation", "activated", "deactivation"}

\* Where a worker is in a job: before or in the Initialize or before the Deinitialize of
\* the plugin, or before it tells the new state to Monitor.
Points == {"idle", "initialize", "configure", "tell activated", "tell deactivation",
           "deinitialize", "tell deactivated"}

Windows == {"none", "going", "over"}

VARIABLES
    \* the host
    state, reason,  \* of the plugin
    queue,          \* jobs for the workers
    at,             \* the point every worker is at
    \* the plugin
    memory,         \* _memory: the interface to its process
    running,        \* the process runs
    lost,           \* the loss of its connection is not yet reported
    missed,         \* history: the host has left the job that reported it
    \* Monitor
    open,           \* between Open and Close
    source,         \* _source: its reference to the interface
    probed,         \* the interface Probe is about to use
    limit,          \* per cause: the limit,
    count,          \* the restarts counted in the window,
    window,         \* and the window: none, going or over
    granted,        \* history: the restarts in the window
    givenUp         \* history: the plugin was not restarted

host    == <<state, reason, queue, at>>
plugin  == <<memory, running, lost, missed>>
restart == <<limit, count, window, granted, givenUp>>
monitor == <<open, source, probed, restart>>
vars    == <<host, plugin, monitor>>

Job(to, why) == [to |-> to, why |-> why]

Init ==
    /\ state = "deactivated" /\ reason = "requested"
    /\ queue = <<>>
    /\ at = [w \in Workers |-> "idle"]
    /\ memory = NoProcess /\ running = FALSE /\ lost = FALSE /\ missed = FALSE
    /\ open = FALSE /\ source = NoProcess /\ probed = NoProcess
    /\ limit = [c \in Causes |-> Unlimited]
    /\ count = [c \in Causes |-> 0]
    /\ window = [c \in Causes |-> "none"]
    /\ granted = [c \in Causes |-> 0]
    /\ givenUp = FALSE

-----------------------------------------------------------------------------
(* The plugin                                                              *)

\* Somebody may look at the interface of p.
InUse(p) == p \in {memory, source, probed}

\* Initialize gets a root object in a new process, or finds that the process has not made
\* it ...
Initialize(w) ==
    /\ at[w] = "initialize"
    /\ \/ /\ running' = TRUE
          /\ at' = [at EXCEPT ![w] = "configure"]
          /\ UNCHANGED <<state, reason>>
       \/ /\ state' = "deactivated" /\ reason' = "initialization failed"
          /\ at' = [at EXCEPT ![w] = "tell deactivated"]
          /\ UNCHANGED running
    /\ UNCHANGED <<queue, memory, lost, missed, monitor>>

\* ... and an interface to that process, which may have crashed by then: before it has
\* answered for the control of its state the plugin is given up, and after that nobody looks.
Configure(w) ==
    /\ at[w] = "configure"
    /\ \/ /\ \E p \in Processes : ~InUse(p) /\ memory' = p
          /\ state' = "activated"
          /\ at' = [at EXCEPT ![w] = "tell activated"]
          /\ UNCHANGED <<reason, lost>>
       \/ /\ ~running
          /\ lost' = FALSE
          /\ state' = "deactivated" /\ reason' = "initialization failed"
          /\ at' = [at EXCEPT ![w] = "tell deactivated"]
          /\ UNCHANGED memory
    /\ UNCHANGED <<queue, running, missed, monitor>>

\* Deinitialize unregisters from the connection, lets the interface go and makes sure
\* the process ends.
Deinitialize(w) ==
    /\ at[w] = "deinitialize"
    /\ memory' = NoProcess
    /\ running' = FALSE /\ lost' = FALSE
    /\ state' = "deactivated"
    /\ at' = [at EXCEPT ![w] = "tell deactivated"]
    /\ UNCHANGED <<reason, queue, missed, monitor>>

\* The process crashes.
Crash ==
    /\ running
    /\ running' = FALSE /\ lost' = TRUE
    /\ UNCHANGED <<host, memory, missed, monitor>>

\* Deactivated, on the thread of the connection: the plugin is to be deactivated.
Deactivated ==
    /\ lost
    /\ lost' = FALSE
    /\ queue' = Append(queue, Job("deactivate", Failure))
    /\ UNCHANGED <<state, reason, at, memory, running, missed, monitor>>

-----------------------------------------------------------------------------
(* Monitor                                                                 *)

Set(p) == source' = p

\* Counters only matter up to the highest limit.
CountOn(n) == IF n < Unlimited THEN n + 1 ELSE n

ForgetsCount(c) == 0
CountsDown(c)   == IF window[c] = "going" THEN count[c] - 1 ELSE 0

\* RegisterRestart: the failure is the first of a window or one more in it.
Counted(c) == IF window[c] = "going" THEN CountOn(count[c]) ELSE 0

RegisterRestart(c) ==
    /\ count' = [count EXCEPT ![c] = Counted(c)]
    /\ window' = [window EXCEPT ![c] = "going"]

Granted(c) == IF window[c] = "going" THEN granted[c] ELSE 0

KeepsSource == source
NoRestart   == Job("deactivate", "automatic")

\* What DEACTIVATION leaves of _source.
LetGo == NoProcess

Restart == Job("activate", "automatic")

\* StateChange, under the lock: it looks at the state the plugin has by now.
StateChange ==
    \/ /\ open /\ state = "activated"
       /\ Set(memory)
       /\ UNCHANGED <<queue, restart>>
    \/ /\ open /\ state = "deactivation"
       /\ Set(LetGo)
       /\ UNCHANGED <<queue, restart>>
    \/ /\ open /\ state = "deactivated" /\ RestartAllowed /\ reason \in Causes
       /\ RegisterRestart(reason)
       /\ IF limit[reason] = Unlimited \/ Counted(reason) < limit[reason]
          THEN /\ queue' = Append(queue, Restart)
               /\ granted' = [granted EXCEPT ![reason] = CountOn(Granted(reason))]
               /\ UNCHANGED givenUp
          ELSE /\ granted' = [granted EXCEPT ![reason] = Granted(reason)]
               /\ givenUp' = TRUE
               /\ UNCHANGED queue
       /\ UNCHANGED <<source, limit>>
    \/ /\ \/ ~open
          \/ state = "activation"
          \/ state = "deactivated" /\ ~(RestartAllowed /\ reason \in Causes)
       /\ UNCHANGED <<queue, source, restart>>

\* Probe, without the lock: Evaluate sees that there is an interface ...
Probe ==
    /\ open
    /\ probed = NoProcess /\ source # NoProcess
    /\ Len(queue) < MaxJobs
    /\ probed' = source
    /\ UNCHANGED <<host, plugin, open, source, restart>>

\* ... and asks it, after which the plugin is to be deactivated if it does not work or
\* uses too much. StateChange may have let go of the interface by then: whatever is
\* answered for it is one of these.
Evaluate ==
    /\ probed # NoProcess
    /\ probed' = NoProcess
    /\ \/ \E why \in Causes : queue' = Append(queue, Job("deactivate", why))
       \/ UNCHANGED queue
    /\ UNCHANGED <<state, reason, at, plugin, open, source, restart>>

\* Open makes an observer with the limits of the configuration, and Register reports a
\* plugin that is active.
Open ==
    /\ ~open
    /\ open' = TRUE
    /\ Set(IF state = "activated" THEN memory ELSE NoProcess)
    /\ limit' \in [Causes -> Limits]
    /\ UNCHANGED <<host, plugin, probed, count, window, granted, givenUp>>

\* Close waits for the Probe before it drops the observer and all it has counted.
Close ==
    /\ open
    /\ probed = NoProcess
    /\ open' = FALSE
    /\ Set(NoProcess)
    /\ limit' = [c \in Causes |-> Unlimited]
    /\ count' = [c \in Causes |-> 0]
    /\ window' = [c \in Causes |-> "none"]
    /\ granted' = [c \in Causes |-> 0]
    /\ UNCHANGED <<host, plugin, probed, givenUp>>

\* restartlimits sets new limits, and windows of another length: one that is over may
\* go on, and one that goes on be over.
Update ==
    /\ open
    /\ limit' \in [Causes -> Limits]
    /\ window' \in [Causes -> Windows]
    /\ \A c \in Causes : window[c] = "none" <=> window'[c] = "none"
    /\ UNCHANGED <<host, plugin, open, source, probed, count, granted, givenUp>>

\* Time passes.
WindowEnds ==
    /\ \E c \in Causes : window[c] = "going" /\ window' = [window EXCEPT ![c] = "over"]
    /\ UNCHANGED <<host, plugin, open, source, probed, limit, count, granted, givenUp>>

-----------------------------------------------------------------------------
(* The host                                                                *)

\* The job reports that the process was lost while the plugin is still being activated.
ComesEarly(job) ==
    /\ job = Job("deactivate", Failure)
    /\ ~running /\ \E v \in Workers : at[v] = "configure"

\* A worker takes a job, and leaves it if the plugin is not in the state for it.
Take(w) ==
    /\ at[w] = "idle"
    /\ queue # <<>>
    /\ queue' = Tail(queue)
    /\ LET job == Head(queue) IN
       \/ /\ job.to = "activate" /\ state = "deactivated"
          /\ state' = "activation" /\ reason' = job.why
          /\ at' = [at EXCEPT ![w] = "initialize"]
          /\ givenUp' = FALSE /\ missed' = FALSE
       \/ /\ job.to = "deactivate" /\ state = "activated"
          /\ state' = "deactivation" /\ reason' = job.why
          /\ at' = [at EXCEPT ![w] = "tell deactivation"]
          /\ UNCHANGED <<givenUp, missed>>
       \/ /\ state # (IF job.to = "activate" THEN "deactivated" ELSE "activated")
          /\ missed' = (missed \/ ComesEarly(job))
          /\ UNCHANGED <<state, reason, at, givenUp>>
    /\ UNCHANGED <<memory, running, lost, open, source, probed, limit, count, window, granted>>

\* It tells Monitor that the state of the plugin has changed.
Tell(w) ==
    /\ at[w] \in {"tell activated", "tell deactivation", "tell deactivated"}
    /\ StateChange
    /\ at' = [at EXCEPT ![w] = IF @ = "tell deactivation" THEN "deinitialize" ELSE "idle"]
    /\ UNCHANGED <<state, reason, plugin, open, probed>>

\* A client of the host has the plugin activated or deactivated.
Ask ==
    /\ Len(queue) < MaxJobs
    /\ \E to \in {"activate", "deactivate"} : queue' = Append(queue, Job(to, "requested"))
    /\ UNCHANGED <<state, reason, at, plugin, monitor>>

-----------------------------------------------------------------------------

Next == \/ \E w \in Workers : \/ Take(w) \/ Tell(w)
                              \/ Initialize(w) \/ Configure(w) \/ Deinitialize(w)
        \/ Crash \/ Deactivated
        \/ Probe \/ Evaluate \/ Open \/ Close \/ Update \/ WindowEnds
        \/ Ask

Spec == Init /\ [][Next]_vars

\* Workers go on with their jobs and the end of a connection is reported. Nobody has to
\* probe, crash or ask.
Fairness == /\ \A w \in Workers :
                  WF_vars(Take(w) \/ Tell(w) \/ Initialize(w) \/ Configure(w) \/ Deinitialize(w))
            /\ WF_vars(Deactivated)

FairSpec == Spec /\ Fairness

-----------------------------------------------------------------------------
(* Properties                                                              *)

TypeOK ==
    /\ state \in States
    /\ reason \in Reasons
    /\ queue \in Seq([to : {"activate", "deactivate"}, why : Reasons])
    /\ at \in [Workers -> Points]
    /\ memory \in Processes \cup {NoProcess}
    /\ running \in BOOLEAN /\ lost \in BOOLEAN /\ missed \in BOOLEAN
    /\ open \in BOOLEAN
    /\ source \in Processes \cup {NoProcess}
    /\ probed \in Processes \cup {NoProcess}
    /\ limit \in [Causes -> Limits \cup {Unlimited}]
    /\ count \in [Causes -> 0 .. Unlimited]
    /\ window \in [Causes -> Windows]
    /\ granted \in [Causes -> 0 .. Unlimited]
    /\ givenUp \in BOOLEAN

\* Monitor looks at the process of the plugin and not at one before it, whatever the
\* order in which the workers tell it the states (StateChange): else Probe would report
\* a process that is long gone, and stop the plugin that has taken its place.
SourceIsCurrent == source # NoProcess => source = memory

\* A restart is granted only within the limit that is set at the time, counting all
\* that were granted since the window began (RegisterRestart).
RestartsLimited ==
    [][\A c \in Causes : granted'[c] > granted[c] /\ limit[c] # Unlimited
            => granted'[c] <= limit[c]]_vars

\* A plugin whose process is lost gets a new one, unless somebody stops it, its process
\* cannot be started, or its limit is reached, and no crash is lost among the jobs
\* (Deactivated and StateChange), but for that of a process that crashes while the plugin is
\* in ACTIVATION, when the host leaves the job before the plugin is active.
CrashIsHandled ==
    state = "activated" /\ ~running
        ~> \/ running
           \/ state = "activated" /\ missed
           \/ state = "deactivated" /\ (givenUp \/ reason \notin Causes)
           \/ ~open \/ ~RestartAllowed
=============================================================================
