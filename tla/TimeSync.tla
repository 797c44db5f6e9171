------------------------------ MODULE TimeSync ------------------------------
(***************************************************************************)
(* How the TimeSync plugin gets the time from an NTP server: NTPClient.cpp *)
(* with the plugin around it, TimeSync.cpp/.h and TimeSyncJsonRpc.cpp.     *)
(*                                                                         *)
(* The threads that meet here:                                             *)
(*   - the workers that run _activity, the job of the NTPClient, which is  *)
(*     its first step, its watchdog and its report in one;                 *)
(*   - the socket thread, in SendData, ReceiveData and StateChange;        *)
(*   - the clients of the plugin, which synchronise or set the time;       *)
(*   - the worker that runs PeriodicSync;                                  *)
(*   - the framework, in Initialize and Deinitialize of the plugin.        *)
(*                                                                         *)
(* Revoke of the worker pool takes a job off the timer and the queue, and  *)
(* then waits for the workers that run it. ReceiveData and Cancel wait so  *)
(* with _adminLock held: a worker that waits for the lock is then waited   *)
(* for, and both wait for ever.                                            *)
(***************************************************************************)
EXTENDS Naturals

CONSTANTS
    Sources,     \* how many NTP servers _servers has
    Retries,     \* the retries of the configuration
    RetryWord,   \* the number of values of _retryAttempts: 2^32
    Periodic,    \* whether the configuration has a periodicity
    Deferred,    \* whether the first synchronisation is left to a client
    Workers,     \* the number of threads of the worker pool
    MaxSync,     \* bound: synchronisations that are started
    MaxSet       \* bound: how often the time is set by hand

ASSUME TimeSyncAssumption ==
    /\ Sources \in Nat
    /\ RetryWord \in Nat \ {0}
    /\ Retries \in 0 .. RetryWord - 1
    /\ Periodic \in BOOLEAN
    /\ Deferred \in BOOLEAN
    /\ Workers \in Nat \ {0}
    /\ MaxSync \in Nat
    /\ MaxSet \in Nat

States == {"INITIAL", "SENDREQUEST", "INPROGRESS", "SUCCESS", "FAILED"}

UnderWay == {"SENDREQUEST", "INPROGRESS"}

Results == {"NONE", "INPROGRESS", "INCOMPLETE_CONFIG"}

\* Where the socket thread is: before the lock of SendData or of ReceiveData, in the
\* Revoke of ReceiveData or of StateChange, and in StateChange after it.
Points == {"free", "sending", "receiving", "revoking", "failing", "resubmitting"}

\* Where the plugin is: Initialize has not begun, is between Synchronize and Register,
\* has ended; Deinitialize has revoked PeriodicSync, has ended.
Phases == {"created", "starting", "active", "stopping", "stopped"}

VARIABLES
    state,       \* _state
    server,      \* _serverIndex: 0 before the first server, Sources + 1 past the last
    retries,     \* _retryAttempts
    fired,       \* _fired
    synced,      \* _syncedTimestamp is valid
    owner,       \* who holds _adminLock from one step to the next
    queued,      \* how many times _activity is in the queue of the pool
    timed,       \* how many times it is on the timer
    picked,      \* how many workers run it and have not taken the lock yet
    scheduling,  \* how many have let go the lock and are about to schedule it
    socket,      \* the datagram socket: closed, open or closing
    inbox,       \* an answer to the request sent last has reached the socket
    thread,      \* the point the socket thread is at
    taken,       \* the answer it is in ReceiveData with: to the last request or not
    phase,       \* the phase of the plugin
    registered,  \* the notification of the plugin is in _clients
    periodic,    \* how many times PeriodicSync is on the timer
    subsystem,   \* the TIME subsystem is active
    setter,      \* the client that sets the time: idle, in the Revoke of Cancel, after it
    syncs,       \* bound: synchronisations started
    sets,        \* bound: how often the time was set
    result,      \* history: what the last Synchronize returned
    reported,    \* history: _clients were told the outcome
    accepted     \* history: the answer that was taken last

client == <<state, server, retries, fired, synced, owner>>
jobs   == <<queued, timed, picked, scheduling>>
wire   == <<socket, inbox, thread, taken>>
plugin == <<phase, registered, periodic, subsystem, setter>>
bounds == <<syncs, sets>>
past   == <<result, reported, accepted>>
vars   == <<client, jobs, wire, plugin, bounds, past>>

Init ==
    /\ state = "INITIAL" /\ server = 0 /\ retries = Retries
    /\ fired = TRUE /\ synced = FALSE /\ owner = "nobody"
    /\ queued = 0 /\ timed = 0 /\ picked = 0 /\ scheduling = 0
    /\ socket = "closed" /\ inbox = FALSE /\ thread = "free" /\ taken = "none"
    /\ phase = "created" /\ registered = FALSE /\ periodic = 0 /\ subsystem = FALSE
    /\ setter = "idle"
    /\ syncs = 0 /\ sets = 0
    /\ result = "NONE" /\ reported = TRUE /\ accepted = "none"

Unlocked == owner = "nobody"

\* What Revoke of _activity waits for.
NoneRuns == picked = 0 /\ scheduling = 0

TakeOff == queued' = 0 /\ timed' = 0 /\ UNCHANGED <<picked, scheduling>>

Submit == queued' = queued + 1 /\ UNCHANGED <<timed, picked, scheduling>>

CloseSocket == socket' = IF socket = "closed" THEN "closed" ELSE "closing"

-----------------------------------------------------------------------------
(* Synchronize, by the plugin, a client or PeriodicSync                    *)

SourceIsValid == server \in 1 .. Sources

Startable == \/ state \in {"INITIAL", "SUCCESS"}
             \/ state = "FAILED" /\ ~SourceIsValid

Synchronize ==
    /\ Unlocked
    /\ \/ /\ Startable
          /\ syncs < MaxSync
          /\ syncs'    = syncs + 1
          /\ state'    = "SENDREQUEST"
          /\ reported' = FALSE
          /\ result'   = "NONE"
          /\ Submit
       \/ /\ ~Startable
          /\ result' = IF state \in UnderWay THEN "INPROGRESS" ELSE "INCOMPLETE_CONFIG"
          /\ UNCHANGED <<syncs, state, reported, jobs>>
    /\ UNCHANGED <<server, retries, fired, synced, owner, wire, sets, accepted>>

\* endpoint_synchronize, and POST of Sync.
ClientSynchronize ==
    /\ phase = "active"
    /\ Synchronize
    /\ UNCHANGED plugin

PeriodicSync ==
    /\ periodic > 0
    /\ periodic' = periodic - 1
    /\ Synchronize
    /\ UNCHANGED <<phase, registered, subsystem, setter>>

\* Initialize: the sources and retries are set already, for Init. The notification is
\* registered only once the synchronisation has been started.
Initialize ==
    /\ phase = "created"
    /\ phase' = "starting"
    /\ IF Deferred
       THEN UNCHANGED <<client, jobs, wire, bounds, past>>
       ELSE Synchronize
    /\ UNCHANGED <<registered, periodic, subsystem, setter>>

Register ==
    /\ phase = "starting"
    /\ Unlocked
    /\ phase'      = "active"
    /\ registered' = TRUE
    /\ UNCHANGED <<client, jobs, wire, periodic, subsystem, setter, bounds, past>>

\* Deinitialize: Revoke of PeriodicSync, and then Unregister.
Deinitialize ==
    /\ phase = "active"
    /\ setter = "idle"
    /\ phase'    = "stopping"
    /\ periodic' = 0
    /\ UNCHANGED <<client, jobs, wire, registered, subsystem, setter, bounds, past>>

Unregister ==
    /\ phase = "stopping"
    /\ Unlocked
    /\ phase'      = "stopped"
    /\ registered' = FALSE
    /\ UNCHANGED <<client, jobs, wire, periodic, subsystem, setter, bounds, past>>

-----------------------------------------------------------------------------
(* set_time, and PUT of Set: Cancel, the Revoke of PeriodicSync, SetTime   *)

CancelBegin ==
    /\ phase = "active"
    /\ setter = "idle"
    /\ Unlocked
    /\ sets < MaxSet
    /\ sets' = sets + 1
    /\ \/ /\ state \in UnderWay
          /\ state' = "FAILED"
          /\ reported' = FALSE
          /\ CloseSocket
          /\ TakeOff
          /\ owner'  = "cancel"
          /\ setter' = "cancelling"
       \/ /\ state \notin UnderWay
          /\ setter' = "cancelled"
          /\ UNCHANGED <<state, reported, socket, jobs, owner>>
    /\ UNCHANGED <<server, retries, fired, synced, inbox, thread, taken, phase,
                   registered, periodic, subsystem, syncs, result, accepted>>

CancelEnd ==
    /\ setter = "cancelling"
    /\ NoneRuns
    /\ Submit
    /\ owner'  = "nobody"
    /\ setter' = "cancelled"
    /\ UNCHANGED <<state, server, retries, fired, synced, wire, phase, registered,
                   periodic, subsystem, bounds, past>>

SetTime ==
    /\ setter = "cancelled"
    /\ setter'    = "idle"
    /\ periodic'  = 0
    /\ subsystem' = TRUE
    /\ UNCHANGED <<client, jobs, wire, phase, registered, bounds, past>>

-----------------------------------------------------------------------------
(* The socket thread                                                       *)

SendBegin ==
    /\ thread = "free"
    /\ socket = "open"
    /\ ~fired
    /\ thread' = "sending"
    /\ UNCHANGED <<client, jobs, socket, inbox, taken, plugin, bounds, past>>

\* The request may be answered, or it or the answer is lost.
SendData ==
    /\ thread = "sending"
    /\ Unlocked
    /\ thread' = "free"
    /\ fired'  = TRUE
    /\ inbox'  \in IF fired THEN {inbox} ELSE BOOLEAN
    /\ UNCHANGED <<state, server, retries, synced, owner, jobs, socket, taken, plugin,
                   bounds, past>>

ReceiveBegin ==
    /\ thread = "free"
    /\ socket = "open"
    /\ inbox
    /\ inbox'  = FALSE
    /\ thread' = "receiving"
    /\ taken'  = "last"
    /\ UNCHANGED <<client, jobs, socket, plugin, bounds, past>>

\* A datagram of the size of an answer is taken for one, whatever the state is.
ReceiveData ==
    /\ thread = "receiving"
    /\ Unlocked
    /\ synced'   = TRUE
    /\ state'    = "SUCCESS"
    /\ reported' = FALSE
    /\ accepted' = taken
    /\ CloseSocket
    /\ TakeOff
    /\ owner'  = "receive"
    /\ thread' = "revoking"
    /\ taken'  = "none"
    /\ UNCHANGED <<server, retries, fired, inbox, plugin, bounds, result>>

ReceiveEnd ==
    /\ thread = "revoking"
    /\ NoneRuns
    /\ Submit
    /\ owner'  = "nobody"
    /\ thread' = "free"
    /\ UNCHANGED <<state, server, retries, fired, synced, socket, inbox, taken, plugin,
                   bounds, past>>

\* StateChange with an error, which takes no lock.
StateChange ==
    /\ thread = "free"
    /\ socket = "open"
    /\ CloseSocket
    /\ TakeOff
    /\ thread' = "failing"
    /\ UNCHANGED <<client, inbox, taken, plugin, bounds, past>>

StateChangeRevoked ==
    /\ thread = "failing"
    /\ NoneRuns
    /\ thread' = "resubmitting"
    /\ UNCHANGED <<client, jobs, socket, inbox, taken, plugin, bounds, past>>

StateChangeEndWithoutSubmit ==
    /\ thread = "resubmitting"
    /\ thread' = "free"
    /\ UNCHANGED <<client, jobs, socket, inbox, taken, plugin, bounds, past>>

StateChangeEnd ==
    /\ thread = "resubmitting"
    /\ Submit
    /\ thread' = "free"
    /\ UNCHANGED <<client, socket, inbox, taken, plugin, bounds, past>>

SocketClosed ==
    /\ socket = "closing"
    /\ thread = "free"
    /\ socket' = "closed"
    /\ inbox'  = FALSE
    /\ UNCHANGED <<client, jobs, thread, taken, plugin, bounds, past>>

-----------------------------------------------------------------------------
(* The workers and _activity                                               *)

Expire ==
    /\ timed > 0
    /\ timed'  = timed - 1
    /\ queued' = queued + 1
    /\ UNCHANGED <<client, picked, scheduling, wire, plugin, bounds, past>>

Pick ==
    /\ queued > 0
    /\ picked + scheduling < Workers
    /\ queued' = queued - 1
    /\ picked' = picked + 1
    /\ UNCHANGED <<client, timed, scheduling, wire, plugin, bounds, past>>

CompletedOnSuccess ==
    LET told == registered /\ synced /\ state = "SUCCESS"
    IN  /\ subsystem' = (subsystem \/ told)
        /\ periodic'  = IF told /\ Periodic THEN periodic + 1 ELSE periodic

\* Completed of the notification, for success and failure: it sets the time to the last
\* answer there was, and plans the next synchronisation.
Completed ==
    LET told == registered /\ synced
    IN  /\ subsystem' = (subsystem \/ told)
        /\ periodic'  = IF told /\ Periodic THEN periodic + 1 ELSE periodic

\* Update tells the outcome to the notification of the plugin.
Update ==
    /\ reported' = TRUE
    /\ Completed
    /\ UNCHANGED <<result, accepted, phase, registered, setter>>

NoUpdate == UNCHANGED <<past, plugin>>

NoClose == TRUE

\* FireRequest can close a lingering socket, unless the socket thread is in a callback
\* that waits for the lock or for this job.
Closable == socket = "closed" \/ thread = "free"

BeforeFirst == 0

\* The first server a dispatch may try.
Before == IF state = "SENDREQUEST" THEN 0 ELSE server

\* FireRequest that sends to one of the servers left, the others being unknown.
FireRequest ==
    /\ Closable
    /\ \E s \in Before + 1 .. Sources : server' = s
    /\ socket' = "open"
    /\ fired'  = FALSE
    /\ inbox'  = FALSE
    /\ taken'  = IF taken = "last" THEN "old" ELSE taken
    /\ UNCHANGED thread

\* FireRequest that does not: none of the servers left is known, or the second it
\* waits for the socket to close has passed.
NoRequest ==
    /\ \/ /\ Closable
          /\ server' = Sources + 1
          /\ socket' = "closed"
          /\ inbox'  = FALSE
       \/ /\ ~Closable
          /\ server' = Before
          /\ CloseSocket
          /\ UNCHANGED inbox
    /\ UNCHANGED <<fired, thread, taken>>

Leave(again) ==
    /\ picked'     = picked - 1
    /\ scheduling' = IF again THEN scheduling + 1 ELSE scheduling
    /\ UNCHANGED <<queued, timed>>

\* Dispatch in SENDREQUEST or INPROGRESS: the next server is asked, ...
DispatchRequest ==
    /\ picked > 0
    /\ Unlocked
    /\ state \in UnderWay
    /\ FireRequest
    /\ state' = "INPROGRESS"
    /\ Leave(TRUE)
    /\ NoUpdate
    /\ UNCHANGED <<retries, synced, owner, bounds>>

DecrementSigned(n) == n - 1

\* _retryAttempts--
Decrement(n) == (n + RetryWord - 1) % RetryWord

\* ... or it sleeps, at the first try only, ...
DispatchSleep ==
    /\ picked > 0
    /\ Unlocked
    /\ state = "SENDREQUEST"
    /\ retries # 0
    /\ NoRequest
    /\ retries' = Decrement(retries)
    /\ state'   = "INPROGRESS"
    /\ Leave(TRUE)
    /\ NoUpdate
    /\ UNCHANGED <<synced, owner, bounds>>

\* ... or it gives up and says so.
DispatchGiveUp ==
    /\ picked > 0
    /\ Unlocked
    /\ state \in UnderWay
    /\ state = "SENDREQUEST" => retries = 0
    /\ NoRequest
    /\ retries' = IF state = "SENDREQUEST" THEN Decrement(retries) ELSE retries
    /\ state'   = "FAILED"
    /\ Leave(FALSE)
    /\ Update
    /\ UNCHANGED <<synced, owner, bounds>>

\* Dispatch in FAILED or SUCCESS.
DispatchReport ==
    /\ picked > 0
    /\ Unlocked
    /\ state \in {"FAILED", "SUCCESS"}
    /\ Leave(FALSE)
    /\ Update
    /\ UNCHANGED <<client, wire, bounds>>

\* The schedule at the end of Dispatch, after the lock.
Schedule ==
    /\ scheduling > 0
    /\ scheduling' = scheduling - 1
    /\ timed'      = timed + 1
    /\ UNCHANGED <<client, queued, picked, wire, plugin, bounds, past>>

-----------------------------------------------------------------------------
Plugin == Initialize \/ Register \/ Deinitialize \/ Unregister

Client == ClientSynchronize \/ PeriodicSync \/ CancelBegin \/ CancelEnd \/ SetTime

Socket == SendBegin \/ SendData \/ ReceiveBegin \/ ReceiveData \/ ReceiveEnd
          \/ StateChange \/ StateChangeRevoked \/ StateChangeEnd \/ SocketClosed

Activity == Expire \/ Pick \/ DispatchRequest \/ DispatchSleep \/ DispatchGiveUp
            \/ DispatchReport \/ Schedule

Next == Plugin \/ Client \/ Socket \/ Activity

Spec == Init /\ [][Next]_vars

\* The timer fires and the workers run what is queued: nothing is assumed of the
\* network, the clients or the framework.
FairSpec ==
    /\ Spec
    /\ WF_vars(Expire) /\ WF_vars(Pick) /\ WF_vars(Schedule)
    /\ WF_vars(DispatchRequest \/ DispatchSleep \/ DispatchGiveUp \/ DispatchReport)
    /\ WF_vars(StateChangeRevoked) /\ WF_vars(StateChangeEnd)

-----------------------------------------------------------------------------
(* Properties                                                              *)

TypeOK ==
    /\ state \in States /\ server \in 0 .. Sources + 1
    /\ retries \in 0 .. RetryWord - 1
    /\ fired \in BOOLEAN /\ synced \in BOOLEAN
    /\ owner \in {"nobody", "cancel", "receive"}
    /\ queued \in Nat /\ timed \in Nat /\ picked \in Nat /\ scheduling \in Nat
    /\ socket \in {"closed", "open", "closing"} /\ inbox \in BOOLEAN
    /\ thread \in Points /\ taken \in {"none", "last", "old"}
    /\ phase \in Phases /\ registered \in BOOLEAN /\ subsystem \in BOOLEAN
    /\ periodic \in Nat /\ setter \in {"idle", "cancelling", "cancelled"}
    /\ syncs \in 0 .. MaxSync /\ sets \in 0 .. MaxSet
    /\ result \in Results /\ reported \in BOOLEAN
    /\ accepted \in {"none", "last", "old"}

\* The job that takes the next step is on its way, or is about to be submitted.
Pending == \/ queued + timed + picked + scheduling > 0
           \/ thread \in {"revoking", "failing", "resubmitting"}
           \/ setter = "cancelling"

\* There is one job for everything, and three places take it off: whatever they
\* interrupt, a synchronisation that is not finished and an outcome the clients have
\* not been told still have a run of the job to come.
Watched == state \in UnderWay \/ ~reported => Pending

\* ReceiveData looks neither at the state nor at the datagram. What it takes is the
\* answer to the request sent last nevertheless, for the socket of a request is only
\* opened once the one before it is closed, with no callback left in it.
AnswersTheLatest == accepted # "old" /\ (state = "SUCCESS" => accepted = "last")

\* The periodic synchronisation keeps itself going: as long as nobody sets the time,
\* the next is planned, or one is under way or about to be reported, which plans it,
\* whatever fails. (It ends if Synchronize refuses for good, which RefusedMeansNoSource
\* is about, and it never starts if the first outcome comes before Register.)
PeriodicContinues ==
    Periodic /\ phase = "active" /\ subsystem /\ sets = 0 =>
        \/ periodic > 0
        \/ state \in UnderWay \/ ~reported
        \/ state = "FAILED" /\ SourceIsValid

\* A synchronisation that is under way comes to an end, although workers and socket
\* thread may block each other: the server list is walked once, and the one sleep
\* is followed by the last try.
SyncEnds == state \in UnderWay ~> state \notin UnderWay

\* "ERROR_INCOMPLETE_CONFIG: Returned when the source configuration is missing or
\* invalid": Synchronize returns it for no other reason.
RefusedMeansNoSource == result = "INCOMPLETE_CONFIG" => Sources = 0

=============================================================================
