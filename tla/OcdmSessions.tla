---------------------------- MODULE OcdmSessions ----------------------------
(***************************************************************************)
(* The decryption sessions of OpenCDMi (OpenCDMi/FrameworkRPC.cpp). The    *)
(* AccessorOCDM creates a SessionImplementation for a client, finds it for *)
(* others, and tells its observers. A session has three resources: the     *)
(* session of the CDM, a buffer of the pool that it shares with its        *)
(* clients, and a thread that decrypts what is in the buffer. It is        *)
(* counted, and the thread that drops the last reference destroys it.      *)
(*                                                                         *)
(* Every call of a client runs on a thread of its own, the CDM reports the *)
(* status of keys on another. _adminLock covers the list and what is told  *)
(* to observers, not the counts, the keys, the sink or the thread.         *)
(*                                                                         *)
(* External: the CDM, the client with its end of the buffer, and the       *)
(* framework, which releases what a client that died has held.             *)
(***************************************************************************)
EXTENDS Naturals, FiniteSetsExt

CONSTANTS
    Clients,     \* processes that use sessions
    Sessions,    \* the memory of SessionImplementation objects
    NoSession,
    Observers,   \* INotification objects
    Width,       \* the bits of _occupation: 16 in the code
    Keys         \* what a key may become: Usable, Released, Expired, InternalError

Buffers == 0..(Width - 1)

\* A session from its constructor to the end of its destructor: "dying" has no
\* reference left, "removed" is past Remove, "stopping" past Stop of its thread.
Lives == {"free", "alive", "dying", "removed", "stopping"}

\* What a client is doing with a session: CreateSession before it takes the lock,
\* Decrypt, or the three parts of the destructor.
Points == {"idle", "enlist", "decrypt", "remove", "stop", "join"}

\* How the code leaves the defined behaviour: Session hands out what is being
\* destroyed, the CDM session is destroyed under its thread or inside its callback (or
\* waits for it with _adminLock held, which the callback waits for), a buffer is used
\* by two, a callback is called that was released.
Races == {"none", "resurrected", "destroyed in use", "destroyed in callback",
          "shared buffer", "revoked in callback"}

ASSUME SessionsAssumption ==
    /\ IsFiniteSet(Clients)
    /\ NoSession \notin Sessions
    /\ Width \in Nat \ {0}
    /\ Keys \cap {"none", "created", "pending"} = {}

VARIABLES
    occupied,     \* _occupation of the BufferAdministrator
    sessionList,  \* _sessionList
    life,         \* where every session is
    count,        \* its reference count
    buffer,       \* the buffer of its DataExchange
    worker,       \* the thread of its DataExchange
    produced,     \* the signal that thread waits for in RequestConsume
    sink,         \* its Sink has a callback
    status,       \* the status of its key in _cencData
    report,       \* OnKeyStatusUpdate, on the thread of the CDM
    held,         \* the sessions each client has a reference to
    pc,           \* what each client is doing, with which session
    up,           \* the client is there; if not, its references are released
    observers,    \* _observers
    view,         \* what every observer was last told of every session
    overlooked,   \* history: observers that came after an early report of a session
    race          \* the undefined behaviour reached, if any

table    == <<occupied, sessionList>>
objects  == <<life, count, buffer>>
exchange == <<worker, produced>>
keys     == <<sink, status, report>>
clients  == <<held, pc, up>>
told     == <<observers, view, overlooked>>
vars     == <<table, objects, exchange, keys, clients, told, race>>

Defined == race = "none"

Idle == [at |-> "idle", session |-> NoSession]

Init ==
    /\ occupied    = {}
    /\ sessionList = {}
    /\ life        = [s \in Sessions |-> "free"]
    /\ count       = [s \in Sessions |-> 0]
    /\ buffer      = [s \in Sessions |-> 0]
    /\ worker      = [s \in Sessions |-> "stopped"]
    /\ produced    = [s \in Sessions |-> FALSE]
    /\ sink        = [s \in Sessions |-> FALSE]
    /\ status      = [s \in Sessions |-> "pending"]
    /\ report      = [s \in Sessions |-> "idle"]
    /\ held        = [c \in Clients |-> {}]
    /\ pc          = [c \in Clients |-> Idle]
    /\ up          = [c \in Clients |-> TRUE]
    /\ observers   = {}
    /\ view        = [o \in Observers |-> [s \in Sessions |-> "none"]]
    /\ overlooked  = {}
    /\ race        = "none"

Free(c)       == Defined /\ up[c] /\ pc[c] = Idle
At(c, at, s)  == Defined /\ pc[c] = [at |-> at, session |-> s]
Goes(c, at, s) == pc' = [pc EXCEPT ![c] = [at |-> at, session |-> s]]

\* The observers that are registered are told of the session s, the observer o v[o].
Tell(s, v) ==
    view' = [o \in Observers |->
                IF o \in observers THEN [view[o] EXCEPT ![s] = v[o]] ELSE view[o]]

-----------------------------------------------------------------------------
(* The accessor                                                            *)

\* AquireBuffer takes the first that is free.
AquireBuffer == Min(Buffers \ occupied)

\* The buffer of s was given back, but s has not yet deleted its end of it.
StillOpen(b) == \E s \in Sessions : life[s] \in {"removed", "stopping"} /\ buffer[s] = b

\* Which memory a session gets does not matter.
Unused == {s \in Sessions : life[s] = "free"}

\* CreateSession up to the lock: the CDM has made a session, a buffer is acquired, and
\* the constructor has started the thread and given the CDM its sink. Without a free
\* buffer all that remains is the session of the CDM ("TODO").
CreateSession(c) ==
    /\ Free(c)
    /\ occupied # Buffers
    /\ Unused # {}
    /\ LET s == CHOOSE u \in Unused : TRUE IN
          /\ life'     = [life EXCEPT ![s] = "alive"]
          /\ count'    = [count EXCEPT ![s] = 1]
          /\ buffer'   = [buffer EXCEPT ![s] = AquireBuffer]
          /\ worker'   = [worker EXCEPT ![s] = "waiting"]
          /\ produced' = [produced EXCEPT ![s] = FALSE]
          /\ sink'     = [sink EXCEPT ![s] = TRUE]
          /\ status'   = [status EXCEPT ![s] = "pending"]
          /\ held'     = [held EXCEPT ![c] = @ \cup {s}]
          /\ Goes(c, "enlist", s)
    /\ occupied' = occupied \cup {AquireBuffer}
    /\ race' = IF StillOpen(AquireBuffer) THEN "shared buffer" ELSE race
    /\ UNCHANGED <<sessionList, report, up, told>>

\* ... and its end, under the lock, with ReportCreate.
Enlist(c) == \E s \in Sessions :
    /\ At(c, "enlist", s)
    /\ sessionList' = sessionList \cup {s}
    /\ Tell(s, [o \in Observers |-> IF view[o][s] = "none" THEN "created" ELSE view[o][s]])
    /\ pc' = [pc EXCEPT ![c] = Idle]
    /\ UNCHANGED <<occupied, objects, exchange, keys, held, up, observers, overlooked,
                   race>>

\* A mutation of AddRef: the pointer alone.
FoundUncounted(s) == count[s]

\* Session hands out another reference to what it finds.
AddRef(s) == count[s] + 1

\* Session, by the id of the session or of a key: whichever the list has.
Session(c) ==
    /\ Free(c)
    /\ \E s \in sessionList \ held[c] :
          /\ count' = [count EXCEPT ![s] = AddRef(s)]
          /\ held'  = [held EXCEPT ![c] = @ \cup {s}]
          /\ race'  = IF life[s] = "alive" THEN race ELSE "resurrected"
    /\ UNCHANGED <<table, life, buffer, exchange, keys, pc, up, told>>

\* A mutation of KeysOf: only what changes is told.
KeysUntold(s) == "none"

\* Register tells the key status of what is in the list, not of a session that is about
\* to be entered.
KeysOf(s) == IF s \in sessionList THEN status[s] ELSE "none"

Register(o) ==
    /\ Defined
    /\ o \notin observers
    /\ observers'  = observers \cup {o}
    /\ view'       = [view EXCEPT ![o] = [s \in Sessions |-> KeysOf(s)]]
    /\ overlooked' = overlooked \cup
          {<<o, s>> : s \in {t \in Sessions \ sessionList :
                                life[t] = "alive" /\ status[t] # "pending"}}
    /\ UNCHANGED <<table, objects, exchange, keys, clients, race>>

Unregister(o) ==
    /\ Defined
    /\ o \in observers
    /\ observers'  = observers \ {o}
    /\ view'       = [view EXCEPT ![o] = [s \in Sessions |-> "none"]]
    /\ overlooked' = {p \in overlooked : p[1] # o}
    /\ UNCHANGED <<table, objects, exchange, keys, clients, race>>

-----------------------------------------------------------------------------
(* The end of a session                                                    *)

\* Release: the last one deletes the session. Those of a client that died are released
\* by the framework.
Release(c) ==
    /\ Defined
    /\ pc[c] = Idle
    /\ \E s \in held[c] :
          /\ held'  = [held EXCEPT ![c] = @ \ {s}]
          /\ count' = [count EXCEPT ![s] = @ - 1]
          /\ IF count[s] = 1
             THEN life' = [life EXCEPT ![s] = "dying"] /\ Goes(c, "remove", s)
             ELSE UNCHANGED <<life, pc>>
    /\ UNCHANGED <<table, buffer, exchange, keys, up, told, race>>

\* A mutation of ReleaseBuffer: the bit stays set.
KeepsBuffer(s) == occupied

\* ReleaseBuffer of what session s has.
ReleaseBuffer(s) == occupied \ {buffer[s]}

\* Remove, under the lock: no more callbacks, the session of the CDM is destroyed, the
\* buffer given back, the session taken off the list, and ReportDestroy.
Remove(c) == \E s \in Sessions :
    /\ At(c, "remove", s)
    /\ race' = IF report[s] # "idle" THEN "destroyed in callback"
               ELSE IF worker[s] = "decrypting" THEN "destroyed in use" ELSE race
    /\ occupied'    = ReleaseBuffer(s)
    /\ sessionList' = sessionList \ {s}
    /\ Tell(s, [o \in Observers |-> "none"])
    /\ overlooked'  = {p \in overlooked : p[2] # s}
    /\ life' = [life EXCEPT ![s] = "removed"]
    /\ Goes(c, "stop", s)
    /\ UNCHANGED <<count, buffer, exchange, keys, held, up, observers>>

\* A mutation of FakeSignal: the thread is told, and left asleep.
StopUnheard(s) == produced[s]

\* "If the thread is waiting for a semaphore, fake a signal".
FakeSignal(s) == TRUE

\* The destructor of the buffer stops the thread ...
Stop(c) == \E s \in Sessions :
    /\ At(c, "stop", s)
    /\ life'     = [life EXCEPT ![s] = "stopping"]
    /\ produced' = [produced EXCEPT ![s] = FakeSignal(s)]
    /\ Goes(c, "join", s)
    /\ UNCHANGED <<table, count, buffer, worker, keys, held, up, told, race>>

\* ... and waits for it. The sink goes last, with its callback.
Destroyed(c) == \E s \in Sessions :
    /\ At(c, "join", s)
    /\ worker[s] = "stopped"
    /\ life'     = [life EXCEPT ![s] = "free"]
    /\ buffer'   = [buffer EXCEPT ![s] = 0]
    /\ produced' = [produced EXCEPT ![s] = FALSE]
    /\ sink'     = [sink EXCEPT ![s] = FALSE]
    /\ status'   = [status EXCEPT ![s] = "pending"]
    /\ pc'       = [pc EXCEPT ![c] = Idle]
    /\ UNCHANGED <<table, count, worker, report, held, up, told, race>>

-----------------------------------------------------------------------------
(* The buffer and its thread                                               *)

\* A client puts a sample in the buffer, and waits. One does at a time.
Decrypt(c) ==
    /\ Free(c)
    /\ \E s \in held[c] :
          /\ \A d \in Clients : pc[d] # [at |-> "decrypt", session |-> s]
          /\ worker[s] = "waiting" /\ ~produced[s]
          /\ produced' = [produced EXCEPT ![s] = TRUE]
          /\ Goes(c, "decrypt", s)
    /\ UNCHANGED <<table, objects, worker, keys, held, up, told, race>>

\* Worker returns from RequestConsume, to decrypt unless it is stopped.
RequestConsume(s) ==
    /\ Defined
    /\ worker[s] = "waiting"
    /\ produced[s]
    /\ produced' = [produced EXCEPT ![s] = FALSE]
    /\ worker'   = [worker EXCEPT ![s] = IF life[s] = "stopping" THEN "stopped"
                                                                 ELSE "decrypting"]
    /\ race'     = IF life[s] = "removed" THEN "destroyed in use" ELSE race
    /\ UNCHANGED <<table, objects, keys, clients, told>>

\* It is done with the sample, and the client has it back.
Consumed(s) ==
    /\ Defined
    /\ worker[s] = "decrypting"
    /\ worker' = [worker EXCEPT ![s] = IF life[s] = "stopping" THEN "stopped" ELSE "waiting"]
    /\ pc' = [c \in Clients |-> IF At(c, "decrypt", s) THEN Idle ELSE pc[c]]
    /\ UNCHANGED <<table, objects, produced, keys, held, up, told, race>>

\* A client dies, in the middle of a Decrypt or not ...
Die(c) ==
    /\ Defined
    /\ up[c]
    /\ pc[c].at \in {"idle", "decrypt"}
    /\ up' = [up EXCEPT ![c] = FALSE]
    /\ pc' = [pc EXCEPT ![c] = Idle]
    /\ UNCHANGED <<table, objects, exchange, keys, held, told, race>>

\* ... and is started again.
Return(c) ==
    /\ Defined
    /\ ~up[c]
    /\ held[c] = {} /\ pc[c] = Idle
    /\ up' = [up EXCEPT ![c] = TRUE]
    /\ UNCHANGED <<table, objects, exchange, keys, held, pc, told, race>>

-----------------------------------------------------------------------------
(* Keys                                                                    *)

\* OnKeyStatusUpdate, at any time from the constructor to Remove: UpdateKeyStatus
\* changes the key without a lock ...
UpdateKeyStatus(s, k) ==
    /\ Defined
    /\ life[s] \in {"alive", "dying"}
    /\ report[s] = "idle"
    /\ status' = [status EXCEPT ![s] = k]
    /\ report' = [report EXCEPT ![s] = "reporting"]
    /\ UNCHANGED <<table, objects, exchange, sink, clients, told, race>>

\* ... ReportKeyChange takes _adminLock, and the sink then looks for its callback ...
ReportKeyChange(s) ==
    /\ Defined
    /\ report[s] = "reporting"
    /\ Tell(s, [o \in Observers |-> status[s]])
    /\ overlooked' = {p \in overlooked : p[2] # s}
    /\ report' = [report EXCEPT ![s] = IF sink[s] THEN "calling" ELSE "idle"]
    /\ UNCHANGED <<table, objects, exchange, sink, status, clients, observers, race>>

\* ... and calls it.
OnKeyStatusUpdate(s) ==
    /\ Defined
    /\ report[s] = "calling"
    /\ report' = [report EXCEPT ![s] = "idle"]
    /\ UNCHANGED <<table, objects, exchange, sink, status, clients, told, race>>

\* A client that holds the session takes the callback back.
Revoke(c) ==
    /\ Free(c)
    /\ \E s \in held[c] :
          /\ sink[s]
          /\ sink' = [sink EXCEPT ![s] = FALSE]
          /\ race' = IF report[s] = "calling" THEN "revoked in callback" ELSE race
    /\ UNCHANGED <<table, objects, exchange, status, report, clients, told>>

-----------------------------------------------------------------------------

Call(c) == \/ CreateSession(c) \/ Session(c) \/ Decrypt(c)
           \/ Revoke(c) \/ Release(c)

\* What a thread that has begun goes through.
GoesOn(c) == Enlist(c) \/ Remove(c) \/ Stop(c) \/ Destroyed(c)

Worker(s) == RequestConsume(s) \/ Consumed(s)

Callback(s) == ReportKeyChange(s) \/ OnKeyStatusUpdate(s)

\* Past the point where the code defines anything.
Stopped == ~Defined /\ UNCHANGED vars

Next == \/ \E c \in Clients : Call(c) \/ GoesOn(c) \/ Die(c) \/ Return(c)
        \/ \E s \in Sessions : Worker(s) \/ Callback(s) \/ \E k \in Keys : UpdateKeyStatus(s, k)
        \/ \E o \in Observers : Register(o) \/ Unregister(o)
        \/ Stopped

Spec == Init /\ [][Next]_vars

-----------------------------------------------------------------------------
(* Properties                                                              *)

TypeOK ==
    /\ occupied \subseteq Buffers
    /\ sessionList \subseteq Sessions
    /\ life \in [Sessions -> Lives]
    /\ count \in [Sessions -> 0..Cardinality(Clients)]
    /\ buffer \in [Sessions -> Buffers]
    /\ worker \in [Sessions -> {"waiting", "decrypting", "stopped"}]
    /\ produced \in [Sessions -> BOOLEAN]
    /\ sink \in [Sessions -> BOOLEAN]
    /\ status \in [Sessions -> Keys \cup {"pending"}]
    /\ report \in [Sessions -> {"idle", "reporting", "calling"}]
    /\ held \in [Clients -> SUBSET Sessions]
    /\ pc \in [Clients -> [at : Points, session : Sessions \cup {NoSession}]]
    /\ up \in [Clients -> BOOLEAN]
    /\ observers \subseteq Observers
    /\ view \in [Observers -> [Sessions -> Keys \cup {"none", "created", "pending"}]]
    /\ overlooked \subseteq Observers \X Sessions
    /\ race \in Races

\* The sessions between their constructor and Remove.
Built == {s \in Sessions : life[s] \in {"alive", "dying"}}

Holders(s) == {c \in Clients : s \in held[c]}

\* The pool, the counts and the sessions agree, whoever creates, dies or releases: the
\* occupied buffers are those of the sessions before Remove, one each; a session is
\* counted by its holders, and is alive as long as it has one.
SessionsBalance ==
    Defined =>
        /\ occupied = {buffer[s] : s \in Built}
        /\ \A s, t \in Built : buffer[s] = buffer[t] => s = t
        /\ \A s \in Sessions : count[s] = Cardinality(Holders(s))
        /\ \A s \in Sessions : life[s] = "alive" <=> Holders(s) # {}
        /\ sessionList \subseteq Built

\* An observer knows the key status of every session in the list, although keys change
\* without the lock: by Register, or by the report that follows each change. What is
\* lost is a change that was reported before the session is in the list to those who
\* register before it is. Of a session that is gone nobody is told anything.
ObserversKnowKeys ==
    Defined => \A o \in observers, s \in Sessions :
        /\ s \in sessionList /\ report[s] # "reporting" /\ <<o, s>> \notin overlooked =>
              \/ view[o][s] = status[s]
              \/ view[o][s] = "created" /\ status[s] = "pending"
        /\ s \notin Built => view[o][s] = "none"

\* The destructor is not left waiting for the thread, which may sleep until a sample comes
\* that nobody will send: it has stopped, is on its way to see that it has to, or has a
\* signal to wake it up. Until then it sleeps or decrypts, as a client asked for.
ThreadIsStopped ==
    Defined => \A s \in Sessions :
        /\ life[s] = "stopping" => worker[s] # "waiting" \/ produced[s]
        /\ life[s] = "free" <=> (worker[s] = "stopped" /\ life[s] # "stopping")
=============================================================================
