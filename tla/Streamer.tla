------------------------------ MODULE Streamer ------------------------------
(***************************************************************************)
(* The Streamer plugin: the maps of streams and controls of Streamer.cpp   *)
(* and StreamerJsonRpc.cpp, the counted frontends and decoders of          *)
(* Frontend.h and Frontend.cpp, and the two platforms that play a stream,  *)
(* QAM (a tuner) and Aamp (an adaptive stream).                            *)
(*                                                                         *)
(* The threads that meet here are the one that handles the requests of the *)
(* plugin, one request after the other, and a thread per stream of the     *)
(* platform: the one on which the tuner reports, or the one that tells the *)
(* time. They share the lock of the frontend and, on Aamp, the lock of     *)
(* the player.                                                             *)
(*                                                                         *)
(* Speeds, positions, windows and the names of streams are not modelled.   *)
(***************************************************************************)
EXTENDS Integers, FiniteSets

CONSTANTS
    Streams,      \* memory for frontends: an object is there or it is not
    NoStream,     \* the null pointer
    Frontends,    \* _frontends, the number of streams that fit
    Decoders,     \* _decoders, the number of decoders
    Platforms,    \* the implementations the build may choose from
    MaxControls,  \* bound: the references to one decoder
    MaxReports    \* bound: the threads of platforms that are at work

ASSUME StreamerAssumption ==
    /\ NoStream \notin Streams
    /\ Frontends \in Nat \ {0}
    /\ Decoders \in Nat
    /\ Platforms \subseteq {"QAM", "Aamp"}
    /\ MaxControls \in Nat \ {0}
    /\ MaxReports \in Nat

DecoderSlots == 1..Decoders
Positions == 0..(Frontends - 1)

\* Exchange::IStream::state
States == {"Idle", "Loading", "Prepared", "Paused", "Playing", "Error"}
BeyondPrepared == {"Paused", "Playing", "Error"}
Running == {"Paused", "Playing"}

\* Broadcast::ITuner::state
TunerStates == {"IDLE", "LOCKED", "PREPARED", "STREAMING"}

NoDecoder == [count |-> 0, slot |-> 0, sink |-> "none"]

\* The sink of the plugin a decoder tells the time to.
Sinks == {"none", "live", "gone"}

\* Where the request is. It holds the lock of the frontend in the steps of Locked.
Steps == {"idle", "load", "tuned", "speed", "access", "state", "control", "attaching",
          "proxy", "detach", "release", "detaching", "unref", "drop", "quit"}
\* A mutation: the destructor of the frontend keeps the lock while its player is deleted.
LockedToTheEnd ==
    {"load", "tuned", "speed", "access", "state", "attaching", "detach", "detaching", "quit"}

Locked == {"load", "tuned", "speed", "access", "state", "attaching", "detach", "detaching"}

VARIABLES
    platform,     \* the implementation in the build
    slots,        \* the frontends in _streams of the Administrator
    taken,        \* the decoder slots that are 1 in _slots of the Administrator
    count,        \* _refCount of a frontend; 0 if there is none
    sink,         \* whether _callback of a frontend is set
    decoder,      \* _decoder of a frontend
    state,        \* _state of its player
    tuner,        \* QAM: whether the tuner is tuned, and the decoder it feeds
    playing,      \* Aamp: whether _scheduler runs
    player,       \* where the thread of the platform is
    streams,      \* _streams of the plugin
    controls,     \* _controls of the plugin, as the frontend of the decoder
    call,         \* the request in progress
    twice         \* history: the streams a decoder was attached to twice

plugin == <<streams, controls, call, twice>>
objects == <<slots, taken, count, sink, decoder>>
engine == <<state, tuner, playing, player>>
vars == <<platform, plugin, objects, engine>>

Quiet == [at |-> "idle", seen |-> "IDLE"]
Untuned == [tuned |-> FALSE, feeds |-> 0]
NoCall == [at |-> "idle", destroys |-> FALSE, position |-> 0, stream |-> NoStream]

Init ==
    /\ platform \in Platforms
    /\ slots = {}
    /\ taken = {}
    /\ count = [s \in Streams |-> 0]
    /\ sink = [s \in Streams |-> FALSE]
    /\ decoder = [s \in Streams |-> NoDecoder]
    /\ state = [s \in Streams |-> "Idle"]
    /\ tuner = [s \in Streams |-> Untuned]
    /\ playing = [s \in Streams |-> FALSE]
    /\ player = [s \in Streams |-> Quiet]
    /\ streams = [p \in Positions |-> NoStream]
    /\ controls = [p \in Positions |-> NoStream]
    /\ call = NoCall
    /\ twice = {}

-----------------------------------------------------------------------------
(* The two locks.                                                          *)

\* The request is not inside a method of the frontend.
LockFree(s) == ~(call.stream = s /\ call.at \in Locked)

\* The thread of Aamp is not inside TimeUpdate. QAM has no lock of its own.
PlayerFree(s) == player[s].at # "tick"

\* The thread of the platform can begin.
Rested(s) ==
    /\ count[s] > 0 /\ player[s].at = "idle"
    /\ Cardinality({t \in Streams : player[t].at # "idle"}) < MaxReports

-----------------------------------------------------------------------------
(* References, sinks and slots.                                            *)

\* A mutation of AddRef: a decoder that does not count its frontend.
AddRefForgotten(s) == UNCHANGED count

AddRef(s) == count' = [count EXCEPT ![s] = @ + 1]

Release(s) == count' = [count EXCEPT ![s] = @ - 1]

\* A mutation of DropSink: the sink remains with the frontend.
LeaveSink(s) == UNCHANGED sink

\* The destructor of the StreamProxy.
DropSink(s) == sink' = [sink EXCEPT ![s] = FALSE]

\* A mutation of EraseControl: the control remains.
LeaveControl == UNCHANGED controls

\* The ControlProxy is erased, and the sink in it is gone.
EraseControl == controls' = [controls EXCEPT ![call.position] = NoStream]

\* A mutation of Allocatable: a slot is taken without looking whether it is free.
AllocatableBlindly(d) == d \in DecoderSlots

\* The first free decoder slot.
Allocatable(d) ==
    d \in DecoderSlots \ taken /\ \A e \in DecoderSlots \ taken : d <= e

-----------------------------------------------------------------------------
(* Requests that create a stream or use it. With the one lock of QAM, what *)
(* a request does under it is one step; on Aamp it takes the lock of the   *)
(* frontend first and the one of the player after that.                    *)

FirstFree(p) == streams[p] = NoStream /\ \A q \in Positions : q < p => streams[q] # NoStream

\* Aquire fills a free slot with a frontend that counts 1 for its maker, and the
\* StreamProxy counts it again and registers its sink. With all slots taken the request
\* fails and nothing changes.
Create ==
    /\ call.at = "idle"
    /\ Cardinality(slots) < Frontends
    /\ \E s \in Streams, p \in Positions :
          /\ count[s] = 0
          /\ FirstFree(p)
          /\ slots' = slots \cup {s}
          /\ count' = [count EXCEPT ![s] = 2]
          /\ sink' = [sink EXCEPT ![s] = TRUE]
          /\ streams' = [streams EXCEPT ![p] = s]
    /\ UNCHANGED <<platform, taken, decoder, engine, controls, call, twice>>

Enter(p, step, destroying) ==
    /\ call.at = "idle"
    /\ streams[p] # NoStream
    /\ call' = [at |-> step, destroys |-> destroying,
                position |-> p, stream |-> streams[p]]

Step(step) == call' = [call EXCEPT !.at = step]
Answer == call' = NoCall

\* A request that reads or sets what the properties do not tell apart, such as the
\* state, the DRM system, the position or the window.
Access(p) ==
    /\ platform = "Aamp"
    /\ Enter(p, "access", FALSE)
    /\ UNCHANGED <<platform, streams, controls, twice, objects, engine>>

Accessed ==
    /\ call.at = "access"
    /\ PlayerFree(call.stream)
    /\ Answer
    /\ UNCHANGED <<platform, streams, controls, twice, objects, engine>>

\* Load of QAM up to the assignment of Idle: it tunes and prepares, and both are
\* external: the tuner reports how far it is later, on its own thread. A player in Error
\* refuses.
LoadQAM(p) ==
    /\ platform = "QAM"
    /\ streams[p] # NoStream /\ state[streams[p]] # "Error"
    /\ \/ /\ call.at = "idle"
          /\ state' = [state EXCEPT ![streams[p]] = "Error"]
          /\ UNCHANGED <<call, tuner>>
       \/ /\ Enter(p, "tuned", FALSE)
          /\ tuner' = [tuner EXCEPT ![streams[p]].tuned = TRUE]
          /\ UNCHANGED state
    /\ UNCHANGED <<platform, streams, controls, twice, objects, playing, player>>

LoadTuned(s) ==
    /\ call.at = "tuned" /\ call.stream = s
    /\ state' = [state EXCEPT ![s] = "Idle"]
    /\ Answer
    /\ UNCHANGED <<platform, streams, controls, twice, objects, tuner, playing, player>>

Load(p) ==
    /\ platform = "Aamp"
    /\ Enter(p, "load", FALSE)
    /\ UNCHANGED <<platform, streams, controls, twice, objects, engine>>

\* Load of Aamp: a good address, a bad one, none at all.
LoadAamp(s) ==
    /\ call.at = "load" /\ call.stream = s
    /\ PlayerFree(s)
    /\ \E result \in {"Prepared", "Error", state[s]} :
          state' = [state EXCEPT ![s] = result]
    /\ Answer
    /\ UNCHANGED <<platform, streams, controls, twice, objects, tuner, playing, player>>

\* Only a stream that plays or is paused changes its speed.
SpeedQAM(p) ==
    /\ platform = "QAM"
    /\ call.at = "idle"
    /\ controls[p] # NoStream /\ state[controls[p]] \in Running
    /\ \E new \in Running : state' = [state EXCEPT ![controls[p]] = new]
    /\ UNCHANGED <<platform, plugin, objects, tuner, playing, player>>

Speed(p) ==
    /\ platform = "Aamp"
    /\ controls[p] # NoStream
    /\ Enter(p, "speed", FALSE)
    /\ UNCHANGED <<platform, streams, controls, twice, objects, engine>>

\* A speed of the list runs the thread that tells the time, speed 0 blocks it, and for
\* any other speed, or the one that is set, the state remains.
SpeedAamp(s) ==
    /\ call.at = "speed" /\ call.stream = s
    /\ PlayerFree(s)
    /\ \/ /\ state' = [state EXCEPT ![s] = "Playing"]
          /\ playing' = [playing EXCEPT ![s] = TRUE]
       \/ /\ state' = [state EXCEPT ![s] = "Paused"]
          /\ playing' = [playing EXCEPT ![s] = FALSE]
       \/ UNCHANGED <<state, playing>>
    /\ Answer
    /\ UNCHANGED <<platform, streams, controls, twice, objects, tuner, player>>

-----------------------------------------------------------------------------
(* Attach: the state is read under the lock and used after it.             *)

Attach(p) ==
    /\ \/ platform = "Aamp" /\ Enter(p, "state", FALSE)
       \/ /\ platform = "QAM" /\ Enter(p, "control", FALSE)
          /\ state[streams[p]] = "Prepared"
    /\ decoder[streams[p]].count < MaxControls
    /\ UNCHANGED <<platform, streams, controls, twice, objects, engine>>

AttachState(s) ==
    /\ call.at = "state" /\ call.stream = s
    /\ PlayerFree(s)
    /\ IF state[s] = "Prepared" THEN Step("control") ELSE Answer
    /\ UNCHANGED <<platform, streams, controls, twice, objects, engine>>

\* Control up to AttachDecoder. Without a free decoder it returns none, and the
\* request ends; a decoder that is there gets another reference.
Control(s) ==
    /\ call.at = "control" /\ call.stream = s
    /\ \/ /\ decoder[s] = NoDecoder
          /\ \E d \in DecoderSlots :
                /\ Allocatable(d)
                /\ taken' = taken \cup {d}
                /\ decoder' = [decoder EXCEPT ![s] =
                                 [count |-> 1, slot |-> d, sink |-> "none"]]
          /\ Step("attaching")
       \/ /\ decoder[s] = NoDecoder
          /\ DecoderSlots \subseteq taken
          /\ Answer
          /\ UNCHANGED <<taken, decoder>>
       \/ /\ decoder[s] # NoDecoder
          /\ decoder' = [decoder EXCEPT ![s].count = @ + 1]
          /\ Step("proxy")
          /\ UNCHANGED taken
    /\ UNCHANGED <<platform, streams, controls, twice, slots, count, sink, engine>>

\* AttachDecoder, whose result Control does not look at, and the reference to the
\* frontend. The tuner of QAM is told only if the stream is Prepared, still.
AttachDecoder(s) ==
    /\ call.at = "attaching" /\ call.stream = s
    /\ PlayerFree(s)
    /\ \/ /\ platform = "QAM" /\ state[s] = "Prepared"
          /\ tuner' = [tuner EXCEPT ![s].feeds = decoder[s].slot]
          /\ UNCHANGED state
       \/ /\ platform = "QAM" /\ state[s] = "Prepared"
          /\ state' = [state EXCEPT ![s] = "Error"]
          /\ UNCHANGED tuner
       \/ /\ platform = "Aamp" \/ state[s] # "Prepared"
          /\ UNCHANGED <<state, tuner>>
    /\ AddRef(s)
    /\ Step("proxy")
    /\ UNCHANGED <<platform, streams, controls, twice, slots, taken, sink, decoder,
                   playing, player>>

\* The ControlProxy is made before the map is asked for its position: it registers its
\* sink, and if the position has a control already it is thrown away with the sink.
AttachProxy(s) ==
    /\ call.at = "proxy" /\ call.stream = s
    /\ IF controls[call.position] = NoStream
       THEN /\ controls' = [controls EXCEPT ![call.position] = s]
            /\ decoder' = [decoder EXCEPT ![s].sink = "live"]
            /\ UNCHANGED twice
       ELSE /\ decoder' = [decoder EXCEPT ![s].sink = "gone"]
            /\ twice' = twice \cup {s}
            /\ UNCHANGED controls
    /\ Answer
    /\ UNCHANGED <<platform, streams, slots, taken, count, sink, engine>>

-----------------------------------------------------------------------------
(* Detach and destroy.                                                     *)

\* Of the two interfaces, the JSON-RPC one looks at the state first. On QAM that waits
\* for no one, and refuses some of what the other one does.
Detach(p) ==
    /\ controls[p] # NoStream
    /\ \/ Enter(p, "release", FALSE)
       \/ platform = "Aamp" /\ Enter(p, "detach", FALSE)
    /\ UNCHANGED <<platform, streams, controls, twice, objects, engine>>

DetachState(s) ==
    /\ call.at = "detach" /\ call.stream = s
    /\ PlayerFree(s)
    /\ IF state[s] # "Idle" THEN Step("release") ELSE Answer
    /\ UNCHANGED <<platform, streams, controls, twice, objects, engine>>

Destroy(p) ==
    /\ Enter(p, IF controls[p] # NoStream THEN "release" ELSE "drop", TRUE)
    /\ UNCHANGED <<platform, streams, controls, twice, objects, engine>>

\* Release of the decoder. The last reference deletes it, and its destructor enters
\* the frontend. With others left a detach ends here, and the control stays; destroying the
\* stream erases it all the same.
ReleaseDecoder(s) ==
    /\ call.at = "release" /\ call.stream = s
    /\ \/ /\ decoder[s].count = 1
          /\ decoder' = [decoder EXCEPT ![s].count = 0]
          /\ Step("detaching")
          /\ UNCHANGED controls
       \/ /\ decoder[s].count > 1 /\ call.destroys
          /\ decoder' = [decoder EXCEPT ![s].count = @ - 1, ![s].sink = "gone"]
          /\ EraseControl
          /\ Step("drop")
       \/ /\ decoder[s].count > 1 /\ ~call.destroys
          /\ decoder' = [decoder EXCEPT ![s].count = @ - 1]
          /\ Answer
          /\ UNCHANGED controls
    /\ UNCHANGED <<platform, streams, twice, slots, taken, count, sink, engine>>

\* DetachDecoder of the platform. The tuner of QAM is told only if the stream is
\* playing or paused, and may refuse; Aamp stops the thread that tells the time.
DetachPlatform(s) ==
    \/ /\ platform = "QAM" /\ state[s] \in Running
       /\ tuner' = [tuner EXCEPT ![s].feeds = 0]
       /\ UNCHANGED <<state, playing>>
    \/ /\ platform = "QAM" /\ state[s] \in Running
       /\ state' = [state EXCEPT ![s] = "Error"]
       /\ UNCHANGED <<tuner, playing>>
    \/ /\ platform = "QAM" /\ state[s] \notin Running
       /\ UNCHANGED <<state, tuner, playing>>
    \/ /\ platform = "Aamp"
       /\ playing' = [playing EXCEPT ![s] = FALSE]
       /\ UNCHANGED <<state, tuner>>

\* Detach of the frontend, in the destructor of the decoder.
DetachDecoder(s) ==
    /\ call.at = "detaching" /\ call.stream = s
    /\ PlayerFree(s)
    /\ DetachPlatform(s)
    /\ taken' = taken \ {decoder[s].slot}
    /\ decoder' = [decoder EXCEPT ![s] = NoDecoder]
    /\ Step("unref")
    /\ UNCHANGED <<platform, streams, controls, twice, slots, count, sink, player>>

\* The reference of the decoder to the frontend, and the erase of the ControlProxy.
Unref(s) ==
    /\ call.at = "unref" /\ call.stream = s
    /\ Release(s)
    /\ EraseControl
    /\ IF call.destroys THEN Step("drop") ELSE Answer
    /\ UNCHANGED <<platform, streams, twice, slots, taken, sink, decoder, engine>>

\* The stream is released twice, for its maker and, in the destructor of the StreamProxy,
\* which takes its sink back, for the proxy. The last reference clears the slot and
\* deletes the frontend.
Drop(s) ==
    /\ call.at = "drop" /\ call.stream = s
    /\ DropSink(s)
    /\ count' = [count EXCEPT ![s] = @ - 2]
    /\ streams' = [streams EXCEPT ![call.position] = NoStream]
    /\ IF count[s] = 2
       THEN slots' = slots \ {s} /\ Step("quit")
       ELSE Answer /\ UNCHANGED slots
    /\ UNCHANGED <<platform, controls, twice, taken, decoder, engine>>

\* The destructor of the player ends when its thread is out of the callback: external,
\* Callback(nullptr) of the tuner and Quit of the scheduler wait for it.
Quit(s) ==
    /\ call.at = "quit" /\ call.stream = s
    /\ player[s].at = "idle"
    /\ state' = [state EXCEPT ![s] = "Idle"]
    /\ tuner' = [tuner EXCEPT ![s] = Untuned]
    /\ playing' = [playing EXCEPT ![s] = FALSE]
    /\ twice' = twice \ {s}
    /\ Answer
    /\ UNCHANGED <<platform, streams, controls, objects, player>>

-----------------------------------------------------------------------------
(* The threads of the platforms.                                           *)

\* External, the tuner: once tuned it may lock, prepare and lose the signal as it likes,
\* and it streams if it feeds a decoder. It reports its changes some time later.
\* StateChange of QAM runs without a lock: it reads the state of the tuner, then ...
TunerReports(s) ==
    /\ tuner[s].tuned /\ Rested(s)
    /\ \E seen \in TunerStates :
          /\ seen = "STREAMING" => tuner[s].feeds # 0
          /\ player' = [player EXCEPT ![s] = [at |-> "changing", seen |-> seen]]
    /\ UNCHANGED <<platform, plugin, objects, state, tuner, playing>>

\* What it makes of its own state.
Reported(own, seen) ==
    CASE seen = "IDLE" -> "Idle"
      [] seen = "LOCKED" /\ own = "Idle" -> "Loading"
      [] seen = "PREPARED" /\ own \in BeyondPrepared \cup {"Loading"} -> "Prepared"
      [] seen = "STREAMING" -> "Playing"
      [] OTHER -> own

\* ... derives its state, and tells the frontend if that is not what it first read. What
\* that was is not modelled: it may tell, or may not.
StateChange(s) ==
    /\ player[s].at = "changing"
    /\ state' = [state EXCEPT ![s] = Reported(@, player[s].seen)]
    /\ \E step \in {"notify", "idle"} :
          player' = [player EXCEPT ![s] = [Quiet EXCEPT !.at = step]]
    /\ UNCHANGED <<platform, plugin, objects, tuner, playing>>

\* StateChange of the frontend: under its lock it calls the sink, if there is one.
Notify(s) ==
    /\ player[s].at = "notify"
    /\ LockFree(s)
    /\ player' = [player EXCEPT ![s] = Quiet]
    /\ UNCHANGED <<platform, plugin, objects, state, tuner, playing>>

\* The thread of Aamp that tells the time sleeps first: it may be blocked meanwhile.
Sleep(s) ==
    /\ platform = "Aamp" /\ playing[s] /\ Rested(s)
    /\ player' = [player EXCEPT ![s] = [Quiet EXCEPT !.at = "asleep"]]
    /\ UNCHANGED <<platform, plugin, objects, state, tuner, playing>>

\* TimeUpdate of Aamp takes the lock of the player, for a stream that plays ...
Tick(s) ==
    /\ player[s].at = "asleep"
    /\ player' = [player EXCEPT ![s] =
                    IF state[s] = "Playing" THEN [Quiet EXCEPT !.at = "tick"] ELSE Quiet]
    /\ UNCHANGED <<platform, plugin, objects, state, tuner, playing>>

\* ... and, in TimeUpdate of the frontend, the one of the frontend, to call the sink
\* of the decoder.
TimeUpdate(s) ==
    /\ player[s].at = "tick"
    /\ LockFree(s)
    /\ player' = [player EXCEPT ![s] = Quiet]
    /\ UNCHANGED <<platform, plugin, objects, state, tuner, playing>>

-----------------------------------------------------------------------------
Request(p) ==
    \/ Access(p) \/ LoadQAM(p) \/ Load(p) \/ SpeedQAM(p) \/ Speed(p)
    \/ Attach(p) \/ Detach(p) \/ Destroy(p)

Handle(s) ==
    \/ LoadTuned(s) \/ LoadAamp(s) \/ SpeedAamp(s)
    \/ AttachState(s) \/ Control(s) \/ AttachDecoder(s) \/ AttachProxy(s)
    \/ DetachState(s) \/ ReleaseDecoder(s) \/ DetachDecoder(s) \/ Unref(s)
    \/ Drop(s) \/ Quit(s)

Platform(s) ==
    \/ TunerReports(s) \/ StateChange(s) \/ Notify(s)
    \/ Sleep(s) \/ Tick(s) \/ TimeUpdate(s)

Next ==
    \/ Create
    \/ Accessed
    \/ \E p \in Positions : Request(p)
    \/ \E s \in Streams : Handle(s) \/ Platform(s)

Spec == Init /\ [][Next]_vars

\* A thread that can go on does.
Fairness ==
    /\ WF_vars(Accessed)
    /\ \A s \in Streams :
          /\ WF_vars(Handle(s))
          /\ WF_vars(StateChange(s)) /\ WF_vars(Notify(s))
          /\ WF_vars(Tick(s)) /\ WF_vars(TimeUpdate(s))

FairSpec == Spec /\ Fairness

-----------------------------------------------------------------------------
(* Properties.                                                             *)

Calls == [at : Steps, destroys : BOOLEAN, position : Positions,
          stream : Streams \cup {NoStream}]
DecoderObjects == [count : 0..MaxControls, slot : 0..Decoders, sink : Sinks]
Tuners == [tuned : BOOLEAN, feeds : 0..Decoders]
Players == [at : {"idle", "changing", "notify", "asleep", "tick"},
            seen : TunerStates]

\* The counts stay within their bounds: a frontend is referenced by its maker, its
\* proxy and its decoder, and none of them releases what it does not hold.
TypeOK ==
    /\ platform \in Platforms
    /\ slots \subseteq Streams /\ Cardinality(slots) <= Frontends
    /\ taken \subseteq DecoderSlots
    /\ count \in [Streams -> 0..3]
    /\ sink \in [Streams -> BOOLEAN]
    /\ decoder \in [Streams -> DecoderObjects]
    /\ state \in [Streams -> States]
    /\ tuner \in [Streams -> Tuners]
    /\ playing \in [Streams -> BOOLEAN]
    /\ player \in [Streams -> Players]
    /\ streams \in [Positions -> Streams \cup {NoStream}]
    /\ controls \in [Positions -> Streams \cup {NoStream}]
    /\ call \in Calls
    /\ twice \subseteq Streams

Proxied(s) == \E p \in Positions : streams[p] = s
Controlled(s) == \E p \in Positions : controls[p] = s
At(s, steps) == call.stream = s /\ call.at \in steps

\* The decoder slots that are taken are those of the decoders there are, one each: an
\* attach or detach that fails half way neither loses a slot nor gives it to two.
SlotsBalance ==
    /\ taken = {decoder[s].slot : s \in {t \in Streams : decoder[t] # NoDecoder}}
    /\ \A s, t \in Streams :
          decoder[s] # NoDecoder /\ decoder[s].slot = decoder[t].slot => s = t

\* A frontend is counted exactly by those who use it: twice by the plugin as long as it
\* has the stream, and once by the decoder from the end of Control to the Release in its
\* destructor. So a decoder never outlives its frontend, nothing is deleted early, and
\* what the maps of the plugin point at exists: each stream has a frontend of its own, in
\* a slot, and each control a decoder, of the stream with the same number.
RefsBalance ==
    /\ \A s \in Streams :
          count[s] = (IF Proxied(s) THEN 2 ELSE 0)
                     + (IF At(s, {"unref"}) \/
                           (decoder[s] # NoDecoder /\ ~At(s, {"attaching"}))
                        THEN 1 ELSE 0)
    /\ \A p \in Positions :
          /\ streams[p] # NoStream =>
                /\ streams[p] \in slots
                /\ \A q \in Positions : streams[q] = streams[p] => q = p
          /\ controls[p] # NoStream =>
                /\ streams[p] = controls[p]
                /\ decoder[controls[p]] # NoDecoder \/ At(controls[p], {"unref"})

\* Unless a decoder was attached to the stream twice: the threads of the platform find no
\* sink that was deleted with its proxy, and a stream that was destroyed leaves its slot
\* and its decoder to others.
NothingIsLeft ==
    /\ \A s \in Streams : sink[s] => Proxied(s)
    /\ \A s \in Streams \ twice :
          /\ decoder[s].sink # "gone"
          /\ decoder[s].sink = "live" => Controlled(s)
          /\ s \in slots => Proxied(s)

\* Every request is answered, with a tuner: its reports and the requests wait for the
\* same lock, and destroying a stream waits for the report that is under way. With Aamp
\* the request and TimeUpdate may each hold the lock the other waits for.
RequestsEnd ==
    platform = "QAM" /\ call.at # "idle" ~> call.at = "idle"
=============================================================================
