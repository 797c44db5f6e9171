---------------------------- MODULE StreamerProofs ---------------------------
(***************************************************************************)
(* What TLAPS proves of Streamer, for any number of streams, frontends,    *)
(* decoders and references: the types, that the slots of the decoders and  *)
(* the references to the frontends balance, and that nothing is left of a  *)
(* stream that was destroyed.                                              *)
(***************************************************************************)
EXTENDS Streamer, FiniteSetTheorems, TLAPS

\* What a request relies on from one of its steps to the next: no other request comes
\* in between, and the threads of the platforms leave the maps and the counts alone.
CallInOrder ==
    /\ call.at = "idle" => call = NoCall
    /\ call.at # "idle" => call.stream \in Streams
    /\ call.at \notin {"idle", "quit"} => streams[call.position] = call.stream
    /\ call.at \in {"state", "control"} => decoder[call.stream].count < MaxControls
    /\ call.at = "attaching" =>
          /\ decoder[call.stream] # NoDecoder /\ decoder[call.stream].count = 1
          /\ controls[call.position] = NoStream
    /\ call.at = "proxy" =>
          /\ decoder[call.stream] # NoDecoder
          /\ controls[call.position] = NoStream <=> decoder[call.stream].count = 1
    /\ call.at \in {"detach", "release", "detaching", "unref"} =>
          controls[call.position] = call.stream
    /\ call.at = "detaching" => decoder[call.stream].count = 0
    /\ call.at = "unref" => decoder[call.stream] = NoDecoder
    /\ call.at = "drop" =>
          /\ controls[call.position] = NoStream
          /\ decoder[call.stream] = NoDecoder \/ call.stream \in twice
    /\ call.at = "quit" => call.stream \notin slots

\* A decoder has a slot, is referenced until its destructor runs, more than once only if
\* it was attached twice, and belongs to a control as long as its stream is there.
DecodersInUse ==
    \A s \in Streams : decoder[s] # NoDecoder =>
        /\ decoder[s].slot \in DecoderSlots
        /\ decoder[s].count > 0 \/ At(s, {"detaching"})
        /\ decoder[s].count > 1 => s \in twice \/ At(s, {"proxy"})
        /\ Proxied(s) => Controlled(s) \/ At(s, {"attaching", "proxy", "drop"})

\* A frontend is in its slot as long as it is referenced.
SlotsCounted ==
    /\ IsFiniteSet(slots)
    /\ \A s \in Streams : s \in slots <=> count[s] > 0

IInv ==
    /\ TypeOK
    /\ CallInOrder
    /\ DecodersInUse
    /\ SlotsCounted
    /\ SlotsBalance
    /\ RefsBalance
    /\ NothingIsLeft

-----------------------------------------------------------------------------
(* The types, by what they are about.                                      *)

core == <<slots, taken, count, sink, decoder, streams, controls, twice>>

EngineType ==
    /\ platform \in Platforms
    /\ state \in [Streams -> States]
    /\ tuner \in [Streams -> Tuners]
    /\ playing \in [Streams -> BOOLEAN]
    /\ player \in [Streams -> Players]

CoreType ==
    /\ slots \subseteq Streams /\ Cardinality(slots) <= Frontends
    /\ taken \subseteq DecoderSlots
    /\ count \in [Streams -> 0..3]
    /\ sink \in [Streams -> BOOLEAN]
    /\ decoder \in [Streams -> DecoderObjects]
    /\ streams \in [Positions -> Streams \cup {NoStream}]
    /\ controls \in [Positions -> Streams \cup {NoStream}]
    /\ twice \subseteq Streams

CoreInv ==
    /\ CallInOrder /\ DecodersInUse /\ SlotsCounted
    /\ SlotsBalance /\ RefsBalance /\ NothingIsLeft

\* What each step has to keep.
CoreKept == CoreType' /\ call' \in Calls /\ CoreInv'

LEMMA TypesByPart == TypeOK <=> EngineType /\ CoreType /\ call \in Calls
  BY DEF TypeOK, EngineType, CoreType

LEMMA TypesByPartNext == TypeOK' <=> EngineType' /\ CoreType' /\ call' \in Calls
  BY DEF TypeOK, EngineType, CoreType

\* The steps of a request.
LEMMA StepCall ==
    ASSUME call \in Calls, NEW step \in Steps, Step(step)
    PROVE  /\ call' \in Calls
           /\ call'.at = step /\ call'.stream = call.stream
           /\ call'.position = call.position /\ call'.destroys = call.destroys
  BY DEF Step, Calls

LEMMA AnswerCall ==
    ASSUME Answer
    PROVE  /\ call' \in Calls /\ call' = NoCall
           /\ call'.at = "idle" /\ call'.stream = NoStream
  <1>1. 0 \in Positions
    BY StreamerAssumption DEF Positions
  <1> QED BY <1>1 DEF Answer, NoCall, Calls, Steps

LEMMA EnterCall ==
    ASSUME CoreType, NEW p \in Positions, NEW step \in Steps, NEW d \in BOOLEAN,
           Enter(p, step, d)
    PROVE  /\ call' \in Calls /\ call.at = "idle"
           /\ call'.at = step /\ call'.position = p /\ call'.destroys = d
           /\ call'.stream = streams[p] /\ streams[p] \in Streams
  BY DEF Enter, Calls, CoreType

\* Where the stream of a request is in the maps.
LEMMA Placed ==
    ASSUME IInv, NEW s \in Streams, call.stream = s, call.at \notin {"idle", "quit"}
    PROVE  /\ call.position \in Positions /\ streams[call.position] = s
           /\ \A q \in Positions : streams[q] = s => q = call.position
           /\ \A q \in Positions : controls[q] = s => q = call.position
           /\ controls[call.position] \in {NoStream, s}
           /\ Proxied(s) /\ s \in slots /\ s # NoStream
  <1>1. call.position \in Positions
    BY DEF IInv, TypeOK, Calls
  <1>2. streams[call.position] = s /\ s # NoStream
    BY StreamerAssumption DEF IInv, CallInOrder
  <1>3. controls[call.position] \in {NoStream, s}
    BY <1>1, <1>2 DEF IInv, RefsBalance
  <1>4. \A q \in Positions : streams[q] = s => q = call.position
    BY <1>1, <1>2 DEF IInv, RefsBalance
  <1>5. \A q \in Positions : controls[q] = s => q = call.position
    BY <1>2, <1>4 DEF IInv, RefsBalance
  <1>6. s \in slots
    BY <1>1, <1>2 DEF IInv, RefsBalance
  <1> QED BY <1>1, <1>2, <1>3, <1>4, <1>5, <1>6 DEF Proxied

\* The steps that leave the maps, the counts and the decoders alone.
LEMMA CallMoves ==
    ASSUME IInv, UNCHANGED core, call' \in Calls, CallInOrder',
           call.at  \notin {"attaching", "proxy", "detaching", "unref", "drop"},
           call'.at \notin {"attaching", "proxy", "detaching", "unref"}
    PROVE  CoreKept
  <1>1. CoreType'
    BY DEF core, CoreType, IInv, TypeOK
  <1>2. \A s \in Streams : Proxied(s)' = Proxied(s) /\ Controlled(s)' = Controlled(s)
    BY DEF core, Proxied, Controlled
  <1>3. DecodersInUse'
    BY <1>2 DEF core, IInv, DecodersInUse, At
  <1>4. SlotsCounted' /\ SlotsBalance'
    BY DEF core, IInv, SlotsCounted, SlotsBalance
  <1>5. RefsBalance'
    BY <1>2 DEF core, IInv, RefsBalance, At
  <1>6. NothingIsLeft'
    BY <1>2 DEF core, IInv, NothingIsLeft
  <1> QED BY <1>1, <1>3, <1>4, <1>5, <1>6 DEF CoreKept, CoreInv

\* A request that is answered has nothing more to rely on.
LEMMA AnswerInOrder ==
    ASSUME Answer
    PROVE  CallInOrder'
  BY AnswerCall DEF CallInOrder

\* A step that is none of the plugin's changes nothing of this.
LEMMA CoreSame ==
    ASSUME IInv, UNCHANGED core, UNCHANGED call
    PROVE  CoreKept
  <1>1. CoreType' /\ call' \in Calls
    BY DEF core, CoreType, IInv, TypeOK
  <1>2. \A s \in Streams : Proxied(s)' = Proxied(s) /\ Controlled(s)' = Controlled(s)
    BY DEF core, Proxied, Controlled
  <1>3. CallInOrder'
    BY DEF core, IInv, CallInOrder
  <1>4. DecodersInUse'
    BY <1>2 DEF core, IInv, DecodersInUse, At
  <1>5. SlotsCounted' /\ SlotsBalance'
    BY DEF core, IInv, SlotsCounted, SlotsBalance
  <1>6. RefsBalance'
    BY <1>2 DEF core, IInv, RefsBalance, At
  <1>7. NothingIsLeft'
    BY <1>2 DEF core, IInv, NothingIsLeft
  <1> QED BY <1>1, <1>3, <1>4, <1>5, <1>6, <1>7 DEF CoreKept, CoreInv

-----------------------------------------------------------------------------
(* The requests that begin, and the steps that change the player only.     *)

LEMMA EngineSteps ==
    ASSUME IInv, NEW s \in Streams, Platform(s)
    PROVE  CoreKept
  <1>1. UNCHANGED core /\ UNCHANGED call
    BY DEF Platform, TunerReports, StateChange, Notify, Sleep, Tick, TimeUpdate, core,
           plugin, objects
  <1> QED BY <1>1, CoreSame

LEMMA RequestBegins ==
    ASSUME IInv, NEW p \in Positions, Request(p)
    PROVE  CoreKept
  <1>1. UNCHANGED core
    BY DEF Request, Access, LoadQAM, Load, SpeedQAM, Speed, Attach, Detach, Destroy, core,
           plugin, objects
  <1>2. CASE UNCHANGED call
    BY <1>1, <1>2, CoreSame
  <1>3. ASSUME NEW step \in {"access", "load", "tuned", "speed"}, Enter(p, step, FALSE)
        PROVE  CoreKept
    <2>1. step \in Steps
      BY DEF Steps
    <2>2. /\ call' \in Calls /\ call.at = "idle" /\ call'.at = step
          /\ call'.position = p /\ call'.stream = streams[p] /\ streams[p] \in Streams
      BY <1>3, <2>1, EnterCall, TypesByPart DEF IInv
    <2>3. CallInOrder'
      BY <1>1, <2>2 DEF CallInOrder, core
    <2> QED BY <1>1, <2>2, <2>3, CallMoves
  <1>4. ASSUME Attach(p) PROVE CoreKept
    <2>1. PICK step \in {"state", "control"} : Enter(p, step, FALSE)
      BY <1>4 DEF Attach
    <2>2. step \in Steps
      BY DEF Steps
    <2>3. /\ call' \in Calls /\ call.at = "idle" /\ call'.at = step
          /\ call'.position = p /\ call'.stream = streams[p] /\ streams[p] \in Streams
      BY <2>1, <2>2, EnterCall, TypesByPart DEF IInv
    <2>4. CallInOrder'
      BY <1>1, <1>4, <2>3 DEF CallInOrder, core, Attach
    <2> QED BY <1>1, <2>3, <2>4, CallMoves
  <1>5. ASSUME Detach(p) PROVE CoreKept
    <2>1. PICK step \in {"release", "detach"} : Enter(p, step, FALSE)
      BY <1>5 DEF Detach
    <2>2. step \in Steps
      BY DEF Steps
    <2>3. /\ call' \in Calls /\ call.at = "idle" /\ call'.at = step
          /\ call'.position = p /\ call'.stream = streams[p] /\ streams[p] \in Streams
      BY <2>1, <2>2, EnterCall, TypesByPart DEF IInv
    <2>4. controls[p] = streams[p]
      BY <1>5 DEF Detach, IInv, RefsBalance
    <2>5. CallInOrder'
      BY <1>1, <2>3, <2>4 DEF CallInOrder, core
    <2> QED BY <1>1, <2>3, <2>5, CallMoves
  <1>6. ASSUME Destroy(p) PROVE CoreKept
    <2> DEFINE step == IF controls[p] # NoStream THEN "release" ELSE "drop"
    <2>1. Enter(p, step, TRUE) /\ step \in Steps
      BY <1>6 DEF Destroy, Steps
    <2>2. /\ call' \in Calls /\ call.at = "idle" /\ call'.at = step
          /\ call'.position = p /\ call'.stream = streams[p] /\ streams[p] \in Streams
      BY <2>1, EnterCall, TypesByPart DEF IInv
    <2>3. CASE controls[p] # NoStream
      <3>1. controls[p] = streams[p] /\ call'.at = "release"
        BY <2>2, <2>3 DEF IInv, RefsBalance
      <3>2. CallInOrder'
        BY <1>1, <2>2, <3>1 DEF CallInOrder, core
      <3> QED BY <1>1, <2>2, <3>1, <3>2, CallMoves
    <2>4. CASE controls[p] = NoStream
      <3>1. call'.at = "drop"
        BY <2>2, <2>4
      <3>2. ~Controlled(streams[p]) /\ Proxied(streams[p])
        <4>1. streams[p] # NoStream
          BY <2>2, StreamerAssumption
        <4>2. ASSUME NEW q \in Positions, controls[q] = streams[p] PROVE FALSE
          <5>1. streams[q] = streams[p]
            BY <4>1, <4>2 DEF IInv, RefsBalance
          <5>2. q = p
            BY <4>1, <5>1 DEF IInv, RefsBalance
          <5> QED BY <2>4, <4>1, <4>2, <5>2
        <4> QED BY <4>2 DEF Controlled, Proxied
      <3>3. decoder[streams[p]] = NoDecoder
        BY <2>2, <3>2 DEF IInv, DecodersInUse, At
      <3>4. CallInOrder'
        BY <1>1, <2>2, <2>4, <3>1, <3>3 DEF CallInOrder, core
      <3> QED BY <1>1, <2>2, <3>1, <3>4, CallMoves
    <2> QED BY <2>3, <2>4
  <1> QED
    BY <1>2, <1>3, <1>4, <1>5, <1>6
       DEF Request, Access, LoadQAM, Load, SpeedQAM, Speed, plugin, objects

\* The steps that go on, or answer, without a change but of the player.
LEMMA CallGoesOn ==
    ASSUME IInv, NEW s \in Streams,
           LoadTuned(s) \/ LoadAamp(s) \/ SpeedAamp(s) \/ AttachState(s) \/ DetachState(s)
    PROVE  CoreKept
  <1>1. UNCHANGED core
    BY DEF LoadTuned, LoadAamp, SpeedAamp, AttachState, DetachState, core, objects
  <1>2. /\ call.stream = s
        /\ \/ call.at \in {"tuned", "load", "speed", "state", "detach"} /\ Answer
           \/ call.at = "state" /\ Step("control")
           \/ call.at = "detach" /\ Step("release")
    BY DEF LoadTuned, LoadAamp, SpeedAamp, AttachState, DetachState
  <1>3. CASE Answer
    BY <1>1, <1>2, <1>3, AnswerCall, AnswerInOrder, CallMoves
  <1>4. ASSUME NEW step \in {"control", "release"}, Step(step),
               call.at = IF step = "control" THEN "state" ELSE "detach"
        PROVE  CoreKept
    <2>1. call \in Calls /\ step \in Steps
      BY DEF IInv, TypeOK, Steps
    <2>2. /\ call' \in Calls /\ call'.at = step /\ call'.stream = call.stream
          /\ call'.position = call.position
      BY <1>4, <2>1, StepCall
    <2>3. CallInOrder'
      BY <1>1, <1>4, <2>2 DEF IInv, CallInOrder, core
    <2> QED BY <1>1, <1>4, <2>2, <2>3, CallMoves
  <1> QED BY <1>2, <1>3, <1>4

LEMMA AccessEnds ==
    ASSUME IInv, Accessed
    PROVE  CoreKept
  <1>1. UNCHANGED core /\ call.at = "access" /\ Answer
    BY DEF Accessed, core, objects
  <1> QED BY <1>1, AnswerCall, AnswerInOrder, CallMoves

-----------------------------------------------------------------------------
(* Attach.                                                                 *)

\* The slot of a decoder is a number, so a decoder that has one is there.
LEMMA SlotsApart ==
    ASSUME IInv, NEW s \in Streams, NEW t \in Streams,
           decoder[s] # NoDecoder, decoder[t] # NoDecoder, s # t
    PROVE  decoder[s].slot # decoder[t].slot
  BY DEF IInv, SlotsBalance

LEMMA ControlKeeps ==
    ASSUME IInv, NEW s \in Streams, Control(s)
    PROVE  CoreKept
  <1>1. /\ call.at = "control" /\ call.stream = s
        /\ UNCHANGED <<slots, count, sink, streams, controls, twice>>
    BY DEF Control
  <1>2. /\ call.position \in Positions /\ streams[call.position] = s
        /\ \A q \in Positions : controls[q] = s => q = call.position
        /\ controls[call.position] \in {NoStream, s}
        /\ Proxied(s) /\ s \in slots /\ s # NoStream
    BY <1>1, Placed
  <1>3. \A t \in Streams : Proxied(t)' = Proxied(t) /\ Controlled(t)' = Controlled(t)
    BY <1>1 DEF Proxied, Controlled
  <1>4. call \in Calls /\ {"attaching", "proxy"} \subseteq Steps
    BY DEF IInv, TypeOK, Steps
  <1>5. decoder \in [Streams -> DecoderObjects] /\ taken \subseteq DecoderSlots
    BY DEF IInv, TypeOK
  <1>6. SlotsCounted'
    BY <1>1 DEF IInv, SlotsCounted
  <1>7. /\ slots \subseteq Streams /\ Cardinality(slots) <= Frontends
        /\ count \in [Streams -> 0..3] /\ sink \in [Streams -> BOOLEAN]
        /\ streams \in [Positions -> Streams \cup {NoStream}]
        /\ controls \in [Positions -> Streams \cup {NoStream}]
        /\ twice \subseteq Streams
    BY DEF IInv, TypeOK
  <1>8. ASSUME NEW d \in DecoderSlots, decoder[s] = NoDecoder, Allocatable(d),
               taken' = taken \cup {d}, Step("attaching"),
               decoder' = [decoder EXCEPT ![s] = [count |-> 1, slot |-> d, sink |-> "none"]]
        PROVE  CoreKept
    <2>1. /\ call' \in Calls /\ call'.at = "attaching" /\ call'.stream = s
          /\ call'.position = call.position
      BY <1>1, <1>4, <1>8, StepCall
    <2>2. decoder'[s] = [count |-> 1, slot |-> d, sink |-> "none"]
      BY <1>5, <1>8
    <2>3. \A t \in Streams : t # s => decoder'[t] = decoder[t]
      BY <1>5, <1>8
    <2>4. decoder'[s] # NoDecoder /\ decoder'[s].count = 1 /\ decoder'[s].slot = d
      BY <2>2 DEF NoDecoder
    <2>5. CoreType'
      <3>1. [count |-> 1, slot |-> d, sink |-> "none"] \in DecoderObjects
        BY StreamerAssumption DEF DecoderObjects, DecoderSlots, Sinks
      <3> QED BY <1>1, <1>5, <1>7, <1>8, <3>1 DEF CoreType
    <2>6. controls[call.position] = NoStream
      BY <1>1, <1>2, <1>8 DEF IInv, RefsBalance, At
    <2>7. CallInOrder'
      BY <1>1, <1>2, <2>1, <2>4, <2>6 DEF CallInOrder
    <2>8. DecodersInUse'
      BY <1>1, <1>3, <1>8, <2>1, <2>3, <2>4 DEF IInv, DecodersInUse, At
    <2>9. d \notin taken
      BY <1>8 DEF Allocatable
    <2>10. SlotsBalance'
      <3>1. taken = {decoder[t].slot : t \in {u \in Streams : decoder[u] # NoDecoder}}
        BY DEF IInv, SlotsBalance
      <3>2. \A t \in Streams : decoder[t] # NoDecoder => decoder[t].slot # d
        BY <2>9, <3>1
      <3>3. taken' = {decoder'[t].slot : t \in {u \in Streams : decoder'[u] # NoDecoder}}
        BY <1>8, <2>3, <2>4, <3>1
      <3>4. ASSUME NEW t \in Streams, NEW u \in Streams,
                   decoder'[t] # NoDecoder, decoder'[t].slot = decoder'[u].slot
            PROVE  t = u
        <4>1. d # 0
          BY DEF DecoderSlots
        <4>2. \A v \in Streams : decoder[v] # NoDecoder => decoder[v].slot # 0
          BY DEF IInv, DecodersInUse, DecoderSlots
        <4>3. NoDecoder.slot = 0
          BY DEF NoDecoder
        <4>4. decoder'[u] # NoDecoder
          BY <2>3, <2>4, <3>4, <4>1, <4>2, <4>3
        <4>5. CASE t = s /\ u # s
          BY <2>3, <2>4, <3>2, <3>4, <4>4, <4>5
        <4>6. CASE t # s /\ u = s
          BY <2>3, <2>4, <3>2, <3>4, <4>6
        <4>7. CASE t # s /\ u # s
          BY <2>3, <3>4, <4>4, <4>7, SlotsApart
        <4> QED BY <4>5, <4>6, <4>7
      <3> QED BY <3>3, <3>4 DEF SlotsBalance
    <2>11. RefsBalance'
      BY <1>1, <1>3, <1>8, <2>1, <2>3, <2>4 DEF IInv, RefsBalance, At
    <2>12. NothingIsLeft'
      BY <1>1, <1>3, <2>2, <2>3 DEF IInv, NothingIsLeft
    <2> QED BY <1>6, <2>1, <2>5, <2>7, <2>8, <2>10, <2>11, <2>12 DEF CoreKept, CoreInv
  <1>9. CASE Answer /\ UNCHANGED <<taken, decoder>>
    BY <1>1, <1>9, AnswerCall, AnswerInOrder, CallMoves DEF core
  <1>10. ASSUME decoder[s] # NoDecoder, decoder' = [decoder EXCEPT ![s].count = @ + 1],
                Step("proxy"), UNCHANGED taken
         PROVE  CoreKept
    <2>1. /\ call' \in Calls /\ call'.at = "proxy" /\ call'.stream = s
          /\ call'.position = call.position
      BY <1>1, <1>4, <1>10, StepCall
    <2>2. decoder[s].count \in 0..MaxControls /\ decoder[s].count < MaxControls
      BY <1>1, <1>5 DEF IInv, CallInOrder, DecoderObjects
    <2>3. decoder'[s] = [decoder[s] EXCEPT !.count = decoder[s].count + 1]
      BY <1>5, <1>10
    <2>4. \A t \in Streams : t # s => decoder'[t] = decoder[t]
      BY <1>5, <1>10
    <2>5. /\ decoder'[s].count = decoder[s].count + 1
          /\ decoder'[s].slot = decoder[s].slot /\ decoder'[s].sink = decoder[s].sink
          /\ decoder'[s] \in DecoderObjects
      BY <1>5, <2>2, <2>3, StreamerAssumption DEF DecoderObjects
    <2>6. decoder[s].count > 0 /\ decoder[s].slot \in DecoderSlots /\ Controlled(s)
      BY <1>1, <1>2, <1>10 DEF IInv, DecodersInUse, At
    <2>7. decoder'[s].count > 1 /\ decoder'[s] # NoDecoder
      BY <2>2, <2>5, <2>6, StreamerAssumption DEF NoDecoder
    <2>8. CoreType'
      BY <1>1, <1>5, <1>7, <1>10, <2>4, <2>5 DEF CoreType
    <2>9. controls[call.position] = s
      BY <1>2, <2>6 DEF Controlled
    <2>10. CallInOrder'
      BY <1>1, <1>2, <2>1, <2>7, <2>9 DEF CallInOrder
    <2>11. DecodersInUse'
      <3>1. \A t \in Streams : t # s => ~At(t, {"detaching"}) /\ ~At(t, {"proxy"})
                                     /\ ~At(t, {"attaching", "proxy", "drop"})
        BY <1>1 DEF At
      <3>2. /\ At(s, {"proxy"})' /\ At(s, {"attaching", "proxy", "drop"})'
            /\ decoder'[s].count > 0 /\ decoder'[s].slot \in DecoderSlots
        BY <2>1, <2>2, <2>5, <2>6 DEF At
      <3>3. \A t \in Streams : t # s => decoder'[t] = decoder[t]
        BY <2>4
      <3> QED BY <1>1, <1>3, <3>1, <3>2, <3>3 DEF IInv, DecodersInUse
    <2>12. SlotsBalance'
      BY <1>10, <2>4, <2>5, <2>7 DEF IInv, SlotsBalance
    <2>13. RefsBalance'
      BY <1>1, <1>3, <1>10, <2>1, <2>4, <2>7 DEF IInv, RefsBalance, At
    <2>14. NothingIsLeft'
      BY <1>1, <1>3, <2>4, <2>5 DEF IInv, NothingIsLeft
    <2> QED BY <1>6, <2>1, <2>8, <2>10, <2>11, <2>12, <2>13, <2>14 DEF CoreKept, CoreInv
  <1> QED BY <1>8, <1>9, <1>10 DEF Control

LEMMA AttachDecoderKeeps ==
    ASSUME IInv, NEW s \in Streams, AttachDecoder(s)
    PROVE  CoreKept
  <1>1. /\ call.at = "attaching" /\ call.stream = s /\ Step("proxy")
        /\ count' = [count EXCEPT ![s] = @ + 1]
        /\ UNCHANGED <<slots, taken, sink, decoder, streams, controls, twice>>
    BY DEF AttachDecoder, AddRef
  <1>2. /\ call.position \in Positions /\ streams[call.position] = s
        /\ Proxied(s) /\ s \in slots /\ s # NoStream
    BY <1>1, Placed
  <1>3. \A t \in Streams : Proxied(t)' = Proxied(t) /\ Controlled(t)' = Controlled(t)
    BY <1>1 DEF Proxied, Controlled
  <1>4. call \in Calls /\ "proxy" \in Steps
    BY DEF IInv, TypeOK, Steps
  <1>5. /\ call' \in Calls /\ call'.at = "proxy" /\ call'.stream = s
        /\ call'.position = call.position
    BY <1>1, <1>4, StepCall
  <1>6. count \in [Streams -> 0..3]
    BY DEF IInv, TypeOK
  <1>7. decoder[s] # NoDecoder /\ decoder[s].count = 1 /\ controls[call.position] = NoStream
    BY <1>1 DEF IInv, CallInOrder
  <1>8. count[s] = 2
    BY <1>1, <1>2, <1>7 DEF IInv, RefsBalance, At
  <1>9. count'[s] = 3 /\ \A t \in Streams : t # s => count'[t] = count[t]
    BY <1>1, <1>6, <1>8
  <1>10. CoreType'
    BY <1>1, <1>6, <1>8 DEF IInv, TypeOK, CoreType
  <1>11. CallInOrder'
    BY <1>1, <1>2, <1>5, <1>7 DEF CallInOrder
  <1>12. DecodersInUse'
    BY <1>1, <1>3, <1>5 DEF IInv, DecodersInUse, At
  <1>13. SlotsCounted'
    BY <1>1, <1>2, <1>9 DEF IInv, SlotsCounted
  <1>14. SlotsBalance'
    BY <1>1 DEF IInv, SlotsBalance
  <1>15. RefsBalance'
    BY <1>1, <1>2, <1>3, <1>5, <1>7, <1>9 DEF IInv, RefsBalance, At
  <1>16. NothingIsLeft'
    BY <1>1, <1>3 DEF IInv, NothingIsLeft
  <1> QED
    BY <1>5, <1>10, <1>11, <1>12, <1>13, <1>14, <1>15, <1>16 DEF CoreKept, CoreInv

LEMMA AttachProxyKeeps ==
    ASSUME IInv, NEW s \in Streams, AttachProxy(s)
    PROVE  CoreKept
  <1>1. /\ call.at = "proxy" /\ call.stream = s /\ Answer
        /\ UNCHANGED <<slots, taken, count, sink, streams>>
    BY DEF AttachProxy
  <1>2. /\ call.position \in Positions /\ streams[call.position] = s
        /\ \A q \in Positions : controls[q] = s => q = call.position
        /\ \A q \in Positions : streams[q] = s => q = call.position
        /\ controls[call.position] \in {NoStream, s}
        /\ Proxied(s) /\ s \in slots /\ s # NoStream
    BY <1>1, Placed
  <1>3. call' \in Calls /\ call'.stream = NoStream /\ call'.at = "idle" /\ CallInOrder'
    BY <1>1, AnswerCall, AnswerInOrder
  <1>4. /\ decoder \in [Streams -> DecoderObjects]
        /\ controls \in [Positions -> Streams \cup {NoStream}] /\ twice \subseteq Streams
    BY DEF IInv, TypeOK
  <1>5. decoder[s] # NoDecoder
    BY <1>1 DEF IInv, CallInOrder
  <1>6. SlotsCounted'
    BY <1>1 DEF IInv, SlotsCounted
  <1>7. \A t \in Streams : Proxied(t)' = Proxied(t)
    BY <1>1 DEF Proxied
  <1>8. ASSUME NEW k \in {"live", "gone"}, decoder' = [decoder EXCEPT ![s].sink = k]
        PROVE  /\ \A t \in Streams : t # s => decoder'[t] = decoder[t]
               /\ decoder'[s].count = decoder[s].count /\ decoder'[s].slot = decoder[s].slot
               /\ decoder'[s].sink = k /\ decoder'[s] # NoDecoder
               /\ decoder' \in [Streams -> DecoderObjects]
    <2>1. \A t \in Streams : t # s => decoder'[t] = decoder[t]
      BY <1>4, <1>8
    <2>2. decoder'[s] = [decoder[s] EXCEPT !.sink = k]
      BY <1>4, <1>8
    <2>3. /\ decoder'[s].count = decoder[s].count /\ decoder'[s].slot = decoder[s].slot
          /\ decoder'[s].sink = k /\ decoder'[s] \in DecoderObjects
      BY <1>4, <2>2 DEF DecoderObjects, Sinks
    <2>4. decoder' \in [Streams -> DecoderObjects]
      BY <1>4, <1>8, <2>1, <2>3
    <2> QED BY <2>1, <2>3, <2>4 DEF NoDecoder
  <1>9. CASE controls[call.position] = NoStream
    <2>1. /\ controls' = [controls EXCEPT ![call.position] = s]
          /\ decoder' = [decoder EXCEPT ![s].sink = "live"]
          /\ twice' = twice
      BY <1>1, <1>9 DEF AttachProxy
    <2>2. /\ \A t \in Streams : t # s => decoder'[t] = decoder[t]
          /\ decoder'[s].count = decoder[s].count /\ decoder'[s].slot = decoder[s].slot
          /\ decoder'[s].sink = "live" /\ decoder'[s] # NoDecoder
          /\ decoder' \in [Streams -> DecoderObjects]
      BY <1>8, <2>1
    <2>3. /\ controls'[call.position] = s
          /\ \A q \in Positions : q # call.position => controls'[q] = controls[q]
          /\ controls' \in [Positions -> Streams \cup {NoStream}]
      BY <1>2, <1>4, <2>1
    <2>4. CoreType'
      BY <1>1, <2>1, <2>2, <2>3 DEF IInv, TypeOK, CoreType
    <2>5. \A t \in Streams : t # s => Controlled(t)' = Controlled(t)
      BY <1>2, <1>9, <2>3, StreamerAssumption DEF Controlled
    <2>6. Controlled(s)'
      BY <1>2, <2>3 DEF Controlled
    <2>7. decoder[s].count = 1
      BY <1>1, <1>9 DEF IInv, CallInOrder
    <2>8. DecodersInUse'
      <3>1. \A t \in Streams : t # s => ~At(t, {"detaching"}) /\ ~At(t, {"proxy"})
                                     /\ ~At(t, {"attaching", "proxy", "drop"})
        BY <1>1 DEF At
      <3>2. decoder'[s].slot \in DecoderSlots /\ decoder'[s].count = 1
        BY <1>5, <2>2, <2>7 DEF IInv, DecodersInUse
      <3> QED BY <1>1, <1>7, <2>1, <2>2, <2>5, <2>6, <3>1, <3>2 DEF IInv, DecodersInUse
    <2>9. SlotsBalance'
      BY <1>1, <1>5, <2>2 DEF IInv, SlotsBalance
    <2>10. RefsBalance'
      <3>1. \A t \in Streams : decoder'[t] # NoDecoder <=> decoder[t] # NoDecoder
        BY <1>5, <2>2
      <3>2. \A t \in Streams : ~At(t, {"unref"}) /\ ~At(t, {"attaching"})
        BY <1>1 DEF At
      <3>3. \A t \in Streams : ~At(t, {"unref"})' /\ ~At(t, {"attaching"})'
        BY <1>3, StreamerAssumption DEF At
      <3>4. \A t \in Streams :
               count'[t] = (IF Proxied(t)' THEN 2 ELSE 0)
                           + (IF At(t, {"unref"})' \/
                                 (decoder'[t] # NoDecoder /\ ~At(t, {"attaching"})')
                              THEN 1 ELSE 0)
        BY <1>1, <1>7, <3>1, <3>2, <3>3 DEF IInv, RefsBalance
      <3>5. \A q \in Positions : controls'[q] # NoStream =>
               streams'[q] = controls'[q] /\ decoder'[controls'[q]] # NoDecoder
        <4>1. \A q \in Positions : controls[q] # NoStream =>
                 streams[q] = controls[q] /\ decoder[controls[q]] # NoDecoder
          BY <1>4, <3>2 DEF IInv, RefsBalance
        <4> QED BY <1>1, <1>2, <1>4, <2>2, <2>3, <3>1, <4>1
      <3> QED BY <1>1, <3>4, <3>5 DEF IInv, RefsBalance
    <2>11. NothingIsLeft'
      BY <1>1, <1>7, <2>1, <2>2, <2>5, <2>6 DEF IInv, NothingIsLeft
    <2> QED BY <1>3, <1>6, <2>4, <2>8, <2>9, <2>10, <2>11 DEF CoreKept, CoreInv
  <1>10. CASE controls[call.position] # NoStream
    <2>1. /\ controls' = controls
          /\ decoder' = [decoder EXCEPT ![s].sink = "gone"]
          /\ twice' = twice \cup {s}
      BY <1>1, <1>10 DEF AttachProxy
    <2>2. /\ \A t \in Streams : t # s => decoder'[t] = decoder[t]
          /\ decoder'[s].count = decoder[s].count /\ decoder'[s].slot = decoder[s].slot
          /\ decoder'[s].sink = "gone" /\ decoder'[s] # NoDecoder
          /\ decoder' \in [Streams -> DecoderObjects]
      BY <1>8, <2>1
    <2>3. CoreType'
      BY <1>1, <2>1, <2>2 DEF IInv, TypeOK, CoreType
    <2>4. \A t \in Streams : Controlled(t)' = Controlled(t)
      BY <2>1 DEF Controlled
    <2>5. Controlled(s)
      BY <1>2, <1>10 DEF Controlled
    <2>6. DecodersInUse'
      <3>1. \A t \in Streams : t # s => ~At(t, {"detaching"}) /\ ~At(t, {"proxy"})
                                     /\ ~At(t, {"attaching", "proxy", "drop"})
        BY <1>1 DEF At
      <3>2. decoder'[s].slot \in DecoderSlots /\ decoder'[s].count > 0
        BY <1>1, <1>5, <2>2 DEF IInv, DecodersInUse, At
      <3> QED BY <1>1, <1>7, <2>1, <2>2, <2>4, <2>5, <3>1, <3>2 DEF IInv, DecodersInUse
    <2>7. SlotsBalance'
      BY <1>1, <1>5, <2>2 DEF IInv, SlotsBalance
    <2>8. RefsBalance'
      <3>1. \A t \in Streams : decoder'[t] # NoDecoder <=> decoder[t] # NoDecoder
        BY <1>5, <2>2
      <3>2. \A t \in Streams : ~At(t, {"unref"}) /\ ~At(t, {"attaching"})
        BY <1>1 DEF At
      <3>3. \A t \in Streams : ~At(t, {"unref"})' /\ ~At(t, {"attaching"})'
        BY <1>3, StreamerAssumption DEF At
      <3>4. \A t \in Streams :
               count'[t] = (IF Proxied(t)' THEN 2 ELSE 0)
                           + (IF At(t, {"unref"})' \/
                                 (decoder'[t] # NoDecoder /\ ~At(t, {"attaching"})')
                              THEN 1 ELSE 0)
        BY <1>1, <1>7, <3>1, <3>2, <3>3 DEF IInv, RefsBalance
      <3>5. \A q \in Positions : controls'[q] # NoStream =>
               streams'[q] = controls'[q] /\ decoder'[controls'[q]] # NoDecoder
        BY <1>1, <1>4, <2>1, <3>1, <3>2 DEF IInv, RefsBalance
      <3> QED BY <1>1, <3>4, <3>5 DEF IInv, RefsBalance
    <2>9. NothingIsLeft'
      BY <1>1, <1>7, <2>1, <2>2, <2>4 DEF IInv, NothingIsLeft
    <2> QED BY <1>3, <1>6, <2>3, <2>6, <2>7, <2>8, <2>9 DEF CoreKept, CoreInv
  <1> QED BY <1>9, <1>10

-----------------------------------------------------------------------------
(* Detach.                                                                 *)

LEMMA ReleaseDecoderKeeps ==
    ASSUME IInv, NEW s \in Streams, ReleaseDecoder(s)
    PROVE  CoreKept
  <1>1. /\ call.at = "release" /\ call.stream = s
        /\ UNCHANGED <<slots, taken, count, sink, streams, twice>>
    BY DEF ReleaseDecoder
  <1>2. /\ call.position \in Positions /\ streams[call.position] = s
        /\ \A q \in Positions : controls[q] = s => q = call.position
        /\ Proxied(s) /\ s \in slots /\ s # NoStream
    BY <1>1, Placed
  <1>3. controls[call.position] = s
    BY <1>1 DEF IInv, CallInOrder
  <1>4. call \in Calls /\ {"detaching", "drop"} \subseteq Steps
    BY DEF IInv, TypeOK, Steps
  <1>5. /\ decoder \in [Streams -> DecoderObjects]
        /\ controls \in [Positions -> Streams \cup {NoStream}]
    BY DEF IInv, TypeOK
  <1>6. decoder[s] # NoDecoder
    BY <1>1, <1>2, <1>3 DEF IInv, RefsBalance, At
  <1>7. /\ decoder[s].slot \in DecoderSlots /\ decoder[s].count > 0
        /\ decoder[s].count > 1 => s \in twice
        /\ decoder[s].count \in 0..MaxControls
    BY <1>1, <1>5, <1>6 DEF IInv, DecodersInUse, At, DecoderObjects
  <1>8. \A t \in Streams : Proxied(t)' = Proxied(t)
    BY <1>1 DEF Proxied
  <1>9. SlotsCounted'
    BY <1>1 DEF IInv, SlotsCounted
  <1>10. \A t \in Streams : t # s => /\ ~At(t, {"detaching"}) /\ ~At(t, {"proxy"})
                                     /\ ~At(t, {"attaching", "proxy", "drop"})
    BY <1>1 DEF At
  <1>11. \A t \in Streams : ~At(t, {"unref"}) /\ ~At(t, {"attaching"})
    BY <1>1 DEF At
  \* Whatever becomes of it, the decoder keeps its slot.
  <1>12. /\ decoder' = [t \in Streams |-> decoder'[t]]
         /\ \A t \in Streams : t # s => decoder'[t] = decoder[t]
    BY <1>5 DEF ReleaseDecoder
  <1>13. \A t \in Streams : t # s => decoder'[t] = decoder[t]
    BY <1>12
  <1>14. /\ decoder'[s].count = decoder[s].count - 1 /\ decoder'[s].slot = decoder[s].slot
         /\ decoder'[s].sink \in {decoder[s].sink, "gone"} /\ decoder'[s] \in DecoderObjects
    <2>0. /\ decoder[s] \in DecoderObjects
          /\ decoder[s].count - 1 \in 0..MaxControls
      BY <1>5, <1>7, StreamerAssumption
    <2>1. CASE /\ decoder[s].count > 1
               /\ decoder' = [decoder EXCEPT ![s].count = @ - 1, ![s].sink = "gone"]
      <3>1. decoder'[s] = [decoder[s] EXCEPT !.count = decoder[s].count - 1, !.sink = "gone"]
        BY <1>5, <2>1
      <3> QED BY <2>0, <3>1 DEF DecoderObjects, Sinks
    <2>2. CASE decoder' = [decoder EXCEPT ![s].count = @ - 1]
      <3>1. decoder'[s] = [decoder[s] EXCEPT !.count = decoder[s].count - 1]
        BY <1>5, <2>2
      <3> QED BY <2>0, <3>1 DEF DecoderObjects
    <2>3. CASE decoder[s].count = 1 /\ decoder' = [decoder EXCEPT ![s].count = 0]
      <3>1. decoder'[s] = [decoder[s] EXCEPT !.count = 0]
        BY <1>5, <2>3
      <3>2. decoder[s].count - 1 = 0
        BY <2>3
      <3> QED BY <2>0, <3>1, <3>2 DEF DecoderObjects
    <2> QED BY <2>1, <2>2, <2>3 DEF ReleaseDecoder
  <1>15. decoder'[s] # NoDecoder
    BY <1>7, <1>14 DEF NoDecoder, DecoderSlots
  <1>16. decoder' \in [Streams -> DecoderObjects]
    BY <1>5, <1>12, <1>13, <1>14
  <1>17. SlotsBalance'
    BY <1>1, <1>6, <1>13, <1>14, <1>15 DEF IInv, SlotsBalance
  <1>18. \A t \in Streams : decoder'[t] # NoDecoder <=> decoder[t] # NoDecoder
    BY <1>6, <1>13, <1>15
  <1>19. \A t \in Streams :
            count'[t] = (IF Proxied(t)' THEN 2 ELSE 0)
                        + (IF decoder'[t] # NoDecoder THEN 1 ELSE 0)
    BY <1>1, <1>8, <1>11, <1>18 DEF IInv, RefsBalance
  <1>20. \A q \in Positions :
            /\ streams'[q] # NoStream =>
                  /\ streams'[q] \in slots'
                  /\ \A r \in Positions : streams'[r] = streams'[q] => r = q
            /\ controls[q] # NoStream =>
                  streams'[q] = controls[q] /\ decoder'[controls[q]] # NoDecoder
    BY <1>1, <1>5, <1>11, <1>18 DEF IInv, RefsBalance
  <1>21. CASE decoder[s].count = 1
    <2>1. Step("detaching") /\ controls' = controls /\ decoder'[s].sink = decoder[s].sink
      <3>1. decoder' = [decoder EXCEPT ![s].count = 0]
        BY <1>21 DEF ReleaseDecoder
      <3>2. decoder'[s] = [decoder[s] EXCEPT !.count = 0]
        BY <1>5, <3>1
      <3>3. decoder'[s].sink = decoder[s].sink
        BY <1>5, <3>2 DEF DecoderObjects
      <3> QED BY <1>21, <3>3 DEF ReleaseDecoder
    <2>2. /\ call' \in Calls /\ call'.at = "detaching" /\ call'.stream = s
          /\ call'.position = call.position
      BY <1>1, <1>4, <2>1, StepCall
    <2>3. CoreType'
      BY <1>1, <1>16, <2>1 DEF IInv, TypeOK, CoreType
    <2>4. \A t \in Streams : Controlled(t)' = Controlled(t)
      BY <2>1 DEF Controlled
    <2>5. decoder'[s].count = 0
      BY <1>14, <1>21
    <2>6. CallInOrder'
      BY <1>1, <1>2, <1>3, <2>1, <2>2, <2>5 DEF CallInOrder
    <2>7. Controlled(s)
      BY <1>2, <1>3 DEF Controlled
    <2>8. DecodersInUse'
      <3>1. At(s, {"detaching"})'
        BY <2>2 DEF At
      <3> QED BY <1>1, <1>7, <1>8, <1>10, <1>13, <1>14, <2>4, <2>5, <2>7, <3>1
              DEF IInv, DecodersInUse
    <2>9. \A t \in Streams : ~At(t, {"unref"})' /\ ~At(t, {"attaching"})'
      BY <2>2 DEF At
    <2>10. RefsBalance'
      BY <1>19, <1>20, <2>1, <2>9 DEF RefsBalance
    <2>11. NothingIsLeft'
      BY <1>1, <1>8, <1>13, <2>1, <2>4 DEF IInv, NothingIsLeft
    <2> QED BY <1>9, <1>17, <2>2, <2>3, <2>6, <2>8, <2>10, <2>11 DEF CoreKept, CoreInv
  <1>22. CASE decoder[s].count > 1 /\ call.destroys
    <2>1. /\ Step("drop") /\ controls' = [controls EXCEPT ![call.position] = NoStream]
          /\ decoder[s].count # 1
      BY <1>7, <1>22 DEF ReleaseDecoder, EraseControl
    <2>2. /\ call' \in Calls /\ call'.at = "drop" /\ call'.stream = s
          /\ call'.position = call.position
      BY <1>1, <1>4, <2>1, StepCall
    <2>3. /\ controls'[call.position] = NoStream
          /\ \A q \in Positions : q # call.position => controls'[q] = controls[q]
          /\ controls' \in [Positions -> Streams \cup {NoStream}]
      BY <1>2, <1>5, <2>1
    <2>4. CoreType'
      BY <1>1, <1>16, <2>3 DEF IInv, TypeOK, CoreType
    <2>5. \A t \in Streams : t # s => Controlled(t)' = Controlled(t)
      BY <1>2, <1>3, <2>3, StreamerAssumption DEF Controlled
    <2>6. CallInOrder'
      BY <1>1, <1>2, <1>7, <1>22, <2>2, <2>3 DEF CallInOrder
    <2>7. DecodersInUse'
      <3>1. At(s, {"attaching", "proxy", "drop"})'
        BY <2>2 DEF At
      <3>2. decoder'[s].count > 0 /\ s \in twice
        BY <1>7, <1>14, <1>22, StreamerAssumption
      <3> QED BY <1>1, <1>7, <1>8, <1>10, <1>13, <1>14, <2>5, <3>1, <3>2
              DEF IInv, DecodersInUse
    <2>8. \A t \in Streams : ~At(t, {"unref"})' /\ ~At(t, {"attaching"})'
      BY <2>2 DEF At
    <2>9. RefsBalance'
      BY <1>19, <1>20, <2>3, <2>8 DEF RefsBalance
    <2>10. NothingIsLeft'
      BY <1>1, <1>7, <1>8, <1>13, <1>22, <2>5 DEF IInv, NothingIsLeft
    <2> QED BY <1>9, <1>17, <2>2, <2>4, <2>6, <2>7, <2>9, <2>10 DEF CoreKept, CoreInv
  <1>23. CASE decoder[s].count > 1 /\ ~call.destroys
    <2>1. Answer /\ controls' = controls /\ decoder[s].count # 1
      BY <1>7, <1>23 DEF ReleaseDecoder
    <2>2. call' \in Calls /\ call'.stream = NoStream /\ call'.at = "idle" /\ CallInOrder'
      BY <2>1, AnswerCall, AnswerInOrder
    <2>3. CoreType'
      BY <1>1, <1>16, <2>1 DEF IInv, TypeOK, CoreType
    <2>4. \A t \in Streams : Controlled(t)' = Controlled(t)
      BY <2>1 DEF Controlled
    <2>5. Controlled(s)
      BY <1>2, <1>3 DEF Controlled
    <2>6. DecodersInUse'
      <3>1. decoder'[s].count > 0 /\ s \in twice
        BY <1>7, <1>14, <1>23, StreamerAssumption
      <3> QED BY <1>1, <1>7, <1>8, <1>10, <1>13, <1>14, <2>4, <2>5, <3>1
              DEF IInv, DecodersInUse
    <2>7. \A t \in Streams : ~At(t, {"unref"})' /\ ~At(t, {"attaching"})'
      BY <2>2 DEF At
    <2>8. RefsBalance'
      BY <1>19, <1>20, <2>1, <2>7 DEF RefsBalance
    <2>9. NothingIsLeft'
      BY <1>1, <1>7, <1>8, <1>13, <1>23, <2>4 DEF IInv, NothingIsLeft
    <2> QED BY <1>9, <1>17, <2>2, <2>3, <2>6, <2>8, <2>9 DEF CoreKept, CoreInv
  <1>24. decoder[s].count = 1 \/ decoder[s].count > 1
    BY <1>7, StreamerAssumption
  <1> QED BY <1>21, <1>22, <1>23, <1>24

LEMMA DetachDecoderKeeps ==
    ASSUME IInv, NEW s \in Streams, DetachDecoder(s)
    PROVE  CoreKept
  <1>1. /\ call.at = "detaching" /\ call.stream = s /\ Step("unref")
        /\ taken' = taken \ {decoder[s].slot}
        /\ decoder' = [decoder EXCEPT ![s] = NoDecoder]
        /\ UNCHANGED <<slots, count, sink, streams, controls, twice>>
    BY DEF DetachDecoder
  <1>2. /\ call.position \in Positions /\ streams[call.position] = s
        /\ Proxied(s) /\ s \in slots /\ s # NoStream
    BY <1>1, Placed
  <1>3. controls[call.position] = s
    BY <1>1 DEF IInv, CallInOrder
  <1>4. call \in Calls /\ "unref" \in Steps
    BY DEF IInv, TypeOK, Steps
  <1>5. /\ call' \in Calls /\ call'.at = "unref" /\ call'.stream = s
        /\ call'.position = call.position
    BY <1>1, <1>4, StepCall
  <1>6. decoder \in [Streams -> DecoderObjects] /\ taken \subseteq DecoderSlots
    BY DEF IInv, TypeOK
  <1>7. decoder[s] # NoDecoder
    BY <1>1, <1>2, <1>3 DEF IInv, RefsBalance, At
  <1>8. decoder'[s] = NoDecoder /\ \A t \in Streams : t # s => decoder'[t] = decoder[t]
    BY <1>1, <1>6
  <1>9. \A t \in Streams : Proxied(t)' = Proxied(t) /\ Controlled(t)' = Controlled(t)
    BY <1>1 DEF Proxied, Controlled
  <1>10. CoreType'
    <2>1. NoDecoder \in DecoderObjects
      BY StreamerAssumption DEF NoDecoder, DecoderObjects, Sinks
    <2> QED BY <1>1, <1>6, <2>1 DEF IInv, TypeOK, CoreType
  <1>11. CallInOrder'
    BY <1>1, <1>2, <1>3, <1>5, <1>8 DEF CallInOrder
  <1>12. DecodersInUse'
    <2>1. \A t \in Streams : t # s => /\ ~At(t, {"detaching"}) /\ ~At(t, {"proxy"})
                                      /\ ~At(t, {"attaching", "proxy", "drop"})
      BY <1>1 DEF At
    <2> QED BY <1>1, <1>8, <1>9, <2>1 DEF IInv, DecodersInUse
  <1>13. SlotsCounted'
    BY <1>1 DEF IInv, SlotsCounted
  <1>14. SlotsBalance'
    <2>1. taken = {decoder[t].slot : t \in {u \in Streams : decoder[u] # NoDecoder}}
      BY DEF IInv, SlotsBalance
    <2>2. \A t \in Streams : decoder[t] # NoDecoder /\ t # s => decoder[t].slot # decoder[s].slot
      BY <1>7, SlotsApart
    <2>3. taken' = {decoder'[t].slot : t \in {u \in Streams : decoder'[u] # NoDecoder}}
      BY <1>1, <1>8, <2>1, <2>2
    <2>4. ASSUME NEW t \in Streams, NEW u \in Streams,
                 decoder'[t] # NoDecoder, decoder'[t].slot = decoder'[u].slot
          PROVE  t = u
      <3>1. t # s /\ decoder'[t] = decoder[t] /\ decoder[t] # NoDecoder
        BY <1>8, <2>4
      <3>2. decoder[t].slot # 0 /\ NoDecoder.slot = 0
        BY <3>1 DEF IInv, DecodersInUse, DecoderSlots, NoDecoder
      <3>3. u # s /\ decoder'[u] = decoder[u] /\ decoder[u] # NoDecoder
        BY <1>8, <2>4, <3>1, <3>2
      <3> QED BY <2>4, <3>1, <3>3, SlotsApart
    <2> QED BY <2>3, <2>4 DEF SlotsBalance
  <1>15. RefsBalance'
    <2>1. \A t \in Streams : ~At(t, {"unref"}) /\ ~At(t, {"attaching"}) /\ ~At(t, {"attaching"})'
      BY <1>1, <1>5 DEF At
    <2>2. \A t \in Streams : At(t, {"unref"})' <=> t = s
      BY <1>5 DEF At
    <2>3. \A t \in Streams :
             count'[t] = (IF Proxied(t)' THEN 2 ELSE 0)
                         + (IF At(t, {"unref"})' \/
                               (decoder'[t] # NoDecoder /\ ~At(t, {"attaching"})')
                            THEN 1 ELSE 0)
      BY <1>1, <1>7, <1>8, <1>9, <2>1, <2>2 DEF IInv, RefsBalance
    <2>4. controls \in [Positions -> Streams \cup {NoStream}]
      BY DEF IInv, TypeOK
    <2>5. ASSUME NEW q \in Positions, controls[q] # NoStream
          PROVE  streams[q] = controls[q] /\ (decoder'[controls[q]] # NoDecoder
                                              \/ At(controls[q], {"unref"})')
      <3>1. /\ streams[q] = controls[q] /\ controls[q] \in Streams
            /\ decoder[controls[q]] # NoDecoder
        BY <2>1, <2>4, <2>5 DEF IInv, RefsBalance
      <3>2. CASE controls[q] = s
        BY <1>1, <1>5, <3>1, <3>2 DEF At
      <3>3. CASE controls[q] # s
        BY <1>8, <3>1, <3>3
      <3> QED BY <3>1, <3>2, <3>3
    <2>6. \A q \in Positions : (controls[q] # NoStream)' =>
             /\ (streams[q] = controls[q])'
             /\ (decoder[controls[q]] # NoDecoder \/ At(controls[q], {"unref"}))'
      BY <1>1, <1>5, <2>5 DEF At
    <2> QED BY <1>1, <2>3, <2>6 DEF IInv, RefsBalance
  <1>16. NothingIsLeft'
    <2>1. NoDecoder.sink = "none"
      BY DEF NoDecoder
    <2> QED BY <1>1, <1>8, <1>9, <2>1 DEF IInv, NothingIsLeft
  <1> QED
    BY <1>5, <1>10, <1>11, <1>12, <1>13, <1>14, <1>15, <1>16 DEF CoreKept, CoreInv

LEMMA UnrefKeeps ==
    ASSUME IInv, NEW s \in Streams, Unref(s)
    PROVE  CoreKept
  <1>1. /\ call.at = "unref" /\ call.stream = s
        /\ count' = [count EXCEPT ![s] = @ - 1]
        /\ controls' = [controls EXCEPT ![call.position] = NoStream]
        /\ Step("drop") \/ Answer
        /\ UNCHANGED <<slots, taken, sink, decoder, streams, twice>>
    BY DEF Unref, Release, EraseControl
  <1>2. /\ call.position \in Positions /\ streams[call.position] = s
        /\ \A q \in Positions : controls[q] = s => q = call.position
        /\ \A q \in Positions : streams[q] = s => q = call.position
        /\ Proxied(s) /\ s \in slots /\ s # NoStream
    BY <1>1, Placed
  <1>3. controls[call.position] = s /\ decoder[s] = NoDecoder
    BY <1>1 DEF IInv, CallInOrder
  <1>4. /\ call \in Calls /\ "drop" \in Steps /\ count \in [Streams -> 0..3]
        /\ controls \in [Positions -> Streams \cup {NoStream}]
    BY DEF IInv, TypeOK, Steps
  <1>5. /\ call' \in Calls
        /\ \/ call'.at = "drop" /\ call'.stream = s /\ call'.position = call.position
           \/ call'.at = "idle" /\ call' = NoCall /\ call'.stream = NoStream
    BY <1>1, <1>4, StepCall, AnswerCall
  <1>6. /\ controls'[call.position] = NoStream
        /\ \A q \in Positions : q # call.position => controls'[q] = controls[q]
        /\ controls' \in [Positions -> Streams \cup {NoStream}]
    BY <1>1, <1>2, <1>4
  <1>7. \A t \in Streams : Proxied(t)' = Proxied(t)
    BY <1>1 DEF Proxied
  <1>8. \A t \in Streams : t # s => Controlled(t)' = Controlled(t)
    BY <1>2, <1>3, <1>6, StreamerAssumption DEF Controlled
  <1>9. count[s] = 3
    BY <1>1, <1>2 DEF IInv, RefsBalance, At
  <1>10. count'[s] = 2 /\ \A t \in Streams : t # s => count'[t] = count[t]
    BY <1>1, <1>4, <1>9
  <1>11. CoreType'
    BY <1>1, <1>4, <1>6, <1>9 DEF IInv, TypeOK, CoreType
  <1>12. CallInOrder'
    BY <1>1, <1>2, <1>3, <1>5, <1>6 DEF CallInOrder
  <1>13. DecodersInUse'
    <2>1. \A t \in Streams : t # s => /\ ~At(t, {"detaching"}) /\ ~At(t, {"proxy"})
                                      /\ ~At(t, {"attaching", "proxy", "drop"})
      BY <1>1 DEF At
    <2> QED BY <1>1, <1>3, <1>7, <1>8, <2>1 DEF IInv, DecodersInUse
  <1>14. SlotsCounted'
    BY <1>1, <1>2, <1>10 DEF IInv, SlotsCounted
  <1>15. SlotsBalance'
    BY <1>1 DEF IInv, SlotsBalance
  <1>16. RefsBalance'
    <2>1. \A t \in Streams : /\ At(t, {"unref"}) <=> t = s
                             /\ ~At(t, {"attaching"})
      BY <1>1 DEF At
    <2>2. \A t \in Streams : ~At(t, {"unref"})' /\ ~At(t, {"attaching"})'
      BY <1>5 DEF At
    <2>3. \A t \in Streams :
             count'[t] = (IF Proxied(t)' THEN 2 ELSE 0)
                         + (IF At(t, {"unref"})' \/
                               (decoder'[t] # NoDecoder /\ ~At(t, {"attaching"})')
                            THEN 1 ELSE 0)
      BY <1>1, <1>2, <1>3, <1>7, <1>10, <2>1, <2>2 DEF IInv, RefsBalance
    <2>4. ASSUME NEW q \in Positions, controls'[q] # NoStream
          PROVE  streams[q] = controls'[q] /\ decoder[controls'[q]] # NoDecoder
      <3>1. q # call.position /\ controls'[q] = controls[q] /\ controls[q] # s
        BY <1>2, <1>6, <2>4
      <3>2. controls[q] \in Streams
        BY <1>4, <2>4, <3>1
      <3>3. ~At(controls[q], {"unref"})
        BY <2>1, <3>1, <3>2
      <3> QED BY <2>4, <3>1, <3>3 DEF IInv, RefsBalance
    <2>5. \A q \in Positions : (controls[q] # NoStream)' =>
             (streams[q] = controls[q])' /\ (decoder[controls[q]] # NoDecoder)'
      BY <1>1, <2>4
    <2> QED BY <1>1, <2>3, <2>5 DEF IInv, RefsBalance
  <1>17. NothingIsLeft'
    <2>1. NoDecoder.sink = "none"
      BY DEF NoDecoder
    <2> QED BY <1>1, <1>2, <1>3, <1>7, <1>8, <2>1 DEF IInv, NothingIsLeft
  <1> QED
    BY <1>5, <1>11, <1>12, <1>13, <1>14, <1>15, <1>16, <1>17 DEF CoreKept, CoreInv

-----------------------------------------------------------------------------
(* The stream.                                                             *)

LEMMA DropKeeps ==
    ASSUME IInv, NEW s \in Streams, Drop(s)
    PROVE  CoreKept
  <1>1. /\ call.at = "drop" /\ call.stream = s
        /\ sink' = [sink EXCEPT ![s] = FALSE]
        /\ count' = [count EXCEPT ![s] = @ - 2]
        /\ streams' = [streams EXCEPT ![call.position] = NoStream]
        /\ IF count[s] = 2 THEN slots' = slots \ {s} /\ Step("quit")
                           ELSE Answer /\ slots' = slots
        /\ UNCHANGED <<taken, decoder, controls, twice>>
    BY DEF Drop, DropSink
  <1>2. /\ call.position \in Positions /\ streams[call.position] = s
        /\ \A q \in Positions : controls[q] = s => q = call.position
        /\ \A q \in Positions : streams[q] = s => q = call.position
        /\ Proxied(s) /\ s \in slots /\ s # NoStream
    BY <1>1, Placed
  <1>3. /\ controls[call.position] = NoStream
        /\ decoder[s] = NoDecoder \/ s \in twice
    BY <1>1 DEF IInv, CallInOrder
  <1>4. /\ call \in Calls /\ "quit" \in Steps /\ count \in [Streams -> 0..3]
        /\ streams \in [Positions -> Streams \cup {NoStream}]
        /\ sink \in [Streams -> BOOLEAN]
        /\ controls \in [Positions -> Streams \cup {NoStream}]
    BY DEF IInv, TypeOK, Steps
  <1>5. /\ call' \in Calls
        /\ \/ call'.at = "quit" /\ call'.stream = s
           \/ call'.at = "idle" /\ call' = NoCall /\ call'.stream = NoStream
    BY <1>1, <1>4, StepCall, AnswerCall
  <1>6. /\ streams'[call.position] = NoStream
        /\ \A q \in Positions : q # call.position => streams'[q] = streams[q]
        /\ streams' \in [Positions -> Streams \cup {NoStream}]
    BY <1>1, <1>2, <1>4
  <1>7. ~Proxied(s)' /\ \A t \in Streams : t # s => Proxied(t)' = Proxied(t)
    BY <1>2, <1>6, StreamerAssumption DEF Proxied
  <1>8. \A t \in Streams : Controlled(t)' = Controlled(t)
    BY <1>1 DEF Controlled
  <1>9. /\ \A t \in Streams : ~At(t, {"unref"}) /\ ~At(t, {"attaching"})
        /\ \A t \in Streams : ~At(t, {"detaching"}) /\ ~At(t, {"proxy"})
        /\ \A t \in Streams : t # s => ~At(t, {"attaching", "proxy", "drop"})
    BY <1>1 DEF At
  <1>10. \A t \in Streams : ~At(t, {"unref"})' /\ ~At(t, {"attaching"})'
    BY <1>5 DEF At
  <1>11. count[s] = IF decoder[s] # NoDecoder THEN 3 ELSE 2
    BY <1>2, <1>9 DEF IInv, RefsBalance
  <1>12. /\ count'[s] = IF decoder[s] # NoDecoder THEN 1 ELSE 0
         /\ \A t \in Streams : t # s => count'[t] = count[t]
    BY <1>1, <1>4, <1>11
  <1>13. slots' = IF decoder[s] # NoDecoder THEN slots ELSE slots \ {s}
    BY <1>1, <1>11
  <1>14. /\ slots' \subseteq Streams /\ IsFiniteSet(slots')
         /\ Cardinality(slots') <= Frontends
    <2>1. slots \subseteq Streams /\ IsFiniteSet(slots) /\ Cardinality(slots) <= Frontends
      BY DEF IInv, TypeOK, SlotsCounted
    <2>2. IsFiniteSet(slots \ {s}) /\ Cardinality(slots \ {s}) = Cardinality(slots) - 1
      BY <1>2, <2>1, FS_RemoveElement
    <2>3. Cardinality(slots) \in Nat /\ Frontends \in Nat
      BY <2>1, FS_CardinalityType, StreamerAssumption
    <2>4. Cardinality(slots \ {s}) <= Frontends
      BY <2>1, <2>2, <2>3
    <2> QED BY <1>13, <2>1, <2>2, <2>4
  <1>15. CoreType'
    <2>1. count' \in [Streams -> 0..3]
      BY <1>1, <1>4, <1>11
    <2>2. sink' \in [Streams -> BOOLEAN]
      BY <1>1, <1>4
    <2> QED BY <1>1, <1>6, <1>14, <2>1, <2>2 DEF IInv, TypeOK, CoreType
  <1>16. CallInOrder'
    <2>1. call'.at = "quit" => s \notin slots'
      BY <1>1, <1>11, AnswerCall
    <2> QED BY <1>5, <2>1 DEF CallInOrder
  <1>17. DecodersInUse'
    BY <1>1, <1>7, <1>8, <1>9 DEF IInv, DecodersInUse
  <1>18. SlotsCounted'
    BY <1>2, <1>12, <1>13, <1>14 DEF IInv, SlotsCounted
  <1>19. SlotsBalance'
    BY <1>1 DEF IInv, SlotsBalance
  <1>20. RefsBalance'
    <2>1. \A t \in Streams :
             count'[t] = (IF Proxied(t)' THEN 2 ELSE 0)
                         + (IF At(t, {"unref"})' \/
                               (decoder'[t] # NoDecoder /\ ~At(t, {"attaching"})')
                            THEN 1 ELSE 0)
      BY <1>1, <1>7, <1>9, <1>10, <1>12 DEF IInv, RefsBalance
    <2>2. ASSUME NEW q \in Positions, streams'[q] # NoStream
          PROVE  /\ streams'[q] \in slots'
                 /\ \A r \in Positions : streams'[r] = streams'[q] => r = q
      <3>1. q # call.position /\ streams'[q] = streams[q] /\ streams[q] # s
        BY <1>2, <1>6, <2>2
      <3>2. streams[q] \in slots'
        BY <1>13, <2>2, <3>1 DEF IInv, RefsBalance
      <3>3. ASSUME NEW r \in Positions, streams'[r] = streams'[q] PROVE r = q
        <4>1. r # call.position /\ streams'[r] = streams[r]
          BY <1>6, <2>2, <3>3
        <4> QED BY ZenonT(30), <2>2, <3>1, <3>3, <4>1 DEF IInv, RefsBalance
      <3> QED BY <3>1, <3>2, <3>3
    <2>3. ASSUME NEW q \in Positions, controls[q] # NoStream
          PROVE  streams'[q] = controls[q] /\ decoder[controls[q]] # NoDecoder
      <3>1. q # call.position
        BY <1>3, <2>3
      <3>2. controls[q] \in Streams
        BY <1>4, <2>3
      <3> QED BY <1>6, <1>9, <2>3, <3>1, <3>2 DEF IInv, RefsBalance
    <2>4. \A q \in Positions : (controls[q] # NoStream)' =>
             (streams[q] = controls[q])' /\ (decoder[controls[q]] # NoDecoder)'
      BY <1>1, <2>3
    <2> QED BY <2>1, <2>2, <2>4 DEF RefsBalance
  <1>21. NothingIsLeft'
    <2>1. sink'[s] = FALSE /\ \A t \in Streams : t # s => sink'[t] = sink[t]
      BY <1>1, <1>4
    <2>2. s \notin twice => s \notin slots'
      BY <1>3, <1>13
    <2> QED BY <1>1, <1>7, <1>8, <1>13, <2>1, <2>2 DEF IInv, NothingIsLeft
  <1> QED
    BY <1>5, <1>15, <1>16, <1>17, <1>18, <1>19, <1>20, <1>21 DEF CoreKept, CoreInv

LEMMA QuitKeeps ==
    ASSUME IInv, NEW s \in Streams, Quit(s)
    PROVE  CoreKept
  <1>1. /\ call.at = "quit" /\ call.stream = s /\ Answer
        /\ twice' = twice \ {s}
        /\ UNCHANGED <<slots, taken, count, sink, decoder, streams, controls>>
    BY DEF Quit, objects
  <1>2. call' \in Calls /\ call'.at = "idle" /\ call'.stream = NoStream /\ CallInOrder'
    BY <1>1, AnswerCall, AnswerInOrder
  <1>3. s \notin slots
    BY <1>1 DEF IInv, CallInOrder
  <1>4. \A t \in Streams : /\ ~At(t, {"unref"}) /\ ~At(t, {"attaching"})
                           /\ ~At(t, {"detaching"}) /\ ~At(t, {"proxy"})
                           /\ ~At(t, {"attaching", "proxy", "drop"})
    BY <1>1 DEF At
  <1>5. \A t \in Streams : ~At(t, {"unref"})' /\ ~At(t, {"attaching"})'
    BY <1>2, StreamerAssumption DEF At
  <1>6. decoder[s] = NoDecoder
    <2>1. count[s] \in 0..3 /\ ~(count[s] > 0)
      BY <1>3 DEF IInv, TypeOK, SlotsCounted
    <2>2. count[s] = 0
      BY <2>1
    <2> QED BY <1>4, <2>2 DEF IInv, RefsBalance
  <1>7. \A t \in Streams : Proxied(t)' = Proxied(t) /\ Controlled(t)' = Controlled(t)
    BY <1>1 DEF Proxied, Controlled
  <1>8. CoreType'
    BY <1>1 DEF IInv, TypeOK, CoreType
  <1>9. DecodersInUse'
    BY <1>1, <1>4, <1>6, <1>7 DEF IInv, DecodersInUse
  <1>10. SlotsCounted' /\ SlotsBalance'
    BY <1>1 DEF IInv, SlotsCounted, SlotsBalance
  <1>11. RefsBalance'
    BY <1>1, <1>4, <1>5, <1>7, <1>2 DEF IInv, RefsBalance, At
  <1>12. NothingIsLeft'
    <2>1. NoDecoder.sink = "none"
      BY DEF NoDecoder
    <2> QED BY <1>1, <1>3, <1>6, <1>7, <2>1 DEF IInv, NothingIsLeft
  <1> QED BY <1>2, <1>8, <1>9, <1>10, <1>11, <1>12 DEF CoreKept, CoreInv

LEMMA CreateKeeps ==
    ASSUME IInv, Create
    PROVE  CoreKept
  <1>1. PICK s \in Streams, p \in Positions :
           /\ count[s] = 0 /\ FirstFree(p)
           /\ slots' = slots \cup {s}
           /\ count' = [count EXCEPT ![s] = 2]
           /\ sink' = [sink EXCEPT ![s] = TRUE]
           /\ streams' = [streams EXCEPT ![p] = s]
    BY DEF Create
  <1>2. /\ call.at = "idle" /\ Cardinality(slots) < Frontends
        /\ UNCHANGED <<taken, decoder, controls, call, twice>>
    BY DEF Create
  <1>3. call = NoCall /\ call.stream = NoStream
    BY <1>2 DEF IInv, CallInOrder, NoCall
  <1>4. \A t \in Streams, at \in {"unref", "attaching", "detaching", "proxy", "drop"} :
           call.stream # t /\ call.at # at
    BY <1>2, <1>3, StreamerAssumption
  <1>5. \A t \in Streams : /\ ~At(t, {"unref"}) /\ ~At(t, {"attaching"})
                           /\ ~At(t, {"detaching"}) /\ ~At(t, {"proxy"})
                           /\ ~At(t, {"attaching", "proxy", "drop"})
    BY <1>4 DEF At
  <1>6. \A t \in Streams : ~At(t, {"unref"})' /\ ~At(t, {"attaching"})'
    BY <1>2, <1>4 DEF At
  <1>7. /\ streams \in [Positions -> Streams \cup {NoStream}]
        /\ controls \in [Positions -> Streams \cup {NoStream}]
        /\ count \in [Streams -> 0..3] /\ sink \in [Streams -> BOOLEAN]
        /\ slots \subseteq Streams
    BY DEF IInv, TypeOK
  <1>8. s \notin slots
    BY <1>1 DEF IInv, SlotsCounted
  <1>9. decoder[s] = NoDecoder /\ ~Proxied(s)
    BY <1>1, <1>5 DEF IInv, RefsBalance
  <1>10. streams[p] = NoStream /\ controls[p] = NoStream
    <2>1. streams[p] = NoStream
      BY <1>1 DEF FirstFree
    <2>2. controls[p] # NoStream => streams[p] = controls[p]
      BY DEF IInv, RefsBalance
    <2> QED BY <2>1, <2>2
  <1>11. /\ streams'[p] = s /\ \A q \in Positions : q # p => streams'[q] = streams[q]
         /\ streams' \in [Positions -> Streams \cup {NoStream}]
    BY <1>1, <1>7
  <1>12. Proxied(s)' /\ \A t \in Streams : t # s => Proxied(t)' = Proxied(t)
    BY <1>10, <1>11, StreamerAssumption DEF Proxied
  <1>13. \A t \in Streams : Controlled(t)' = Controlled(t)
    BY <1>2 DEF Controlled
  <1>14. /\ count'[s] = 2 /\ \A t \in Streams : t # s => count'[t] = count[t]
         /\ sink'[s] = TRUE /\ \A t \in Streams : t # s => sink'[t] = sink[t]
         /\ count' \in [Streams -> 0..3] /\ sink' \in [Streams -> BOOLEAN]
    BY <1>1, <1>7
  <1>15. IsFiniteSet(slots') /\ Cardinality(slots') <= Frontends
    <2>1. IsFiniteSet(slots)
      BY DEF IInv, SlotsCounted
    <2>2. IsFiniteSet(slots') /\ Cardinality(slots') = Cardinality(slots) + 1
      BY <1>1, <1>8, <2>1, FS_AddElement
    <2>3. Cardinality(slots) \in Nat /\ Frontends \in Nat
      BY <2>1, FS_CardinalityType, StreamerAssumption
    <2> QED BY <1>2, <2>2, <2>3
  <1>16. CoreType'
    BY <1>1, <1>2, <1>7, <1>11, <1>14, <1>15 DEF IInv, TypeOK, CoreType
  <1>17. call' \in Calls
    BY <1>2 DEF IInv, TypeOK
  <1>18. CallInOrder'
    BY <1>2, <1>3 DEF CallInOrder
  <1>19. DecodersInUse'
    BY <1>2, <1>5, <1>9, <1>12, <1>13 DEF IInv, DecodersInUse
  <1>20. SlotsCounted'
    BY <1>1, <1>14, <1>15 DEF IInv, SlotsCounted
  <1>21. SlotsBalance'
    BY <1>2 DEF IInv, SlotsBalance
  <1>22. RefsBalance'
    <2>1. \A t \in Streams :
             count'[t] = (IF Proxied(t)' THEN 2 ELSE 0)
                         + (IF At(t, {"unref"})' \/
                               (decoder'[t] # NoDecoder /\ ~At(t, {"attaching"})')
                            THEN 1 ELSE 0)
      BY <1>2, <1>5, <1>6, <1>9, <1>12, <1>14 DEF IInv, RefsBalance
    <2>2. \A q \in Positions : streams[q] # s
      BY <1>9 DEF Proxied
    <2>3. ASSUME NEW q \in Positions, streams'[q] # NoStream
          PROVE  /\ streams'[q] \in slots'
                 /\ \A r \in Positions : streams'[r] = streams'[q] => r = q
      <3>1. CASE q = p
        BY <1>1, <1>11, <2>2, <3>1
      <3>2. CASE q # p
        <4>1. streams'[q] = streams[q] /\ streams[q] \in slots
          BY <1>11, <2>3, <3>2 DEF IInv, RefsBalance
        <4>2. ASSUME NEW r \in Positions, streams'[r] = streams'[q] PROVE r = q
          <5>1. r # p /\ streams'[r] = streams[r]
            BY <1>11, <2>2, <4>1, <4>2
          <5> QED BY <2>3, <4>1, <4>2, <5>1 DEF IInv, RefsBalance
        <4> QED BY <1>1, <4>1, <4>2
      <3> QED BY <3>1, <3>2
    <2>4. ASSUME NEW q \in Positions, controls[q] # NoStream
          PROVE  streams'[q] = controls[q] /\ decoder[controls[q]] # NoDecoder
      <3>1. q # p /\ controls[q] \in Streams
        BY <1>7, <1>10, <2>4
      <3> QED BY <1>5, <1>11, <2>4, <3>1 DEF IInv, RefsBalance
    <2>5. \A q \in Positions : (controls[q] # NoStream)' =>
             (streams[q] = controls[q])' /\ (decoder[controls[q]] # NoDecoder)'
      BY <1>2, <2>4
    <2> QED BY <2>1, <2>3, <2>5 DEF RefsBalance
  <1>23. NothingIsLeft'
    BY <1>1, <1>2, <1>12, <1>13, <1>14 DEF IInv, NothingIsLeft
  <1> QED
    BY <1>16, <1>17, <1>18, <1>19, <1>20, <1>21, <1>22, <1>23 DEF CoreKept, CoreInv

-----------------------------------------------------------------------------
(* All of it.                                                              *)

\* The state of the player and of its thread, whatever the step is.
LEMMA EngineTypes == TypeOK /\ [Next]_vars => EngineType'
  <1> SUFFICES ASSUME TypeOK, [Next]_vars PROVE EngineType'
    OBVIOUS
  <1>1. EngineType /\ decoder \in [Streams -> DecoderObjects]
    BY TypesByPart DEF CoreType
  <1>2. CASE UNCHANGED <<platform, engine>>
    BY <1>1, <1>2 DEF EngineType, engine
  <1>3. ASSUME NEW p \in Positions, Request(p) PROVE EngineType'
    <2>1. CASE LoadQAM(p)
      <3>1. streams[p] \in Streams
        BY <2>1, TypesByPart DEF LoadQAM, CoreType
      <3>2. \/ state' = [state EXCEPT ![streams[p]] = "Error"] /\ tuner' = tuner
            \/ state' = state /\ tuner' = [tuner EXCEPT ![streams[p]].tuned = TRUE]
        BY <2>1 DEF LoadQAM
      <3>3. tuner' \in [Streams -> Tuners]
        BY ZenonT(30), <1>1, <3>1, <3>2 DEF EngineType, Tuners
      <3>4. state' \in [Streams -> States]
        BY <1>1, <3>2 DEF EngineType, States
      <3> QED BY <1>1, <2>1, <3>3, <3>4 DEF LoadQAM, EngineType
    <2>2. CASE SpeedQAM(p)
      BY <1>1, <2>2 DEF SpeedQAM, EngineType, States, Running
    <2>3. CASE Access(p) \/ Load(p) \/ Speed(p) \/ Attach(p) \/ Detach(p) \/ Destroy(p)
      BY <1>2, <2>3 DEF Access, Load, Speed, Attach, Detach, Destroy
    <2> QED BY <1>3, <2>1, <2>2, <2>3 DEF Request
  <1>4. ASSUME NEW s \in Streams, Handle(s) PROVE EngineType'
    <2>1. CASE LoadTuned(s) \/ LoadAamp(s)
      BY <1>1, <2>1 DEF LoadTuned, LoadAamp, EngineType, States
    <2>2. CASE SpeedAamp(s)
      BY <1>1, <2>2 DEF SpeedAamp, EngineType, States
    <2>3. CASE AttachDecoder(s)
      <3>1. decoder[s].slot \in 0..Decoders
        BY <1>1 DEF DecoderObjects
      <3>2. tuner' = tuner \/ tuner' = [tuner EXCEPT ![s].feeds = decoder[s].slot]
        BY <2>3 DEF AttachDecoder
      <3>3. tuner' \in [Streams -> Tuners]
        BY <1>1, <3>1, <3>2 DEF EngineType, Tuners
      <3> QED BY <1>1, <2>3, <3>3 DEF AttachDecoder, EngineType, States
    <2>4. CASE DetachDecoder(s)
      <3>1. tuner' = tuner \/ tuner' = [tuner EXCEPT ![s].feeds = 0]
        BY <2>4 DEF DetachDecoder, DetachPlatform
      <3>2. tuner' \in [Streams -> Tuners]
        BY <1>1, <3>1, StreamerAssumption DEF EngineType, Tuners
      <3> QED BY <1>1, <2>4, <3>2 DEF DetachDecoder, DetachPlatform, EngineType, States
    <2>5. CASE Quit(s)
      <3>1. Untuned \in Tuners
        BY StreamerAssumption DEF Untuned, Tuners
      <3> QED BY <1>1, <2>5, <3>1 DEF Quit, EngineType, States
    <2>6. CASE \/ AttachState(s) \/ Control(s) \/ AttachProxy(s) \/ DetachState(s)
               \/ ReleaseDecoder(s) \/ Unref(s) \/ Drop(s)
      BY <1>2, <2>6 DEF AttachState, Control, AttachProxy, DetachState, ReleaseDecoder,
                        Unref, Drop
    <2> QED BY <1>4, <2>1, <2>2, <2>3, <2>4, <2>5, <2>6 DEF Handle
  <1>5. ASSUME NEW s \in Streams, Platform(s) PROVE EngineType'
    <2>0. /\ Quiet \in Players
          /\ \A at \in {"notify", "idle", "asleep", "tick"} : [Quiet EXCEPT !.at = at] \in Players
          /\ \A seen \in TunerStates : [at |-> "changing", seen |-> seen] \in Players
      BY DEF Quiet, Players, TunerStates
    <2>1. CASE TunerReports(s)
      BY <1>1, <2>0, <2>1 DEF TunerReports, EngineType
    <2>2. CASE StateChange(s)
      <3>1. Reported(state[s], player[s].seen) \in States
        BY <1>1 DEF EngineType, Reported, States
      <3> QED BY <1>1, <2>0, <2>2, <3>1 DEF StateChange, EngineType
    <2>3. CASE Notify(s) \/ Sleep(s) \/ Tick(s) \/ TimeUpdate(s)
      BY <1>1, <2>0, <2>3 DEF Notify, Sleep, Tick, TimeUpdate, EngineType
    <2> QED BY <1>5, <2>1, <2>2, <2>3 DEF Platform
  <1>6. CASE Create \/ Accessed \/ UNCHANGED vars
    BY <1>2, <1>6 DEF Create, Accessed, vars
  <1> QED BY <1>3, <1>4, <1>5, <1>6 DEF Next

LEMMA Inductive == IInv /\ [Next]_vars => IInv'
  <1> SUFFICES ASSUME IInv, [Next]_vars PROVE IInv'
    OBVIOUS
  <1>1. ASSUME NEW s \in Streams, Handle(s) PROVE CoreKept
    BY <1>1, CallGoesOn, ControlKeeps, AttachDecoderKeeps, AttachProxyKeeps,
       ReleaseDecoderKeeps, DetachDecoderKeeps, UnrefKeeps, DropKeeps, QuitKeeps DEF Handle
  <1>2. ASSUME UNCHANGED vars PROVE CoreKept
    <2>1. UNCHANGED core /\ UNCHANGED call
      BY <1>2 DEF vars, plugin, objects, core
    <2> QED BY <2>1, CoreSame
  <1>3. CoreKept
    BY <1>1, <1>2, CreateKeeps, AccessEnds, RequestBegins, EngineSteps DEF Next
  <1>4. EngineType'
    BY EngineTypes DEF IInv
  <1> QED BY <1>3, <1>4, TypesByPartNext DEF IInv, CoreKept, CoreInv

LEMMA Initial == Init => IInv
  <1> SUFFICES ASSUME Init PROVE IInv
    OBVIOUS
  <1>1. EngineType
    BY StreamerAssumption DEF Init, EngineType, States, Untuned, Tuners, Quiet, Players,
                              TunerStates
  <1>2. CoreType /\ IsFiniteSet(slots)
    <2>1. IsFiniteSet({}) /\ Cardinality({}) = 0
      BY FS_EmptySet
    <2>2. NoDecoder \in DecoderObjects
      BY StreamerAssumption DEF NoDecoder, DecoderObjects, Sinks
    <2> QED BY <2>1, <2>2, StreamerAssumption DEF Init, CoreType
  <1>3. call \in Calls
    <2>1. 0 \in Positions
      BY StreamerAssumption DEF Positions
    <2> QED BY <2>1 DEF Init, NoCall, Calls, Steps
  <1>4. CallInOrder
    BY DEF Init, CallInOrder, NoCall
  <1>5. \A s \in Streams : ~Proxied(s) /\ ~Controlled(s) /\ ~At(s, {"unref"})
    BY StreamerAssumption DEF Init, Proxied, Controlled, At, NoCall
  <1>6. DecodersInUse /\ SlotsCounted /\ SlotsBalance /\ RefsBalance /\ NothingIsLeft
    BY <1>2, <1>5 DEF Init, DecodersInUse, SlotsCounted, SlotsBalance, RefsBalance,
                      NothingIsLeft, NoDecoder
  <1> QED BY <1>1, <1>2, <1>3, <1>4, <1>6, TypesByPart DEF IInv

LEMMA Invariant == Spec => []IInv
  BY Initial, Inductive, PTL DEF Spec

\* The counts stay within their bounds, so nothing is released that is not held.
THEOREM TypeCorrect == Spec => []TypeOK
  <1>1. IInv => TypeOK
    BY DEF IInv
  <1> QED BY <1>1, Invariant, PTL

\* The slots that are taken are those of the decoders there are, one each.
THEOREM DecoderSlotsBalance == Spec => []SlotsBalance
  <1>1. IInv => SlotsBalance
    BY DEF IInv
  <1> QED BY <1>1, Invariant, PTL

\* A frontend is counted by those who use it, and what the maps point at exists.
THEOREM ReferencesBalance == Spec => []RefsBalance
  <1>1. IInv => RefsBalance
    BY DEF IInv
  <1> QED BY <1>1, Invariant, PTL

\* Unless a decoder was attached twice, a stream that was destroyed leaves neither a
\* sink nor a slot nor a decoder behind.
THEOREM DestroyedIsGone == Spec => []NothingIsLeft
  <1>1. IInv => NothingIsLeft
    BY DEF IInv
  <1> QED BY <1>1, Invariant, PTL
=============================================================================
