--------------------------- MODULE TimeSyncProofs ---------------------------
(***************************************************************************)
(* What TLAPS proves of TimeSync, for any number of servers, retries and   *)
(* workers and any bounds: the types, that the job of the client is never  *)
(* lost, that an answer belongs to the last request, and that the periodic *)
(* synchronisation keeps itself going.                                     *)
(***************************************************************************)
EXTENDS TimeSync, TLAPS

\* The members of the enumerated sets, so that no step has to expand them.
LEMMA Members ==
    /\ {"INITIAL", "SENDREQUEST", "INPROGRESS", "SUCCESS", "FAILED"} \subseteq States
    /\ {"NONE", "INPROGRESS", "INCOMPLETE_CONFIG"} \subseteq Results
    /\ {"free", "sending", "receiving", "revoking", "failing", "resubmitting"}
          \subseteq Points
    /\ {"created", "starting", "active", "stopping", "stopped"} \subseteq Phases
  BY DEF States, Results, Points, Phases

\* _retryAttempts stays in its word.
LEMMA DecrementType ==
    ASSUME NEW n \in Nat PROVE Decrement(n) \in 0 .. RetryWord - 1
  <1>1. RetryWord \in Nat /\ RetryWord > 0
    BY TimeSyncAssumption
  <1>2. n + RetryWord - 1 \in Nat
    BY <1>1
  <1> QED BY <1>1, <1>2 DEF Decrement

\* What the pieces of the actions do to the jobs, the socket and the plugin.
LEMMA JobTypes ==
    ASSUME queued \in Nat, timed \in Nat, picked \in Nat, scheduling \in Nat
    PROVE  /\ TakeOff \/ Submit =>
                queued' \in Nat /\ timed' \in Nat /\ picked' \in Nat /\ scheduling' \in Nat
           /\ \A again \in BOOLEAN : picked > 0 /\ Leave(again) =>
                queued' \in Nat /\ timed' \in Nat /\ picked' \in Nat /\ scheduling' \in Nat
  BY DEF TakeOff, Submit, Leave

LEMMA SocketTypes ==
    ASSUME TypeOK
    PROVE  /\ CloseSocket => socket' \in {"closed", "open", "closing"}
           /\ FireRequest \/ NoRequest =>
                /\ socket' \in {"closed", "open", "closing"} /\ inbox' \in BOOLEAN
                /\ fired' \in BOOLEAN /\ thread' \in Points
                /\ taken' \in {"none", "last", "old"}
                /\ server' \in 0 .. Sources + 1
  <1>1. CloseSocket => socket' \in {"closed", "open", "closing"}
    BY DEF CloseSocket
  <1>2. Sources \in Nat /\ Before \in 0 .. Sources + 1
    BY TimeSyncAssumption DEF TypeOK, Before
  <1>3. ASSUME FireRequest
        PROVE  /\ socket' = "open" /\ inbox' = FALSE /\ fired' = FALSE
               /\ thread' = thread /\ taken' \in {"old", taken}
               /\ server' \in 0 .. Sources + 1
    <2>1. PICK s \in Before + 1 .. Sources : server' = s
      BY <1>3 DEF FireRequest
    <2>2. s \in 0 .. Sources + 1
      BY <2>1, <1>2
    <2> QED BY <1>3, <2>1, <2>2 DEF FireRequest
  <1>4. ASSUME NoRequest
        PROVE  /\ socket' \in {"closed", "open", "closing"} /\ inbox' \in {FALSE, inbox}
               /\ fired' = fired /\ thread' = thread /\ taken' = taken
               /\ server' \in 0 .. Sources + 1
    <2>1. server' \in {Before, Sources + 1}
      BY <1>4 DEF NoRequest
    <2>2. server' \in 0 .. Sources + 1
      BY <2>1, <1>2
    <2> QED BY <1>4, <1>1, <2>2 DEF NoRequest
  <1> QED BY <1>1, <1>3, <1>4 DEF TypeOK

LEMMA UpdateTypes ==
    ASSUME TypeOK, Update \/ NoUpdate
    PROVE  /\ phase' \in Phases /\ registered' \in BOOLEAN /\ subsystem' \in BOOLEAN
           /\ periodic' \in Nat /\ setter' \in {"idle", "cancelling", "cancelled"}
           /\ result' \in Results /\ reported' \in BOOLEAN
           /\ accepted' \in {"none", "last", "old"}
  <1>1. CASE NoUpdate
    BY <1>1 DEF TypeOK, NoUpdate, past, plugin
  <1>2. CASE Update
    <2>1. subsystem' \in BOOLEAN
      BY <1>2 DEF Update, Completed
    <2>2. periodic' \in {periodic, periodic + 1}
      BY <1>2 DEF Update, Completed
    <2>3. periodic' \in Nat
      BY <2>2 DEF TypeOK
    <2> QED BY <1>2, <2>1, <2>3 DEF TypeOK, Update, Completed
  <1> QED BY <1>1, <1>2

LEMMA SynchronizeTypes ==
    ASSUME TypeOK, Synchronize
    PROVE  /\ state' \in States /\ result' \in Results /\ reported' \in BOOLEAN
           /\ syncs' \in 0 .. MaxSync
           /\ queued' \in Nat /\ timed' \in Nat /\ picked' \in Nat /\ scheduling' \in Nat
           /\ UNCHANGED <<server, retries, fired, synced, owner, wire, sets, accepted>>
  <1>1. MaxSync \in Nat
    BY TimeSyncAssumption
  <1>2. UNCHANGED <<server, retries, fired, synced, owner, wire, sets, accepted>>
    BY DEF Synchronize
  <1>3. state' \in States /\ result' \in Results /\ reported' \in BOOLEAN
    BY Members DEF Synchronize, TypeOK
  <1>4. syncs' \in 0 .. MaxSync
    BY <1>1 DEF Synchronize, TypeOK
  <1>5. queued' \in Nat /\ timed' \in Nat /\ picked' \in Nat /\ scheduling' \in Nat
    BY DEF Synchronize, TypeOK, Submit, jobs
  <1> QED BY <1>2, <1>3, <1>4, <1>5

LEMMA InitialTypes == Init => TypeOK
  <1> SUFFICES ASSUME Init PROVE TypeOK
    OBVIOUS
  <1>1. 0 \in 0 .. Sources + 1 /\ 0 \in 0 .. MaxSync /\ 0 \in 0 .. MaxSet
    BY TimeSyncAssumption
  <1>2. Retries \in 0 .. RetryWord - 1
    BY TimeSyncAssumption
  <1> QED BY <1>1, <1>2, Members DEF Init, TypeOK

\* Every step keeps the types.
LEMMA TypeInvariance == TypeOK /\ [Next]_vars => TypeOK'
  <1> SUFFICES ASSUME TypeOK, [Next]_vars PROVE TypeOK'
    OBVIOUS
  <1>a. MaxSet \in Nat /\ MaxSync \in Nat /\ Sources \in Nat
    BY TimeSyncAssumption
  <1> USE DEF wire, plugin, bounds
  <1>1. ASSUME Initialize PROVE TypeOK'
    <2>1. CASE Deferred
      BY <1>1, <2>1, Members DEF Initialize, TypeOK, client, jobs, past
    <2>2. CASE ~Deferred
      BY <1>1, <2>2, SynchronizeTypes, Members DEF Initialize, TypeOK
    <2> QED BY <2>1, <2>2
  <1>2. ASSUME Register \/ Deinitialize \/ Unregister PROVE TypeOK'
    <2>1. CASE Register
      BY <2>1, Members DEF Register, TypeOK, client, jobs, past
    <2>2. CASE Deinitialize
      BY <2>2, Members DEF Deinitialize, TypeOK, client, jobs, past
    <2>3. CASE Unregister
      <3>1. phase' \in Phases
        BY <2>3, Members DEF Unregister
      <3>2. registered' \in BOOLEAN
        BY <2>3 DEF Unregister
      <3>3. UNCHANGED <<client, jobs, wire, periodic, subsystem, setter, bounds, past>>
        BY <2>3 DEF Unregister
      <3> QED BY <3>1, <3>2, <3>3 DEF TypeOK, client, jobs, past
    <2> QED BY <1>2, <2>1, <2>2, <2>3
  <1>3. ASSUME ClientSynchronize PROVE TypeOK'
    BY <1>3, SynchronizeTypes DEF ClientSynchronize, TypeOK
  <1>4. ASSUME PeriodicSync PROVE TypeOK'
    <2>1. periodic' \in Nat
      BY <1>4 DEF PeriodicSync, TypeOK
    <2> QED BY <1>4, <2>1, SynchronizeTypes DEF PeriodicSync, TypeOK
  <1>5. ASSUME CancelBegin PROVE TypeOK'
    <2>1. sets' \in 0 .. MaxSet
      BY <1>5, <1>a DEF CancelBegin, TypeOK
    <2>2. socket' \in {"closed", "open", "closing"}
      BY <1>5 DEF CancelBegin, CloseSocket, TypeOK
    <2>3. queued' \in Nat /\ timed' \in Nat /\ picked' \in Nat /\ scheduling' \in Nat
      BY <1>5 DEF CancelBegin, TakeOff, jobs, TypeOK
    <2> QED BY ZenonT(30), <1>5, <2>1, <2>2, <2>3, Members DEF CancelBegin, TypeOK
  <1>6. ASSUME CancelEnd PROVE TypeOK'
    BY <1>6, JobTypes DEF CancelEnd, TypeOK, past
  <1>7. ASSUME SetTime PROVE TypeOK'
    BY <1>7 DEF SetTime, TypeOK, client, jobs, past
  <1>8. ASSUME SendBegin \/ SendData \/ ReceiveBegin PROVE TypeOK'
    <2>1. CASE SendBegin
      BY <2>1, Members DEF SendBegin, TypeOK, client, jobs, past
    <2>2. CASE SendData
      <3>1. inbox' \in BOOLEAN
        BY <2>2 DEF SendData, TypeOK
      <3> QED BY <2>2, <3>1, Members DEF SendData, TypeOK, jobs, past
    <2>3. CASE ReceiveBegin
      BY ZenonT(30), <2>3, Members DEF ReceiveBegin, TypeOK, client, jobs, past
    <2> QED BY <1>8, <2>1, <2>2, <2>3
  <1>9. ASSUME ReceiveData PROVE TypeOK'
    BY <1>9, JobTypes, SocketTypes, Members DEF ReceiveData, TypeOK
  <1>10. ASSUME ReceiveEnd PROVE TypeOK'
    BY <1>10, JobTypes, Members DEF ReceiveEnd, TypeOK, past
  <1>11. ASSUME StateChange PROVE TypeOK'
    BY <1>11, JobTypes, SocketTypes, Members DEF StateChange, TypeOK, client, past
  <1>12. ASSUME StateChangeRevoked \/ SocketClosed PROVE TypeOK'
    BY <1>12, Members DEF StateChangeRevoked, SocketClosed, TypeOK, client, jobs, past
  <1>13. ASSUME StateChangeEnd PROVE TypeOK'
    BY <1>13, JobTypes, Members DEF StateChangeEnd, TypeOK, client, past
  <1>14. ASSUME Expire \/ Pick \/ Schedule PROVE TypeOK'
    <2>1. queued' \in Nat /\ timed' \in Nat /\ picked' \in Nat /\ scheduling' \in Nat
      BY <1>14 DEF Expire, Pick, Schedule, TypeOK
    <2> QED BY <1>14, <2>1 DEF Expire, Pick, Schedule, TypeOK, client, past
  <1>15. ASSUME DispatchRequest PROVE TypeOK'
    BY <1>15, JobTypes, SocketTypes, UpdateTypes, Members DEF DispatchRequest, TypeOK
  <1>16. ASSUME DispatchSleep \/ DispatchGiveUp PROVE TypeOK'
    <2>1. retries' \in 0 .. RetryWord - 1
      <3>1. retries \in 0 .. RetryWord - 1 /\ retries \in Nat
        BY TimeSyncAssumption DEF TypeOK
      <3>2. retries' = retries \/ retries' = Decrement(retries)
        BY <1>16 DEF DispatchSleep, DispatchGiveUp
      <3> QED BY <3>1, <3>2, DecrementType
    <2> QED BY <1>16, <2>1, JobTypes, SocketTypes, UpdateTypes, Members
            DEF DispatchSleep, DispatchGiveUp, TypeOK
  <1>17. ASSUME DispatchReport PROVE TypeOK'
    BY <1>17, JobTypes, UpdateTypes DEF DispatchReport, TypeOK, client
  <1>18. ASSUME UNCHANGED vars PROVE TypeOK'
    BY <1>18 DEF vars, TypeOK, client, jobs, past
  <1> QED BY <1>1, <1>2, <1>3, <1>4, <1>5, <1>6, <1>7, <1>8, <1>9, <1>10, <1>11, <1>12,
             <1>13, <1>14, <1>15, <1>16, <1>17, <1>18
          DEF Next, Plugin, Client, Socket, Activity

\* The client, its jobs, its socket and the plugin keep their types in every run.
THEOREM TypesHold == Spec => []TypeOK
  <1> QED BY InitialTypes, TypeInvariance, PTL DEF Spec

-----------------------------------------------------------------------------
(* Watched                                                                 *)

\* The number of runs to come, on which Watched depends, as a fact that can be used
\* without arithmetic.
LEMMA SumIsPositive ==
    ASSUME NEW q \in Nat, NEW t \in Nat, NEW p \in Nat, NEW s \in Nat
    PROVE  q + t + p + s > 0 <=> q > 0 \/ t > 0 \/ p > 0 \/ s > 0
  OBVIOUS

WatchInv == TypeOK /\ Watched

LEMMA WatchInvariance == WatchInv /\ [Next]_vars => WatchInv'
  <1> SUFFICES ASSUME WatchInv, [Next]_vars PROVE Watched'
    BY TypeInvariance DEF WatchInv
  <1>a. /\ queued \in Nat /\ timed \in Nat /\ picked \in Nat /\ scheduling \in Nat
        /\ queued' \in Nat /\ timed' \in Nat /\ picked' \in Nat /\ scheduling' \in Nat
    BY TypeInvariance DEF WatchInv, TypeOK
  <1> DEFINE Some == queued > 0 \/ timed > 0 \/ picked > 0 \/ scheduling > 0
             Busy == \/ thread \in {"revoking", "failing", "resubmitting"}
                     \/ setter = "cancelling"
  <1>b. state \in UnderWay \/ ~reported => Some \/ Busy
    BY <1>a, SumIsPositive DEF WatchInv, Watched, Pending
  <1> SUFFICES ASSUME state' \in UnderWay \/ ~reported' PROVE Some' \/ Busy'
    BY <1>a, SumIsPositive DEF Watched, Pending
  <1>1. ASSUME Submit PROVE Some'
    BY <1>1, <1>a DEF Submit
  <1>2. ASSUME Synchronize, setter' = setter PROVE Some' \/ Busy'
    BY <1>1, <1>2, <1>b DEF Synchronize, wire, jobs
  <1>3. ASSUME Initialize \/ Register \/ Deinitialize \/ Unregister PROVE Some' \/ Busy'
    BY <1>2, <1>3, <1>b
       DEF Initialize, Register, Deinitialize, Unregister, client, jobs, wire, past
  <1>4. ASSUME ClientSynchronize \/ PeriodicSync PROVE Some' \/ Busy'
    BY <1>2, <1>4 DEF ClientSynchronize, PeriodicSync, plugin
  <1>5. ASSUME CancelBegin PROVE Some' \/ Busy'
    BY <1>5, <1>b DEF CancelBegin, jobs
  <1>6. ASSUME CancelEnd \/ ReceiveEnd \/ StateChangeEnd PROVE Some' \/ Busy'
    BY <1>1, <1>6 DEF CancelEnd, ReceiveEnd, StateChangeEnd
  <1>7. ASSUME SetTime \/ SendBegin \/ SendData \/ ReceiveBegin \/ SocketClosed
               \/ StateChangeRevoked
        PROVE  Some' \/ Busy'
    BY <1>7, <1>b DEF SetTime, SendBegin, SendData, ReceiveBegin, SocketClosed,
                      StateChangeRevoked, client, jobs, wire, plugin, past
  <1>8. ASSUME ReceiveData \/ StateChange PROVE Some' \/ Busy'
    BY <1>8 DEF ReceiveData, StateChange
  <1>9. ASSUME Expire \/ Pick \/ Schedule PROVE Some' \/ Busy'
    BY <1>9, <1>a DEF Expire, Pick, Schedule
  <1>10. ASSUME DispatchRequest \/ DispatchSleep PROVE Some' \/ Busy'
    BY <1>10, <1>a DEF DispatchRequest, DispatchSleep, Leave
  <1>11. ASSUME DispatchGiveUp \/ DispatchReport PROVE FALSE
    BY <1>11 DEF DispatchGiveUp, DispatchReport, Update, Completed, UnderWay, client
  <1>12. ASSUME UNCHANGED vars PROVE Some' \/ Busy'
    BY <1>12, <1>b DEF vars, client, jobs, wire, plugin, past
  <1> QED BY <1>3, <1>4, <1>5, <1>6, <1>7, <1>8, <1>9, <1>10, <1>11, <1>12
          DEF Next, Plugin, Client, Socket, Activity

\* A synchronisation that is not finished, and an outcome nobody was told, have a run
\* of the job to come, whatever took the job off in the meantime.
THEOREM TheJobIsNeverLost == Spec => []Watched
  <1>1. Init => WatchInv
    BY InitialTypes DEF Init, WatchInv, Watched, UnderWay
  <1>2. WatchInv => Watched
    BY DEF WatchInv
  <1> QED BY <1>1, <1>2, WatchInvariance, PTL DEF Spec

-----------------------------------------------------------------------------
(* AnswersTheLatest                                                        *)

\* The socket of a callback is not closed behind its back, so that no other request
\* is sent while it waits.
SocketInv ==
    /\ thread # "free" => socket # "closed"
    /\ taken = IF thread = "receiving" THEN "last" ELSE "none"

AnswerInv == SocketInv /\ AnswersTheLatest

\* The steps of the dispatch, for the socket.
LEMMA DispatchKeepsAnswers ==
    ASSUME SocketInv, FireRequest \/ NoRequest
    PROVE  SocketInv'
  <1>1. CASE FireRequest
    <2>1. taken = "last" => socket # "closed" /\ thread # "free"
      BY DEF SocketInv
    <2>2. taken # "last"
      BY <1>1, <2>1 DEF FireRequest, Closable
    <2> QED BY <1>1, <2>2 DEF FireRequest, SocketInv
  <1>2. CASE NoRequest
    BY <1>2 DEF NoRequest, Closable, CloseSocket, SocketInv
  <1> QED BY <1>1, <1>2

LEMMA AnswerInvariance == AnswerInv /\ [Next]_vars => AnswerInv'
  <1> SUFFICES ASSUME AnswerInv, [Next]_vars PROVE SocketInv' /\ AnswersTheLatest'
    BY DEF AnswerInv
  <1> USE DEF AnswerInv, AnswersTheLatest
  <1>1. ASSUME Synchronize PROVE SocketInv' /\ AnswersTheLatest'
    BY <1>1 DEF Synchronize, wire, SocketInv
  <1>2. ASSUME Initialize \/ Register \/ Deinitialize \/ Unregister
        PROVE  SocketInv' /\ AnswersTheLatest'
    BY <1>1, <1>2 DEF Initialize, Register, Deinitialize, Unregister, client, wire, past,
                      SocketInv
  <1>3. ASSUME ClientSynchronize \/ PeriodicSync PROVE SocketInv' /\ AnswersTheLatest'
    BY <1>1, <1>3 DEF ClientSynchronize, PeriodicSync
  <1>4. ASSUME CancelBegin PROVE SocketInv' /\ AnswersTheLatest'
    BY <1>4 DEF CancelBegin, CloseSocket, SocketInv
  <1>5. ASSUME CancelEnd \/ SetTime PROVE SocketInv' /\ AnswersTheLatest'
    BY <1>5 DEF CancelEnd, SetTime, client, wire, past, SocketInv
  <1>6. ASSUME SendBegin \/ SendData PROVE SocketInv' /\ AnswersTheLatest'
    BY <1>6 DEF SendBegin, SendData, client, past, SocketInv
  <1>7. ASSUME ReceiveBegin \/ ReceiveData \/ ReceiveEnd
        PROVE  SocketInv' /\ AnswersTheLatest'
    BY <1>7 DEF ReceiveBegin, ReceiveData, ReceiveEnd, CloseSocket, client, past, SocketInv
  <1>8. ASSUME StateChange \/ StateChangeRevoked \/ StateChangeEnd \/ SocketClosed
        PROVE  SocketInv' /\ AnswersTheLatest'
    BY <1>8 DEF StateChange, StateChangeRevoked, StateChangeEnd, SocketClosed,
                CloseSocket, client, past, SocketInv
  <1>9. ASSUME Expire \/ Pick \/ Schedule PROVE SocketInv' /\ AnswersTheLatest'
    BY <1>9 DEF Expire, Pick, Schedule, client, wire, past, SocketInv
  <1>10. ASSUME DispatchRequest \/ DispatchSleep PROVE SocketInv' /\ AnswersTheLatest'
    BY <1>10, DispatchKeepsAnswers DEF DispatchRequest, DispatchSleep, NoUpdate, past
  <1>11. ASSUME DispatchGiveUp PROVE SocketInv' /\ AnswersTheLatest'
    BY <1>11, DispatchKeepsAnswers DEF DispatchGiveUp, Update, Completed
  <1>12. ASSUME DispatchReport PROVE SocketInv' /\ AnswersTheLatest'
    BY <1>12 DEF DispatchReport, Update, Completed, client, wire, SocketInv
  <1>13. ASSUME UNCHANGED vars PROVE SocketInv' /\ AnswersTheLatest'
    BY <1>13 DEF vars, client, wire, past, SocketInv
  <1> QED BY <1>2, <1>3, <1>4, <1>5, <1>6, <1>7, <1>8, <1>9, <1>10, <1>11, <1>12, <1>13
          DEF Next, Plugin, Client, Socket, Activity

\* What is taken for the answer is the answer to the request that was sent last.
THEOREM AnswersAreOfTheLastRequest == Spec => []AnswersTheLatest
  <1>1. Init => AnswerInv
    BY DEF Init, AnswerInv, AnswersTheLatest, SocketInv
  <1>2. AnswerInv => AnswersTheLatest
    BY DEF AnswerInv
  <1> QED BY <1>1, <1>2, AnswerInvariance, PTL DEF Spec

-----------------------------------------------------------------------------
(* PeriodicContinues                                                       *)

\* As long as nobody sets the time, what made the TIME subsystem active was an
\* outcome the plugin was told of, with a time.
PlanInv ==
    /\ TypeOK
    /\ setter # "idle" => sets > 0
    /\ phase = "active" => registered
    /\ phase \in {"created", "starting"} => ~registered /\ ~subsystem /\ setter = "idle"
    /\ sets = 0 /\ subsystem => synced
    /\ PeriodicContinues

LEMMA PlanInvariance == PlanInv /\ [Next]_vars => PlanInv'
  <1> DEFINE Rest == /\ setter # "idle" => sets > 0
                     /\ phase = "active" => registered
                     /\ phase \in {"created", "starting"} =>
                            ~registered /\ ~subsystem /\ setter = "idle"
                     /\ sets = 0 /\ subsystem => synced
                     /\ PeriodicContinues
  <1> SUFFICES ASSUME PlanInv, [Next]_vars PROVE Rest'
    BY TypeInvariance DEF PlanInv
  <1>a. Rest /\ periodic \in Nat /\ sets \in Nat /\ MaxSet \in Nat
    BY TimeSyncAssumption DEF PlanInv, TypeOK
  <1> USE DEF PeriodicContinues, UnderWay, SourceIsValid
  <1>1. ASSUME Synchronize
        PROVE  /\ UNCHANGED <<synced, server, sets>>
               /\ \/ state' \in UnderWay
                  \/ state' = "FAILED" /\ state = "FAILED" /\ SourceIsValid
    <2>1. CASE Startable
      BY <1>1, <2>1 DEF Synchronize
    <2>2. CASE ~Startable
      BY <1>1, <2>2, <1>a DEF Synchronize, Startable, PlanInv, TypeOK, States
    <2> QED BY <2>1, <2>2
  <1>2. ASSUME Initialize PROVE Rest'
    BY <1>2, <1>a, <1>1 DEF Initialize, client, bounds, past
  <1>3. ASSUME Register \/ Deinitialize \/ Unregister PROVE Rest'
    <2>1. CASE Register
      BY <2>1, <1>a DEF Register, client, bounds, past
    <2>2. CASE Deinitialize
      BY <2>2, <1>a DEF Deinitialize, client, bounds, past
    <2>3. CASE Unregister
      BY <2>3, <1>a DEF Unregister, client, bounds, past
    <2> QED BY <1>3, <2>1, <2>2, <2>3
  <1>4. ASSUME ClientSynchronize \/ PeriodicSync PROVE Rest'
    BY <1>4, <1>a, <1>1 DEF ClientSynchronize, PeriodicSync, plugin
  <1>5. ASSUME CancelBegin PROVE Rest'
    BY <1>5, <1>a DEF CancelBegin
  <1>6. ASSUME CancelEnd \/ SetTime PROVE Rest'
    BY <1>6, <1>a DEF CancelEnd, SetTime, client, bounds, past
  <1>7. ASSUME Socket PROVE Rest'
    BY <1>7, <1>a
       DEF Socket, SendBegin, SendData, ReceiveBegin, ReceiveData, ReceiveEnd, StateChange,
           StateChangeRevoked, StateChangeEnd, SocketClosed, client, plugin, bounds, past
  <1>8. ASSUME Expire \/ Pick \/ Schedule PROVE Rest'
    BY <1>8, <1>a DEF Expire, Pick, Schedule, client, plugin, bounds, past
  <1>9. ASSUME DispatchRequest \/ DispatchSleep PROVE Rest'
    <2>1. state' = "INPROGRESS" /\ UNCHANGED <<synced, bounds, past, plugin>>
      BY <1>9 DEF DispatchRequest, DispatchSleep, NoUpdate
    <2> QED BY <2>1, <1>a DEF plugin, bounds, past
  <1>10. ASSUME Update, UNCHANGED <<synced, bounds>> PROVE Rest'
    <2>1. CASE registered /\ synced
      BY <1>10, <2>1, <1>a DEF Update, Completed, bounds
    <2>2. CASE ~(registered /\ synced)
      <3>1. subsystem' = subsystem
        BY <1>10, <2>2 DEF Update, Completed, PlanInv, TypeOK
      <3> QED BY <1>10, <2>2, <3>1, <1>a DEF Update, Completed, bounds
    <2> QED BY <2>1, <2>2
  <1>11. ASSUME DispatchGiveUp \/ DispatchReport PROVE Rest'
    BY <1>10, <1>11 DEF DispatchGiveUp, DispatchReport, client
  <1>12. ASSUME UNCHANGED vars PROVE Rest'
    BY <1>12, <1>a DEF vars, client, plugin, bounds, past
  <1> QED BY <1>2, <1>3, <1>4, <1>5, <1>6, <1>7, <1>8, <1>9, <1>11, <1>12
          DEF Next, Plugin, Client, Activity

\* The periodic synchronisation keeps itself going, whatever fails.
THEOREM PeriodicSyncContinues == Spec => []PeriodicContinues
  <1>1. Init => PlanInv
    BY InitialTypes DEF Init, PlanInv, PeriodicContinues
  <1>2. PlanInv => PeriodicContinues
    BY DEF PlanInv
  <1> QED BY <1>1, <1>2, PlanInvariance, PTL DEF Spec
=============================================================================
