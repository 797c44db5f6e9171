----------------------------- MODULE WpaChannel -----------------------------
(***************************************************************************)
(* The control channel of WifiControl (WifiControl/Controller.h and .cpp): *)
(* a datagram socket to wpa_supplicant on which commands are sent one at a *)
(* time and on which the supplicant answers in order, mixed with events it *)
(* sends on its own account.                                               *)
(*                                                                         *)
(* Three kinds of actors share _requests, the list of Request pointers:    *)
(*   - Callers, the threads inside a method of Controller, each with a     *)
(*     CustomRequest on its stack: Submit, Wait (at most MaxConnectionTime)*)
(*     and Revoke;                                                         *)
(*   - the socket thread, that pulls the front message in SendData and     *)
(*     pops and completes the front request in ReceiveData, and that       *)
(*     submits the four requests that are members of the controller;       *)
(*   - the supplicant, outside the program.                                *)
(* A reply carries no identification: whatever is in front when a reply    *)
(* comes in is completed by it.                                            *)
(***************************************************************************)
EXTENDS Naturals, SequencesExt

CONSTANTS
    Callers,       \* threads that call a method of Controller
    Orphan,        \* the owner of a command whose request was abandoned
    Emitted,       \* bound: the events the supplicant sends
    MaxInbox,      \* bound: datagrams waiting in the socket
    MaxStatus,     \* bound: status events on their way or in the list
    MaxAbandoned   \* bound: abandoned commands that are still unanswered

Nobody   == "nobody"
Internal == {"scan", "detail", "network", "status"}
Requests == Callers \cup Internal

\* CONNECTED, DISCONNECTED and WPS_AP_AVAILABLE | SCAN_RESULTS | BSS_ADDED
Events == {"statusEvent", "scanEvent", "bssAdded"}

\* What a Controller goes through: its constructor (Probe, then ATTACH, which may
\* have failed), its public methods, its destructor.
Phases == {"probe", "attach", "failed", "open", "closing", "closed"}

\* Where a caller is in its exchange. "submitted" and "refreshing" are between
\* the unlock and the Trigger of Submit, "setting" is inside Request::Set.
Points == {"idle", "submitted", "waiting", "answered", "expired", "setting",
           "refreshing", "revoking"}

\* How the build may leave the defined behaviour: SendData and ReceiveData look
\* at _requests without the lock, and Set tests _settable without it.
Races == {"none", "revoked while sending", "front of empty", "racing Set"}

ASSUME ChannelAssumption ==
    /\ Callers \cap (Internal \cup Events \cup {Orphan, Nobody}) = {}
    /\ Orphan \notin Internal \cup Events \cup {Nobody}
    /\ Emitted \subseteq Events
    /\ MaxInbox \in Nat \ {0}
    /\ MaxStatus \in Nat
    /\ MaxAbandoned \in Nat

VARIABLES
    requests,   \* _requests, by the identity of the Request
    unsent,     \* whether Message() of a request still has something to send
    settable,   \* _settable of the controller's own requests
    signaled,   \* how a CustomRequest was completed since it was submitted
    pc,         \* the point every caller is at
    phase,      \* the phase of the Controller object
    attached,   \* the supplicant sends its events to this socket
    writeSlot,  \* the socket asks for data: set by Trigger
    sending,    \* the Request SendData holds a reference to
    receiving,  \* ReceiveData has seen _requests.size() > 0 for a reply
    wire,       \* commands the supplicant has not answered, by owner
    inbox,      \* datagrams to receive: owners of replies, and events
    race,       \* the undefined behaviour reached, if any
    timedOut    \* history: some Wait has run out of time

queue  == <<requests, unsent, settable, signaled>>
object == <<phase, attached>>
socket == <<writeSlot, sending, receiving, wire, inbox>>
vars   == <<queue, pc, object, socket, race, timedOut>>

Alive == race = "none" /\ phase # "closed"

\* Commands that were sent and whose reply was not yet received, oldest first.
Outstanding == SelectSeq(inbox, LAMBDA m : m \notin Events) \o wire

Abandoned == Len(SelectSeq(Outstanding, LAMBDA m : m = Orphan))

Init ==
    /\ requests  = <<>>
    /\ unsent    = [r \in Requests |-> r = "status"]
    /\ settable  = [r \in Internal |-> TRUE]
    /\ signaled  = [c \in Callers |-> "no"]
    /\ pc        = [c \in Callers |-> "idle"]
    /\ phase     = "probe"
    /\ attached  = FALSE
    /\ writeSlot = FALSE
    /\ sending   = Nobody
    /\ receiving = FALSE
    /\ wire      = <<>>
    /\ inbox     = <<>>
    /\ race      = "none"
    /\ timedOut  = FALSE

-----------------------------------------------------------------------------
(* Request, Submit and Revoke                                              *)

SetKeepsSettable(r) ==
    /\ unsent' = [unsent EXCEPT ![r] = TRUE]
    /\ UNCHANGED settable

\* Set of a member request that is settable.
SetRequest(r) ==
    /\ unsent'   = [unsent EXCEPT ![r] = TRUE]
    /\ settable' = [settable EXCEPT ![r] = FALSE]

\* A CustomRequest on the stack of c that is (re)loaded with a command.
LoadCustom(c) ==
    /\ unsent'   = [unsent EXCEPT ![c] = TRUE]
    /\ signaled' = [signaled EXCEPT ![c] = "no"]

Submit(r) == requests' = Append(requests, r)

\* Submit on a caller's thread: the Trigger comes after the unlock.
SubmitFrom(c, r, trigger, go) ==
    /\ Submit(r)
    /\ pc' = [pc EXCEPT ![c] = IF requests = <<>> THEN trigger ELSE go]

Dropped(s, r) == SelectSeq(s, LAMBDA m : m # r)

\* What is on its way for r no longer has a request that waits for it.
Orphaned(s, r) == [i \in DOMAIN s |-> IF s[i] = r THEN Orphan ELSE s[i]]

FoundInFront(c) == {i \in DOMAIN requests : i = 1 /\ requests[i] = c}

NoTriggerAfterErase(i) == writeSlot

\* Where Revoke finds the request of c, and whether it triggers after the erase.
Found(c) == {i \in DOMAIN requests : requests[i] = c}

TriggerAfterErase(i) == writeSlot \/ i = 1

\* Revoke, after which the frame that holds the request is gone.
Revoke(c) ==
    /\ \/ /\ Found(c) = {}
          /\ UNCHANGED <<requests, writeSlot>>
       \/ \E i \in Found(c) :
             /\ \A j \in Found(c) : i <= j
             /\ requests'  = RemoveAt(requests, i)
             /\ writeSlot' = TriggerAfterErase(i)
    /\ wire'  = Orphaned(wire, c)
    /\ inbox' = Orphaned(inbox, c)
    /\ race'  = IF sending = c THEN "revoked while sending" ELSE race
    /\ unsent'   = [unsent EXCEPT ![c] = FALSE]
    /\ signaled' = [signaled EXCEPT ![c] = "no"]
    /\ UNCHANGED <<settable, sending, receiving>>

-----------------------------------------------------------------------------
(* The callers                                                             *)

AllIdle == \A c \in Callers : pc[c] = "idle"

\* A method puts its command in a CustomRequest and submits it. Only one thread
\* has the object while it is constructed or destructed.
Start(c) ==
    /\ Alive
    /\ pc[c] = "idle"
    /\ phase = "open" \/ AllIdle
    /\ LoadCustom(c)
    /\ SubmitFrom(c, c, "submitted", "waiting")
    /\ UNCHANGED <<settable, object, socket, race, timedOut>>

\* The Trigger that ends a Submit on an empty list.
Trigger(c) ==
    /\ Alive
    /\ pc[c] \in {"submitted", "refreshing"}
    /\ writeSlot' = TRUE
    /\ pc' = [pc EXCEPT ![c] = IF @ = "submitted" THEN "waiting" ELSE "revoking"]
    /\ UNCHANGED <<queue, object, sending, receiving, wire, inbox, race, timedOut>>

\* Wait returns TRUE: the request was completed.
Answered(c) ==
    /\ Alive
    /\ pc[c] = "waiting"
    /\ signaled[c] # "no"
    /\ pc' = [pc EXCEPT ![c] = "answered"]
    /\ UNCHANGED <<queue, object, socket, race, timedOut>>

\* Wait returns FALSE: MaxConnectionTime has passed.
Expire(c) ==
    /\ Alive
    /\ pc[c] = "waiting"
    /\ signaled[c] = "no"
    /\ Abandoned < MaxAbandoned
    /\ pc' = [pc EXCEPT ![c] = "expired"]
    /\ timedOut' = TRUE
    /\ UNCHANGED <<queue, object, socket, race>>

\* Connect loads the next command of its chain in the exchange that is done.
Again(c) ==
    /\ Alive
    /\ phase = "open"
    /\ pc[c] = "answered"
    /\ LoadCustom(c)
    /\ SubmitFrom(c, c, "submitted", "waiting")
    /\ UNCHANGED <<settable, object, socket, race, timedOut>>

\* Enable and Disable refresh the list of networks. The test of _settable in Set:
EnterSet(c) ==
    /\ Alive
    /\ phase = "open"
    /\ pc[c] = "answered"
    /\ \/ /\ ~settable["network"]
          /\ pc' = [pc EXCEPT ![c] = "revoking"]
          /\ UNCHANGED race
       \/ /\ settable["network"]
          /\ \A d \in Callers : pc[d] # "setting"
          /\ pc' = [pc EXCEPT ![c] = "setting"]
          /\ UNCHANGED race
       \/ /\ settable["network"]
          /\ \E d \in Callers : pc[d] = "setting"
          /\ race' = "racing Set"
          /\ UNCHANGED pc
    /\ UNCHANGED <<queue, object, socket, timedOut>>

\* ... and its assignments, followed by the Submit.
LeaveSet(c) ==
    /\ Alive
    /\ pc[c] = "setting"
    /\ SetRequest("network")
    /\ SubmitFrom(c, "network", "refreshing", "revoking")
    /\ UNCHANGED <<signaled, object, socket, race, timedOut>>

\* The exchange ends with its Revoke. In Probe a PONG leads to ATTACH, anything
\* else to another round until the slices are used up, after which the object is
\* as good as open (_error is that of Open).
Finish(c) ==
    /\ Alive
    /\ phase # "closing"
    /\ \/ /\ pc[c] = "answered"
          /\ phase' \in IF phase = "probe" THEN {"probe", "attach", "open"} ELSE {"open"}
       \/ /\ pc[c] = "expired"
          /\ phase # "attach"
          /\ phase' \in IF phase = "probe" THEN {"probe", "open"} ELSE {phase}
       \/ /\ pc[c] = "revoking"
          /\ phase' = IF phase = "failed" THEN "closing" ELSE phase
    /\ Revoke(c)
    /\ pc' = [pc EXCEPT ![c] = "idle"]
    /\ UNCHANGED <<attached, timedOut>>

\* ATTACH is refused or not answered: the constructor submits a status request
\* and WifiControl::Initialize drops the object.
AttachFailed(c) ==
    /\ Alive
    /\ phase = "attach"
    /\ pc[c] \in {"answered", "expired"}
    /\ SubmitFrom(c, "status", "refreshing", "revoking")
    /\ phase' = "failed"
    /\ UNCHANGED <<unsent, settable, signaled, attached, socket, race, timedOut>>

\* The last reference to the open controller goes away.
Release ==
    /\ Alive
    /\ phase = "open"
    /\ AllIdle
    /\ phase' = "closing"
    /\ UNCHANGED <<queue, pc, attached, socket, race, timedOut>>

\* The destructor after its DETACH exchange: Close, Revoke and Abort, which
\* completes whatever is left in the list.
Destruct(c) ==
    /\ Alive
    /\ phase = "closing"
    /\ pc[c] \in {"answered", "expired"}
    /\ phase'     = "closed"
    /\ pc'        = [pc EXCEPT ![c] = "idle"]
    /\ signaled'  = [signaled EXCEPT ![c] = "no"]
    /\ requests'  = <<>>
    /\ settable'  = [r \in Internal |-> IF r \in ToSet(requests) THEN r # "status"
                                                                ELSE settable[r]]
    /\ unsent'    = [unsent EXCEPT !["status"] = @ \/ "status" \in ToSet(requests),
                                   ![c] = FALSE]
    /\ writeSlot' = FALSE
    /\ sending'   = Nobody
    /\ receiving' = FALSE
    /\ wire'      = <<>>
    /\ inbox'     = <<>>
    /\ UNCHANGED <<attached, race, timedOut>>

-----------------------------------------------------------------------------
(* The socket thread                                                       *)

ThreadFree == sending = Nobody /\ ~receiving

\* SendData takes the front request, without the lock ...
SendData ==
    /\ Alive
    /\ ThreadFree
    /\ writeSlot
    /\ IF requests # <<>> /\ unsent[Head(requests)]
       THEN sending' = Head(requests) /\ UNCHANGED writeSlot
       ELSE writeSlot' = FALSE /\ UNCHANGED sending
    /\ UNCHANGED <<queue, pc, object, receiving, wire, inbox, race, timedOut>>

SendCopyKeepsMessage ==
    /\ Alive
    /\ sending # Nobody
    /\ wire'    = Append(wire, sending)
    /\ sending' = Nobody
    /\ UNCHANGED <<queue, pc, object, writeSlot, receiving, inbox, race, timedOut>>

\* ... and copies its message into the frame, leaving nothing to send.
SendCopy ==
    /\ Alive
    /\ sending # Nobody
    /\ wire'    = Append(wire, sending)
    /\ unsent'  = [unsent EXCEPT ![sending] = FALSE]
    /\ sending' = Nobody
    /\ UNCHANGED <<requests, settable, signaled, pc, object, writeSlot, receiving,
                   inbox, race, timedOut>>

OnlyScanIsAnEvent(m) == m # "scanEvent"

\* What does not start with '<' is taken for the reply to the front request.
IsReply(m) == m \notin Events

\* ReceiveData gets a reply: nobody waits, or the front request is to be popped
\* once the lock is acquired.
ReceiveReply ==
    /\ Alive
    /\ ThreadFree
    /\ inbox # <<>>
    /\ IsReply(Head(inbox))
    /\ IF requests = <<>>
       THEN inbox' = Tail(inbox) /\ UNCHANGED receiving
       ELSE receiving' = TRUE /\ UNCHANGED inbox
    /\ UNCHANGED <<queue, pc, object, writeSlot, sending, wire, race, timedOut>>

\* The requests a completion may submit: Reevaluate asks for a detail or for the
\* network list. A status request only reloads its own message.
FollowUps(r) ==
    CASE r = "scan"                   -> {"detail", Nobody}
      [] r \in {"detail", "network"}  -> {"detail", "network", Nobody}
      [] OTHER                        -> {Nobody}

\* Completed of the popped request r, and OnCompleted of its kind.
Completed(r, reply, next) ==
    IF r \in Callers
    THEN /\ requests' = Tail(requests)
         /\ signaled' = [signaled EXCEPT ![r] = IF reply = r THEN "own" ELSE "foreign"]
         /\ UNCHANGED <<unsent, settable>>
    ELSE LET reload  == IF r = "status" THEN {r} ELSE {next} \ {Nobody}
             loaded  == [settable EXCEPT ![r] = TRUE]
         IN  /\ \A n \in reload : loaded[n]
             /\ settable' = [i \in Internal |-> loaded[i] /\ i \notin reload]
             /\ unsent'   = [i \in Requests |-> unsent[i] \/ i \in reload]
             /\ requests' = IF next = Nobody THEN Tail(requests)
                            ELSE Append(Tail(requests), next)
             /\ UNCHANGED signaled

NoTriggerAfterPop == writeSlot

\* ReceiveData triggers whenever it has popped a request.
TriggerAfterPop == TRUE

\* The rest of ReceiveData for a reply, under the lock, and its Trigger.
ReceiveComplete ==
    /\ Alive
    /\ receiving
    /\ requests # <<>>
    /\ LET r == Head(requests) IN \E next \in FollowUps(r) :
          /\ Completed(r, Head(inbox), next)
          /\ race'  = IF next = "network" /\ \E c \in Callers : pc[c] = "setting"
                      THEN "racing Set" ELSE race
          /\ wire'  = IF Head(inbox) = r THEN wire ELSE Orphaned(wire, r)
          /\ inbox' = IF Head(inbox) = r THEN Tail(inbox) ELSE Orphaned(Tail(inbox), r)
    /\ writeSlot' = TriggerAfterPop
    /\ receiving' = FALSE
    /\ UNCHANGED <<pc, object, sending, timedOut>>

\* The list was emptied between the test of its size and the lock.
ReceiveEmpty ==
    /\ Alive
    /\ receiving
    /\ requests = <<>>
    /\ race' = "front of empty"
    /\ UNCHANGED <<queue, pc, object, socket, timedOut>>

\* The member request an event asks for.
RequestOf(e) == CASE e = "statusEvent" -> "status"
                  [] e = "scanEvent"   -> "scan"
                  [] e = "bssAdded"    -> "detail"

\* ReceiveData gets an event. The status request is submitted as it is, the
\* others only if they can be Set, that is, are not pending.
ReceiveEvent ==
    /\ Alive
    /\ ThreadFree
    /\ inbox # <<>>
    /\ ~IsReply(Head(inbox))
    /\ LET r == RequestOf(Head(inbox)) IN
          \/ /\ r = "status"
             /\ Submit(r)
             /\ writeSlot' = (writeSlot \/ requests = <<>>)
             /\ UNCHANGED <<unsent, settable>>
          \/ /\ r # "status"
             /\ settable[r]
             /\ SetRequest(r)
             /\ Submit(r)
             /\ writeSlot' = (writeSlot \/ requests = <<>>)
          \/ /\ r # "status"
             /\ ~settable[r]
             /\ UNCHANGED <<requests, unsent, settable, writeSlot>>
    /\ inbox' = Tail(inbox)
    /\ UNCHANGED <<signaled, pc, object, sending, receiving, wire, race, timedOut>>

-----------------------------------------------------------------------------
(* The supplicant                                                          *)

\* It answers the oldest command. The answer to ATTACH turns its events on.
Reply ==
    /\ Alive
    /\ wire # <<>>
    /\ Len(inbox) < MaxInbox
    /\ wire'  = Tail(wire)
    /\ inbox' = Append(inbox, Head(wire))
    /\ attached' \in {attached, attached \/ phase = "attach"}
    /\ UNCHANGED <<queue, pc, phase, writeSlot, sending, receiving, race, timedOut>>

\* How often request r is in the list, or the event e that submits it in the inbox.
Pending(r, e) == Len(SelectSeq(requests \o inbox, LAMBDA m : m \in {r, e}))

Emit(e) ==
    /\ Alive
    /\ attached
    /\ Len(inbox) < MaxInbox
    /\ e = "statusEvent" => Pending("status", e) < MaxStatus
    /\ inbox' = Append(inbox, e)
    /\ UNCHANGED <<queue, pc, object, writeSlot, sending, receiving, wire, race, timedOut>>

-----------------------------------------------------------------------------

Caller(c) == \/ Start(c) \/ Trigger(c) \/ Answered(c) \/ Expire(c) \/ Again(c)
             \/ EnterSet(c) \/ LeaveSet(c) \/ Finish(c) \/ AttachFailed(c) \/ Destruct(c)

Socket == SendData \/ SendCopy \/ ReceiveReply \/ ReceiveComplete \/ ReceiveEmpty
          \/ ReceiveEvent

\* Destroyed, or past the point where the code defines anything.
Stopped == ~Alive /\ UNCHANGED vars

Next == \/ \E c \in Callers : Caller(c)
        \/ Release
        \/ Socket
        \/ Reply
        \/ \E e \in Emitted : Emit(e)
        \/ Stopped

Spec == Init /\ [][Next]_vars

\* The thread of the socket serves reading and writing whenever it comes around (SF:
\* each is disabled while it is busy with the other), a caller goes on with what it
\* began, and the supplicant answers. SF for the supplicant, because MaxInbox, which
\* is ours, disables its answer while the socket is full. No fairness for the start
\* of an exchange, for an event or for a time out.
Fairness ==
    /\ SF_vars(SendData)
    /\ SF_vars(ReceiveReply \/ ReceiveEvent)
    /\ WF_vars(SendCopy \/ ReceiveComplete \/ ReceiveEmpty)
    /\ SF_vars(Reply)
    /\ \A c \in Callers : WF_vars(\/ Trigger(c) \/ Answered(c) \/ LeaveSet(c)
                                  \/ Finish(c) \/ AttachFailed(c) \/ Destruct(c))

FairSpec == Spec /\ Fairness

-----------------------------------------------------------------------------
(* Properties                                                              *)

TypeOK ==
    /\ requests \in Seq(Requests)
    /\ unsent \in [Requests -> BOOLEAN]
    /\ settable \in [Internal -> BOOLEAN]
    /\ signaled \in [Callers -> {"no", "own", "foreign"}]
    /\ pc \in [Callers -> Points]
    /\ phase \in Phases
    /\ attached \in BOOLEAN
    /\ writeSlot \in BOOLEAN
    /\ sending \in Requests \cup {Nobody}
    /\ receiving \in BOOLEAN
    /\ wire \in Seq(Requests \cup {Orphan})
    /\ inbox \in Seq(Requests \cup {Orphan} \cup Events)
    /\ receiving => inbox # <<>>
    /\ race \in Races
    /\ timedOut \in BOOLEAN

\* A front request that still has its message to send is never forgotten: the
\* socket asks for data, is copying it, or a caller is about to Trigger. Submit
\* triggers on an empty list only, so every pop and every Revoke of the front has
\* to trigger for the one that comes next.
NoLostTrigger ==
    Alive /\ requests # <<>> /\ unsent[Head(requests)]
        => \/ writeSlot
           \/ \E c \in Callers : pc[c] \in {"submitted", "refreshing"}

\* The list holds no pointer to a CustomRequest whose frame is gone, and holds
\* the pointer of a caller that is in its exchange at most once.
QueueHoldsLiveRequests ==
    Alive => \A i, j \in DOMAIN requests : requests[i] \in Callers =>
        /\ pc[requests[i]] \in {"submitted", "waiting", "expired", "refreshing", "revoking"}
        /\ signaled[requests[i]] = "no"
        /\ requests[i] = requests[j] => i = j

\* Of all that is outstanding only the last command still has its request, and that is
\* the front one: commands do not overtake each other. And a front request that has been
\* sent is outstanding: the list never waits for a reply nobody is going to give.
OneCommandAtATime ==
    Alive =>
        /\ \A i \in DOMAIN inbox : inbox[i] \in Requests =>
              /\ wire = <<>>
              /\ \A j \in DOMAIN inbox : j > i => inbox[j] \in Events
              /\ requests # <<>> /\ Head(requests) = inbox[i]
        /\ \A i \in DOMAIN wire : wire[i] \in Requests =>
              /\ i = Len(wire)
              /\ requests # <<>> /\ Head(requests) = wire[i]
        /\ requests # <<>> /\ ~unsent[Head(requests)]
              => Head(requests) \in ToSet(inbox) \cup ToSet(wire)

\* As long as no Wait runs out of time every command gets its own reply, and the
\* looks SendData and ReceiveData take at the list without the lock are harmless.
AnswersMatchUntilTimeout ==
    ~timedOut => /\ \A c \in Callers : signaled[c] # "foreign"
                 /\ race \notin {"revoked while sending", "front of empty"}

\* A member request that is submitted on Set is in the list once, and is not
\* settable as long as it is there.
SetGuardsTheList ==
    Alive => \A r \in Internal \ {"status"} :
        /\ r \in ToSet(requests) => ~settable[r]
        /\ \A i, j \in DOMAIN requests : requests[i] = r /\ requests[j] = r => i = j

\* ASSERT in Submit (Controller.h:1579): a request is not submitted while it is in
\* the list.
SubmittedOnce ==
    [][Len(requests') > Len(requests)
           => requests'[Len(requests')] \notin ToSet(requests)]_vars

-----------------------------------------------------------------------------
(* The abstract specification                                              *)

\* A mailbox of the same callers: its list is _requests as long as the object is
\* there, and an outcome is how a CustomRequest was completed.
Mailbox == INSTANCE WpaMailbox WITH
               box       <- IF Alive THEN requests ELSE <<>>,
               answering <- Alive /\ receiving,
               outcome   <- signaled,
               disturbed <- timedOut

\* Controller is such a mailbox (the list of Requests, Submit, Revoke, Abort and the
\* completions of ReceiveData): requests are completed in the order they were
\* submitted, a caller is not given the answer to another command before some Wait
\* ran out of time, and no request stays in the list forever.
ImplementsMailbox == Mailbox!Spec
=============================================================================
