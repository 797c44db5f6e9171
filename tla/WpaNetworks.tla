----------------------------- MODULE WpaNetworks ----------------------------
(***************************************************************************)
(* What WifiControl knows: the networks in the air and the configurations, *)
(* both copies of what wpa_supplicant knows (WifiControl/Controller.h and  *)
(* .cpp: _networks, _enabled, _scanRequest, _detailRequest,                *)
(* _networkRequest, _callback; WifiControl.cpp: Initialize, Deinitialize). *)
(*                                                                         *)
(* The copies follow the events of the supplicant and the answers to       *)
(* commands, which come in over one socket in the order the supplicant     *)
(* sent them. The channel is taken at what WpaMailbox promises: commands   *)
(* are completed in the order they were submitted, each with its own       *)
(* answer, until a Wait runs out of time. The command that is given up may *)
(* be carried out all the same; where its answer would complete another    *)
(* request, of which WpaChannel says more, this model ends.                *)
(***************************************************************************)
EXTENDS Integers, SequencesExt

CONSTANTS
    Callers,     \* threads that call a method of the controller
    Calling,     \* the callers of each of its methods
    Bss,         \* access points, by BSSID
    Ssids,       \* names of networks
    Hidden,      \* no name, or a name nothing else has
    SsidOf,      \* the name a BSS broadcasts
    IdOf,        \* the number the supplicant gives a BSS
    Impatient,   \* bound: the operations whose Wait may run out of time
    MaxProfile,  \* bound: the highest number of a profile in the supplicant
    MaxInbox     \* bound: datagrams waiting in the socket

Methods  == {"scan", "create", "destroy", "use"}
Waiting  == {"scan", "create", "destroy", "use"}   \* for an answer
Internal == {"scan", "detail", "network", "late"}
Names    == Ssids \cup {Hidden}
Profiles == 0 .. MaxProfile
Nowhere  == "nowhere"

Refused == -3     \* ~1, the id of a network whose detail was refused
None    == -2     \* no entry in _enabled
Unset   == -1     \* ~0

ASSUME NetworksAssumption ==
    /\ Callers \cap Internal = {}
    /\ Calling \in [Methods -> SUBSET Callers]
    /\ Impatient \subseteq Waiting
    /\ Hidden \notin Ssids
    /\ Nowhere \notin Bss
    /\ SsidOf \in [Bss -> Names]
    /\ IdOf \in [Bss -> Nat]
    /\ MaxProfile \in Nat
    /\ MaxInbox \in Nat \ {0}

\* What _networks holds for a BSS: nothing; a scan result, with ~0 for its id; the
\* detail; a refused detail, which keeps the name if there was one.
Entries == {"absent", "bare", "detailed", "failed", "unnamed"}

\* The ids an entry of _enabled has: Add takes them from the networks.
Ids == Profiles \cup {IdOf[b] : b \in Bss} \cup {Unset, Refused}

\* Where a caller is: in Scan after its test of _scanning, in Destroy while Config
\* is constructed without the lock, or waiting for an answer.
Operations == {"idle", "activating", "scan", "create", "destroying", "destroy", "use"}

\* Where the model ends: an iterator into _enabled used after its entry was erased, a
\* Dispatch through no callback, and an answer that completes a request it is not for.
Races == {"none", "dangling", "null dispatch", "misread"}

Phases == {"constructed", "running", "deinitializing", "closed"}

VARIABLES
    box,        \* the requests, oldest first, and "late" where one was that had been
                \* sent before its caller gave it up
    asked,      \* _bssid of the detail request while it is pending
    overdue,    \* the command that is late
    listed,     \* _networks
    enabled,    \* _enabled: the id of the entry for a name
    scanning,   \* _scanning
    phase,      \* of the plugin: _callback is set while it is running
    call,       \* per caller: its operation, the name, its answer (and the number
                \* in it), and whether the entry of its iterator was erased
    air,        \* the BSSs the supplicant sees
    profiles,   \* the numbers of its network profiles
    busy,       \* it is scanning
    answered,   \* its answer for the oldest request is in the inbox
    inbox,      \* datagrams to receive
    race,       \* the undefined behaviour reached, if any
    broken,     \* history: an answer for a BSS nobody waited for ended the details
    orphans     \* history: the profiles that were made for a caller that gave up

lists     == <<listed, enabled, scanning>>
requests  == <<box, asked>>
radio     == <<air, profiles, busy>>
socket    == <<answered, inbox>>
abandoned == <<overdue, orphans>>
vars      == <<requests, lists, phase, call, radio, socket, race, broken, abandoned>>

Alive == race = "none" /\ phase # "closed"

Idle == [op |-> "idle", ssid |-> Hidden, answer |-> "none", number |-> Unset, stale |-> FALSE]

\* An event about a BSS, or an answer with what it may carry.
Event(kind, b) == [kind |-> kind, ok |-> TRUE, about |-> {b}, number |-> Unset, name |-> Hidden]
Answer(ok)     == [kind |-> "answer", ok |-> ok, about |-> {}, number |-> Unset, name |-> Hidden]

Init ==
    /\ box = <<>> /\ asked = Nowhere /\ overdue = Idle
    /\ listed = [b \in Bss |-> "absent"]
    /\ enabled = [s \in Ssids |-> None]
    /\ scanning = FALSE
    /\ phase = "constructed"
    /\ call = [c \in Callers |-> Idle]
    /\ air = {} /\ profiles = {} /\ busy = FALSE
    /\ answered = FALSE /\ inbox = <<>>
    /\ race = "none" /\ broken = FALSE /\ orphans = {}

-----------------------------------------------------------------------------
(* The plugin                                                              *)

AllIdle == \A c \in Callers : call[c] = Idle

\* Initialize hands in the sink once the controller has attached.
Initialize ==
    /\ Alive
    /\ phase = "constructed"
    /\ phase' = "running"
    /\ UNCHANGED <<requests, lists, call, radio, socket, race, broken, abandoned>>

\* Deinitialize takes the sink out, and then terminates the supplicant.
Deinitialize ==
    /\ Alive
    /\ phase = "running"
    /\ AllIdle
    /\ phase' = "deinitializing"
    /\ UNCHANGED <<requests, lists, call, radio, socket, race, broken, abandoned>>

\* The destructor: Abort completes what is left, a scan with _scanning reset.
Destruct ==
    /\ Alive
    /\ phase = "deinitializing"
    /\ phase' = "closed"
    /\ box' = <<>> /\ asked' = Nowhere /\ overdue' = Idle
    /\ scanning' = (scanning /\ "scan" \notin ToSet(box))
    /\ answered' = FALSE /\ inbox' = <<>>
    /\ UNCHANGED <<listed, enabled, call, radio, race, broken, orphans>>

-----------------------------------------------------------------------------
(* The methods of the controller                                           *)

\* Only an entry of the name makes a caller of it stale.
Enter(c, o, s) == call' = [call EXCEPT ![c] = [Idle EXCEPT !.op = o, !.ssid = s]]

\* The entry of s is erased under the iterators of the others.
Erase(c, s) ==
    /\ enabled' = [enabled EXCEPT ![s] = None]
    /\ call' = [d \in Callers |->
                  IF d = c THEN Idle
                  ELSE IF call[d].ssid = s /\ call[d].op \in {"destroying", "destroy", "use"}
                  THEN [call[d] EXCEPT !.stale = TRUE] ELSE call[d]]

Leave(c) == call' = [call EXCEPT ![c] = Idle]

\* The methods may be called once the plugin is initialized.
CanCall(c, method) == Alive /\ phase = "running" /\ call[c] = Idle /\ c \in Calling[method]

\* Scan: the test of _scanning, without a lock ...
Scan(c) ==
    /\ CanCall(c, "scan")
    /\ ~scanning
    /\ Enter(c, "activating", Hidden)
    /\ UNCHANGED <<requests, lists, phase, radio, socket, race, broken, abandoned>>

\* ... the rest of Activated, and the SCAN command.
Activated(c) ==
    /\ Alive
    /\ call[c].op = "activating"
    /\ scanning' = TRUE
    /\ box' = Append(box, c)
    /\ Enter(c, "scan", Hidden)
    /\ UNCHANGED <<asked, listed, enabled, phase, radio, socket, race, broken, abandoned>>

RefusedScanGoesOn(c) == scanning

\* What is left of _scanning when SCAN is answered: Aborted resets it.
ScanAnswered(c) == scanning /\ call[c].answer = "ok"

FinishScan(c) ==
    /\ Alive
    /\ call[c].op = "scan" /\ call[c].answer # "none"
    /\ scanning' = ScanAnswered(c)
    /\ Leave(c)
    /\ UNCHANGED <<requests, listed, enabled, phase, radio, socket, race, broken, abandoned>>

CreateAgain(s) == TRUE

\* Create only makes what is not there: its entry is inserted before ADD_NETWORK is
\* asked for and keeps others from doing the same.
IsNew(s) == enabled[s] = None

Create(c, s) ==
    /\ CanCall(c, "create")
    /\ IsNew(s)
    /\ enabled' = [enabled EXCEPT ![s] = Unset]
    /\ box' = Append(box, c)
    /\ Enter(c, "create", s)
    /\ UNCHANGED <<asked, listed, scanning, phase, radio, socket, race, broken, abandoned>>

FinishCreate(c) ==
    /\ Alive
    /\ call[c].op = "create" /\ call[c].answer # "none"
    /\ enabled' = [enabled EXCEPT ![call[c].ssid] = call[c].number]
    /\ Leave(c)
    /\ UNCHANGED <<requests, listed, scanning, phase, radio, socket, race, broken, abandoned>>

\* Destroy: an entry that has its id is found, and the lock let go.
Destroy(c, s) ==
    /\ CanCall(c, "destroy")
    /\ enabled[s] \notin {None, Unset}
    /\ Enter(c, "destroying", s)
    /\ UNCHANGED <<requests, lists, phase, radio, socket, race, broken, abandoned>>

\* The number an iterator leads to is that of an entry that is still there.
Submitted(c, o) ==
    /\ box' = Append(box, c)
    /\ call' = [call EXCEPT ![c].op = o, ![c].answer = "none",
                            ![c].number = IF call[c].stale THEN Unset
                                            ELSE enabled[call[c].ssid]]
    /\ race' = IF call[c].stale THEN "dangling" ELSE race

\* REMOVE_NETWORK with the id of the entry that was found.
RemoveNetwork(c) ==
    /\ Alive
    /\ call[c].op = "destroying"
    /\ Submitted(c, "destroy")
    /\ UNCHANGED <<asked, lists, phase, radio, socket, broken, abandoned>>

FinishDestroy(c) ==
    /\ Alive
    /\ call[c].op = "destroy" /\ call[c].answer # "none"
    /\ \/ /\ call[c].answer = "fail"
          /\ Leave(c)
          /\ UNCHANGED <<enabled, race>>
       \/ /\ call[c].answer = "ok"
          /\ Erase(c, call[c].ssid)
          /\ race' = IF call[c].stale THEN "dangling" ELSE race
    /\ UNCHANGED <<requests, listed, scanning, phase, radio, socket, broken, abandoned>>

\* Enable, Disable, SetKey, Connect and Disconnect of an entry send its id. (Enable
\* and Disable refuse id 0, which is the number of the first profile.)
Use(c, s) ==
    /\ CanCall(c, "use")
    /\ enabled[s] # None
    /\ box' = Append(box, c)
    /\ call' = [call EXCEPT ![c] = [Idle EXCEPT !.op = "use", !.ssid = s,
                                                !.number = enabled[s]]]
    /\ UNCHANGED <<asked, lists, phase, radio, socket, race, broken, abandoned>>

\* The state or the secret is written through the iterator, after which Connect goes
\* on with its next command, and Enable and Disable refresh the list of networks.
FinishUse(c) ==
    /\ Alive
    /\ call[c].op = "use" /\ call[c].answer # "none"
    /\ \/ /\ Leave(c)
          /\ UNCHANGED <<box, race>>
       \/ /\ call[c].answer = "ok"
          /\ Submitted(c, "use")
       \/ /\ call[c].answer = "ok" /\ ~call[c].stale
          /\ "network" \notin ToSet(box)
          /\ box' = Append(box, "network")
          /\ Leave(c)
          /\ UNCHANGED race
    /\ UNCHANGED <<asked, lists, phase, radio, socket, broken, abandoned>>

\* The profile n is known to c, which is creating it: its number is in the answer that c
\* has got, or is about to get.
Creator(c, n) ==
    /\ call[c].op = "create"
    /\ \/ call[c].number = n
       \/ /\ box # <<>> /\ Head(box) = c
          /\ \E i \in DOMAIN inbox : inbox[i].number = n

\* The Wait of any of them runs out of time, be it while the answer comes in. Revoke takes
\* the request out of the list, but a command that was sent is carried out. Bound: one at
\* a time is late.
GiveUp(c) ==
    /\ Alive
    /\ call[c].op \in Impatient /\ call[c].answer # "fail"
    /\ "late" \notin ToSet(box)
    /\ \/ /\ box # <<>> /\ Head(box) = c
          /\ box' = <<"late">> \o Tail(box)
          /\ overdue' = [Idle EXCEPT !.op = call[c].op, !.number = call[c].number]
       \/ /\ answered => Head(box) # c
          /\ \/ c \notin ToSet(box) /\ UNCHANGED box
             \/ \E i \in DOMAIN box : box[i] = c /\ box' = RemoveAt(box, i)
          /\ UNCHANGED overdue
    /\ call' = [call EXCEPT ![c].answer = "fail", ![c].number = Unset]
    /\ orphans' = orphans \cup {n \in profiles : Creator(c, n)}
    /\ UNCHANGED <<asked, lists, phase, radio, socket, race, broken>>

-----------------------------------------------------------------------------
(* The socket thread: ReceiveData                                          *)

Bare(l) == {b \in Bss : l[b] = "bare"}

ForgetsAsked(q) == Nowhere

\* Who the detail request is for stays as it is while it is pending.
StillAsked(q) == IF "detail" \in ToSet(q) THEN asked ELSE Nowhere

\* The list of networks and the entries decide what to do next: ask for the first
\* detail that is missing, for the profiles if there is no entry, or tell the plugin.
\* Which BSS is first in the map is a matter of its address: any.
Reevaluate(l, e, q) ==
    \/ \E b \in Bare(l) :
          /\ IF "detail" \in ToSet(q) THEN box' = q /\ UNCHANGED asked
                                      ELSE box' = Append(q, "detail") /\ asked' = b
          /\ UNCHANGED race
    \/ /\ Bare(l) = {}
       /\ \A s \in Ssids : e[s] = None
       /\ box' = IF "network" \in ToSet(q) THEN q ELSE Append(q, "network")
       /\ asked' = StillAsked(q)
       /\ UNCHANGED race
    \/ /\ Bare(l) = {}
       /\ \E s \in Ssids : e[s] # None
       /\ race' = IF phase = "running" THEN race ELSE "null dispatch"
       /\ box' = q
       /\ asked' = StillAsked(q)

\* CTRL-EVENT-BSS-ADDED asks for the detail, unless another detail is pending.
BssAdded ==
    /\ Alive
    /\ inbox # <<>> /\ Head(inbox).kind = "added"
    /\ \E b \in Head(inbox).about :
          IF "detail" \in ToSet(box) THEN UNCHANGED requests
                                     ELSE box' = Append(box, "detail") /\ asked' = b
    /\ inbox' = Tail(inbox)
    /\ UNCHANGED <<lists, phase, call, radio, answered, race, broken, abandoned>>

RemovedIsKept(m) == listed

\* What CTRL-EVENT-BSS-REMOVED leaves of the list.
WithoutRemoved(m) == [b \in Bss |-> IF b \in m.about THEN "absent" ELSE listed[b]]

BssRemoved ==
    /\ Alive
    /\ inbox # <<>> /\ Head(inbox).kind = "removed"
    /\ listed' = WithoutRemoved(Head(inbox))
    /\ inbox' = Tail(inbox)
    /\ UNCHANGED <<requests, enabled, scanning, phase, call, radio, answered, race, broken, abandoned>>

\* CTRL-EVENT-SCAN-RESULTS asks for the results, unless that is pending.
ScanDone ==
    /\ Alive
    /\ inbox # <<>> /\ Head(inbox).kind = "scanned"
    /\ box' = IF "scan" \in ToSet(box) THEN box ELSE Append(box, "scan")
    /\ inbox' = Tail(inbox)
    /\ UNCHANGED <<asked, lists, phase, call, radio, answered, race, broken, abandoned>>

\* The answer in front belongs to the oldest request, r.
Completes(r) ==
    /\ Alive
    /\ inbox # <<>> /\ Head(inbox).kind = "answer"
    /\ box # <<>> /\ Head(box) = r
    /\ inbox' = Tail(inbox)
    /\ answered' = FALSE

CompleteCaller(c) ==
    /\ Completes(c)
    /\ box' = Tail(box)
    /\ call' = [call EXCEPT ![c].answer = IF Head(inbox).ok THEN "ok" ELSE "fail",
                            ![c].number = Head(inbox).number]
    /\ UNCHANGED <<asked, lists, phase, radio, race, broken, abandoned>>

\* ScanRequest: every line puts a network without detail in the list, over what was
\* known of it, and Reevaluate runs for each. The first one that asks for a detail
\* takes the request, with what was listed by then.
CompleteScan ==
    /\ Completes("scan")
    /\ LET found == Head(inbox).about IN
       /\ listed' = [b \in Bss |-> IF b \in found THEN "bare" ELSE listed[b]]
       /\ \/ /\ found = {}
             /\ box' = Tail(box)
             /\ UNCHANGED <<asked, race, broken>>
          \/ \E first \in found :
                /\ Reevaluate([listed EXCEPT ![first] = "bare"], enabled, Tail(box))
                /\ broken' = FALSE
    /\ scanning' = FALSE
    /\ UNCHANGED <<enabled, phase, call, radio, abandoned>>

\* What an answer makes of the BSS that was asked for.
Detailed(b, ok) ==
    CASE ok                             -> "detailed"
      [] ~ok /\ listed[b] = "absent"    -> "unnamed"
      [] ~ok /\ listed[b] = "unnamed"   -> "unnamed"
      [] OTHER                          -> "failed"

\* Update goes on with the next detail when the BSS was waiting for this one.
GoesOn(b) == listed[b] = "bare"

\* DetailRequest and Update.
CompleteDetail ==
    /\ Completes("detail")
    /\ LET after == [listed EXCEPT ![asked] = Detailed(asked, Head(inbox).ok)] IN
       /\ listed' = after
       /\ \/ /\ GoesOn(asked)
             /\ Reevaluate(after, enabled, Tail(box))
             /\ broken' = FALSE
          \/ /\ ~GoesOn(asked)
             /\ box' = Tail(box)
             /\ asked' = Nowhere
             /\ broken' = (broken \/ listed[asked] # "bare")
             /\ UNCHANGED race
    /\ UNCHANGED <<enabled, scanning, phase, call, radio, abandoned>>

\* The id a network in the list has.
IdIn(b) == CASE listed[b] = "detailed"            -> IdOf[b]
             [] listed[b] \in {"failed", "unnamed"} -> Refused
             [] OTHER                             -> Unset

\* The networks in the list with the name s.
Named(s) == {b \in Bss : listed[b] \in {"bare", "detailed", "failed"} /\ SsidOf[b] = s}

\* NetworkRequest takes the first profile of the answer only, if there is one. Add
\* makes an entry for its name out of the first network that has that name.
CompleteNetwork ==
    /\ Completes("network")
    /\ \/ /\ ~Head(inbox).ok
          /\ box' = Tail(box)
          /\ UNCHANGED <<asked, enabled, race, broken>>
       \/ /\ Head(inbox).ok
          /\ LET s == Head(inbox).name IN
             \/ /\ s \in Ssids /\ enabled[s] = None
                /\ \E b \in Named(s) : enabled' = [enabled EXCEPT ![s] = IdIn(b)]
             \/ /\ s \in Ssids => enabled[s] # None \/ Named(s) = {}
                /\ UNCHANGED enabled
          /\ Reevaluate(listed, enabled', Tail(box))
          /\ broken' = FALSE
    /\ UNCHANGED <<listed, scanning, phase, call, radio, abandoned>>

\* Nobody waits for this answer: it goes to the next request, if there is one.
CompleteLate ==
    /\ Completes("late")
    /\ box' = Tail(box)
    /\ overdue' = Idle
    /\ race' = IF Tail(box) = <<>> THEN race ELSE "misread"
    /\ UNCHANGED <<asked, lists, phase, call, radio, broken, orphans>>

Receive == \/ BssAdded \/ BssRemoved \/ ScanDone
           \/ CompleteScan \/ CompleteDetail \/ CompleteNetwork \/ CompleteLate
           \/ \E c \in Callers : CompleteCaller(c)

-----------------------------------------------------------------------------
(* The supplicant                                                          *)

Room == Alive /\ Len(inbox) < MaxInbox

Tell(m) == inbox' = Append(inbox, m)

\* It answers the request r, which is the oldest.
Answers(r) ==
    /\ Room
    /\ box # <<>> /\ Head(box) = r
    /\ ~answered
    /\ answered' = TRUE
    /\ UNCHANGED <<requests, lists, phase, call, air, race, broken, overdue>>

\* SCAN_RESULTS: what it sees. BSS: whether it sees that one. LIST_NETWORKS: a
\* header, and the profiles, whose names callers set.
AnswerInternal ==
    /\ \/ /\ Answers("scan")
          /\ Tell([Answer(TRUE) EXCEPT !.about = air])
       \/ /\ Answers("detail")
          /\ Tell(Answer(asked \in air))
       \/ /\ Answers("network")
          /\ \/ profiles = {} /\ Tell(Answer(FALSE))
             \/ profiles # {} /\ \E s \in Names : Tell([Answer(TRUE) EXCEPT !.name = s])
    /\ UNCHANGED <<profiles, busy, orphans>>

\* A new profile gets the number after the highest one.
NextProfile == {n \in Profiles : /\ \A m \in profiles : m < n
                                 /\ n = 0 \/ n - 1 \in profiles}

\* What it does for a command of a caller.
Executes(k) ==
    \/ /\ k.op = "scan"
       /\ \E ok \in BOOLEAN : Tell(Answer(ok)) /\ busy' = (busy \/ ok)
       /\ UNCHANGED profiles
    \/ /\ k.op = "create"
       /\ \/ /\ Tell(Answer(FALSE))
             /\ UNCHANGED profiles
          \/ \E n \in NextProfile :
                /\ Tell([Answer(TRUE) EXCEPT !.number = n])
                /\ profiles' = profiles \cup {n}
       /\ UNCHANGED busy
    \/ /\ k.op = "destroy"
       /\ Tell(Answer(k.number \in profiles))
       /\ profiles' = profiles \ {k.number}
       /\ UNCHANGED busy
    \/ /\ k.op = "use"
       /\ \E ok \in {FALSE, k.number \in profiles} : Tell(Answer(ok))
       /\ UNCHANGED <<profiles, busy>>

AnswerCaller(c) ==
    /\ Answers(c)
    /\ Executes(call[c])
    /\ orphans' = orphans \cap profiles'

\* It does not know that nobody waits for its answer any more.
AnswerLate ==
    /\ Answers("late")
    /\ Executes(overdue)
    /\ orphans' = (orphans \cap profiles') \cup (profiles' \ profiles)

\* It scans on its own account as well.
BeginScan ==
    /\ Alive
    /\ ~busy
    /\ busy' = TRUE
    /\ UNCHANGED <<requests, lists, phase, call, air, profiles, socket, race, broken, abandoned>>

\* What a scan finds is reported one by one, before its end is.
Appear(b) ==
    /\ Room
    /\ busy /\ b \notin air
    /\ air' = air \cup {b}
    /\ Tell(Event("added", b))
    /\ UNCHANGED <<requests, lists, phase, call, profiles, busy, answered, race, broken, abandoned>>

Disappear(b) ==
    /\ Room
    /\ b \in air
    /\ air' = air \ {b}
    /\ Tell(Event("removed", b))
    /\ UNCHANGED <<requests, lists, phase, call, profiles, busy, answered, race, broken, abandoned>>

EndScan ==
    /\ Room
    /\ busy
    /\ busy' = FALSE
    /\ Tell(Event("scanned", Nowhere))
    /\ UNCHANGED <<requests, lists, phase, call, air, profiles, answered, race, broken, abandoned>>

Supplicant == \/ AnswerInternal \/ AnswerLate
              \/ \E c \in Callers : AnswerCaller(c)
              \/ BeginScan \/ EndScan
              \/ \E b \in Bss : Appear(b) \/ Disappear(b)

-----------------------------------------------------------------------------

Caller(c) == \/ GiveUp(c)
             \/ Scan(c) \/ Activated(c) \/ FinishScan(c)
             \/ FinishCreate(c) \/ RemoveNetwork(c) \/ FinishDestroy(c) \/ FinishUse(c)
             \/ \E s \in Ssids : Create(c, s) \/ Destroy(c, s) \/ Use(c, s)

\* Destructed, or past the point where the code defines anything.
Stopped == ~Alive /\ UNCHANGED vars

Next == \/ Initialize \/ Deinitialize \/ Destruct
        \/ \E c \in Callers : Caller(c)
        \/ Receive
        \/ Supplicant
        \/ Stopped

Spec == Init /\ [][Next]_vars

-----------------------------------------------------------------------------
(* Properties                                                              *)

Messages == [kind : {"added", "removed", "scanned", "answer"}, ok : BOOLEAN,
             about : SUBSET (Bss \cup {Nowhere}), number : Ids, name : Names]

Calls == [op : Operations, ssid : Names, answer : {"none", "ok", "fail"},
          number : Ids, stale : BOOLEAN]

TypeOK ==
    /\ box \in Seq(Internal \cup Callers)
    /\ asked \in Bss \cup {Nowhere}
    /\ overdue \in Calls
    /\ "detail" \in ToSet(box) => asked \in Bss
    /\ listed \in [Bss -> Entries]
    /\ enabled \in [Ssids -> Ids \cup {None}]
    /\ scanning \in BOOLEAN
    /\ phase \in Phases
    /\ call \in [Callers -> Calls]
    /\ air \in SUBSET Bss
    /\ profiles \in SUBSET Profiles
    /\ busy \in BOOLEAN
    /\ answered \in BOOLEAN
    /\ inbox \in Seq(Messages)
    /\ race \in Races
    /\ broken \in BOOLEAN
    /\ orphans \in SUBSET Profiles

Coming(kind, b) == \E i \in DOMAIN inbox : inbox[i].kind = kind /\ b \in inbox[i].about

\* The results of a scan are yet to be taken over.
ScanAhead == busy \/ Coming("scanned", Nowhere) \/ "scan" \in ToSet(box)

\* What Networks() returns follows the air: a network that is listed with its data is
\* there or its removal is coming, and one that is there is listed or will be, by its
\* detail or by a scan. Events and answers overtaking each other, or an answer used
\* after the removal it preceded, would leave a ghost or lose a network. (The detail
\* that is refused because the network has gone does leave one, "unnamed".)
ListFollowsAir ==
    Alive => \A b \in Bss :
        /\ listed[b] \in {"bare", "detailed"} => b \in air \/ Coming("removed", b)
        /\ b \in air => \/ listed[b] # "absent"
                        \/ Coming("added", b)
                        \/ "detail" \in ToSet(box) /\ asked = b
                        \/ ScanAhead

\* What WifiControl has begun goes on. Details are asked for one after the other
\* (Reevaluate and Update): as long as a network has none, one is being asked for, and
\* only the answer for a BSS that was not waiting for it ends the chain early, until the
\* next scan. And IsScanning ends: when it says so SCAN is being asked for, or the results
\* of a scan are on their way, to reset it (Activated, Aborted, OnCompleted of ScanRequest).
WorkGoesOn ==
    Alive =>
        /\ ~broken /\ Bare(listed) # {} => "detail" \in ToSet(box)
        /\ scanning => \/ ScanAhead
                       \/ \E c \in Callers : call[c].op = "scan" /\ call[c].answer # "ok"

\* The supplicant has no profile that nobody knows of: it is in an entry, or the caller
\* that creates it is about to enter it (Create and Destroy). The exception is a profile
\* whose caller has given up: ADD_NETWORK was carried out after that, or the answer to it
\* was not looked at, and the entry never gets its number.
ProfilesKnown ==
    Alive => \A n \in profiles :
        \/ \E s \in Ssids : enabled[s] = n
        \/ \E c \in Callers : Creator(c, n)
        \/ n \in orphans
=============================================================================
