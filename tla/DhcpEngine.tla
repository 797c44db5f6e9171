----------------------------- MODULE DhcpEngine -----------------------------
(***************************************************************************)
(* How NetworkControl gets an interface its address by DHCP and keeps the  *)
(* DNS servers it is offered: NetworkControl.cpp/.h with its DHCPEngine,   *)
(* and DHCPClientImplementation.h/.cpp.                                    *)
(*                                                                         *)
(* The threads that meet here, for one interface:                          *)
(*   - the thread of Initialize, which starts the first exchange, appends    *)
(*     the DNS servers of the configuration and writes the file, and takes   *)
(*     _adminLock only to copy the list;                                     *)
(*   - the socket thread, in SendData and ReceiveData and from there in    *)
(*     Update, which it runs without the locks of the maps it searches;    *)
(*   - the worker that dispatches the watchdog, DHCPEngine::Dispatch;      *)
(*   - whoever reloads the interface: Activity and the web request, under  *)
(*     _adminLock, or AddAddress, without it;                              *)
(*   - whoever adds or removes DNS servers, under _adminLock;              *)
(*   - the worker in Activity that finds that the adapter is gone.         *)
(***************************************************************************)
EXTENDS Naturals

CONSTANTS
    Servers,       \* DHCP servers on the network, each with the one offer it makes
    Dns,           \* DNS servers
    DnsOf,         \* the DNS servers in the offer of a DHCP server
    Static,        \* the DNS servers of the configuration
    ResponseTime,  \* _responseTime: how often the watchdog may resend, less one
    MaxDiscover,   \* bound: how often the interface is reloaded
    MaxAdd         \* bound: how often one DNS server is added by AddDNS

None == "none"

States == {"IDLE", "SENDING", "RECEIVING"}
Modi   == {"DISCOVER", "ACK"}

\* Where the socket thread is: in SendData between the test and the assignment of
\* _state, in Update with a reference to the first offer, after its locked part that
\* did or did not change the list of servers, and about to write the file.
Points == {"free", "sending", "updating", "changed", "unchanged", "refreshing"}

\* Where Initialize is: about to reload the interface, to append the DNS servers of the
\* configuration, to write the file; and over, when the adapters are observed.
Stages == {"reload", "append", "write", "done"}

\* The threads that write the file from a copy of the list, without the lock.
Writers == {"socket", "setup"}

\* What a schedule can do to the engine that its code does not expect.
Surprises ==
    {"ack refused",       \* Acknowledge found the state SENDING: a resend came first
     "expired in send",   \* the watchdog expired inside SendData
     "second offer",      \* an offer was taken for the answer to the request
     "late watchdog"}     \* the watchdog was scheduled after the acknowledge

\* Undefined behaviour, or a thread that waits for a thread that waits for it.
Ends == {"engine freed", "info freed", "list raced", "deadlock"}

ASSUME EngineAssumption ==
    /\ None \notin Servers
    /\ DnsOf \in [Servers -> SUBSET Dns]
    /\ Static \subseteq Dns
    /\ ResponseTime \in Nat
    /\ MaxDiscover \in Nat
    /\ MaxAdd \in Nat

VARIABLES
    state,      \* _state of the client
    modus,      \* _modus of the client
    first,      \* the first of _offers, the only one that is ever looked at
    xid,        \* _xid, as the number of the discover that drew it
    socket,     \* the datagram socket: closed, open or closing
    thread,     \* the point the socket thread is at
    current,    \* the offer Update holds a reference to
    retries,    \* _retries of the engine
    watchdog,   \* how many dispatches of the engine are scheduled
    starting,   \* Discover is between the client's Discover and its Schedule
    present,    \* the interface is in _interfaces and _dhcpInterfaces
    accepted,   \* the offer kept in the StaticInfo of the interface
    setup,      \* the stage Initialize is at
    pending,    \* the servers of the configuration it has not yet appended
    prepared,   \* the servers RefreshDNS has copied for Initialize
    dns,        \* _dns, as the use count of each server: 0 if it is not listed
    again,      \* the servers with a second entry in _dns, behind that of an offer
    file,       \* the servers in the section of the DNS file
    copied,     \* the servers RefreshDNS has copied for the socket thread
    net,        \* offers on their way to the interface
    requested,  \* history: the offers a REQUEST was sent for
    added,      \* history: how often each server was added by AddDNS
    left,       \* history: the offer the interface had when it disappeared
    surprises,  \* history: the surprises so far
    overtaken,  \* history: the writers whose copy another thread's change overtook
    stale,      \* history: the last to write the file had been overtaken
    end         \* the end of the defined behaviour, if it was reached

client  == <<state, modus, first, xid, socket>>
engine  == <<retries, watchdog, starting>>
startup == <<setup, pending, prepared>>
control == <<present, accepted, dns, again, file, copied>>
history == <<requested, added, left, surprises, overtaken, stale>>
vars    == <<client, thread, current, engine, startup, control, net, history, end>>

Alive == end = None

Offered(o) == IF o = None THEN {} ELSE DnsOf[o]

Listed(d) == {s \in Dns : d[s] > 0}

One(condition) == IF condition THEN 1 ELSE 0

\* Initialize up to the first reload. The file may still have the section of an earlier
\* activation.

Init ==
    /\ state = "IDLE" /\ modus = "DISCOVER" /\ first = None /\ xid = 0
    /\ socket = "closed"
    /\ thread = "free" /\ current = None
    /\ retries = 0 /\ watchdog = 0 /\ starting = "no"
    /\ present = TRUE /\ accepted = None
    /\ setup = "reload" /\ pending = Static /\ prepared = {}
    /\ dns = [s \in Dns |-> 0] /\ again = {}
    /\ file \in SUBSET Dns /\ copied = {}
    /\ net = {}
    /\ requested = {} /\ left = None /\ surprises = {}
    /\ overtaken = {} /\ stale = FALSE
    /\ added = [s \in Dns |-> 0]
    /\ end = None

Surprise(s, condition) ==
    surprises' = IF condition THEN surprises \cup {s} ELSE surprises

\* The writers between the copy and the write: if the list becomes d, theirs is the old.
Copying == {w \in Writers : IF w = "socket" THEN thread = "refreshing" ELSE setup = "write"}

Overtake(d) ==
    overtaken' = IF Listed(d) = Listed(dns) THEN overtaken ELSE overtaken \cup Copying

-----------------------------------------------------------------------------
(* The list of DNS servers                                                 *)

\* AddDNSEntry and RemoveDNSEntry for each member of a set: the new use counts.
AddEntries(d, set) == [s \in Dns |-> IF s \in set THEN d[s] + 1 ELSE d[s]]

EraseEntries(d, set) == [s \in Dns |-> IF s \in set THEN 0 ELSE d[s]]

RemoveEntries(d, set) ==
    [s \in Dns |-> IF s \in set /\ d[s] > 0 THEN d[s] - 1 ELSE d[s]]

\* Of the servers with a second entry, those that keep it: the entry that is found, the
\* first, is not erased when the old servers are removed from the list d.
Doubled(d, old) == {s \in again : s \in old => d[s] > 2}

\* What they return, together: whether the file has to be refreshed.
OnlyNew(d, new, old) == \E s \in new : d[s] = 0

Update(d, new, old) == \/ \E s \in new : d[s] = 0
                       \/ \E s \in old : AddEntries(d, new)[s] <= 1 + One(s \in again)

\* AddDNS and RemoveDNS of one server, with the refresh of the file they call under
\* the lock when a server came or went. A server is removed by who has added it.
AddDNS(s) ==
    /\ Alive
    /\ setup = "done" /\ starting # "locked"
    /\ added[s] < MaxAdd
    /\ dns'   = AddEntries(dns, {s})
    /\ added' = [added EXCEPT ![s] = @ + 1]
    /\ Overtake(dns')
    /\ IF Update(dns, {s}, {})
       THEN file' = Listed(dns') /\ stale' = FALSE
       ELSE UNCHANGED <<file, stale>>
    /\ UNCHANGED <<client, thread, current, engine, startup, present, accepted, again,
                   copied, net, requested, left, surprises, end>>

RemoveDNS(s) ==
    /\ Alive
    /\ setup = "done" /\ starting # "locked"
    /\ added[s] > 0
    /\ dns'   = RemoveEntries(dns, {s})
    /\ again' = Doubled(dns, {s})
    /\ added' = [added EXCEPT ![s] = @ - 1]
    /\ Overtake(dns')
    /\ IF Update(dns, {}, {s})
       THEN file' = Listed(dns') /\ stale' = FALSE
       ELSE UNCHANGED <<file, stale>>
    /\ UNCHANGED <<client, thread, current, engine, startup, present, accepted, copied,
                   net, requested, left, surprises, end>>

-----------------------------------------------------------------------------
(* The client and its watchdog                                             *)

CompletedButBusy ==
    /\ socket' = IF socket = "open" THEN "closing" ELSE socket
    /\ UNCHANGED state

\* Completed of the client: idle at once, the socket closes later.
Completed ==
    /\ state'  = "IDLE"
    /\ socket' = IF socket = "open" THEN "closing" ELSE socket

\* The destructor of the engine: it waits until the socket is closed.
Destroyed ==
    /\ state'  = "IDLE"
    /\ socket' = "closed"

SocketClosed ==
    /\ Alive
    /\ socket = "closing"
    /\ thread = "free"
    /\ socket' = "closed"
    /\ UNCHANGED <<state, modus, first, xid, thread, current, engine, startup, control,
                   net, history, end>>

\* Reload of a dynamic interface, by Initialize or by a caller that holds _adminLock or
\* does not: the client's Discover, if it is idle and its socket, which must have
\* closed, opens ...
Discover(lock) ==
    /\ Alive
    /\ present /\ starting = "no"
    /\ state = "IDLE" /\ socket = "closed"
    /\ xid < MaxDiscover
    /\ state'    = "SENDING"
    /\ modus'    = "DISCOVER"
    /\ first'    = None
    /\ xid'      = xid + 1
    /\ socket'   = "open"
    /\ starting' = lock
    /\ UNCHANGED <<thread, current, retries, watchdog, control, net, history, end>>

\* ... and the engine's, which schedules the watchdog when that is under way.
Schedule ==
    /\ Alive
    /\ starting # "no"
    /\ starting' = "no"
    /\ retries'  = ResponseTime + 1
    /\ watchdog' = watchdog + 1
    /\ Surprise("late watchdog", state = "IDLE" \/ modus = "ACK")
    /\ UNCHANGED <<client, thread, current, startup, control, net, requested, added, left,
                   overtaken, stale, end>>

AlwaysRetry == TRUE

MayRetry == retries > 0

\* Dispatch of the engine: another try ...
Retry ==
    /\ Alive
    /\ watchdog > 0 /\ MayRetry
    /\ retries' = retries - 1
    /\ state'   = IF state = "RECEIVING" THEN "SENDING" ELSE state
    /\ UNCHANGED <<modus, first, xid, socket, thread, current, watchdog, starting,
                   startup, control, net, history, end>>

\* ... or the end of it. If the interface is gone the last job takes the engine along.
Expire ==
    /\ Alive
    /\ watchdog > 0 /\ ~MayRetry
    /\ watchdog' = watchdog - 1
    /\ \/ present /\ Completed
       \/ ~present /\ watchdog = 1 /\ thread = "free" /\ Destroyed
       \/ ~present /\ watchdog > 1 /\ UNCHANGED <<state, socket>>
    /\ Surprise("expired in send", present /\ thread = "sending")
    /\ UNCHANGED <<modus, first, xid, thread, current, retries, starting, startup,
                   control, net, requested, added, left, overtaken, stale, end>>

-----------------------------------------------------------------------------
(* The socket thread                                                       *)

\* SendData finds the state SENDING, without the lock ...
SendData ==
    /\ Alive
    /\ thread = "free" /\ socket = "open"
    /\ state = "SENDING"
    /\ thread' = "sending"
    /\ UNCHANGED <<client, current, engine, startup, control, net, history, end>>

\* ... and sends what _modus says. To a discover any of the servers may answer; a
\* request is reported to Update, that takes it for the end of the exchange.
Send ==
    /\ Alive
    /\ thread = "sending"
    /\ thread' = "free"
    /\ IF modus = "DISCOVER"
       THEN /\ state' = "RECEIVING"
            /\ \E answers \in SUBSET Servers :
                  net' = net \cup {[server |-> s, xid |-> xid] : s \in answers}
            /\ UNCHANGED <<socket, requested>>
       ELSE /\ requested' = requested \cup {first}
            /\ IF present
               THEN Completed
               ELSE state' = "RECEIVING" /\ UNCHANGED socket
            /\ UNCHANGED net
    /\ UNCHANGED <<modus, first, xid, current, engine, startup, control, added, left,
                   surprises, overtaken, stale, end>>

\* Offering drops what has not the transaction id of the last discover.
DropOffer(m) ==
    /\ Alive
    /\ thread = "free" /\ socket = "open"
    /\ m.xid # xid
    /\ net' = net \ {m}
    /\ UNCHANGED <<client, thread, current, engine, startup, control, history, end>>

\* Offering keeps the offer and calls Update, which looks the interface up: while the
\* client discovers it takes the first offer, else it is done with the exchange.
ReceiveOffer(m) ==
    /\ Alive
    /\ thread = "free" /\ socket = "open"
    /\ m.xid = xid
    /\ net'   = net \ {m}
    /\ first' = IF first = None THEN m.server ELSE first
    /\ \/ /\ present /\ modus = "DISCOVER"
          /\ thread'  = "updating"
          /\ current' = first'
          /\ UNCHANGED <<state, socket, surprises>>
       \/ /\ present /\ modus = "ACK"
          /\ Completed
          /\ Surprise("second offer", state = "SENDING")
          /\ UNCHANGED <<thread, current>>
       \/ /\ ~present
          /\ UNCHANGED <<state, socket, thread, current, surprises>>
    /\ UNCHANGED <<modus, xid, engine, startup, control, requested, added, left,
                   overtaken, stale, end>>

NoCleanUp == watchdog

\* The watchdogs that are left by CleanUp of the engine.
CleanUp == 0

\* The part of Update under _adminLock: the new servers, then the old ones, and the
\* Acknowledge, which revokes the watchdog whether the client takes it or not.
Acknowledge ==
    /\ Alive
    /\ thread = "updating"
    /\ starting # "locked"
    /\ present
    /\ LET new == AddEntries(dns, Offered(current))
       IN  /\ dns'   = RemoveEntries(new, Offered(accepted))
           /\ again' = Doubled(new, Offered(accepted))
    /\ Overtake(dns')
    /\ requested' = requested \ {current}
    /\ IF state = "RECEIVING"
       THEN state' = "SENDING" /\ modus' = "ACK"
       ELSE UNCHANGED <<state, modus>>
    /\ Surprise("ack refused", state # "RECEIVING")
    /\ watchdog' = CleanUp
    /\ thread'   = IF Update(dns, Offered(current), Offered(accepted))
                   THEN "changed" ELSE "unchanged"
    /\ UNCHANGED <<first, xid, socket, current, retries, starting, startup, present,
                   accepted, file, copied, net, added, left, stale, end>>

\* The rest of Update: the offer is kept, and if the list changed RefreshDNS copies it
\* under the lock ...
KeepOffer ==
    /\ Alive
    /\ present
    /\ accepted' = current
    /\ \/ /\ thread = "unchanged"
          /\ thread'  = "free"
          /\ current' = None
          /\ UNCHANGED copied
       \/ /\ thread = "changed"
          /\ starting # "locked"
          /\ thread' = "refreshing"
          /\ copied' = Listed(dns)
          /\ UNCHANGED current
    /\ UNCHANGED <<client, engine, startup, present, dns, again, file, net, history, end>>

\* ... and writes it to the file without the lock.
WriteFile ==
    /\ Alive
    /\ thread = "refreshing"
    /\ file'      = copied
    /\ copied'    = {}
    /\ stale'     = ("socket" \in overtaken)
    /\ overtaken' = overtaken \ {"socket"}
    /\ thread'    = "free"
    /\ current'   = None
    /\ UNCHANGED <<client, engine, startup, present, accepted, dns, again, net,
                   requested, added, left, surprises, end>>

-----------------------------------------------------------------------------
(* The rest of Initialize                                                  *)

\* The reload of an interface that is dynamic and whose socket opens, or of another ...
FirstReload ==
    /\ Alive
    /\ setup = "reload"
    /\ setup' = "append"
    /\ \/ Discover("setup")
       \/ UNCHANGED <<client, thread, current, engine, control, net, history, end>>
    /\ UNCHANGED <<pending, prepared>>

\* ... and when it has returned the servers of the configuration, each behind the list
\* as it is, without the lock and without a look for the server in it ...
AppendDNS(s) ==
    /\ Alive
    /\ setup = "append" /\ starting # "setup"
    /\ s \in pending
    /\ pending' = pending \ {s}
    /\ dns'     = AddEntries(dns, {s})
    /\ again'   = IF dns[s] > 0 THEN again \cup {s} ELSE again
    /\ Overtake(dns')
    /\ UNCHANGED <<client, thread, current, engine, setup, prepared, present, accepted,
                   file, copied, net, requested, added, left, surprises, stale, end>>

\* ... while the socket thread may be at the list, in Update or in RefreshDNS.
AppendRaces ==
    /\ Alive
    /\ setup = "append" /\ starting # "setup"
    /\ pending # {}
    /\ thread \in {"updating", "changed"}
    /\ end' = "list raced"
    /\ UNCHANGED <<client, thread, current, engine, startup, control, net, history>>

\* The first RefreshDNS, which copies under the lock ...
CopyDNS ==
    /\ Alive
    /\ setup = "append" /\ starting # "setup"
    /\ pending = {}
    /\ setup'    = "write"
    /\ prepared' = Listed(dns)
    /\ UNCHANGED <<client, thread, current, engine, pending, control, net, history, end>>

\* ... and writes without it. From here on the adapters are observed.
WriteDNS ==
    /\ Alive
    /\ setup = "write"
    /\ setup'     = "done"
    /\ file'      = prepared
    /\ prepared'  = {}
    /\ stale'     = ("setup" \in overtaken)
    /\ overtaken' = overtaken \ {"setup"}
    /\ UNCHANGED <<client, thread, current, engine, pending, present, accepted, dns,
                   again, copied, net, requested, added, left, surprises, end>>

\* The reload of an interface by a caller that holds _adminLock or does not.
Reload(lock) == setup = "done" /\ Discover(lock) /\ UNCHANGED startup

-----------------------------------------------------------------------------
(* The adapter disappears                                                  *)

\* Activity erases the interface and its engine, under _adminLock. A scheduled job
\* keeps the engine; otherwise its destructor waits for the socket thread, which may
\* be waiting for the lock, or be using what is erased.
Disappear ==
    /\ Alive
    /\ present
    /\ setup = "done" /\ starting # "locked"
    /\ present'  = FALSE
    /\ left'     = accepted
    /\ accepted' = None
    /\ end' = CASE starting = "unlocked"                           -> "engine freed"
                [] thread = "updating" /\ watchdog = 0             -> "deadlock"
                [] thread \in {"updating", "changed", "unchanged"} -> "info freed"
                [] OTHER                                           -> end
    /\ \/ watchdog > 0 /\ UNCHANGED <<state, socket>>
       \/ watchdog = 0 /\ thread \notin {"sending", "refreshing"} /\ Destroyed
    /\ UNCHANGED <<modus, first, xid, thread, current, engine, startup, dns, again, file,
                   copied, net, requested, added, surprises, overtaken, stale>>

Stopped == ~Alive /\ UNCHANGED vars

-----------------------------------------------------------------------------

Next == \/ \E s \in Dns : AddDNS(s) \/ RemoveDNS(s)
        \/ \E lock \in {"locked", "unlocked"} : Reload(lock)
        \/ FirstReload \/ (\E s \in pending : AppendDNS(s)) \/ AppendRaces
        \/ CopyDNS \/ WriteDNS
        \/ SocketClosed \/ Schedule \/ Retry \/ Expire
        \/ SendData \/ Send \/ Acknowledge \/ KeepOffer \/ WriteFile
        \/ \E m \in net : DropOffer(m) \/ ReceiveOffer(m)
        \/ Disappear
        \/ Stopped

Spec == Init /\ [][Next]_vars

\* The watchdog is dispatched, the socket is served, and a thread goes on with what
\* it began. No fairness for an offer, a reload or a removal.
Fairness ==
    /\ WF_vars(Schedule)
    /\ WF_vars(Retry \/ Expire)
    /\ SF_vars(SendData)
    /\ WF_vars(Send \/ Acknowledge \/ KeepOffer \/ WriteFile)

FairSpec == Spec /\ Fairness

-----------------------------------------------------------------------------
(* Properties                                                              *)

TypeOK ==
    /\ state \in States /\ modus \in Modi
    /\ first \in Servers \cup {None} /\ current \in Servers \cup {None}
    /\ accepted \in Servers \cup {None} /\ left \in Servers \cup {None}
    /\ xid \in 0..MaxDiscover
    /\ socket \in {"closed", "open", "closing"}
    /\ thread \in Points
    /\ retries \in 0..(ResponseTime + 1)
    /\ watchdog \in Nat
    /\ starting \in {"no", "locked", "unlocked", "setup"}
    /\ setup \in Stages /\ pending \subseteq Static /\ prepared \subseteq Dns
    /\ present \in BOOLEAN
    /\ dns \in [Dns -> Nat] /\ added \in [Dns -> 0..MaxAdd]
    /\ again \subseteq Dns
    /\ file \subseteq Dns /\ copied \subseteq Dns
    /\ net \subseteq [server : Servers, xid : 0..MaxDiscover]
    /\ requested \subseteq Servers \cup {None}
    /\ surprises \subseteq Surprises
    /\ overtaken \subseteq Writers /\ stale \in BOOLEAN
    /\ end \in Ends \cup {None}

\* An interface that is being served is not forgotten: a watchdog is to come, or the
\* request that ends the exchange is about to be sent. The two ways out: Acknowledge
\* revokes the watchdog even if the client, caught resending, does not take it, and
\* SendData overwrites the IDLE of a watchdog that expires meanwhile.
NeverStuck ==
    Alive /\ present /\ state # "IDLE"
        => \/ watchdog > 0
           \/ starting # "no"
           \/ state = "SENDING" /\ modus = "ACK"
           \/ surprises \cap {"ack refused", "expired in send"} # {}

\* The offer the interface is counted for.
Held == IF thread \in {"changed", "unchanged"} THEN current ELSE accepted

\* The use count of a DNS server, over both its entries if it has two, is the number of
\* its users: the configuration once Initialize has appended it, the callers of AddDNS,
\* and the interface that was offered it. An interface that disappeared still counts:
\* Activity does not return its servers.
DnsBalance ==
    Alive => \A s \in Dns :
        dns[s] = added[s] + One(s \in Static \ pending) + One(s \in Offered(Held))
                          + One(s \in Offered(left))

\* From the end of Initialize on, the DNS file lists the servers that are in use whenever
\* the socket thread has no refresh to do, unless the last to write it had copied the
\* list before another thread changed it: Initialize and the socket thread write their
\* copies without the lock, in any order.
FileInSync ==
    Alive /\ setup = "done" /\ thread \notin {"changed", "refreshing"}
        => file = Listed(dns) \/ stale

\* An address that was taken from an offer is one the server was asked for, when the
\* exchange is over.
AcceptedIsRequested ==
    Alive /\ accepted # None /\ thread = "free" /\ state = "IDLE"
        => \/ accepted \in requested
           \/ surprises \cap {"ack refused", "second offer", "late watchdog"} # {}

\* Every exchange ends, so that the interface can be reloaded, but for the two ways
\* out of NeverStuck: an exchange that expires before its REQUEST included.
ExchangeEnds ==
    state # "IDLE" ~> \/ state = "IDLE"
                      \/ surprises \cap {"ack refused", "expired in send"} # {}
                      \/ ~Alive
=============================================================================
