----------------------------- MODULE DhcpServer -----------------------------
(***************************************************************************)
(* One server of the DHCPServer plugin: DHCPServerImplementation.h/.cpp,   *)
(* and the requests of DHCPServer.cpp that open and close it.              *)
(*                                                                         *)
(* The threads that meet here are the worker that activates or deactivates *)
(* the server, and the socket thread, which reads datagrams, keeps the     *)
(* leases and sends the queued responses. A worker that lists the leases   *)
(* does so under their lock and changes nothing.                           *)
(*                                                                         *)
(* The network loses, duplicates and delays datagrams. A client accepts    *)
(* only a response to the exchange it is in (the xid it echoes), and of    *)
(* those the first it can use, so that an order in which they overtake     *)
(* each other is one in which some are lost. What delays a response is the *)
(* queue of the server.                                                    *)
(***************************************************************************)
EXTENDS Integers, Sequences, FiniteSets

CONSTANTS
    Clients,      \* client identifiers
    Rude,         \* the clients that ask for any address they like
    Width,        \* how many addresses there are: 2^32 in the code
    PoolBegin,    \* the address _poolStart stands for on the subnet
    PoolEnd,      \* the address _poolStart + _poolSize stands for
    MaxQueue      \* bound: the length of _responses

Polite == Clients \ Rude
Nobody == "nobody"

ASSUME ServerAssumption ==
    /\ Rude \subseteq Clients
    /\ Nobody \notin Clients
    /\ Width \in Nat
    /\ PoolBegin \in 1..(Width - 1)
    /\ PoolEnd \in 1..(Width - 1)
    /\ MaxQueue \in Nat

Addresses == 0..(Width - 1)
None == 0          \* no address: the option is not in the datagram

\* The option OPTION_DHCPMESSAGETYPE of a response. "empty" is the 0 of Base, which
\* stays there if nothing was offered; such a response is not IsValid.
Types == {"empty", "offer", "ack", "nak"}

Phases == {"idle", "selecting", "requesting", "bound"}

VARIABLES
    leases,      \* _leases, as pairs of an identifier and an address
    low,         \* _minAddress
    high,        \* _maxAddress
    last,        \* _lastIssued
    responses,   \* _responses
    open,        \* whether the socket is open
    opening,     \* whether Open has opened the socket and not yet set the markers
    slot,        \* whether the socket waits to be asked for data to send
    phase,       \* where a polite client is in its exchange
    chosen,      \* the offered address it requests or uses
    stranded,    \* history: responses were left in the queue without a trigger
    restarted    \* history: the plugin was deinitialized, the leases forgotten

server == <<leases, last>>
queue == <<responses, slot, stranded>>
socket == <<open, opening, low, high>>
client == <<phase, chosen>>
vars == <<server, queue, socket, client, restarted>>

Leases == [id : Clients, addr : Addresses]
Responses == [type : Types, to : Polite \cup {Nobody}, addr : Addresses]

Init ==
    /\ leases = {} /\ low = 0 /\ high = 0 /\ last = 0
    /\ responses = <<>>
    /\ open = FALSE /\ opening = FALSE /\ slot = FALSE
    /\ phase = [c \in Polite |-> "idle"]
    /\ chosen = [c \in Polite |-> None]
    /\ stranded = FALSE /\ restarted = FALSE

-----------------------------------------------------------------------------
(* The leases. No lease ever gets an _expiration, so IsExpired holds of each. *)

LeasesOf(id) == {l \in leases : l.id = id}
LeasesAt(addr) == {l \in leases : l.addr = addr}

\* The loop that looks for an address: how often it gets to ++_lastIssued at most, with
\* the poolSize that --poolSize starts from an unsigned 0 for an empty pool, ...
Tries == 1..((high - low - 1) % Width)

\* ... what _lastIssued is after k times, and which times end the loop.
NotWrapped(k) == last + k
Tried(k) == (last + k) % Width
FreeTries == {k \in Tries : LeasesAt(Tried(k)) = {}}
FirstFree(k) == k \in FreeTries /\ \A j \in FreeTries : k <= j

\* A response is for the client whose current exchange it answers. One that no polite
\* client will accept is to Nobody, and all that matters of it is whether it is empty.
Response(type, to, addr) ==
    IF to = Nobody /\ type # "empty"
      THEN [type |-> "nak", to |-> Nobody, addr |-> None]
      ELSE [type |-> type, to |-> to, addr |-> addr]

\* Whom the response to a datagram of c is for.
Asker(c, fresh) == IF fresh THEN c ELSE Nobody

\* Submit: the socket is triggered for the first response only. CountedBefore is a Submit
\* that looks at the size before it adds the response.
CountedBefore(type, to, addr) ==
    /\ responses' = Append(responses, Response(type, to, addr))
    /\ slot' = (slot \/ Len(responses) = 1)
    /\ UNCHANGED stranded

Submit(type, to, addr) ==
    /\ responses' = Append(responses, Response(type, to, addr))
    /\ slot' = (slot \/ responses = <<>>)
    /\ UNCHANGED stranded

\* A datagram can be received. It is fresh if it belongs to the exchange that a polite
\* client is in; it may be delayed, and received again, as long as it lasts.
Receivable == open /\ Len(responses) < MaxQueue
Delivers(c, fresh) == fresh => c \in Polite /\ phase[c] # "idle"

Rest == UNCHANGED <<socket, client, restarted>>

\* The discovers a client can send: a polite one has no preference.
Prefers(c, preferred) == preferred = None \/ c \in Rude

\* The client has a lease: it is offered its address, whatever it prefers.
DiscoverKnown(c, fresh) ==
    /\ Receivable /\ Delivers(c, fresh)
    /\ \E l \in LeasesOf(c) : Submit("offer", Asker(c, fresh), l.addr)
    /\ UNCHANGED server /\ Rest

\* It has none and prefers an address that nobody has: it is given that one, whether or
\* not it is in the pool.
DiscoverPreferred(c, preferred, fresh) ==
    /\ Receivable /\ Delivers(c, fresh) /\ Prefers(c, preferred)
    /\ LeasesOf(c) = {} /\ preferred # None /\ LeasesAt(preferred) = {}
    /\ leases' = leases \cup {[id |-> c, addr |-> preferred]}
    /\ Submit("offer", Asker(c, fresh), preferred)
    /\ UNCHANGED last /\ Rest

\* It prefers an address that another client has: the lease, being expired as they all
\* are, is made over to it.
DiscoverTaken(c, preferred, fresh) ==
    /\ Receivable /\ Delivers(c, fresh) /\ Prefers(c, preferred)
    /\ LeasesOf(c) = {} /\ preferred # None
    /\ \E l \in LeasesAt(preferred) : leases' = (leases \ {l}) \cup {[l EXCEPT !.id = c]}
    /\ Submit("offer", Asker(c, fresh), preferred)
    /\ UNCHANGED last /\ Rest

\* The step without the test of the loop: it takes the next address, taken or not.
DiscoverBlindly(c, fresh) ==
    /\ Receivable /\ Delivers(c, fresh)
    /\ LeasesOf(c) = {} /\ Tries # {}
    /\ last' = Tried(1)
    /\ leases' = leases \cup {[id |-> c, addr |-> last']}
    /\ Submit("offer", Asker(c, fresh), last')
    /\ Rest

\* It has no preference: it gets the next address that nobody has.
DiscoverNext(c, fresh) ==
    /\ Receivable /\ Delivers(c, fresh)
    /\ LeasesOf(c) = {}
    /\ \E k \in Tries : FirstFree(k) /\ last' = Tried(k)
    /\ leases' = leases \cup {[id |-> c, addr |-> last']}
    /\ Submit("offer", Asker(c, fresh), last')
    /\ Rest

\* None of the addresses it gets to is free: an empty response is queued.
DiscoverNone(c, fresh) ==
    /\ Receivable /\ Delivers(c, fresh)
    /\ LeasesOf(c) = {} /\ FreeTries = {}
    /\ last' = Tried(Cardinality(Tries))
    /\ Submit("empty", Nobody, None)
    /\ UNCHANGED leases /\ Rest

\* The requests a client can send: a polite one asks the server for what it was offered,
\* or renews its address by a request without identifier of the server or address. What
\* other requests ask for makes no difference: nobody will accept the response.
Requests(c, requested, named, fresh) ==
    \/ ~fresh /\ requested = None
    \/ fresh /\ phase[c] \in {"requesting", "bound"} /\ named /\ requested = chosen[c]
    \/ fresh /\ phase[c] = "bound" /\ ~named /\ requested = None

\* Acknowledged if the client names the server and has a lease, whatever it requests.
ReceiveRequest(c, requested, named, fresh) ==
    /\ Receivable /\ Delivers(c, fresh) /\ Requests(c, requested, named, fresh)
    /\ IF named /\ LeasesOf(c) # {}
         THEN Submit("ack", Asker(c, fresh), requested)
         ELSE Submit("nak", Asker(c, fresh), None)
    /\ UNCHANGED server /\ Rest

\* A decline, release, inform, offer, ack or nak: an empty response is queued.
ReceiveOther(c) ==
    /\ Receivable
    /\ Submit("empty", Nobody, None)
    /\ UNCHANGED server /\ Rest

-----------------------------------------------------------------------------
(* The socket. *)

\* SendData, as the socket thread calls it: again and again, until it gets nothing to
\* send. An invalid response is dropped and nothing sent in its place.
SendNothing ==
    /\ open /\ slot /\ responses = <<>>
    /\ slot' = FALSE
    /\ UNCHANGED <<server, responses, stranded, socket, client, restarted>>

SendDropped ==
    /\ open /\ slot /\ responses # <<>> /\ Head(responses).type = "empty"
    /\ responses' = Tail(responses)
    /\ slot' = FALSE
    /\ stranded' = (Tail(responses) # <<>>)
    /\ UNCHANGED <<server, socket, client, restarted>>

\* A valid response is sent, and lost, or is of no use to its client, ...
SendLost ==
    /\ open /\ slot /\ responses # <<>> /\ Head(responses).type # "empty"
    /\ responses' = Tail(responses)
    /\ UNCHANGED <<server, slot, stranded, socket, client, restarted>>

\* ... or it is received and accepted by its client.
Sends(c, type) ==
    /\ open /\ slot /\ responses # <<>>
    /\ Head(responses).type = type /\ Head(responses).to = c
    /\ responses' = Tail(responses)
    /\ UNCHANGED <<server, slot, stranded, socket, restarted>>

SendOffer(c) ==
    /\ phase[c] = "selecting"
    /\ Sends(c, "offer")
    /\ phase' = [phase EXCEPT ![c] = "requesting"]
    /\ chosen' = [chosen EXCEPT ![c] = Head(responses).addr]

SendAck(c) ==
    /\ phase[c] = "requesting"
    /\ Sends(c, "ack")
    /\ phase' = [phase EXCEPT ![c] = "bound"]
    /\ chosen' = [chosen EXCEPT ![c] = Head(responses).addr]

SendNak(c) ==
    /\ phase[c] \in {"requesting", "bound"}
    /\ Sends(c, "nak")
    /\ phase' = [phase EXCEPT ![c] = "idle"]
    /\ chosen' = [chosen EXCEPT ![c] = None]

\* Open opens the socket, on which datagrams are received from then on. Whether the
\* socket asks for data to send when it is opened is up to the framework.
Open ==
    /\ ~open /\ ~opening
    /\ open' = TRUE /\ opening' = TRUE
    /\ slot' \in BOOLEAN
    /\ stranded' = (responses # <<>> /\ ~slot')
    /\ UNCHANGED <<server, responses, low, high, client, restarted>>

\* It then sets the markers of the pool, ...
MarkersAndLeases ==
    /\ opening
    /\ opening' = FALSE
    /\ low' = PoolBegin /\ high' = PoolEnd /\ last' = PoolBegin
    /\ leases' = {}
    /\ UNCHANGED <<queue, open, client, restarted>>

SetMarkers ==
    /\ opening
    /\ opening' = FALSE
    /\ low' = PoolBegin /\ high' = PoolEnd /\ last' = PoolBegin
    /\ UNCHANGED <<leases, queue, open, client, restarted>>

\* ... unless the socket refuses to broadcast: it stays open without them.
NoBroadcast ==
    /\ opening
    /\ opening' = FALSE
    /\ UNCHANGED <<server, queue, open, low, high, client, restarted>>

\* To open a server that is open fails, and sets the markers all the same.
OpenAgain ==
    /\ open /\ ~opening
    /\ low' = PoolBegin /\ high' = PoolEnd /\ last' = PoolBegin
    /\ UNCHANGED <<leases, queue, open, opening, client, restarted>>

\* Close leaves leases and responses as they are.
Close ==
    /\ open
    /\ open' = FALSE
    /\ slot' = FALSE
    /\ stranded' = (responses # <<>>)
    /\ UNCHANGED <<server, responses, opening, low, high, client, restarted>>

\* The plugin is deinitialized, which destroys its servers, and initialized again. Bound:
\* once, and no client is in the middle of an exchange.
Reinitialize ==
    /\ ~opening /\ ~restarted
    /\ \A c \in Polite : phase[c] \in {"idle", "bound"}
    /\ leases' = {} /\ last' = 0 /\ low' = 0 /\ high' = 0
    /\ responses' = <<>> /\ slot' = FALSE /\ stranded' = FALSE
    /\ open' = FALSE
    /\ restarted' = TRUE
    /\ UNCHANGED <<opening, client>>

-----------------------------------------------------------------------------
\* A polite client starts a new exchange, at any time: what answers the one before it is
\* no longer for it.
StartExchange(c) ==
    /\ phase' = [phase EXCEPT ![c] = "selecting"]
    /\ chosen' = [chosen EXCEPT ![c] = None]
    /\ responses' = [i \in DOMAIN responses |->
                       LET r == responses[i] IN
                       Response(r.type, IF r.to = c THEN Nobody ELSE r.to, r.addr)]
    /\ UNCHANGED <<server, slot, stranded, socket, restarted>>

-----------------------------------------------------------------------------
Next ==
    \/ \E c \in Clients, fresh \in BOOLEAN : DiscoverKnown(c, fresh)
    \/ \E c \in Clients, a \in Addresses, fresh \in BOOLEAN : DiscoverPreferred(c, a, fresh)
    \/ \E c \in Clients, a \in Addresses, fresh \in BOOLEAN : DiscoverTaken(c, a, fresh)
    \/ \E c \in Clients, fresh \in BOOLEAN : DiscoverNext(c, fresh)
    \/ \E c \in Clients, fresh \in BOOLEAN : DiscoverNone(c, fresh)
    \/ \E c \in Clients, a \in Addresses, named, fresh \in BOOLEAN :
          ReceiveRequest(c, a, named, fresh)
    \/ \E c \in Clients : ReceiveOther(c)
    \/ SendNothing \/ SendDropped \/ SendLost
    \/ Open \/ SetMarkers \/ NoBroadcast \/ OpenAgain \/ Close \/ Reinitialize
    \/ \E c \in Polite : StartExchange(c) \/ SendOffer(c) \/ SendAck(c) \/ SendNak(c)

Spec == Init /\ [][Next]_vars

-----------------------------------------------------------------------------
(* Properties *)

\* Types, with the bound of the queue.
TypeOK ==
    /\ leases \subseteq Leases
    /\ low \in Addresses /\ high \in Addresses /\ last \in Addresses
    /\ responses \in Seq(Responses) /\ Len(responses) <= MaxQueue
    /\ open \in BOOLEAN /\ opening \in BOOLEAN /\ slot \in BOOLEAN
    /\ phase \in [Polite -> Phases]
    /\ chosen \in [Polite -> Addresses]
    /\ stranded \in BOOLEAN /\ restarted \in BOOLEAN

\* The list of leases, to which Discover adds in three ways and of which it makes over
\* entries, never has two leases of a client nor two of an address.
LeasesUnique ==
    \A l, m \in leases : l.id = m.id \/ l.addr = m.addr => l = m

\* Submit triggers the socket for the first response only. That is enough as long as the
\* socket asks until there is no response: a queue that nobody will ask for is one that
\* was left behind an invalid response or by Close, and it stays so until Open.
QueueServed ==
    /\ open /\ responses # <<>> => slot \/ stranded
    /\ stranded => responses # <<>> /\ ~slot

\* Discover and Request between them give an address to one polite client at a time,
\* whatever is lost, repeated or delayed, whatever the rude clients take, and however
\* often the server is closed and opened: only a restart of the plugin, which forgets
\* the leases, can break it.
ExclusiveAddress ==
    ~restarted =>
      \A c, d \in Polite :
        phase[c] = "bound" /\ phase[d] = "bound" /\ chosen[c] = chosen[d] => c = d

\* An address in use by a polite client is still leased to it, or to the rude client that
\* Discover made the lease over to: to nobody else, and not forgotten.
BoundIsLeased ==
    ~restarted =>
      \A c \in Polite :
        phase[c] = "bound" => \E l \in LeasesAt(chosen[c]) : l.id \in Rude \cup {c}

\* DHCPServerImplementation.cpp:31 calls _minAddress and _maxAddress "the under and upper
\* marker of the dhcp server address pool". An address the server chose, in a pool whose
\* markers are set, would not be beyond the upper one.
PoolRespected ==
    low # 0 /\ Rude = {} => \A l \in leases : l.addr <= high

=============================================================================
