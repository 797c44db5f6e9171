-------------------------- MODULE DhcpServerProofs --------------------------
(***************************************************************************)
(* What TLAPS proves of DhcpServer, for any clients, addresses, pool and   *)
(* length of the queue: the types, that leases are unique, that no queue   *)
(* is forgotten but the ones the code strands, and that no two polite      *)
(* clients use one address.                                                *)
(***************************************************************************)
EXTENDS DhcpServer, FiniteSetTheorems, TLAPS

\* The members of the enumerated sets, so that no step has to expand them.
LEMMA Members ==
    /\ {"empty", "offer", "ack", "nak"} \subseteq Types
    /\ {"idle", "selecting", "requesting", "bound"} \subseteq Phases
  BY DEF Types, Phases

LEMMA Constants ==
    /\ Width \in Nat /\ Width > 1 /\ MaxQueue \in Nat
    /\ None \in Addresses /\ PoolBegin \in Addresses /\ PoolEnd \in Addresses
    /\ Nobody \notin Clients /\ Rude \subseteq Clients /\ Polite \subseteq Clients
  BY ServerAssumption DEF None, Addresses, Polite

\* A response is one, and added at the end of the queue.
LEMMA ResponseType ==
    ASSUME NEW type \in Types, NEW to \in Polite \cup {Nobody}, NEW addr \in Addresses
    PROVE  Response(type, to, addr) \in Responses
  BY Constants, Members DEF Response, Responses

LEMMA EmptyQueue == <<>> \in Seq(Responses) /\ Len(<<>>) <= MaxQueue
  BY Constants

LEMMA SubmitType ==
    ASSUME responses \in Seq(Responses), Len(responses) < MaxQueue, slot \in BOOLEAN,
           NEW type \in Types, NEW to \in Polite \cup {Nobody}, NEW addr \in Addresses,
           Submit(type, to, addr)
    PROVE  /\ responses' \in Seq(Responses) /\ Len(responses') <= MaxQueue
           /\ slot' \in BOOLEAN
  <1>1. Response(type, to, addr) \in Responses
    BY ResponseType
  <1>2. responses' = Append(responses, Response(type, to, addr))
    BY DEF Submit
  <1>3. slot' \in BOOLEAN
    BY DEF Submit
  <1> QED BY <1>1, <1>2, <1>3, Constants

\* The addresses the loop gets to are addresses.
LEMMA TriedType ==
    ASSUME TypeOK, NEW k \in Nat
    PROVE  Tried(k) \in Addresses
  <1>1. last + k \in Nat
    BY DEF TypeOK, Addresses
  <1> QED BY <1>1, Constants DEF Tried, Addresses

\* The loop gets to a natural number of addresses.
LEMMA TriesCounted ==
    ASSUME TypeOK
    PROVE  Cardinality(Tries) \in Nat
  <1>1. (high - low - 1) % Width \in Nat
    BY Constants DEF TypeOK, Addresses
  <1>2. IsFiniteSet(Tries)
    BY <1>1, FS_Interval DEF Tries
  <1> QED BY <1>2, FS_CardinalityType

\* To start a new exchange changes only whom responses are for.
LEMMA StaleType ==
    ASSUME TypeOK, NEW c \in Polite, StartExchange(c)
    PROVE  responses' \in Seq(Responses) /\ Len(responses') = Len(responses)
           /\ Len(responses') <= MaxQueue
  <1> DEFINE stale(i) == Response(responses[i].type,
                           IF responses[i].to = c THEN Nobody ELSE responses[i].to,
                           responses[i].addr)
  <1>1. ASSUME NEW i \in 1..Len(responses) PROVE stale(i) \in Responses
    <2>1. responses[i] \in Responses
      BY DEF TypeOK
    <2> QED BY <2>1, ResponseType DEF Responses
  <1>2. responses' = [i \in 1..Len(responses) |-> stale(i)]
    BY DEF StartExchange, TypeOK
  <1>3. Len(responses) \in Nat
    BY DEF TypeOK
  <1> HIDE DEF stale
  <1>4. responses' \in [1..Len(responses) -> Responses]
    BY <1>1, <1>2
  <1> QED BY <1>3, <1>4 DEF TypeOK

-----------------------------------------------------------------------------
(* Types *)

\* Every step keeps the types.
LEMMA TypeInvariance == TypeOK /\ [Next]_vars => TypeOK'
  <1> SUFFICES ASSUME TypeOK, [Next]_vars PROVE TypeOK'
    OBVIOUS
  <1> USE Constants, Members
  <1>a. ASSUME NEW c \in Clients, NEW fresh \in BOOLEAN, Delivers(c, fresh)
        PROVE  Asker(c, fresh) \in Polite \cup {Nobody}
    BY <1>a DEF Delivers, Asker
  <1>b. ASSUME NEW type \in Types, NEW to \in Polite \cup {Nobody}, NEW addr \in Addresses,
               Submit(type, to, addr), Receivable, Rest
        PROVE  /\ responses' \in Seq(Responses) /\ Len(responses') <= MaxQueue
               /\ slot' \in BOOLEAN /\ stranded' \in BOOLEAN
               /\ low' \in Addresses /\ high' \in Addresses
               /\ open' \in BOOLEAN /\ opening' \in BOOLEAN /\ restarted' \in BOOLEAN
               /\ phase' \in [Polite -> Phases] /\ chosen' \in [Polite -> Addresses]
    <2>1. /\ responses' \in Seq(Responses) /\ Len(responses') <= MaxQueue
          /\ slot' \in BOOLEAN
      BY <1>b, SubmitType DEF TypeOK, Receivable
    <2>2. stranded' \in BOOLEAN
      BY <1>b DEF TypeOK, Submit
    <2> QED BY <1>b, <2>1, <2>2 DEF TypeOK, Rest, socket, client
  <1>c. ASSUME responses # <<>>
        PROVE  /\ Head(responses) \in Responses
               /\ Tail(responses) \in Seq(Responses) /\ Len(Tail(responses)) <= MaxQueue
    BY <1>c DEF TypeOK
  <1>1. ASSUME NEW c \in Clients, NEW fresh \in BOOLEAN, DiscoverKnown(c, fresh)
        PROVE  TypeOK'
    <2>1. PICK l \in LeasesOf(c) : Submit("offer", Asker(c, fresh), l.addr)
      BY <1>1 DEF DiscoverKnown
    <2>2. l.addr \in Addresses
      BY DEF LeasesOf, TypeOK, Leases
    <2>3. Asker(c, fresh) \in Polite \cup {Nobody} /\ Receivable /\ Rest /\ UNCHANGED server
      BY <1>1, <1>a DEF DiscoverKnown
    <2> QED BY <2>1, <2>2, <2>3, <1>b DEF TypeOK, server
  <1>2. ASSUME NEW c \in Clients, NEW a \in Addresses, NEW fresh \in BOOLEAN,
               DiscoverPreferred(c, a, fresh)
        PROVE  TypeOK'
    <2>1. /\ Submit("offer", Asker(c, fresh), a) /\ Receivable /\ Rest
          /\ Asker(c, fresh) \in Polite \cup {Nobody} /\ UNCHANGED last
      BY <1>2, <1>a DEF DiscoverPreferred
    <2>2. leases' \subseteq Leases
      BY <1>2 DEF DiscoverPreferred, TypeOK, Leases
    <2> QED BY <2>1, <2>2, <1>b DEF TypeOK
  <1>3. ASSUME NEW c \in Clients, NEW a \in Addresses, NEW fresh \in BOOLEAN,
               DiscoverTaken(c, a, fresh)
        PROVE  TypeOK'
    <2>1. /\ Submit("offer", Asker(c, fresh), a) /\ Receivable /\ Rest
          /\ Asker(c, fresh) \in Polite \cup {Nobody} /\ UNCHANGED last
      BY <1>3, <1>a DEF DiscoverTaken
    <2>2. leases' \subseteq Leases
      BY <1>3 DEF DiscoverTaken, LeasesAt, TypeOK, Leases
    <2> QED BY <2>1, <2>2, <1>b DEF TypeOK
  <1>4. ASSUME NEW c \in Clients, NEW fresh \in BOOLEAN, DiscoverNext(c, fresh)
        PROVE  TypeOK'
    <2>1. last' \in Addresses
      BY <1>4, TriedType DEF DiscoverNext, Tries
    <2>2. /\ Submit("offer", Asker(c, fresh), last') /\ Receivable /\ Rest
          /\ Asker(c, fresh) \in Polite \cup {Nobody}
      BY <1>4, <1>a DEF DiscoverNext
    <2>3. leases' \subseteq Leases
      BY <1>4, <2>1 DEF DiscoverNext, TypeOK, Leases
    <2> QED BY <2>1, <2>2, <2>3, <1>b DEF TypeOK
  <1>5. ASSUME NEW c \in Clients, NEW fresh \in BOOLEAN, DiscoverNone(c, fresh)
        PROVE  TypeOK'
    <2>1. last' \in Addresses
      BY <1>5, TriedType, TriesCounted DEF DiscoverNone
    <2>2. Submit("empty", Nobody, None) /\ Receivable /\ Rest /\ UNCHANGED leases
      BY <1>5 DEF DiscoverNone
    <2> QED BY <2>1, <2>2, <1>b DEF TypeOK
  <1>6. ASSUME NEW c \in Clients, NEW a \in Addresses, NEW named \in BOOLEAN,
               NEW fresh \in BOOLEAN, ReceiveRequest(c, a, named, fresh)
        PROVE  TypeOK'
    <2>1. Asker(c, fresh) \in Polite \cup {Nobody} /\ Receivable /\ Rest /\ UNCHANGED server
      BY <1>6, <1>a DEF ReceiveRequest
    <2>2. \/ Submit("ack", Asker(c, fresh), a)
          \/ Submit("nak", Asker(c, fresh), None)
      BY <1>6 DEF ReceiveRequest
    <2> QED BY <2>1, <2>2, <1>b DEF TypeOK, server
  <1>7. ASSUME NEW c \in Clients, ReceiveOther(c) PROVE TypeOK'
    <2>1. Submit("empty", Nobody, None) /\ Receivable /\ Rest /\ UNCHANGED server
      BY <1>7 DEF ReceiveOther
    <2> QED BY <2>1, <1>b DEF TypeOK, server
  <1>8. ASSUME SendNothing PROVE TypeOK'
    BY <1>8 DEF SendNothing, server, socket, client, TypeOK
  <1>9. ASSUME SendDropped PROVE TypeOK'
    <2>1. stranded' \in BOOLEAN
      BY <1>9 DEF SendDropped
    <2> QED BY <1>9, <2>1, <1>c DEF SendDropped, server, socket, client, TypeOK
  <1>10. ASSUME SendLost PROVE TypeOK'
    BY <1>10, <1>c DEF SendLost, server, socket, client, TypeOK
  <1>11. ASSUME NEW c \in Polite, SendOffer(c) \/ SendAck(c) \/ SendNak(c) PROVE TypeOK'
    <2>1. /\ responses # <<>> /\ responses' = Tail(responses)
          /\ UNCHANGED <<server, slot, stranded, socket, restarted>>
      BY <1>11 DEF SendOffer, SendAck, SendNak, Sends
    <2>2. Head(responses).addr \in Addresses
      BY <2>1, <1>c DEF Responses
    <2>3. phase' \in [Polite -> Phases] /\ chosen' \in [Polite -> Addresses]
      BY <1>11, <2>2 DEF SendOffer, SendAck, SendNak, TypeOK
    <2> QED BY <2>1, <2>3, <1>c DEF server, socket, TypeOK
  <1>12. ASSUME Open PROVE TypeOK'
    <2>1. slot' \in BOOLEAN /\ stranded' \in BOOLEAN /\ open' \in BOOLEAN /\ opening' \in BOOLEAN
      BY <1>12 DEF Open
    <2> QED BY <1>12, <2>1 DEF Open, server, client, TypeOK
  <1>13. ASSUME SetMarkers \/ NoBroadcast \/ OpenAgain PROVE TypeOK'
    BY <1>13 DEF SetMarkers, NoBroadcast, OpenAgain, server, queue, client, TypeOK
  <1>14. ASSUME Close PROVE TypeOK'
    <2>1. stranded' \in BOOLEAN
      BY <1>14 DEF Close
    <2> QED BY <1>14, <2>1 DEF Close, server, client, TypeOK
  <1>15. ASSUME Reinitialize PROVE TypeOK'
    <2>1. responses' \in Seq(Responses) /\ Len(responses') <= MaxQueue
      BY <1>15, EmptyQueue DEF Reinitialize
    <2>2. last' \in Addresses /\ low' \in Addresses /\ high' \in Addresses /\ leases' \subseteq Leases
      BY <1>15 DEF Reinitialize, None
    <2> QED BY <1>15, <2>1, <2>2 DEF Reinitialize, client, TypeOK
  <1>16. ASSUME NEW c \in Polite, StartExchange(c) PROVE TypeOK'
    <2>1. responses' \in Seq(Responses) /\ Len(responses') <= MaxQueue
      BY <1>16, StaleType
    <2>2. phase' \in [Polite -> Phases] /\ chosen' \in [Polite -> Addresses]
      BY <1>16 DEF StartExchange, TypeOK
    <2> QED BY <1>16, <2>1, <2>2 DEF StartExchange, server, socket, TypeOK
  <1>17. CASE UNCHANGED vars
    BY <1>17 DEF vars, server, queue, socket, client, TypeOK
  <1> QED
    BY <1>1, <1>2, <1>3, <1>4, <1>5, <1>6, <1>7, <1>8, <1>9, <1>10, <1>11, <1>12, <1>13,
       <1>14, <1>15, <1>16, <1>17 DEF Next

LEMMA InitialTypes == Init => TypeOK
  <1> SUFFICES ASSUME Init PROVE TypeOK
    OBVIOUS
  <1>1. responses \in Seq(Responses) /\ Len(responses) <= MaxQueue
    BY EmptyQueue DEF Init
  <1>2. last \in Addresses /\ low \in Addresses /\ high \in Addresses /\ leases \subseteq Leases
    BY Constants DEF Init, None
  <1>3. phase \in [Polite -> Phases] /\ chosen \in [Polite -> Addresses]
    BY Constants, Members DEF Init
  <1> QED BY <1>1, <1>2, <1>3 DEF Init, TypeOK

\* TypeOK holds of the server in every state of every behaviour.
THEOREM TypeCorrect == Spec => []TypeOK
  BY InitialTypes, TypeInvariance, PTL DEF Spec

-----------------------------------------------------------------------------
(* Leases *)

\* Every step keeps the leases unique: one is added only for a client and an address
\* that have none.
LEMMA UniqueInvariance == TypeOK /\ LeasesUnique /\ [Next]_vars => LeasesUnique'
  <1> SUFFICES ASSUME TypeOK, LeasesUnique, [Next]_vars PROVE LeasesUnique'
    OBVIOUS
  <1>a. ASSUME NEW c, NEW a, LeasesOf(c) = {}, LeasesAt(a) = {},
               leases' = leases \cup {[id |-> c, addr |-> a]}
        PROVE  LeasesUnique'
    BY <1>a DEF LeasesUnique, LeasesOf, LeasesAt
  <1>b. ASSUME leases' = leases \/ leases' = {}
        PROVE  LeasesUnique'
    BY <1>b DEF LeasesUnique
  <1>1. ASSUME NEW c \in Clients, NEW a \in Addresses, NEW fresh \in BOOLEAN,
               DiscoverPreferred(c, a, fresh)
        PROVE  LeasesUnique'
    BY <1>1, <1>a DEF DiscoverPreferred
  <1>2. ASSUME NEW c \in Clients, NEW a \in Addresses, NEW fresh \in BOOLEAN,
               DiscoverTaken(c, a, fresh)
        PROVE  LeasesUnique'
    <2>1. PICK l \in LeasesAt(a) : leases' = (leases \ {l}) \cup {[l EXCEPT !.id = c]}
      BY <1>2 DEF DiscoverTaken
    <2> DEFINE n == [l EXCEPT !.id = c]
    <2>2. l \in leases /\ l \in Leases /\ LeasesOf(c) = {}
      BY <1>2 DEF DiscoverTaken, LeasesAt, TypeOK
    <2>3. n.addr = l.addr /\ n.id = c
      BY <2>2 DEF Leases
    <2>4. \A m \in leases \ {l} : m.id # c /\ m.addr # l.addr
      BY <2>2 DEF LeasesUnique, LeasesOf
    <2>5. leases' = (leases \ {l}) \cup {n}
      BY <2>1
    <2> HIDE DEF n
    <2> QED BY <2>3, <2>4, <2>5 DEF LeasesUnique
  <1>3. ASSUME NEW c \in Clients, NEW fresh \in BOOLEAN, DiscoverNext(c, fresh)
        PROVE  LeasesUnique'
    BY <1>3, <1>a DEF DiscoverNext, FirstFree, FreeTries
  <1>4. ASSUME ~ \E c \in Clients, a \in Addresses, fresh \in BOOLEAN :
                    \/ DiscoverPreferred(c, a, fresh) \/ DiscoverTaken(c, a, fresh)
                    \/ DiscoverNext(c, fresh)
        PROVE  LeasesUnique'
    <2>1. leases' = leases \/ leases' = {}
      <3>1. CASE UNCHANGED vars
        BY <3>1 DEF vars, server
      <3>2. CASE \E c \in Clients, fresh \in BOOLEAN : DiscoverKnown(c, fresh)
        BY <3>2 DEF DiscoverKnown, server
      <3>3. CASE \E c \in Clients, fresh \in BOOLEAN : DiscoverNone(c, fresh)
        BY <3>3 DEF DiscoverNone
      <3>4. CASE \/ \E c \in Clients, a \in Addresses, named, fresh \in BOOLEAN :
                       ReceiveRequest(c, a, named, fresh)
                 \/ \E c \in Clients : ReceiveOther(c)
        BY <3>4 DEF ReceiveRequest, ReceiveOther, server
      <3>5. CASE SendNothing \/ SendDropped \/ SendLost
        BY <3>5 DEF SendNothing, SendDropped, SendLost, server
      <3>6. CASE Open \/ SetMarkers \/ NoBroadcast \/ OpenAgain \/ Close \/ Reinitialize
        BY <3>6 DEF Open, SetMarkers, NoBroadcast, OpenAgain, Close, Reinitialize, server
      <3>7. CASE \E c \in Polite : StartExchange(c) \/ SendOffer(c) \/ SendAck(c) \/ SendNak(c)
        BY <3>7 DEF StartExchange, SendOffer, SendAck, SendNak, Sends, server
      <3>8. None \in Addresses
        BY Constants
      <3> QED BY <1>4, <3>1, <3>2, <3>3, <3>4, <3>5, <3>6, <3>7, <3>8 DEF Next
    <2> QED BY <2>1, <1>b
  <1> QED BY <1>1, <1>2, <1>3, <1>4

\* The server never leases one address twice, nor two addresses to one client.
THEOREM OneLeaseEach == Spec => []LeasesUnique
  <1>1. Init => LeasesUnique
    BY DEF Init, LeasesUnique
  <1>2. Init => TypeOK
    BY InitialTypes
  <1> QED BY <1>1, <1>2, TypeInvariance, UniqueInvariance, PTL DEF Spec

-----------------------------------------------------------------------------
(* The queue *)

\* A queue that the socket will not be asked for is one that is known to be stranded.
LEMMA ServedInvariance == TypeOK /\ QueueServed /\ [Next]_vars => QueueServed'
  <1> SUFFICES ASSUME TypeOK, QueueServed, [Next]_vars PROVE QueueServed'
    OBVIOUS
  <1>a. ASSUME Receivable, Rest, NEW type, NEW to, NEW addr, Submit(type, to, addr)
        PROVE  QueueServed'
    <2>1. responses' # <<>>
      BY <1>a DEF Submit, TypeOK
    <2>2. open /\ stranded' = stranded /\ (slot' <=> slot \/ responses = <<>>)
      BY <1>a DEF Submit, Receivable
    <2>3. open'
      BY <1>a, <2>2 DEF Rest, socket
    <2> QED BY <2>1, <2>2, <2>3 DEF QueueServed
  <1>1. ASSUME NEW c \in Clients, NEW fresh \in BOOLEAN, DiscoverKnown(c, fresh)
        PROVE  QueueServed'
    BY <1>1, <1>a DEF DiscoverKnown
  <1>2. ASSUME NEW c \in Clients, NEW a \in Addresses, NEW fresh \in BOOLEAN,
               DiscoverPreferred(c, a, fresh) \/ DiscoverTaken(c, a, fresh)
        PROVE  QueueServed'
    BY <1>2, <1>a DEF DiscoverPreferred, DiscoverTaken
  <1>3. ASSUME NEW c \in Clients, NEW fresh \in BOOLEAN,
               DiscoverNext(c, fresh) \/ DiscoverNone(c, fresh)
        PROVE  QueueServed'
    BY <1>3, <1>a DEF DiscoverNext, DiscoverNone
  <1>4. ASSUME NEW c \in Clients, NEW a \in Addresses, NEW named \in BOOLEAN,
               NEW fresh \in BOOLEAN, ReceiveRequest(c, a, named, fresh)
        PROVE  QueueServed'
    BY <1>4, <1>a DEF ReceiveRequest
  <1>5. ASSUME NEW c \in Clients, ReceiveOther(c) PROVE QueueServed'
    BY <1>5, <1>a DEF ReceiveOther
  <1>6. CASE SendNothing
    BY <1>6 DEF SendNothing, socket, QueueServed
  <1>7. CASE SendDropped
    BY <1>7 DEF SendDropped, socket, QueueServed
  <1>8. CASE SendLost \/ \E c \in Polite : SendOffer(c) \/ SendAck(c) \/ SendNak(c)
    <2>1. slot /\ UNCHANGED <<slot, stranded>>
      BY <1>8 DEF SendLost, SendOffer, SendAck, SendNak, Sends
    <2> QED BY <2>1 DEF QueueServed
  <1>9. CASE Open
    BY <1>9 DEF Open, QueueServed
  <1>10. CASE SetMarkers \/ NoBroadcast \/ OpenAgain
    BY <1>10 DEF SetMarkers, NoBroadcast, OpenAgain, queue, QueueServed
  <1>11. CASE Close \/ Reinitialize
    BY <1>11 DEF Close, Reinitialize, QueueServed
  <1>12. CASE \E c \in Polite : StartExchange(c)
    <2>1. UNCHANGED <<slot, stranded, open>>
      BY <1>12 DEF StartExchange, socket
    <2>2. responses' = <<>> <=> responses = <<>>
      BY <1>12, StaleType DEF TypeOK
    <2> QED BY <2>1, <2>2 DEF QueueServed
  <1>13. CASE UNCHANGED vars
    BY <1>13 DEF vars, queue, socket, QueueServed
  <1> QED
    BY <1>1, <1>2, <1>3, <1>4, <1>5, <1>6, <1>7, <1>8, <1>9, <1>10, <1>11, <1>12, <1>13 DEF Next

\* Only a dropped response or Close leaves responses in a queue nobody will ask for.
THEOREM QueueNotForgotten == Spec => []QueueServed
  <1>1. Init => QueueServed
    BY DEF Init, QueueServed
  <1> QED BY <1>1, InitialTypes, TypeInvariance, ServedInvariance, PTL DEF Spec

-----------------------------------------------------------------------------
(* Addresses in use *)

\* A polite client may come to use an address: it requests or uses it, or a response that
\* gives it to the client is in the queue.
Grants(i, c, a) ==
    /\ responses[i].to = c /\ responses[i].type \in {"offer", "ack"}
    /\ responses[i].addr = a

Claims(c, a) ==
    \/ phase[c] \in {"requesting", "bound"} /\ chosen[c] = a
    \/ \E i \in 1..Len(responses) : Grants(i, c, a)

\* Whoever may come to use an address has its lease, unless a rude client took it, ...
ClaimsAreLeased ==
    \A c \in Polite, a \in Addresses :
      Claims(c, a) => \E l \in LeasesAt(a) : l.id \in Rude \cup {c}

\* ... and no other may.
ClaimsAreExclusive ==
    \A c, d \in Polite, a \in Addresses : Claims(c, a) /\ Claims(d, a) => c = d

ClaimsInv == ~restarted => ClaimsAreLeased /\ ClaimsAreExclusive

\* A response that is added gives its client its address, if it gives one at all.
LEMMA ClaimsOfSubmit ==
    ASSUME TypeOK, Rest, NEW type \in Types, NEW to \in Polite \cup {Nobody},
           NEW addr \in Addresses, Submit(type, to, addr), NEW d \in Polite, NEW a, Claims(d, a)'
    PROVE  Claims(d, a) \/ (to = d /\ type \in {"offer", "ack"} /\ addr = a)
  <1>1. UNCHANGED <<phase, chosen>>
    BY DEF Rest, client
  <1>2. CASE \E i \in 1..Len(responses') : Grants(i, d, a)'
    <2>1. PICK i \in 1..Len(responses') : Grants(i, d, a)'
      BY <1>2
    <2>2. responses' = Append(responses, Response(type, to, addr))
      BY DEF Submit
    <2>3. responses \in Seq(Responses) /\ Response(type, to, addr) \in Responses
      BY ResponseType DEF TypeOK
    <2>4. CASE i = Len(responses) + 1
      <3>1. responses'[i] = Response(type, to, addr)
        BY <2>2, <2>3, <2>4
      <3>2. to = d
        BY <2>1, <3>1, Constants DEF Grants, Response
      <3>3. Response(type, to, addr) = [type |-> type, to |-> to, addr |-> addr]
        BY <3>2, Constants DEF Response
      <3> QED BY <2>1, <3>1, <3>2, <3>3 DEF Grants
    <2>5. CASE i # Len(responses) + 1
      <3>1. i \in 1..Len(responses) /\ responses'[i] = responses[i]
        BY <2>1, <2>2, <2>3, <2>5
      <3> QED BY <2>1, <3>1 DEF Grants, Claims
    <2> QED BY <2>4, <2>5
  <1>3. CASE (phase[d] \in {"requesting", "bound"} /\ chosen[d] = a)'
    BY <1>1, <1>3 DEF Claims
  <1> QED BY <1>2, <1>3 DEF Claims

\* What is left of a queue of which the head is sent gives nothing new.
LEMMA ClaimsOfTail ==
    ASSUME TypeOK, responses # <<>>, responses' = Tail(responses), NEW d, NEW a,
           \E i \in 1..Len(responses') : Grants(i, d, a)'
    PROVE  Claims(d, a)
  <1>1. PICK i \in 1..Len(responses') : Grants(i, d, a)'
    OBVIOUS
  <1>2. i + 1 \in 1..Len(responses) /\ responses'[i] = responses[i + 1]
    BY <1>1 DEF TypeOK
  <1>3. Grants(i + 1, d, a)
    BY <1>1, <1>2 DEF Grants
  <1> QED BY <1>2, <1>3 DEF Claims

\* A step that adds no claim and takes no lease keeps what is said of them.
LEMMA NoNewClaims ==
    ASSUME ClaimsInv, leases \subseteq leases', restarted' = restarted,
           \A c \in Polite, a \in Addresses : Claims(c, a)' => Claims(c, a)
    PROVE  ClaimsInv'
  <1>1. \A a \in Addresses : LeasesAt(a) \subseteq LeasesAt(a)'
    BY DEF LeasesAt
  <1>2. ASSUME ~restarted PROVE ClaimsAreLeased' /\ ClaimsAreExclusive'
    <2>1. ClaimsAreLeased /\ ClaimsAreExclusive
      BY <1>2 DEF ClaimsInv
    <2>2. ClaimsAreLeased'
      BY <1>1, <2>1 DEF ClaimsAreLeased
    <2>3. ClaimsAreExclusive'
      BY <2>1 DEF ClaimsAreExclusive
    <2> QED BY <2>2, <2>3
  <1> QED BY <1>2 DEF ClaimsInv

\* Every step keeps what is said of claims.
LEMMA ClaimsInvariance ==
    TypeOK /\ LeasesUnique /\ ClaimsInv /\ [Next]_vars => ClaimsInv'
  <1> SUFFICES ASSUME TypeOK, LeasesUnique, ClaimsInv, [Next]_vars PROVE ClaimsInv'
    OBVIOUS
  <1> USE Constants, Members
  <1>a. ASSUME NEW c \in Clients, NEW fresh \in BOOLEAN, Delivers(c, fresh)
        PROVE  /\ Asker(c, fresh) \in Polite \cup {Nobody}
               /\ Asker(c, fresh) \in Polite => Asker(c, fresh) = c /\ c \notin Rude
    BY <1>a DEF Delivers, Asker, Polite
  <1>b. ASSUME Rest PROVE restarted' = restarted
    BY <1>b DEF Rest
  <1>1. ASSUME NEW c \in Clients, NEW fresh \in BOOLEAN, DiscoverKnown(c, fresh)
        PROVE  ClaimsInv'
    <2>1. PICK l \in LeasesOf(c) : Submit("offer", Asker(c, fresh), l.addr)
      BY <1>1 DEF DiscoverKnown
    <2>2. /\ l \in leases /\ l.id = c /\ l.addr \in Addresses
          /\ Rest /\ leases' = leases /\ restarted' = restarted
      BY <1>1, <1>b DEF DiscoverKnown, LeasesOf, TypeOK, Leases, server
    <2>3. \A d \in Polite, a \in Addresses :
             Claims(d, a)' => Claims(d, a) \/ (d = c /\ c \notin Rude /\ a = l.addr)
      BY <1>1, <1>a, <2>1, <2>2, ClaimsOfSubmit DEF DiscoverKnown
    <2>4. ASSUME ~restarted PROVE ClaimsAreLeased' /\ ClaimsAreExclusive'
      <3>1. ClaimsAreLeased /\ ClaimsAreExclusive
        BY <2>4 DEF ClaimsInv
      <3>2. \A d \in Polite : Claims(d, l.addr) /\ c \notin Rude => d = c
        BY <2>2, <3>1 DEF ClaimsAreLeased, LeasesAt, LeasesUnique
      <3>3. ClaimsAreLeased'
        BY <2>2, <2>3, <3>1 DEF ClaimsAreLeased, LeasesAt
      <3>4. ClaimsAreExclusive'
        BY <2>2, <2>3, <3>1, <3>2 DEF ClaimsAreExclusive
      <3> QED BY <3>3, <3>4
    <2> QED BY <2>2, <2>4 DEF ClaimsInv
  <1>2. ASSUME NEW c \in Clients, NEW a \in Addresses, NEW fresh \in BOOLEAN,
               DiscoverPreferred(c, a, fresh)
        PROVE  ClaimsInv'
    <2>1. c \in Rude /\ Rest /\ leases \subseteq leases' /\ restarted' = restarted
      BY <1>2, <1>b DEF DiscoverPreferred, Prefers
    <2>2. Asker(c, fresh) \in Polite \cup {Nobody} /\ Asker(c, fresh) \notin Polite
      BY <1>2, <1>a, <2>1 DEF DiscoverPreferred
    <2>3. Submit("offer", Asker(c, fresh), a)
      BY <1>2 DEF DiscoverPreferred
    <2>4. \A d \in Polite, b \in Addresses : Claims(d, b)' => Claims(d, b)
      BY <2>1, <2>2, <2>3, ClaimsOfSubmit
    <2> QED BY <2>1, <2>4, NoNewClaims
  <1>3. ASSUME NEW c \in Clients, NEW a \in Addresses, NEW fresh \in BOOLEAN,
               DiscoverTaken(c, a, fresh)
        PROVE  ClaimsInv'
    <2>1. c \in Rude /\ Rest /\ restarted' = restarted
      BY <1>3, <1>b DEF DiscoverTaken, Prefers
    <2>2. Asker(c, fresh) \in Polite \cup {Nobody} /\ Asker(c, fresh) \notin Polite
      BY <1>3, <1>a, <2>1 DEF DiscoverTaken
    <2>3. Submit("offer", Asker(c, fresh), a)
      BY <1>3 DEF DiscoverTaken
    <2>4. \A d \in Polite, b \in Addresses : Claims(d, b)' => Claims(d, b)
      BY <2>1, <2>2, <2>3, ClaimsOfSubmit
    <2>5. PICK l \in LeasesAt(a) : leases' = (leases \ {l}) \cup {[l EXCEPT !.id = c]}
      BY <1>3 DEF DiscoverTaken
    <2> DEFINE n == [l EXCEPT !.id = c]
    <2>6. l \in leases /\ n.addr = l.addr /\ n.id = c
      BY <2>5 DEF LeasesAt, TypeOK, Leases
    <2>7. leases' = (leases \ {l}) \cup {n}
      BY <2>5
    <2> HIDE DEF n
    <2>8. ASSUME ~restarted PROVE ClaimsAreLeased' /\ ClaimsAreExclusive'
      <3>1. ClaimsAreLeased /\ ClaimsAreExclusive
        BY <2>8 DEF ClaimsInv
      <3>2. ClaimsAreLeased'
        BY <2>1, <2>4, <2>6, <2>7, <3>1 DEF ClaimsAreLeased, LeasesAt
      <3>3. ClaimsAreExclusive'
        BY <2>4, <3>1 DEF ClaimsAreExclusive
      <3> QED BY <3>2, <3>3
    <2> QED BY <2>1, <2>8 DEF ClaimsInv
  <1>4. ASSUME NEW c \in Clients, NEW fresh \in BOOLEAN, DiscoverNext(c, fresh)
        PROVE  ClaimsInv'
    <2>1. last' \in Addresses /\ LeasesAt(last') = {}
      BY <1>4, TriedType DEF DiscoverNext, FirstFree, FreeTries, Tries
    <2>2. Submit("offer", Asker(c, fresh), last') /\ Rest /\ restarted' = restarted
      BY <1>4, <1>b DEF DiscoverNext
    <2>3. leases' = leases \cup {[id |-> c, addr |-> last']}
      BY <1>4 DEF DiscoverNext
    <2>4. \A d \in Polite, a \in Addresses :
             Claims(d, a)' => Claims(d, a) \/ (d = c /\ a = last')
      BY <1>4, <1>a, <2>1, <2>2, ClaimsOfSubmit DEF DiscoverNext
    <2>5. ASSUME ~restarted PROVE ClaimsAreLeased' /\ ClaimsAreExclusive'
      <3>1. ClaimsAreLeased /\ ClaimsAreExclusive
        BY <2>5 DEF ClaimsInv
      <3>2. \A d \in Polite : ~Claims(d, last')
        BY <2>1, <3>1 DEF ClaimsAreLeased
      <3>3. ClaimsAreLeased'
        <4> DEFINE n == [id |-> c, addr |-> last']
        <4>1. n \in leases' /\ n.id = c /\ n.addr = last' /\ leases \subseteq leases'
          BY <2>3
        <4> HIDE DEF n
        <4>2. ASSUME NEW d \in Polite, NEW a \in Addresses, Claims(d, a)'
              PROVE  \E l \in leases' : l.addr = a /\ l.id \in Rude \cup {d}
          <5>1. CASE Claims(d, a)
            BY <3>1, <4>1, <5>1 DEF ClaimsAreLeased, LeasesAt
          <5>2. CASE d = c /\ a = last'
            BY <4>1, <5>2
          <5> QED BY <2>4, <4>2, <5>1, <5>2
        <4> QED BY <4>2 DEF ClaimsAreLeased, LeasesAt
      <3>4. ClaimsAreExclusive'
        BY <2>4, <3>1, <3>2 DEF ClaimsAreExclusive
      <3> QED BY <3>3, <3>4
    <2> QED BY <2>2, <2>5 DEF ClaimsInv
  <1>5. ASSUME NEW c \in Clients, NEW fresh \in BOOLEAN,
               DiscoverNone(c, fresh) \/ ReceiveOther(c)
        PROVE  ClaimsInv'
    <2>1. /\ Submit("empty", Nobody, None) /\ Rest
          /\ leases' = leases /\ restarted' = restarted
      BY <1>5, <1>b DEF DiscoverNone, ReceiveOther, server
    <2>2. \A d \in Polite, a \in Addresses : Claims(d, a)' => Claims(d, a)
      BY <2>1, ClaimsOfSubmit
    <2> QED BY <2>1, <2>2, NoNewClaims
  <1>6. ASSUME NEW c \in Clients, NEW a \in Addresses, NEW named \in BOOLEAN,
               NEW fresh \in BOOLEAN, ReceiveRequest(c, a, named, fresh)
        PROVE  ClaimsInv'
    <2>1. Asker(c, fresh) \in Polite \cup {Nobody} /\ Rest /\ leases' = leases
      BY <1>6, <1>a DEF ReceiveRequest, server
    <2>2. CASE Submit("nak", Asker(c, fresh), None)
      <3>1. \A d \in Polite, b \in Addresses : Claims(d, b)' => Claims(d, b)
        BY <2>1, <2>2, ClaimsOfSubmit
      <3> QED BY <1>b, <2>1, <3>1, NoNewClaims
    <2>3. CASE named /\ Submit("ack", Asker(c, fresh), a)
      <3>1. Asker(c, fresh) \in Polite => Asker(c, fresh) = c /\ Claims(c, a)
        BY <1>6, <1>a, <2>3 DEF ReceiveRequest, Requests, Asker, Claims
      <3>2. \A d \in Polite, b \in Addresses : Claims(d, b)' => Claims(d, b)
        BY <2>1, <2>3, <3>1, ClaimsOfSubmit
      <3> QED BY <1>b, <2>1, <3>2, NoNewClaims
    <2> QED BY <1>6, <2>2, <2>3 DEF ReceiveRequest
  <1>7. CASE SendDropped \/ SendLost
    <2>1. /\ responses # <<>> /\ responses' = Tail(responses)
          /\ UNCHANGED <<leases, phase, chosen, restarted>>
      BY <1>7 DEF SendDropped, SendLost, server, client
    <2>2. \A d \in Polite, a \in Addresses : Claims(d, a)' => Claims(d, a)
      BY <2>1, ClaimsOfTail DEF Claims
    <2> QED BY <2>1, <2>2, NoNewClaims
  <1>8. ASSUME NEW c \in Polite, SendOffer(c) \/ SendAck(c) PROVE ClaimsInv'
    <2> DEFINE r == Head(responses)
    <2>1. /\ responses # <<>> /\ responses' = Tail(responses)
          /\ UNCHANGED <<leases, restarted>>
      BY <1>8 DEF SendOffer, SendAck, Sends, server
    <2>2. /\ r.to = c /\ r.type \in {"offer", "ack"}
          /\ chosen' = [chosen EXCEPT ![c] = r.addr]
      BY <1>8 DEF SendOffer, SendAck, Sends
    <2>3. \A d \in Polite : d # c => phase'[d] = phase[d]
      BY <1>8 DEF SendOffer, SendAck, TypeOK
    <2>4. Claims(c, r.addr)
      <3>1. 1 \in 1..Len(responses) /\ responses[1] = r
        BY <2>1 DEF TypeOK
      <3>2. Grants(1, c, r.addr)
        BY <2>2, <3>1 DEF Grants
      <3> QED BY <3>1, <3>2 DEF Claims
    <2>5. chosen'[c] = r.addr /\ \A d \in Polite : d # c => chosen'[d] = chosen[d]
      BY <2>2 DEF TypeOK
    <2> HIDE DEF r
    <2>6. ASSUME NEW d \in Polite, NEW a \in Addresses, Claims(d, a)' PROVE Claims(d, a)
      <3>1. CASE \E i \in 1..Len(responses') : Grants(i, d, a)'
        BY <2>1, <3>1, ClaimsOfTail
      <3>2. CASE (phase[d] \in {"requesting", "bound"} /\ chosen[d] = a)'
        BY <2>3, <2>4, <2>5, <3>2 DEF Claims
      <3> QED BY <2>6, <3>1, <3>2 DEF Claims
    <2> QED BY <2>1, <2>6, NoNewClaims
  <1>9. ASSUME NEW c \in Polite, SendNak(c) PROVE ClaimsInv'
    <2>1. /\ responses # <<>> /\ responses' = Tail(responses)
          /\ UNCHANGED <<leases, restarted>>
      BY <1>9 DEF SendNak, Sends, server
    <2>2. /\ phase'[c] = "idle"
          /\ \A d \in Polite : d # c => phase'[d] = phase[d] /\ chosen'[d] = chosen[d]
      BY <1>9 DEF SendNak, TypeOK
    <2>3. \A d \in Polite, a \in Addresses : Claims(d, a)' => Claims(d, a)
      BY <2>1, <2>2, ClaimsOfTail DEF Claims
    <2> QED BY <2>1, <2>3, NoNewClaims
  <1>10. ASSUME NEW c \in Polite, StartExchange(c) PROVE ClaimsInv'
    <2>1. UNCHANGED <<leases, restarted>>
      BY <1>10 DEF StartExchange, server
    <2>2. /\ phase'[c] = "selecting"
          /\ \A d \in Polite : d # c => phase'[d] = phase[d] /\ chosen'[d] = chosen[d]
      BY <1>10 DEF StartExchange, TypeOK
    <2>3. Len(responses') = Len(responses)
      BY <1>10, StaleType
    <2>4. ASSUME NEW d \in Polite, NEW a \in Addresses, NEW i \in 1..Len(responses),
                 Grants(i, d, a)'
          PROVE  Grants(i, d, a)
      <3>1. responses[i] \in Responses
        BY DEF TypeOK
      <3>2. responses'[i] = Response(responses[i].type,
                                     IF responses[i].to = c THEN Nobody ELSE responses[i].to,
                                     responses[i].addr)
        BY <1>10 DEF StartExchange, TypeOK
      <3>3. d # Nobody
        OBVIOUS
      <3>4. responses[i].to = d /\ d # c
        BY <2>4, <3>2, <3>3 DEF Grants, Response
      <3> QED BY <2>4, <3>2, <3>3, <3>4 DEF Grants, Response
    <2>5. \A d \in Polite, a \in Addresses : Claims(d, a)' => Claims(d, a)
      BY <2>2, <2>3, <2>4 DEF Claims
    <2> QED BY <2>1, <2>5, NoNewClaims
  <1>11. CASE \/ SendNothing \/ Open \/ SetMarkers \/ NoBroadcast \/ OpenAgain \/ Close
              \/ UNCHANGED vars
    <2>1. UNCHANGED <<leases, restarted, responses, phase, chosen>>
      BY <1>11 DEF SendNothing, Open, SetMarkers, NoBroadcast, OpenAgain, Close, vars,
                   server, queue, client
    <2>2. \A d \in Polite, a \in Addresses : Claims(d, a)' => Claims(d, a)
      BY <2>1 DEF Claims, Grants
    <2> QED BY <2>1, <2>2, NoNewClaims
  <1>12. CASE Reinitialize
    BY <1>12 DEF Reinitialize, ClaimsInv
  <1> QED
    BY <1>1, <1>2, <1>3, <1>4, <1>5, <1>6, <1>7, <1>8, <1>9, <1>10, <1>11, <1>12 DEF Next

LEMMA InitialClaims == Init => ClaimsInv
  <1> SUFFICES ASSUME Init PROVE ClaimsInv
    OBVIOUS
  <1>1. \A c \in Polite, a \in Addresses : ~Claims(c, a)
    BY DEF Init, Claims
  <1> QED BY <1>1 DEF ClaimsInv, ClaimsAreLeased, ClaimsAreExclusive

\* No two polite clients use one address, unless the plugin was restarted.
THEOREM AddressesExclusive == Spec => []ExclusiveAddress
  <1>1. TypeOK /\ ClaimsInv => ExclusiveAddress
    BY DEF TypeOK, ClaimsInv, ClaimsAreExclusive, Claims, ExclusiveAddress
  <1>2. Init => LeasesUnique
    BY DEF Init, LeasesUnique
  <1> QED
    BY <1>1, <1>2, InitialTypes, InitialClaims, TypeInvariance, UniqueInvariance,
       ClaimsInvariance, PTL DEF Spec

\* The address a polite client uses stays leased to it, unless to a rude one that took it.
THEOREM AddressesLeased == Spec => []BoundIsLeased
  <1>1. TypeOK /\ ClaimsInv => BoundIsLeased
    BY DEF TypeOK, ClaimsInv, ClaimsAreLeased, Claims, BoundIsLeased
  <1>2. Init => LeasesUnique
    BY DEF Init, LeasesUnique
  <1> QED
    BY <1>1, <1>2, InitialTypes, InitialClaims, TypeInvariance, UniqueInvariance,
       ClaimsInvariance, PTL DEF Spec

=============================================================================
