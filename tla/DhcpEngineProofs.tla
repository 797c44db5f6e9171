-------------------------- MODULE DhcpEngineProofs --------------------------
(***************************************************************************)
(* What TLAPS proves of DhcpEngine, for any servers, offers and bounds: the*)
(* types, that the use counts of the DNS servers balance, that the file    *)
(* follows the list, that an exchange is not forgotten, and that it leaves *)
(* the interface with an address the server was asked for.                 *)
(***************************************************************************)
EXTENDS DhcpEngine, TLAPS

\* The use counts stay natural numbers.
LEMMA EntriesType ==
    ASSUME NEW d \in [Dns -> Nat], NEW set
    PROVE  AddEntries(d, set) \in [Dns -> Nat] /\ RemoveEntries(d, set) \in [Dns -> Nat]
  <1>1. AddEntries(d, set) \in [Dns -> Nat]
    BY DEF AddEntries
  <1>2. \A s \in Dns : d[s] > 0 => d[s] - 1 \in Nat
    OBVIOUS
  <1>3. RemoveEntries(d, set) \in [Dns -> Nat]
    BY <1>2 DEF RemoveEntries
  <1> QED BY <1>1, <1>3

\* A list that needs no refresh lists what it listed.
LEMMA UpdateSeesChanges ==
    ASSUME NEW d \in [Dns -> Nat], NEW new, NEW old, ~Update(d, new, old),
           new \subseteq Dns, old \subseteq Dns
    PROVE  Listed(RemoveEntries(AddEntries(d, new), old)) = Listed(d)
  <1> DEFINE a == AddEntries(d, new)
             r == RemoveEntries(a, old)
  <1>1. ASSUME NEW s \in Dns PROVE r[s] > 0 <=> d[s] > 0
    <2>1. a[s] = IF s \in new THEN d[s] + 1 ELSE d[s]
      BY DEF AddEntries
    <2>2. r[s] = IF s \in old /\ a[s] > 0 THEN a[s] - 1 ELSE a[s]
      BY DEF RemoveEntries
    <2>3. s \in new => d[s] # 0
      BY DEF Update
    <2>4. s \in old => ~(a[s] <= 1)
      <3>1. a[s] \in Nat /\ One(s \in again) \in {0, 1}
        BY <2>1 DEF One
      <3>2. s \in old => ~(a[s] <= 1 + One(s \in again))
        BY DEF Update
      <3> QED BY <3>1, <3>2
    <2> QED BY <2>1, <2>2, <2>3, <2>4
  <1> QED BY <1>1 DEF Listed

\* A surprise that is recorded is one of them.
LEMMA SurpriseType ==
    ASSUME surprises \subseteq Surprises, NEW s \in Surprises, NEW condition,
           Surprise(s, condition)
    PROVE  surprises' \subseteq Surprises
  BY DEF Surprise

\* The members of the enumerated sets, so that no step has to expand them.
LEMMA Members ==
    /\ "IDLE" \in States /\ "SENDING" \in States /\ "RECEIVING" \in States
    /\ "DISCOVER" \in Modi /\ "ACK" \in Modi
    /\ {"free", "sending", "updating", "changed", "unchanged", "refreshing"} \subseteq Points
    /\ {"ack refused", "expired in send", "second offer", "late watchdog"} \subseteq Surprises
    /\ {"reload", "append", "write", "done"} \subseteq Stages
    /\ {"engine freed", "info freed", "list raced", "deadlock"} \subseteq Ends
  BY DEF States, Modi, Points, Surprises, Stages, Ends

\* What is recorded as overtaken is a writer.
LEMMA OvertakeType ==
    ASSUME overtaken \subseteq Writers, NEW d, Overtake(d)
    PROVE  overtaken' \subseteq Writers
  BY DEF Overtake, Copying

\* Every step keeps the types.
LEMMA TypeInvariance == TypeOK /\ [Next]_vars => TypeOK'
  <1> SUFFICES ASSUME TypeOK, [Next]_vars PROVE TypeOK'
    OBVIOUS
  <1>a. MaxAdd \in Nat /\ ResponseTime \in Nat
    BY EngineAssumption
  <1>b. added \in [Dns -> 0..MaxAdd] /\ watchdog \in Nat
    BY DEF TypeOK
  <1>1. ASSUME NEW s \in Dns, AddDNS(s) PROVE TypeOK'
    <2>1. dns' \in [Dns -> Nat]
      BY <1>1, EntriesType DEF AddDNS, TypeOK
    <2>2. added' \in [Dns -> 0..MaxAdd]
      <3>1. added[s] < MaxAdd /\ added' = [added EXCEPT ![s] = @ + 1]
        BY <1>1 DEF AddDNS
      <3> QED BY <3>1, <1>a, <1>b
    <2>3. file' \subseteq Dns
      BY <1>1 DEF AddDNS, Listed, TypeOK
    <2>4. overtaken' \subseteq Writers /\ stale' \in BOOLEAN
      BY <1>1, OvertakeType DEF AddDNS, TypeOK
    <2>5. again' \subseteq Dns
      BY <1>1 DEF AddDNS, Doubled, TypeOK
    <2> QED BY <1>1, <2>1, <2>2, <2>3, <2>4, <2>5 DEF AddDNS, startup, client, engine, TypeOK
  <1>2. ASSUME NEW s \in Dns, RemoveDNS(s) PROVE TypeOK'
    <2>1. dns' \in [Dns -> Nat]
      BY <1>2, EntriesType DEF RemoveDNS, TypeOK
    <2>2. added' \in [Dns -> 0..MaxAdd]
      <3>1. added[s] > 0 /\ added' = [added EXCEPT ![s] = @ - 1]
        BY <1>2 DEF RemoveDNS
      <3> QED BY <3>1, <1>a, <1>b
    <2>3. file' \subseteq Dns
      BY <1>2 DEF RemoveDNS, Listed, TypeOK
    <2>4. overtaken' \subseteq Writers /\ stale' \in BOOLEAN
      BY <1>2, OvertakeType DEF RemoveDNS, TypeOK
    <2>5. again' \subseteq Dns
      BY <1>2 DEF RemoveDNS, Doubled, TypeOK
    <2> QED BY <1>2, <2>1, <2>2, <2>3, <2>4, <2>5
            DEF RemoveDNS, startup, client, engine, TypeOK
  <1>3. ASSUME NEW lock \in {"locked", "unlocked", "setup"}, Discover(lock),
               setup' \in Stages, UNCHANGED <<pending, prepared>>
        PROVE  TypeOK'
    <2>1. xid' \in 0..MaxDiscover
      BY <1>3, EngineAssumption DEF Discover, TypeOK
    <2> QED BY <1>3, <2>1, Members DEF Discover, control, history, TypeOK
  <1>4. ASSUME SocketClosed PROVE TypeOK'
    BY <1>4 DEF SocketClosed, startup, engine, control, history, TypeOK
  <1>5. ASSUME Schedule PROVE TypeOK'
    <2>1. surprises' \subseteq Surprises
      BY <1>5, SurpriseType, Members DEF Schedule, TypeOK
    <2>2. retries' \in 0..(ResponseTime + 1) /\ watchdog' \in Nat
      <3>1. retries' = ResponseTime + 1 /\ watchdog' = watchdog + 1
        BY <1>5 DEF Schedule
      <3> QED BY <3>1, <1>a, <1>b
    <2> QED BY <1>5, <2>1, <2>2 DEF Schedule, startup, client, control, TypeOK
  <1>6. ASSUME Retry PROVE TypeOK'
    <2>1. retries' \in 0..(ResponseTime + 1)
      BY <1>6, EngineAssumption DEF Retry, MayRetry, TypeOK
    <2>2. state' \in States
      BY <1>6, Members DEF Retry, TypeOK
    <2> QED BY <1>6, <2>1, <2>2 DEF Retry, startup, control, history, TypeOK
  <1>7. ASSUME Expire PROVE TypeOK'
    <2>1. surprises' \subseteq Surprises
      BY <1>7, SurpriseType, Members DEF Expire, TypeOK
    <2>2. state' \in States /\ socket' \in {"closed", "open", "closing"}
      BY <1>7, Members DEF Expire, Completed, Destroyed, TypeOK
    <2>3. watchdog' \in Nat
      <3>1. watchdog > 0 /\ watchdog' = watchdog - 1
        BY <1>7 DEF Expire
      <3> QED BY <3>1, <1>b
    <2> QED BY <1>7, <2>1, <2>2, <2>3 DEF Expire, startup, control, TypeOK
  <1>8. ASSUME SendData PROVE TypeOK'
    BY <1>8, Members DEF SendData, startup, client, engine, control, history, TypeOK
  <1>9. ASSUME Send PROVE TypeOK'
    <2>1. net' \subseteq [server : Servers, xid : 0..MaxDiscover]
      <3>1. ASSUME NEW answers \in SUBSET Servers
            PROVE  {[server |-> s, xid |-> xid] : s \in answers}
                      \subseteq [server : Servers, xid : 0..MaxDiscover]
        <4>1. xid \in 0..MaxDiscover
          BY DEF TypeOK
        <4> QED BY <4>1
      <3>2. net \subseteq [server : Servers, xid : 0..MaxDiscover]
        BY DEF TypeOK
      <3> QED BY <1>9, <3>1, <3>2 DEF Send
    <2>2. requested' \subseteq Servers \cup {None}
      BY <1>9 DEF Send, TypeOK
    <2>3. state' \in States /\ socket' \in {"closed", "open", "closing"}
      BY <1>9, Members DEF Send, Completed, TypeOK
    <2> QED BY <1>9, Members, <2>1, <2>2, <2>3 DEF Send, startup, engine, control, TypeOK
  <1>10. ASSUME NEW m \in net, DropOffer(m) PROVE TypeOK'
    <2>1. net' \subseteq [server : Servers, xid : 0..MaxDiscover]
      BY <1>10 DEF DropOffer, TypeOK
    <2> QED BY <1>10, <2>1 DEF DropOffer, startup, client, engine, control, history, TypeOK
  <1>11. ASSUME NEW m \in net, ReceiveOffer(m) PROVE TypeOK'
    <2>1. net' \subseteq [server : Servers, xid : 0..MaxDiscover]
      BY <1>11 DEF ReceiveOffer, TypeOK
    <2>2. first' \in Servers \cup {None}
      BY <1>11 DEF ReceiveOffer, TypeOK
    <2>3. surprises' \subseteq Surprises
      BY <1>11, SurpriseType, Members DEF ReceiveOffer, TypeOK
    <2>4. state' \in States /\ socket' \in {"closed", "open", "closing"}
      BY <1>11, Members DEF ReceiveOffer, Completed, TypeOK
    <2>5. thread' \in Points /\ current' \in Servers \cup {None}
      BY <1>11, <2>2, Members DEF ReceiveOffer, TypeOK
    <2> QED BY <1>11, <2>1, <2>2, <2>3, <2>4, <2>5
            DEF ReceiveOffer, startup, engine, control, TypeOK
  <1>12. ASSUME Acknowledge PROVE TypeOK'
    <2>1. dns' \in [Dns -> Nat]
      BY <1>12, EntriesType DEF Acknowledge, TypeOK
    <2>2. surprises' \subseteq Surprises
      BY <1>12, SurpriseType, Members DEF Acknowledge, TypeOK
    <2>3. state' \in States /\ modus' \in Modi /\ thread' \in Points
      BY <1>12, Members DEF Acknowledge, TypeOK
    <2>4. requested' \subseteq Servers \cup {None} /\ watchdog' \in Nat
      BY <1>12 DEF Acknowledge, CleanUp, TypeOK
    <2>5. overtaken' \subseteq Writers /\ again' \subseteq Dns
      BY <1>12, OvertakeType DEF Acknowledge, Doubled, TypeOK
    <2> QED BY <1>12, <2>1, <2>2, <2>3, <2>4, <2>5 DEF Acknowledge, startup, TypeOK
  <1>13. ASSUME KeepOffer PROVE TypeOK'
    <2>1. copied' \subseteq Dns
      BY <1>13 DEF KeepOffer, Listed, TypeOK
    <2>2. thread' \in Points /\ current' \in Servers \cup {None}
      BY <1>13, Members DEF KeepOffer, TypeOK
    <2>3. accepted' \in Servers \cup {None}
      BY <1>13 DEF KeepOffer, TypeOK
    <2> QED BY <1>13, <2>1, <2>2, <2>3 DEF KeepOffer, startup, client, engine, history, TypeOK
  <1>14. ASSUME WriteFile PROVE TypeOK'
    <2>1. thread' \in Points /\ current' \in Servers \cup {None}
      BY <1>14, Members DEF WriteFile
    <2>2. file' \subseteq Dns /\ copied' \subseteq Dns
      BY <1>14 DEF WriteFile, TypeOK
    <2>3. overtaken' \subseteq Writers /\ stale' \in BOOLEAN
      BY <1>14 DEF WriteFile, TypeOK
    <2> QED BY <1>14, <2>1, <2>2, <2>3 DEF WriteFile, startup, client, engine, TypeOK
  <1>15. ASSUME Disappear PROVE TypeOK'
    <2>1. end' \in Ends \cup {None}
      BY <1>15, Members DEF Disappear, TypeOK
    <2>2. state' \in States /\ socket' \in {"closed", "open", "closing"}
      BY <1>15, Members DEF Disappear, Destroyed, TypeOK
    <2> QED BY <1>15, <2>1, <2>2 DEF Disappear, startup, engine, TypeOK
  <1>16. ASSUME UNCHANGED vars PROVE TypeOK'
    BY <1>16 DEF vars, startup, client, engine, control, history, TypeOK
  <1>17. ASSUME FirstReload PROVE TypeOK'
    <2>1. setup' \in Stages /\ UNCHANGED <<pending, prepared>>
      BY <1>17, Members DEF FirstReload
    <2>2. CASE Discover("setup")
      BY <1>3, <2>1, <2>2
    <2>3. CASE UNCHANGED <<client, thread, current, engine, control, net, history, end>>
      BY <2>1, <2>3 DEF client, engine, control, history, TypeOK
    <2> QED BY <1>17, <2>2, <2>3 DEF FirstReload
  <1>18. ASSUME NEW s \in pending, AppendDNS(s) PROVE TypeOK'
    <2>1. dns' \in [Dns -> Nat]
      BY <1>18, EntriesType DEF AppendDNS, TypeOK
    <2>2. s \in Dns /\ pending' \subseteq Static
      BY <1>18, EngineAssumption DEF AppendDNS, TypeOK
    <2>3. overtaken' \subseteq Writers /\ again' \subseteq Dns
      BY <1>18, <2>2, OvertakeType DEF AppendDNS, TypeOK
    <2>4. UNCHANGED <<state, modus, first, xid, socket, retries, watchdog, starting>>
      BY <1>18 DEF AppendDNS, client, engine
    <2> QED BY <1>18, <2>1, <2>2, <2>3, <2>4, ZenonT(40) DEF AppendDNS, TypeOK
  <1>19. ASSUME AppendRaces PROVE TypeOK'
    <2>1. end' \in Ends
      BY <1>19, Members DEF AppendRaces
    <2> QED BY <1>19, <2>1, ZenonT(40)
            DEF AppendRaces, startup, client, engine, control, history, TypeOK
  <1>20. ASSUME CopyDNS PROVE TypeOK'
    <2>1. prepared' \subseteq Dns
      BY <1>20 DEF CopyDNS, Listed
    <2>2. setup' \in Stages
      BY <1>20, Members DEF CopyDNS
    <2> QED BY <1>20, <2>1, <2>2 DEF CopyDNS, client, engine, control, history, TypeOK
  <1>21. ASSUME WriteDNS PROVE TypeOK'
    <2>1. setup' \in Stages
      BY <1>21, Members DEF WriteDNS
    <2>2. file' \subseteq Dns /\ prepared' \subseteq Dns
      BY <1>21 DEF WriteDNS, TypeOK
    <2>3. overtaken' \subseteq Writers /\ stale' \in BOOLEAN
      BY <1>21 DEF WriteDNS, TypeOK
    <2> QED BY <1>21, <2>1, <2>2, <2>3 DEF WriteDNS, client, engine, TypeOK
  <1>22. ASSUME NEW lock \in {"locked", "unlocked"}, Reload(lock) PROVE TypeOK'
    <2>1. setup' \in Stages /\ UNCHANGED <<pending, prepared>>
      BY <1>22 DEF Reload, startup, TypeOK
    <2> QED BY <1>3, <1>22, <2>1 DEF Reload
  <1> QED BY <1>1, <1>2, <1>4, <1>5, <1>6, <1>7, <1>8, <1>9, <1>10, <1>11, <1>12, <1>13,
             <1>14, <1>15, <1>16, <1>17, <1>18, <1>19, <1>20, <1>21, <1>22
          DEF Next, Stopped

LEMMA InitialTypes == Init => TypeOK
  <1> SUFFICES ASSUME Init PROVE TypeOK
    OBVIOUS
  <1>1. dns \in [Dns -> Nat]
    BY DEF Init
  <1>2. added \in [Dns -> 0..MaxAdd]
    BY EngineAssumption DEF Init
  <1>3. xid \in 0..MaxDiscover /\ retries \in 0..(ResponseTime + 1) /\ file \subseteq Dns
    BY EngineAssumption DEF Init
  <1> QED BY <1>1, <1>2, <1>3, Members DEF Init, TypeOK

\* The state of the engine is well typed.
THEOREM TypeCorrect == Spec => []TypeOK
  BY InitialTypes, TypeInvariance, PTL DEF Spec

-----------------------------------------------------------------------------
(* The exchange is not forgotten: NeverStuck needs that what SendData found   *)
(* is still so when it sends, unless the watchdog expired meanwhile.          *)

SendingSends ==
    thread = "sending" => state = "SENDING" \/ "expired in send" \in surprises

ExchangeInv == TypeOK /\ SendingSends /\ NeverStuck

LEMMA ExchangeInvariance == ExchangeInv /\ [Next]_vars => ExchangeInv'
  <1> SUFFICES ASSUME ExchangeInv, [Next]_vars PROVE SendingSends' /\ NeverStuck'
    BY TypeInvariance DEF ExchangeInv
  <1>w. watchdog + 1 > 0
    <2>1. watchdog \in Nat
      BY DEF ExchangeInv, TypeOK
    <2> QED BY <2>1
  <1> USE DEF ExchangeInv, SendingSends, NeverStuck, Alive
  <1>1. ASSUME NEW s \in Dns, AddDNS(s) \/ RemoveDNS(s) PROVE SendingSends' /\ NeverStuck'
    <2>1. UNCHANGED <<state, modus, thread, watchdog, starting, present, surprises, end>>
      BY <1>1 DEF AddDNS, RemoveDNS, client, engine
    <2> QED BY <2>1
  <1>2. ASSUME NEW lock \in {"locked", "unlocked", "setup"}, Discover(lock)
        PROVE  SendingSends' /\ NeverStuck'
    BY <1>2 DEF Discover, control, history
  <1>3. ASSUME SocketClosed PROVE SendingSends' /\ NeverStuck'
    BY <1>3 DEF SocketClosed, startup, engine, control, history
  <1>4. ASSUME Schedule PROVE SendingSends' /\ NeverStuck'
    <2>1. watchdog' > 0
      <3>1. watchdog' = watchdog + 1
        BY <1>4 DEF Schedule
      <3> QED BY <3>1, <1>w
    <2> QED BY <1>4, <2>1 DEF Schedule, Surprise, startup, client
  <1>5. ASSUME Retry PROVE SendingSends' /\ NeverStuck'
    BY <1>5 DEF Retry, startup, control, history
  <1>6. ASSUME Expire PROVE SendingSends' /\ NeverStuck'
    BY <1>6 DEF Expire, Completed, Destroyed, Surprise, startup, control
  <1>7. ASSUME SendData PROVE SendingSends' /\ NeverStuck'
    BY <1>7 DEF SendData, startup, client, engine, control, history
  <1>8. ASSUME Send PROVE SendingSends' /\ NeverStuck'
    BY <1>8 DEF Send, Completed, startup, engine, control
  <1>9. ASSUME NEW m \in net, DropOffer(m) \/ ReceiveOffer(m)
        PROVE  SendingSends' /\ NeverStuck'
    <2>1. CASE DropOffer(m)
      BY <2>1 DEF DropOffer, startup, client, engine, control, history
    <2>2. CASE ReceiveOffer(m)
      <3>1. UNCHANGED <<modus, watchdog, starting, present, end>>
        BY <2>2 DEF ReceiveOffer, startup, engine, control
      <3>2. state' \in {state, "IDLE"} /\ thread' # "sending"
        BY <2>2 DEF ReceiveOffer, Completed
      <3>3. surprises \subseteq surprises'
        BY <2>2 DEF ReceiveOffer, Surprise
      <3>4. Alive
        BY <2>2 DEF ReceiveOffer
      <3> QED BY <3>1, <3>2, <3>3, <3>4
    <2> QED BY <1>9, <2>1, <2>2
  <1>10. ASSUME Acknowledge PROVE SendingSends' /\ NeverStuck'
    BY <1>10 DEF Acknowledge, Surprise
  <1>11. ASSUME KeepOffer \/ WriteFile PROVE SendingSends' /\ NeverStuck'
    <2>1. UNCHANGED <<state, modus, watchdog, starting, present, surprises, end>>
      BY <1>11 DEF KeepOffer, WriteFile, startup, client, engine, history
    <2>2. Alive /\ thread' # "sending"
      BY <1>11 DEF KeepOffer, WriteFile
    <2> QED BY <2>1, <2>2
  <1>12. ASSUME Disappear PROVE SendingSends' /\ NeverStuck'
    BY <1>12 DEF Disappear, Destroyed, startup, engine
  <1>13. ASSUME UNCHANGED vars PROVE SendingSends' /\ NeverStuck'
    BY <1>13 DEF vars, client, engine, control, history
  <1>14. ASSUME FirstReload PROVE SendingSends' /\ NeverStuck'
    <2>1. CASE Discover("setup")
      BY <1>2, <2>1
    <2>2. CASE UNCHANGED <<client, thread, current, engine, control, net, history, end>>
      BY <2>2 DEF client, engine, control, history
    <2> QED BY <1>14, <2>1, <2>2 DEF FirstReload
  <1>15. ASSUME NEW s \in pending, AppendDNS(s) PROVE SendingSends' /\ NeverStuck'
    <2>1. UNCHANGED <<state, modus, thread, watchdog, starting, present, surprises, end>>
      BY <1>15 DEF AppendDNS, client, engine
    <2> QED BY <2>1
  <1>16. ASSUME AppendRaces PROVE SendingSends' /\ NeverStuck'
    <2>1. UNCHANGED <<state, thread, surprises>>
      BY <1>16 DEF AppendRaces, client, history
    <2>2. ~Alive'
      BY <1>16 DEF AppendRaces, None
    <2> QED BY <2>1, <2>2
  <1>17. ASSUME CopyDNS \/ WriteDNS PROVE SendingSends' /\ NeverStuck'
    <2>1. UNCHANGED <<state, modus, thread, watchdog, starting, present, surprises, end>>
      BY <1>17 DEF CopyDNS, WriteDNS, client, engine, control, history
    <2> QED BY <2>1
  <1> QED BY <1>1, <1>2, <1>3, <1>4, <1>5, <1>6, <1>7, <1>8, <1>9, <1>10, <1>11, <1>12,
             <1>13, <1>14, <1>15, <1>16, <1>17 DEF Next, Reload, Stopped

\* An interface whose client is not idle has a watchdog to come or its request about
\* to be sent, but for the two races that NeverStuck names.
THEOREM ExchangeNeverStuck == Spec => []NeverStuck
  <1>1. Init => ExchangeInv
    BY InitialTypes DEF Init, ExchangeInv, SendingSends, NeverStuck
  <1>2. ExchangeInv => NeverStuck
    BY DEF ExchangeInv
  <1> QED BY <1>1, <1>2, ExchangeInvariance, PTL DEF Spec

-----------------------------------------------------------------------------
(* The use counts balance: who has gone has left no user but one behind, and  *)
(* nobody is in Update for it.                                                *)

GoneIsQuiet ==
    Alive => IF present THEN left = None
             ELSE accepted = None /\ thread \notin {"updating", "changed", "unchanged"}

BalanceInv == TypeOK /\ GoneIsQuiet /\ DnsBalance

\* What a server counts for apart from AddDNS: the configuration and the interface.
Shares(rest, held, gone, s) ==
    One(s \in Static \ rest) + One(s \in Offered(held)) + One(s \in Offered(gone))

Balanced(d, a, rest, held, gone) == \A s \in Dns : d[s] = a[s] + Shares(rest, held, gone, s)

LEMMA ShareType ==
    ASSUME NEW rest, NEW held, NEW gone, NEW s
    PROVE  /\ Shares(rest, held, gone, s) \in Nat
           /\ s \in Offered(held) => Shares(rest, held, gone, s) > 0
  BY DEF Shares, One

\* DnsBalance in these words, now and after the step.
LEMMA BalanceInShares ==
    ASSUME added \in [Dns -> Nat]
    PROVE  DnsBalance <=> (Alive => Balanced(dns, added, pending, Held, left))
  <1>1. ASSUME NEW s \in Dns
        PROVE  added[s] + Shares(pending, Held, left, s) =
                  added[s] + One(s \in Static \ pending) + One(s \in Offered(Held))
                           + One(s \in Offered(left))
    BY DEF Shares, One
  <1> QED BY <1>1 DEF DnsBalance, Balanced

LEMMA BalanceInSharesNext ==
    ASSUME (added \in [Dns -> Nat])'
    PROVE  DnsBalance' <=> (Alive' => Balanced(dns', added', pending', Held', left'))
  <1>1. ASSUME NEW s \in Dns
        PROVE  added'[s] + Shares(pending', Held', left', s) =
                  added'[s] + One(s \in Static \ pending') + One(s \in Offered(Held'))
                            + One(s \in Offered(left'))
    BY DEF Shares, One
  <1> QED BY <1>1 DEF DnsBalance, Balanced, One, Offered

LEMMA BalanceInvariance == BalanceInv /\ [Next]_vars => BalanceInv'
  <1> SUFFICES ASSUME BalanceInv, [Next]_vars PROVE BalanceInv'
    OBVIOUS
  <1> DEFINE Goal == GoneIsQuiet' /\ (Alive' => Balanced(dns', added', pending', Held', left'))
  <1> SUFFICES Goal
    <2>1. TypeOK'
      BY TypeInvariance DEF BalanceInv
    <2>2. (added \in [Dns -> Nat])'
      BY <2>1, EngineAssumption DEF TypeOK
    <2> QED BY <2>1, <2>2, BalanceInSharesNext DEF BalanceInv
  <1>t. dns \in [Dns -> Nat] /\ added \in [Dns -> Nat]
    BY EngineAssumption DEF BalanceInv, TypeOK
  <1>b. Alive => Balanced(dns, added, pending, Held, left)
    BY <1>t, BalanceInShares DEF BalanceInv
  <1>1. ASSUME NEW s \in Dns, AddDNS(s)
        PROVE  Goal
    <2>1. UNCHANGED <<present, accepted, thread, current, left, pending, end>> /\ Alive
      BY <1>1 DEF AddDNS, startup
    <2>2. GoneIsQuiet' /\ Held' = Held
      BY <2>1 DEF BalanceInv, GoneIsQuiet, Alive, Held
    <2>3. dns' = AddEntries(dns, {s}) /\ added' = [added EXCEPT ![s] = @ + 1]
      BY <1>1 DEF AddDNS
    <2>4. ASSUME NEW x \in Dns PROVE dns'[x] = added'[x] + Shares(pending, Held, left, x)
      <3>1. dns'[x] = IF x = s THEN dns[x] + 1 ELSE dns[x]
        BY <2>3 DEF AddEntries
      <3>2. added'[x] = IF x = s THEN added[x] + 1 ELSE added[x]
        BY <2>3, <1>t
      <3>3. dns[x] = added[x] + Shares(pending, Held, left, x)
        BY <1>b, <2>1 DEF Balanced
      <3> QED BY <3>1, <3>2, <3>3, <1>t, ShareType
    <2> QED BY <2>1, <2>2, <2>4 DEF Balanced
  <1>2. ASSUME NEW s \in Dns, RemoveDNS(s)
        PROVE  Goal
    <2>1. UNCHANGED <<present, accepted, thread, current, left, pending, end>> /\ Alive
      BY <1>2 DEF RemoveDNS, startup
    <2>2. GoneIsQuiet' /\ Held' = Held
      BY <2>1 DEF BalanceInv, GoneIsQuiet, Alive, Held
    <2>3. dns' = RemoveEntries(dns, {s}) /\ added' = [added EXCEPT ![s] = @ - 1] /\ added[s] > 0
      BY <1>2 DEF RemoveDNS
    <2>4. ASSUME NEW x \in Dns PROVE dns'[x] = added'[x] + Shares(pending, Held, left, x)
      <3>1. dns'[x] = IF x = s /\ dns[x] > 0 THEN dns[x] - 1 ELSE dns[x]
        BY <2>3 DEF RemoveEntries
      <3>2. added'[x] = IF x = s THEN added[x] - 1 ELSE added[x]
        BY <2>3, <1>t
      <3>3. dns[x] = added[x] + Shares(pending, Held, left, x)
        BY <1>b, <2>1 DEF Balanced
      <3> QED BY <3>1, <3>2, <3>3, <2>3, <1>t, ShareType
    <2> QED BY <2>1, <2>2, <2>4 DEF Balanced
  <1>3. ASSUME Acknowledge
        PROVE  Goal
    <2>1. /\ UNCHANGED <<present, accepted, current, left, pending, end, added>>
          /\ Alive /\ present
          /\ thread = "updating" /\ thread' \in {"changed", "unchanged"}
      BY <1>3 DEF Acknowledge, startup
    <2>2. GoneIsQuiet' /\ Held = accepted /\ Held' = current
      BY <2>1 DEF BalanceInv, GoneIsQuiet, Alive, Held
    <2>3. dns' = RemoveEntries(AddEntries(dns, Offered(current)), Offered(accepted))
      BY <1>3 DEF Acknowledge
    <2>4. ASSUME NEW x \in Dns PROVE dns'[x] = added[x] + Shares(pending, current, left, x)
      <3> DEFINE d == AddEntries(dns, Offered(current))
      <3>1. d[x] = dns[x] + One(x \in Offered(current))
        BY <1>t DEF AddEntries, One
      <3>2. dns'[x] = IF x \in Offered(accepted) /\ d[x] > 0 THEN d[x] - 1 ELSE d[x]
        BY <2>3 DEF RemoveEntries
      <3>3. dns[x] = added[x] + Shares(pending, accepted, left, x)
        BY <1>b, <2>1, <2>2 DEF Balanced
      <3>4. x \in Offered(accepted) => dns[x] > 0
        BY <3>3, <1>t, ShareType
      <3>5. d[x] > 0 <=> dns[x] + One(x \in Offered(current)) > 0
        BY <3>1
      <3>6. dns'[x] = dns[x] + One(x \in Offered(current)) - One(x \in Offered(accepted))
        BY <3>1, <3>2, <3>4, <1>t DEF One
      <3>7. Shares(pending, current, left, x) = Shares(pending, accepted, left, x)
                  + One(x \in Offered(current)) - One(x \in Offered(accepted))
        BY DEF Shares, One
      <3> QED BY <3>3, <3>6, <3>7, <1>t, ShareType DEF One
    <2> QED BY <2>1, <2>2, <2>4 DEF Balanced
  <1>4. ASSUME KeepOffer
        PROVE  Goal
    <2>1. UNCHANGED <<present, dns, added, left, pending, end>> /\ Alive /\ present
      BY <1>4 DEF KeepOffer, startup, history
    <2>2. /\ thread \in {"changed", "unchanged"} /\ accepted' = current
          /\ thread' \in {"free", "refreshing"}
      BY <1>4 DEF KeepOffer
    <2>3. GoneIsQuiet' /\ Held' = Held
      BY <2>1, <2>2 DEF BalanceInv, GoneIsQuiet, Alive, Held
    <2> QED BY <1>b, <2>1, <2>3
  <1>5. ASSUME Disappear
        PROVE  Goal
    <2>1. /\ UNCHANGED <<dns, added, thread, current, pending>>
          /\ Alive /\ present /\ ~present'
          /\ left' = accepted /\ accepted' = None
      BY <1>5 DEF Disappear, startup
    <2>2. Alive' => thread \notin {"updating", "changed", "unchanged"}
      BY <1>5 DEF Disappear, Alive, None
    <2>3. GoneIsQuiet' /\ left = None
      BY <2>1, <2>2 DEF BalanceInv, GoneIsQuiet
    <2>4. Alive' => Held = accepted /\ Held' = None
      BY <2>1, <2>2 DEF Held
    <2>5. ASSUME NEW x
          PROVE  Shares(pending, None, accepted, x) = Shares(pending, accepted, None, x)
      BY DEF Shares, One, Offered
    <2> QED BY <1>b, <2>1, <2>3, <2>4, <2>5 DEF Balanced
  <1>6. ASSUME WriteFile
        PROVE  Goal
    <2>1. /\ UNCHANGED <<present, dns, added, left, pending, end, accepted>> /\ Alive
          /\ thread = "refreshing" /\ thread' = "free"
      BY <1>6 DEF WriteFile, startup, history
    <2>2. GoneIsQuiet' /\ Held' = Held
      BY <2>1 DEF BalanceInv, GoneIsQuiet, Alive, Held
    <2> QED BY <1>b, <2>1, <2>2
  <1>7. ASSUME NEW m \in net, ReceiveOffer(m)
        PROVE  Goal
    <2>1. UNCHANGED <<present, dns, added, left, pending, end, accepted>> /\ Alive
      BY <1>7 DEF ReceiveOffer, startup, control
    <2>2. thread = "free"
      BY <1>7 DEF ReceiveOffer
    <2>3. thread' = "free" \/ (thread' = "updating" /\ present)
      BY <1>7 DEF ReceiveOffer
    <2>4. GoneIsQuiet' /\ Held' = Held
      BY <2>1, <2>2, <2>3 DEF BalanceInv, GoneIsQuiet, Alive, Held
    <2> QED BY <1>b, <2>1, <2>4
  <1>8. ASSUME SendData \/ Send
        PROVE  Goal
    <2>1. /\ UNCHANGED <<present, dns, added, left, pending, end, accepted>> /\ Alive
          /\ {thread, thread'} \subseteq {"free", "sending"}
      BY <1>8 DEF SendData, Send, startup, control, history
    <2>2. GoneIsQuiet' /\ Held' = Held
      BY <2>1 DEF BalanceInv, GoneIsQuiet, Alive, Held
    <2> QED BY <1>b, <2>1, <2>2
  <1>9. ASSUME UNCHANGED <<present, dns, added, left, pending, end, accepted, thread, current>>
        PROVE  Goal
    <2>1. GoneIsQuiet' /\ Held' = Held /\ (Alive' <=> Alive)
      BY <1>9 DEF BalanceInv, GoneIsQuiet, Alive, Held
    <2> QED BY <1>b, <1>9, <2>1
  <1>10. ASSUME NEW lock \in {"locked", "unlocked"}, Reload(lock)
         PROVE  UNCHANGED <<present, dns, added, left, pending, end, accepted, thread, current>>
    BY <1>10 DEF Reload, Discover, startup, control, history
  <1>11. ASSUME SocketClosed \/ Schedule \/ Retry \/ Expire
         PROVE  UNCHANGED <<present, dns, added, left, pending, end, accepted, thread, current>>
    BY <1>11 DEF SocketClosed, Schedule, Retry, Expire, startup, control, history
  <1>12. ASSUME NEW m \in net, DropOffer(m)
         PROVE  UNCHANGED <<present, dns, added, left, pending, end, accepted, thread, current>>
    BY <1>12 DEF DropOffer, startup, control, history
  <1>13. ASSUME UNCHANGED vars
         PROVE  UNCHANGED <<present, dns, added, left, pending, end, accepted, thread, current>>
    BY <1>13 DEF vars, startup, control, history
  <1>14. ASSUME FirstReload
         PROVE  UNCHANGED <<present, dns, added, left, pending, end, accepted, thread, current>>
    BY <1>14 DEF FirstReload, Discover, control, history
  <1>15. ASSUME CopyDNS \/ WriteDNS
         PROVE  UNCHANGED <<present, dns, added, left, pending, end, accepted, thread, current>>
    BY <1>15 DEF CopyDNS, WriteDNS, control, history
  <1>16. ASSUME AppendRaces PROVE Goal
    <2>1. ~Alive' /\ UNCHANGED <<present, accepted, thread>>
      BY <1>16 DEF AppendRaces, Alive, None, control
    <2> QED BY <2>1 DEF GoneIsQuiet
  <1>17. ASSUME NEW s \in pending, AppendDNS(s) PROVE Goal
    <2>1. /\ UNCHANGED <<present, accepted, thread, current, left, added, end>> /\ Alive
          /\ pending' = pending \ {s} /\ dns' = AddEntries(dns, {s})
      BY <1>17 DEF AppendDNS
    <2>2. GoneIsQuiet' /\ Held' = Held
      BY <2>1 DEF BalanceInv, GoneIsQuiet, Alive, Held
    <2>3. s \in Static
      BY DEF BalanceInv, TypeOK
    <2>4. ASSUME NEW x \in Dns PROVE dns'[x] = added[x] + Shares(pending', Held, left, x)
      <3>1. dns'[x] = IF x = s THEN dns[x] + 1 ELSE dns[x]
        BY <2>1 DEF AddEntries
      <3>2. Shares(pending', Held, left, x) =
               Shares(pending, Held, left, x) + One(x = s)
        BY <2>1, <2>3 DEF Shares, One
      <3>3. dns[x] = added[x] + Shares(pending, Held, left, x)
        BY <1>b, <2>1 DEF Balanced
      <3> QED BY <3>1, <3>2, <3>3, <1>t, ShareType DEF One
    <2> QED BY <2>1, <2>2, <2>4 DEF Balanced
  <1> HIDE DEF Goal
  <1> QED BY <1>1, <1>2, <1>3, <1>4, <1>5, <1>6, <1>7, <1>8, <1>9, <1>10, <1>11, <1>12,
             <1>13, <1>14, <1>15, <1>16, <1>17 DEF Next, Stopped

\* The use count of each DNS server is the number of its users, through every exchange
\* and whoever adds and removes servers meanwhile.
THEOREM UseCountsBalance == Spec => []DnsBalance
  <1>1. Init => BalanceInv
    <2> SUFFICES ASSUME Init PROVE BalanceInv
      OBVIOUS
    <2>1. TypeOK /\ GoneIsQuiet
      BY InitialTypes DEF Init, GoneIsQuiet
    <2>2. ASSUME NEW s \in Dns
          PROVE  dns[s] = added[s] + One(s \in Static \ pending) + One(s \in Offered(Held))
                                   + One(s \in Offered(left))
      BY DEF Init, One, Offered, Held
    <2> QED BY <2>1, <2>2 DEF BalanceInv, DnsBalance
  <1>2. BalanceInv => DnsBalance
    BY DEF BalanceInv
  <1> QED BY <1>1, <1>2, BalanceInvariance, PTL DEF Spec

-----------------------------------------------------------------------------
(* The file follows the list: a copy that is about to be written is the list, *)
(* unless its writer has been overtaken.                                      *)

CopyIsTheList ==
    Alive => /\ thread = "refreshing" /\ "socket" \notin overtaken => copied = Listed(dns)
             /\ setup = "write" /\ "setup" \notin overtaken => prepared = Listed(dns)

FileInv == TypeOK /\ CopyIsTheList /\ FileInSync

\* A change of the list overtakes whoever is between the copy and the write.
LEMMA Overtaking ==
    ASSUME NEW d, Overtake(d), Listed(d) # Listed(dns)
    PROVE  /\ thread = "refreshing" => "socket" \in overtaken'
           /\ setup = "write" => "setup" \in overtaken'
  BY DEF Overtake, Copying, Writers

\* The copies follow the list through such a change.
LEMMA CopiesFollow ==
    ASSUME CopyIsTheList, Alive, Overtake(dns'),
           UNCHANGED <<copied, prepared, setup>>,
           thread' = thread \/ thread' # "refreshing"
    PROVE  CopyIsTheList'
  <1>1. Listed(dns)' = Listed(dns')
    BY DEF Listed
  <1>2. CASE Listed(dns') = Listed(dns)
    BY <1>1, <1>2 DEF CopyIsTheList, Overtake
  <1>3. CASE Listed(dns') # Listed(dns)
    BY <1>3, Overtaking DEF CopyIsTheList
  <1> QED BY <1>2, <1>3

\* AddDNS and RemoveDNS of one server leave the list alone if they need no refresh.
LEMMA OneServer ==
    ASSUME NEW d \in [Dns -> Nat], NEW s \in Dns
    PROVE  /\ ~Update(d, {s}, {}) => Listed(AddEntries(d, {s})) = Listed(d)
           /\ ~Update(d, {}, {s}) => Listed(RemoveEntries(d, {s})) = Listed(d)
  <1>1. AddEntries(d, {s}) \in [Dns -> Nat] /\ AddEntries(d, {}) = d
    BY DEF AddEntries
  <1>2. RemoveEntries(AddEntries(d, {s}), {}) = AddEntries(d, {s})
    BY <1>1 DEF RemoveEntries
  <1>3. ~Update(d, {s}, {}) => Listed(AddEntries(d, {s})) = Listed(d)
    BY <1>2, UpdateSeesChanges
  <1>4. ~Update(d, {}, {s}) => Listed(RemoveEntries(d, {s})) = Listed(d)
    BY <1>1, UpdateSeesChanges
  <1> QED BY <1>3, <1>4

LEMMA FileInvariance == FileInv /\ [Next]_vars => FileInv'
  <1> SUFFICES ASSUME FileInv, [Next]_vars PROVE CopyIsTheList' /\ FileInSync'
    BY TypeInvariance DEF FileInv
  <1>d. dns \in [Dns -> Nat]
    BY DEF FileInv, TypeOK
  <1>l. Listed(dns)' = Listed(dns')
    BY DEF Listed
  <1> USE DEF FileInv
  <1>1. ASSUME NEW s \in Dns, AddDNS(s) PROVE CopyIsTheList' /\ FileInSync'
    <2>1. CopyIsTheList'
      BY <1>1, CopiesFollow DEF AddDNS, startup
    <2>2. ~Update(dns, {s}, {}) => Listed(dns') = Listed(dns)
      BY <1>1, <1>d, OneServer DEF AddDNS
    <2> QED BY <1>1, <1>l, <2>1, <2>2 DEF AddDNS, startup, FileInSync, Alive
  <1>2. ASSUME NEW s \in Dns, RemoveDNS(s) PROVE CopyIsTheList' /\ FileInSync'
    <2>1. CopyIsTheList'
      BY <1>2, CopiesFollow DEF RemoveDNS, startup
    <2>2. ~Update(dns, {}, {s}) => Listed(dns') = Listed(dns)
      BY <1>2, <1>d, OneServer DEF RemoveDNS
    <2> QED BY <1>2, <1>l, <2>1, <2>2 DEF RemoveDNS, startup, FileInSync, Alive
  <1>3. ASSUME Acknowledge PROVE CopyIsTheList' /\ FileInSync'
    <2>1. CopyIsTheList'
      BY <1>3, CopiesFollow DEF Acknowledge, startup
    <2>2. Offered(current) \subseteq Dns /\ Offered(accepted) \subseteq Dns
      BY EngineAssumption DEF Offered, TypeOK
    <2>3. ~Update(dns, Offered(current), Offered(accepted)) => Listed(dns') = Listed(dns)
      <3>1. dns' = RemoveEntries(AddEntries(dns, Offered(current)), Offered(accepted))
        BY <1>3 DEF Acknowledge
      <3> QED BY <3>1, <2>2, <1>d, UpdateSeesChanges
    <2> QED BY <1>3, <1>l, <2>1, <2>3 DEF Acknowledge, startup, FileInSync, Alive
  <1>4. ASSUME NEW s \in pending, AppendDNS(s) PROVE CopyIsTheList' /\ FileInSync'
    <2>1. CopyIsTheList'
      BY <1>4, CopiesFollow DEF AppendDNS
    <2> QED BY <1>4, <2>1 DEF AppendDNS, FileInSync
  <1>5. ASSUME KeepOffer PROVE CopyIsTheList' /\ FileInSync'
    BY <1>5, <1>l DEF KeepOffer, startup, history, CopyIsTheList, FileInSync, Alive
  <1>6. ASSUME WriteFile PROVE CopyIsTheList' /\ FileInSync'
    BY <1>6, <1>l DEF WriteFile, startup, CopyIsTheList, FileInSync, Alive
  <1>7. ASSUME CopyDNS PROVE CopyIsTheList' /\ FileInSync'
    BY <1>7, <1>l DEF CopyDNS, control, history, CopyIsTheList, FileInSync, Alive
  <1>8. ASSUME WriteDNS PROVE CopyIsTheList' /\ FileInSync'
    BY <1>8, <1>l DEF WriteDNS, CopyIsTheList, FileInSync, Alive
  <1>9. ASSUME AppendRaces PROVE CopyIsTheList' /\ FileInSync'
    BY <1>9 DEF AppendRaces, CopyIsTheList, FileInSync, Alive, None
  <1>10. ASSUME Disappear PROVE CopyIsTheList' /\ FileInSync'
    BY <1>10, <1>l DEF Disappear, startup, CopyIsTheList, FileInSync, Alive
  <1>11. ASSUME UNCHANGED <<dns, file, copied, prepared, overtaken, stale, end>>, Alive,
                setup' = setup \/ setup' \notin {"write", "done"},
                thread' = thread \/ {thread, thread'} \cap {"changed", "refreshing"} = {}
         PROVE  CopyIsTheList' /\ FileInSync'
    BY <1>11, <1>l DEF CopyIsTheList, FileInSync, Alive
  <1>12. ASSUME NEW lock \in {"locked", "unlocked"}, Reload(lock)
         PROVE  CopyIsTheList' /\ FileInSync'
    BY <1>11, <1>12 DEF Reload, Discover, startup, control, history
  <1>13. ASSUME FirstReload PROVE CopyIsTheList' /\ FileInSync'
    BY <1>11, <1>13 DEF FirstReload, Discover, control, history
  <1>14. ASSUME SocketClosed \/ Schedule \/ Retry \/ Expire
         PROVE  CopyIsTheList' /\ FileInSync'
    BY <1>11, <1>14 DEF SocketClosed, Schedule, Retry, Expire, startup, control, history
  <1>15. ASSUME SendData \/ Send PROVE CopyIsTheList' /\ FileInSync'
    BY <1>11, <1>15 DEF SendData, Send, startup, control, history
  <1>16. ASSUME NEW m \in net, DropOffer(m) \/ ReceiveOffer(m)
         PROVE  CopyIsTheList' /\ FileInSync'
    BY <1>11, <1>16 DEF DropOffer, ReceiveOffer, startup, control, history
  <1>17. ASSUME UNCHANGED vars PROVE CopyIsTheList' /\ FileInSync'
    BY <1>17, <1>l DEF vars, startup, control, history, CopyIsTheList, FileInSync, Alive
  <1> QED BY <1>1, <1>2, <1>3, <1>4, <1>5, <1>6, <1>7, <1>8, <1>9, <1>10, <1>12, <1>13,
             <1>14, <1>15, <1>16, <1>17 DEF Next, Stopped

\* From the end of Initialize on, the DNS file lists the servers in use whenever no
\* refresh is under way, unless the last refresh, of Initialize or of the socket thread,
\* wrote a copy that another thread had overtaken.
THEOREM FileFollowsTheList == Spec => []FileInSync
  <1>1. Init => FileInv
    BY InitialTypes DEF Init, FileInv, CopyIsTheList, FileInSync
  <1>2. FileInv => FileInSync
    BY DEF FileInv
  <1> QED BY <1>1, <1>2, FileInvariance, PTL DEF Spec

(***************************************************************************)
(* The address of the interface. Unless one of the three surprises came    *)
(* first, an offer is acknowledged once the watchdog is revoked, and from  *)
(* there only the REQUEST for it ends the exchange.                        *)
(***************************************************************************)
InOrder ==
    /\ Alive /\ present
    /\ "ack refused" \notin surprises
    /\ "second offer" \notin surprises
    /\ "late watchdog" \notin surprises

AcceptedRequested == accepted # None => accepted \in requested

\* While the client discovers, the interface has what an earlier exchange requested.
DiscoverKeeps ==
    InOrder /\ modus = "DISCOVER" =>
        /\ AcceptedRequested
        /\ thread \in {"free", "sending", "updating"}
        /\ thread = "updating" => current = first

\* From the acknowledge on, no watchdog interferes, and what is requested is what the
\* interface is getting.
RequestFollows ==
    InOrder /\ modus = "ACK" =>
        /\ watchdog = 0
        /\ \/ state = "IDLE" /\ thread = "free" /\ AcceptedRequested
           \/ state = "SENDING" /\ thread \in {"changed", "unchanged"} /\ current = first
           \/ state = "SENDING" /\ thread \in {"free", "sending", "refreshing"}
              /\ accepted = first

\* The socket is not closed under its thread, and an interface that has gone has nothing.
ThreadHasSocket ==
    Alive => /\ present /\ socket = "closed" => thread = "free"
             /\ ~present => accepted = None

OfferInv == TypeOK /\ DiscoverKeeps /\ RequestFollows /\ ThreadHasSocket

LEMMA OfferInvariance == OfferInv /\ [Next]_vars => OfferInv'
  <1> DEFINE Goal == DiscoverKeeps' /\ RequestFollows' /\ ThreadHasSocket'
  <1> SUFFICES ASSUME OfferInv, [Next]_vars PROVE Goal
    BY TypeInvariance DEF OfferInv
  <1>t. modus \in {"DISCOVER", "ACK"} /\ state \in {"IDLE", "SENDING", "RECEIVING"}
    BY DEF OfferInv, TypeOK, Modi, States
  <1>w. Expire => watchdog # 0
    <2>1. 0 > 0 <=> FALSE
      OBVIOUS
    <2>2. Expire => watchdog > 0
      BY DEF Expire
    <2> QED BY <2>1, <2>2
  <1>i. DiscoverKeeps /\ RequestFollows /\ ThreadHasSocket
    BY DEF OfferInv
  <1> USE <1>t, <1>i DEF DiscoverKeeps, RequestFollows, ThreadHasSocket, InOrder,
                         AcceptedRequested, Alive
  <1>1. ASSUME NEW s \in Dns, AddDNS(s) \/ RemoveDNS(s) PROVE Goal
    <2>1. /\ UNCHANGED <<state, modus, first, socket, thread, current, watchdog>>
          /\ UNCHANGED <<present, accepted, requested, end>>
      BY <1>1 DEF AddDNS, RemoveDNS, startup, client, engine
    <2>2. surprises \subseteq surprises'
      BY <1>1 DEF AddDNS, RemoveDNS, Surprise
    <2> QED BY <2>1, <2>2
  <1>2. ASSUME NEW lock \in {"locked", "unlocked", "setup"}, Discover(lock) PROVE Goal
    BY <1>2 DEF Discover, control, history
  <1>3. ASSUME SocketClosed \/ Retry PROVE Goal
    <2>1. /\ UNCHANGED <<modus, first, thread, current, watchdog>>
          /\ UNCHANGED <<present, accepted, requested, surprises, end>>
      BY <1>3 DEF SocketClosed, Retry, startup, engine, control, history
    <2>2. /\ state' = state \/ state = "RECEIVING"
          /\ socket' = socket \/ thread = "free"
      BY <1>3 DEF SocketClosed, Retry
    <2> QED BY <2>1, <2>2
  <1>4. ASSUME Schedule PROVE Goal
    BY <1>4 DEF Schedule, Surprise, startup, client, control
  <1>5. ASSUME Expire PROVE Goal
    <2>1. /\ UNCHANGED <<modus, first, thread, current>>
          /\ UNCHANGED <<present, accepted, requested, end>>
      BY <1>5 DEF Expire, startup, control
    <2>2. surprises \subseteq surprises'
      BY <1>5 DEF Expire, Surprise
    <2>3. watchdog # 0
      BY <1>5, <1>w
    <2>4. present => Completed
      BY <1>5 DEF Expire
    <2>5. Completed => (socket' = "closed" => socket = "closed")
      BY DEF Completed
    <2> QED BY <2>1, <2>2, <2>3, <2>4, <2>5
  <1>6. ASSUME SendData PROVE Goal
    BY <1>6 DEF SendData, startup, client, engine, control, history
  <1>7. ASSUME Send PROVE Goal
    BY <1>7 DEF Send, Completed, startup, engine, control
  <1>8. ASSUME NEW m \in net, DropOffer(m) PROVE Goal
    BY <1>8 DEF DropOffer, startup, client, engine, control, history
  <1>9. ASSUME NEW m \in net, ReceiveOffer(m) PROVE Goal
    BY <1>9 DEF ReceiveOffer, Surprise, Completed, startup, engine, control
  <1>10. ASSUME Acknowledge PROVE Goal
    BY <1>10 DEF Acknowledge, Surprise, CleanUp
  <1>11. ASSUME KeepOffer PROVE Goal
    BY <1>11 DEF KeepOffer, startup, client, engine, history
  <1>12. ASSUME WriteFile PROVE Goal
    BY <1>12 DEF WriteFile, startup, client, engine, history
  <1>13. ASSUME Disappear PROVE Goal
    BY <1>13 DEF Disappear
  <1>14. ASSUME UNCHANGED vars PROVE Goal
    BY <1>14 DEF vars, client, engine, control, history
  <1>15. ASSUME FirstReload PROVE Goal
    <2>1. CASE Discover("setup")
      BY <1>2, <2>1
    <2>2. CASE UNCHANGED <<client, thread, current, engine, control, net, history, end>>
      BY <2>2 DEF client, engine, control, history
    <2> QED BY <1>15, <2>1, <2>2 DEF FirstReload
  <1>16. ASSUME CopyDNS \/ WriteDNS \/ \E s \in pending : AppendDNS(s) PROVE Goal
    <2>1. /\ UNCHANGED <<state, modus, first, socket, thread, current, watchdog>>
          /\ UNCHANGED <<present, accepted, requested, surprises, end>>
      BY <1>16 DEF CopyDNS, WriteDNS, AppendDNS, client, engine, control, history
    <2> QED BY <2>1
  <1>17. ASSUME AppendRaces PROVE Goal
    <2>1. ~Alive'
      BY <1>17 DEF AppendRaces, None
    <2> QED BY <2>1
  <1> HIDE DEF Goal
  <1> QED
    BY <1>1, <1>2, <1>3, <1>4, <1>5, <1>6, <1>7, <1>8, <1>9, <1>10, <1>11, <1>12, <1>13,
       <1>14, <1>15, <1>16, <1>17 DEF Next, Reload, Stopped

\* When an exchange is over, the address the interface took from an offer is one the
\* server was asked for: whatever the number of servers, of reloads and of resends, it
\* takes a refused acknowledge, a second offer or a late watchdog to leave it otherwise.
THEOREM AcceptedWasRequested == Spec => []AcceptedIsRequested
  <1>1. Init => OfferInv
    BY InitialTypes DEF Init, OfferInv, DiscoverKeeps, RequestFollows, ThreadHasSocket,
                        AcceptedRequested
  <1>2. OfferInv => AcceptedIsRequested
    <2>1. OfferInv => modus \in {"DISCOVER", "ACK"}
      BY DEF OfferInv, TypeOK, Modi
    <2> QED
      BY <2>1 DEF OfferInv, DiscoverKeeps, RequestFollows, ThreadHasSocket, InOrder,
                  AcceptedRequested, AcceptedIsRequested
  <1> QED BY <1>1, <1>2, OfferInvariance, PTL DEF Spec
=============================================================================
