------------------------- MODULE OcdmSessionsProofs -------------------------
(***************************************************************************)
(* What TLAPS proves of OcdmSessions, for any finite set of clients, any   *)
(* sessions, observers and keys, and any number of buffers: the types, the *)
(* balance of sessions, counts and buffers, what observers know, and that  *)
(* the destructor of a session finds its thread stopped or about to stop.  *)
(***************************************************************************)
EXTENDS OcdmSessions, FiniteSetTheorems, TLAPS

-----------------------------------------------------------------------------
(* The operators                                                           *)

\* The least of some natural numbers is one of them.
LEMMA MinIsMember ==
    ASSUME NEW S, S \subseteq Nat, S # {}
    PROVE  Min(S) \in S
  <1> DEFINE T == {0..x : x \in S}
             R == StrictSubsetOrdering(Nat)
  <1>1. ASSUME NEW x \in S PROVE 0..x \in FiniteSubsetsOf(Nat)
    <2>1. IsFiniteSet(0..x)
      BY FS_Interval
    <2> QED BY <2>1 DEF FiniteSubsetsOf
  <1>2. T \subseteq FiniteSubsetsOf(Nat) /\ T # {}
    BY <1>1
  <1>3. \E t \in T : \A u \in T : ~(<<u, t>> \in R)
    <2> HIDE DEF T
    <2> QED BY <1>2, FS_StrictSubsetOrderingWellFounded, WFMin
  <1>4. PICK x \in S : \A y \in S : ~(<<0..y, 0..x>> \in R)
    BY <1>3
  <1>5. ASSUME NEW y \in S, ~(x =< y) PROVE FALSE
    <2>1. x \in Nat /\ y \in Nat
      OBVIOUS
    <2>2. 0..y \subseteq 0..x /\ x \in 0..x /\ x \notin 0..y
      BY <1>5, <2>1
    <2>3. 0..y \in SUBSET Nat /\ 0..x \in SUBSET Nat /\ 0..y # 0..x
      BY <2>1, <2>2
    <2>4. <<0..y, 0..x>> \in R
      BY <2>2, <2>3 DEF StrictSubsetOrdering
    <2> QED BY <1>4, <2>4
  <1> QED BY <1>5 DEF Min

\* AquireBuffer returns a buffer that nobody has.
LEMMA AcquiredIsFree ==
    ASSUME occupied \subseteq Buffers, occupied # Buffers
    PROVE  AquireBuffer \in Buffers \ occupied
  <1>1. Buffers \ occupied \subseteq Nat
    BY DEF Buffers
  <1>2. Buffers \ occupied # {}
    OBVIOUS
  <1> QED BY <1>1, <1>2, MinIsMember DEF AquireBuffer

\* What CreateSession does, with a name for the session it makes.
LEMMA CreatedSession ==
    ASSUME NEW c \in Clients, CreateSession(c)
    PROVE  \E s \in Sessions :
              /\ Free(c)
              /\ occupied # Buffers
              /\ life[s] = "free"
              /\ life'     = [life EXCEPT ![s] = "alive"]
              /\ count'    = [count EXCEPT ![s] = 1]
              /\ buffer'   = [buffer EXCEPT ![s] = AquireBuffer]
              /\ worker'   = [worker EXCEPT ![s] = "waiting"]
              /\ produced' = [produced EXCEPT ![s] = FALSE]
              /\ sink'     = [sink EXCEPT ![s] = TRUE]
              /\ status'   = [status EXCEPT ![s] = "pending"]
              /\ held'     = [held EXCEPT ![c] = @ \cup {s}]
              /\ pc' = [pc EXCEPT ![c] = [at |-> "enlist", session |-> s]]
              /\ occupied' = occupied \cup {AquireBuffer}
              /\ race' = IF StillOpen(AquireBuffer) THEN "shared buffer" ELSE race
              /\ UNCHANGED <<sessionList, report, up, observers, view, overlooked>>
  <1> DEFINE s == CHOOSE u \in Unused : TRUE
  <1>1. s \in Unused
    BY DEF CreateSession
  <1>2. s \in Sessions /\ life[s] = "free"
    BY <1>1 DEF Unused
  <1> QED BY <1>2 DEF CreateSession, Goes, told

\* The holders of a session are clients, and so are finite.
LEMMA HoldersCounted ==
    ASSUME NEW s
    PROVE  /\ IsFiniteSet(Holders(s)) /\ Cardinality(Holders(s)) \in Nat
           /\ Cardinality(Holders(s)) <= Cardinality(Clients)
           /\ Cardinality(Clients) \in Nat
           /\ Cardinality(Holders(s)) = 0 <=> Holders(s) = {}
  <1>1. IsFiniteSet(Clients) /\ Holders(s) \subseteq Clients
    BY SessionsAssumption DEF Holders
  <1> QED BY <1>1, FS_Subset, FS_CardinalityType, FS_EmptySet

-----------------------------------------------------------------------------
(* Types                                                                   *)

\* Counts are those of the holders, which are clients.
CountsBalance ==
    Defined => \A s \in Sessions : count[s] = Cardinality(Holders(s))

\* A step of the kind that GoesOn, Call and the others are; what is left is to stop.
LEMMA DefinedStep == Next => Defined \/ UNCHANGED vars
  BY DEF Next, Call, GoesOn, Worker, Callback, Stopped, CreateSession, Session, Decrypt,
         Revoke, Release, Enlist, Remove, Stop, Destroyed, Die, Return, RequestConsume,
         Consumed, ReportKeyChange, OnKeyStatusUpdate, UpdateKeyStatus, Register,
         Unregister, At, Free

\* What the observers are told keeps the type of what they know.
LEMMA TellType ==
    ASSUME TypeOK, NEW s \in Sessions, NEW v,
           \A o \in Observers : v[o] \in Keys \cup {"none", "created", "pending"},
           Tell(s, v)
    PROVE  view' \in [Observers -> [Sessions -> Keys \cup {"none", "created", "pending"}]]
  BY DEF TypeOK, Tell

\* Every step keeps the types, as long as the counts balance.
LEMMA TypeInvariance == TypeOK /\ CountsBalance /\ [Next]_vars => TypeOK'
  <1> SUFFICES ASSUME TypeOK, CountsBalance, Defined, Next
               PROVE  TypeOK'
    <2>1. CASE UNCHANGED vars
      BY <2>1 DEF vars, table, objects, exchange, keys, clients, told, TypeOK
    <2> QED BY <2>1, DefinedStep
  <1> USE DEF TypeOK
  <1>1. ASSUME NEW c \in Clients, CreateSession(c) PROVE TypeOK'
    <2>1. PICK s \in Sessions :
              /\ occupied # Buffers
              /\ life'     = [life EXCEPT ![s] = "alive"]
              /\ count'    = [count EXCEPT ![s] = 1]
              /\ buffer'   = [buffer EXCEPT ![s] = AquireBuffer]
              /\ worker'   = [worker EXCEPT ![s] = "waiting"]
              /\ produced' = [produced EXCEPT ![s] = FALSE]
              /\ sink'     = [sink EXCEPT ![s] = TRUE]
              /\ status'   = [status EXCEPT ![s] = "pending"]
              /\ held'     = [held EXCEPT ![c] = @ \cup {s}]
              /\ pc' = [pc EXCEPT ![c] = [at |-> "enlist", session |-> s]]
              /\ occupied' = occupied \cup {AquireBuffer}
              /\ race' = IF StillOpen(AquireBuffer) THEN "shared buffer" ELSE race
              /\ UNCHANGED <<sessionList, report, up, observers, view, overlooked>>
      BY <1>1, CreatedSession
    <2>2. AquireBuffer \in Buffers
      BY <2>1, AcquiredIsFree
    <2>3. 1 \in 0..Cardinality(Clients)
      <3>1. Cardinality(Clients) \in Nat /\ (Cardinality(Clients) = 0 <=> Clients = {})
        BY SessionsAssumption, FS_CardinalityType, FS_EmptySet
      <3> QED BY <3>1
    <2>4. race' \in Races /\ pc' \in [Clients -> [at : Points, session : Sessions \cup {NoSession}]]
      BY <2>1 DEF Races, Points
    <2>5. life' \in [Sessions -> Lives] /\ buffer' \in [Sessions -> Buffers]
          /\ count' \in [Sessions -> 0..Cardinality(Clients)]
      BY <2>1, <2>2, <2>3 DEF Lives
    <2>6. occupied' \subseteq Buffers /\ held' \in [Clients -> SUBSET Sessions]
      BY <2>1, <2>2
    <2>7. status' \in [Sessions -> Keys \cup {"pending"}]
      BY <2>1
    <2> QED BY <2>1, <2>4, <2>5, <2>6, <2>7
  <1>2. ASSUME NEW c \in Clients, Enlist(c) PROVE TypeOK'
    <2>1. PICK s \in Sessions :
            /\ sessionList' = sessionList \cup {s}
            /\ Tell(s, [o \in Observers |-> IF view[o][s] = "none" THEN "created"
                                                                   ELSE view[o][s]])
      BY <1>2 DEF Enlist
    <2>2. view' \in [Observers -> [Sessions -> Keys \cup {"none", "created", "pending"}]]
      BY <2>1, TellType
    <2>3. pc' \in [Clients -> [at : Points, session : Sessions \cup {NoSession}]]
      BY <1>2 DEF Enlist, Idle, Points
    <2> QED BY <1>2, <2>1, <2>2, <2>3 DEF Enlist, objects, exchange, keys
  <1>3. ASSUME NEW c \in Clients, Session(c) PROVE TypeOK'
    <2>1. PICK s \in sessionList \ held[c] :
            /\ count' = [count EXCEPT ![s] = AddRef(s)]
            /\ held'  = [held EXCEPT ![c] = @ \cup {s}]
            /\ race'  = IF life[s] = "alive" THEN race ELSE "resurrected"
      BY <1>3 DEF Session
    <2>2. AddRef(s) \in 0..Cardinality(Clients)
      <3>1. Holders(s) # Clients /\ Holders(s) \subseteq Clients
        BY <2>1 DEF Holders
      <3>2. Cardinality(Holders(s)) # Cardinality(Clients)
        BY <3>1, SessionsAssumption, FS_Subset
      <3>3. count[s] = Cardinality(Holders(s))
        BY <2>1 DEF CountsBalance
      <3>4. /\ Cardinality(Holders(s)) \in Nat
            /\ Cardinality(Holders(s)) <= Cardinality(Clients)
            /\ Cardinality(Clients) \in Nat
        BY HoldersCounted
      <3> HIDE DEF TypeOK
      <3> QED BY <3>2, <3>3, <3>4 DEF AddRef
    <2>3. race' \in Races /\ held' \in [Clients -> SUBSET Sessions]
      BY <2>1 DEF Races
    <2> QED BY <1>3, <2>1, <2>2, <2>3 DEF Session, table, exchange, keys, told
  <1>4. ASSUME NEW o \in Observers, Register(o) PROVE TypeOK'
    <2>1. view' \in [Observers -> [Sessions -> Keys \cup {"none", "created", "pending"}]]
      BY <1>4 DEF Register, KeysOf
    <2>2. overlooked' \subseteq Observers \X Sessions
      BY <1>4 DEF Register
    <2> QED BY <1>4, <2>1, <2>2 DEF Register, table, objects, exchange, keys, clients
  <1>5. ASSUME NEW o \in Observers, Unregister(o) PROVE TypeOK'
    <2>1. view' \in [Observers -> [Sessions -> Keys \cup {"none", "created", "pending"}]]
      BY <1>5 DEF Unregister
    <2> QED BY <1>5, <2>1 DEF Unregister, table, objects, exchange, keys, clients
  <1>6. ASSUME NEW c \in Clients, Release(c) PROVE TypeOK'
    <2>1. PICK s \in held[c] :
            /\ held'  = [held EXCEPT ![c] = @ \ {s}]
            /\ count' = [count EXCEPT ![s] = @ - 1]
            /\ IF count[s] = 1
               THEN life' = [life EXCEPT ![s] = "dying"] /\ Goes(c, "remove", s)
               ELSE UNCHANGED <<life, pc>>
      BY <1>6 DEF Release
    <2>2. count[s] - 1 \in 0..Cardinality(Clients)
      <3>1. c \in Holders(s)
        BY <2>1 DEF Holders
      <3>2. count[s] = Cardinality(Holders(s)) /\ s \in Sessions
        BY <2>1 DEF CountsBalance
      <3>3. /\ Cardinality(Holders(s)) \in Nat /\ Cardinality(Holders(s)) # 0
            /\ Cardinality(Holders(s)) <= Cardinality(Clients)
            /\ Cardinality(Clients) \in Nat
        BY <3>1, HoldersCounted
      <3> HIDE DEF TypeOK
      <3> QED BY <3>2, <3>3
    <2>3. life' \in [Sessions -> Lives] /\ held' \in [Clients -> SUBSET Sessions]
      BY <2>1 DEF Lives
    <2>4. pc' \in [Clients -> [at : Points, session : Sessions \cup {NoSession}]]
      <3>1. s \in Sessions
        OBVIOUS
      <3>2. CASE count[s] = 1
        BY SMTT(30), <2>1, <3>1, <3>2 DEF Goes, Points
      <3>3. CASE count[s] # 1
        BY <2>1, <3>3
      <3> QED BY <3>2, <3>3
    <2> QED BY <1>6, <2>1, <2>2, <2>3, <2>4 DEF Release, table, exchange, keys, told
  <1>7. ASSUME NEW c \in Clients, Remove(c) PROVE TypeOK'
    <2>1. PICK s \in Sessions :
            /\ race' = IF report[s] # "idle" THEN "destroyed in callback"
                       ELSE IF worker[s] = "decrypting" THEN "destroyed in use" ELSE race
            /\ Tell(s, [o \in Observers |-> "none"])
            /\ life' = [life EXCEPT ![s] = "removed"]
            /\ Goes(c, "stop", s)
            /\ occupied'    = ReleaseBuffer(s)
            /\ sessionList' = sessionList \ {s}
            /\ overlooked'  = {p \in overlooked : p[2] # s}
      BY <1>7 DEF Remove
    <2>2. view' \in [Observers -> [Sessions -> Keys \cup {"none", "created", "pending"}]]
      BY <2>1, TellType
    <2>3. race' \in Races /\ life' \in [Sessions -> Lives]
          /\ pc' \in [Clients -> [at : Points, session : Sessions \cup {NoSession}]]
      BY <2>1 DEF Races, Lives, Goes, Points
    <2>4. occupied' \subseteq Buffers /\ sessionList' \subseteq Sessions
          /\ overlooked' \subseteq Observers \X Sessions
      BY <2>1 DEF ReleaseBuffer
    <2>5. UNCHANGED <<count, buffer, exchange, keys, held, up, observers>>
      BY <1>7 DEF Remove
    <2> QED BY <2>2, <2>3, <2>4, <2>5 DEF exchange, keys
  <1>8. ASSUME NEW c \in Clients, Stop(c) PROVE TypeOK'
    BY <1>8 DEF Stop, Goes, FakeSignal, Lives, Points, table, keys, told
  <1>9. ASSUME NEW c \in Clients, Destroyed(c) PROVE TypeOK'
    <2>1. 0 \in Buffers
      BY SessionsAssumption DEF Buffers
    <2>2. pc' \in [Clients -> [at : Points, session : Sessions \cup {NoSession}]]
      BY <1>9 DEF Destroyed, Idle, Points
    <2> QED BY <1>9, <2>1, <2>2 DEF Destroyed, Lives, table, told
  <1>10. ASSUME NEW c \in Clients, Decrypt(c) PROVE TypeOK'
    BY <1>10 DEF Decrypt, Goes, Points, table, objects, keys, told
  <1>11. ASSUME NEW s \in Sessions, RequestConsume(s) PROVE TypeOK'
    BY <1>11 DEF RequestConsume, Races, table, objects, keys, clients, told
  <1>12. ASSUME NEW s \in Sessions, Consumed(s) PROVE TypeOK'
    BY <1>12 DEF Consumed, Idle, Points, table, objects, keys, told
  <1>13. ASSUME NEW c \in Clients, Die(c) \/ Return(c) PROVE TypeOK'
    <2>1. CASE Die(c)
      BY <2>1 DEF Die, Idle, Points, table, objects, exchange, keys, told
    <2>2. CASE Return(c)
      BY <2>2 DEF Return, table, objects, exchange, keys, told
    <2> QED BY <1>13, <2>1, <2>2
  <1>14. ASSUME NEW s \in Sessions, NEW k \in Keys, UpdateKeyStatus(s, k) PROVE TypeOK'
    BY <1>14 DEF UpdateKeyStatus, table, objects, exchange, clients, told
  <1>15. ASSUME NEW s \in Sessions, ReportKeyChange(s) PROVE TypeOK'
    <2>1. Tell(s, [o \in Observers |-> status[s]])
      BY <1>15 DEF ReportKeyChange
    <2>2. view' \in [Observers -> [Sessions -> Keys \cup {"none", "created", "pending"}]]
      BY <2>1, TellType
    <2> QED BY <1>15, <2>2 DEF ReportKeyChange, table, objects, exchange, clients
  <1>16. ASSUME NEW s \in Sessions, OnKeyStatusUpdate(s) PROVE TypeOK'
    BY <1>16 DEF OnKeyStatusUpdate, table, objects, exchange, clients, told
  <1>17. ASSUME NEW c \in Clients, Revoke(c) PROVE TypeOK'
    BY <1>17 DEF Revoke, Races, table, objects, exchange, clients, told
  <1>18. ASSUME UNCHANGED vars PROVE TypeOK'
    BY <1>18 DEF vars, table, objects, exchange, keys, clients, told
  <1> QED BY <1>1, <1>2, <1>3, <1>4, <1>5, <1>6, <1>7, <1>8, <1>9, <1>10, <1>11, <1>12,
             <1>13, <1>14, <1>15, <1>16, <1>17, <1>18
          DEF Next, Call, GoesOn, Worker, Callback, Stopped

-----------------------------------------------------------------------------
(* The inductive invariant                                                 *)

\* Client c is at a point in the life of session s.
Has(c, at, s) == pc[c].at = at /\ pc[c].session = s

\* A client that is creating or destroying a session has it to itself, and the session
\* is in the part of its life that belongs to the point.
PointsAgree ==
    Defined => \A c \in Clients, s \in Sessions :
        /\ Has(c, "enlist", s) => life[s] = "alive" /\ s \in held[c] /\ s \notin sessionList
        /\ Has(c, "remove", s) => life[s] = "dying"
        /\ Has(c, "stop", s)   => life[s] = "removed"
        /\ Has(c, "join", s)   => life[s] = "stopping"
        /\ \A d \in Clients, at \in {"enlist", "remove", "stop", "join"} :
              Has(c, at, s) /\ Has(d, at, s) => c = d

\* A session that is not in the list is about to be entered: it does not die before.
ListedSoon ==
    Defined => \A s \in Built \ sessionList :
        \E c \in Clients : Has(c, "enlist", s)

\* A session is alive as long as somebody holds it, and only such are in the list.
HeldIsAlive ==
    Defined => /\ \A s \in Sessions : life[s] = "alive" <=> Holders(s) # {}
               /\ sessionList \subseteq Built

\* The buffers that are occupied are those of the sessions before Remove.
BuffersBalance ==
    Defined => /\ occupied = {buffer[s] : s \in Built}
               /\ \A s, t \in Built : buffer[s] = buffer[t] => s = t

\* The CDM reports no session that is past Remove.
ReportsOfBuilt ==
    Defined => \A s \in Sessions : report[s] # "idle" => s \in Built

\* What observers know of the sessions, before they are in the list as well.
Informed ==
    Defined => \A o \in observers, s \in Sessions :
        /\ s \in Built /\ report[s] # "reporting" /\ <<o, s>> \notin overlooked =>
              \/ view[o][s] = status[s]
              \/ /\ status[s] = "pending"
                 /\ view[o][s] = IF s \in sessionList THEN "created" ELSE "none"
        /\ s \notin Built => view[o][s] = "none"

IInv ==
    /\ TypeOK
    /\ CountsBalance
    /\ HeldIsAlive
    /\ BuffersBalance
    /\ PointsAgree
    /\ ListedSoon
    /\ ThreadIsStopped
    /\ ReportsOfBuilt
    /\ Informed

\* Who takes a reference that he does not have becomes one more holder.
LEMMA HoldersAdd ==
    ASSUME TypeOK, NEW c \in Clients, NEW s \in Sessions, s \notin held[c],
           held' = [held EXCEPT ![c] = @ \cup {s}]
    PROVE  /\ Holders(s)' = Holders(s) \cup {c}
           /\ Cardinality(Holders(s)') = Cardinality(Holders(s)) + 1
           /\ \A t \in Sessions \ {s} : Holders(t)' = Holders(t)
  <1>1. Holders(s)' = Holders(s) \cup {c} /\ c \notin Holders(s)
    BY DEF Holders, TypeOK
  <1>2. \A t \in Sessions \ {s} : Holders(t)' = Holders(t)
    BY DEF Holders, TypeOK
  <1> QED BY <1>1, <1>2, HoldersCounted, FS_AddElement

\* Who lets go of one is a holder less.
LEMMA HoldersDrop ==
    ASSUME TypeOK, NEW c \in Clients, NEW s \in held[c],
           held' = [held EXCEPT ![c] = @ \ {s}]
    PROVE  /\ Holders(s)' = Holders(s) \ {c}
           /\ Cardinality(Holders(s)') = Cardinality(Holders(s)) - 1
           /\ c \in Holders(s)
           /\ \A t \in Sessions \ {s} : Holders(t)' = Holders(t)
  <1>1. Holders(s)' = Holders(s) \ {c} /\ c \in Holders(s)
    BY DEF Holders, TypeOK
  <1>2. \A t \in Sessions \ {s} : Holders(t)' = Holders(t)
    BY DEF Holders, TypeOK
  <1> QED BY <1>1, <1>2, HoldersCounted, FS_RemoveElement

\* With a count of 1 there is one holder.
LEMMA SoleHolder ==
    ASSUME TypeOK, CountsBalance, Defined, NEW s \in Sessions, count[s] = 1,
           NEW c \in Clients, NEW d \in Clients, s \in held[c], s \in held[d]
    PROVE  c = d
  <1>1. Cardinality(Holders(s)) = 1 /\ IsFiniteSet(Holders(s))
    BY HoldersCounted DEF CountsBalance
  <1>2. PICK x : Holders(s) = {x}
    BY <1>1, FS_Singleton
  <1> QED BY <1>2 DEF Holders

\* The counts follow the holders.
LEMMA CountsStep ==
    ASSUME IInv, Defined, Next PROVE CountsBalance'
  <1> SUFFICES \A s \in Sessions : count'[s] = Cardinality(Holders(s)')
    BY DEF CountsBalance
  <1>0. TypeOK /\ \A s \in Sessions : count[s] = Cardinality(Holders(s))
    BY DEF IInv, CountsBalance
  <1>a. CASE UNCHANGED <<count, held>>
    BY <1>0, <1>a DEF Holders
  <1>1. ASSUME NEW c \in Clients, CreateSession(c)
        PROVE  \A s \in Sessions : count'[s] = Cardinality(Holders(s)')
    <2>1. PICK s \in Sessions :
              /\ life[s] = "free"
              /\ count'    = [count EXCEPT ![s] = 1]
              /\ held'     = [held EXCEPT ![c] = @ \cup {s}]
      BY <1>1, CreatedSession
    <2>2. Holders(s) = {} /\ s \notin held[c]
      BY <2>1 DEF IInv, HeldIsAlive, Holders
    <2>3. /\ Cardinality(Holders(s)') = Cardinality(Holders(s)) + 1
          /\ \A t \in Sessions \ {s} : Holders(t)' = Holders(t)
      BY <1>0, <2>1, <2>2, HoldersAdd
    <2>4. Cardinality(Holders(s)) = 0
      BY <2>2, FS_EmptySet
    <2>5. count'[s] = 1 /\ \A t \in Sessions \ {s} : count'[t] = count[t]
      BY <1>0, <2>1 DEF TypeOK
    <2> QED BY <1>0, <2>3, <2>4, <2>5
  <1>2. ASSUME NEW c \in Clients, Session(c)
        PROVE  \A s \in Sessions : count'[s] = Cardinality(Holders(s)')
    <2>1. PICK s \in sessionList \ held[c] :
            /\ count' = [count EXCEPT ![s] = AddRef(s)]
            /\ held'  = [held EXCEPT ![c] = @ \cup {s}]
      BY <1>2 DEF Session
    <2>2. s \in Sessions
      BY <1>0 DEF TypeOK
    <2>3. /\ Cardinality(Holders(s)') = Cardinality(Holders(s)) + 1
          /\ \A t \in Sessions \ {s} : Holders(t)' = Holders(t)
      BY <1>0, <2>1, <2>2, HoldersAdd
    <2>4. count'[s] = count[s] + 1 /\ \A t \in Sessions \ {s} : count'[t] = count[t]
      BY <1>0, <2>1, <2>2 DEF TypeOK, AddRef
    <2> QED BY <1>0, <2>2, <2>3, <2>4
  <1>3. ASSUME NEW c \in Clients, Release(c)
        PROVE  \A s \in Sessions : count'[s] = Cardinality(Holders(s)')
    <2>1. PICK s \in held[c] :
            /\ held'  = [held EXCEPT ![c] = @ \ {s}]
            /\ count' = [count EXCEPT ![s] = @ - 1]
      BY <1>3 DEF Release
    <2>2. s \in Sessions
      BY <1>0 DEF TypeOK
    <2>3. /\ Cardinality(Holders(s)') = Cardinality(Holders(s)) - 1
          /\ \A t \in Sessions \ {s} : Holders(t)' = Holders(t)
      BY <1>0, <2>1, HoldersDrop
    <2>4. count'[s] = count[s] - 1 /\ \A t \in Sessions \ {s} : count'[t] = count[t]
      BY <1>0, <2>1, <2>2 DEF TypeOK
    <2> QED BY <1>0, <2>2, <2>3, <2>4
  <1>4. \/ UNCHANGED <<count, held>>
        \/ \E c \in Clients : CreateSession(c) \/ Session(c) \/ Release(c)
    BY DEF Next, Call, GoesOn, Worker, Callback, Stopped, vars, objects, clients, Decrypt,
           Revoke, Enlist, Remove, Stop, Destroyed, Die, Return, RequestConsume,
           Consumed, ReportKeyChange, OnKeyStatusUpdate, UpdateKeyStatus, Register,
           Unregister
  <1> QED BY <1>a, <1>1, <1>2, <1>3, <1>4

\* Sessions are alive from their first reference to the last one, and leave the list
\* before their memory is used again.
LEMMA HeldStep ==
    ASSUME IInv, Next, Defined, Defined' PROVE HeldIsAlive'
  <1> DEFINE Goal == /\ \A s \in Sessions : life'[s] = "alive" <=> Holders(s)' # {}
                     /\ \A s \in sessionList' : s \in Sessions /\ life'[s] \in {"alive", "dying"}
  <1> SUFFICES Goal
    BY DEF HeldIsAlive, Built
  <1>0. /\ TypeOK
        /\ \A s \in Sessions : life[s] = "alive" <=> Holders(s) # {}
        /\ \A s \in sessionList : s \in Sessions /\ life[s] \in {"alive", "dying"}
    BY DEF IInv, HeldIsAlive, Built
  <1>a. CASE UNCHANGED <<life, held, sessionList>>
    BY <1>0, <1>a DEF Holders
  <1>1. ASSUME NEW c \in Clients, CreateSession(c) PROVE Goal
    <2>1. PICK s \in Sessions :
              /\ life[s] = "free"
              /\ life' = [life EXCEPT ![s] = "alive"]
              /\ held' = [held EXCEPT ![c] = @ \cup {s}]
              /\ sessionList' = sessionList
      BY <1>1, CreatedSession
    <2>2. s \notin held[c]
      BY <1>0, <2>1 DEF Holders
    <2>3. /\ Holders(s)' = Holders(s) \cup {c}
          /\ \A t \in Sessions \ {s} : Holders(t)' = Holders(t)
      BY <1>0, <2>1, <2>2, HoldersAdd
    <2>4. life'[s] = "alive" /\ \A t \in Sessions \ {s} : life'[t] = life[t]
      BY <1>0, <2>1 DEF TypeOK
    <2> QED BY <1>0, <2>1, <2>3, <2>4
  <1>2. ASSUME NEW c \in Clients, Enlist(c) PROVE Goal
    <2>1. PICK s \in Sessions :
              /\ At(c, "enlist", s)
              /\ sessionList' = sessionList \cup {s}
              /\ UNCHANGED <<life, held>>
      BY <1>2 DEF Enlist, objects
    <2>2. life[s] = "alive"
      BY <2>1 DEF At, Has, IInv, PointsAgree
    <2> QED BY <1>0, <2>1, <2>2 DEF Holders
  <1>3. ASSUME NEW c \in Clients, Session(c) PROVE Goal
    <2>1. PICK s \in sessionList \ held[c] :
              /\ held' = [held EXCEPT ![c] = @ \cup {s}]
              /\ race' = IF life[s] = "alive" THEN race ELSE "resurrected"
              /\ UNCHANGED <<life, sessionList>>
      BY <1>3 DEF Session, table
    <2>2. s \in Sessions /\ life[s] = "alive"
      BY <1>0, <2>1 DEF Defined
    <2>3. /\ Holders(s)' = Holders(s) \cup {c}
          /\ \A t \in Sessions \ {s} : Holders(t)' = Holders(t)
      BY <1>0, <2>1, <2>2, HoldersAdd
    <2> QED BY <1>0, <2>1, <2>2, <2>3
  <1>4. ASSUME NEW c \in Clients, Release(c) PROVE Goal
    <2>1. PICK s \in held[c] :
              /\ held'  = [held EXCEPT ![c] = @ \ {s}]
              /\ life' = IF count[s] = 1 THEN [life EXCEPT ![s] = "dying"] ELSE life
              /\ UNCHANGED sessionList
      BY <1>4 DEF Release, table
    <2>2. s \in Sessions
      BY <1>0 DEF TypeOK
    <2>3. /\ Cardinality(Holders(s)') = Cardinality(Holders(s)) - 1
          /\ c \in Holders(s)
          /\ \A t \in Sessions \ {s} : Holders(t)' = Holders(t)
      BY <1>0, <2>1, HoldersDrop
    <2>4. life[s] = "alive" /\ count[s] = Cardinality(Holders(s))
      BY <1>0, <2>2, <2>3 DEF IInv, CountsBalance
    <2>5. IsFiniteSet(Holders(s)') /\ IsFiniteSet(Holders(s))
      <3>1. Holders(s)' \subseteq Clients /\ Holders(s) \subseteq Clients
        BY DEF Holders
      <3> QED BY <3>1, SessionsAssumption, FS_Subset
    <2>6. /\ Cardinality(Holders(s)) \in Nat /\ Cardinality(Holders(s)') \in Nat
          /\ Cardinality(Holders(s)') = 0 <=> Holders(s)' = {}
      BY <2>5, FS_CardinalityType, FS_EmptySet
    <2>7. count[s] = 1 <=> Holders(s)' = {}
      BY <2>3, <2>4, <2>6
    <2>8. life'[s] = "alive" <=> Holders(s)' # {}
      BY <1>0, <2>1, <2>2, <2>4, <2>7 DEF TypeOK
    <2>9. life'[s] \in {"alive", "dying"} /\ \A t \in Sessions \ {s} : life'[t] = life[t]
      BY <1>0, <2>1, <2>2, <2>4 DEF TypeOK
    <2> QED BY <1>0, <2>1, <2>2, <2>3, <2>8, <2>9
  <1>5. ASSUME NEW c \in Clients, Remove(c) PROVE Goal
    <2>1. PICK s \in Sessions :
              /\ At(c, "remove", s)
              /\ sessionList' = sessionList \ {s}
              /\ life' = [life EXCEPT ![s] = "removed"]
              /\ UNCHANGED held
      BY <1>5 DEF Remove
    <2>2. life[s] = "dying"
      BY <2>1 DEF At, Has, IInv, PointsAgree
    <2> QED BY <1>0, <2>1, <2>2 DEF Holders, TypeOK
  <1>6. ASSUME NEW c \in Clients, Stop(c) \/ Destroyed(c) PROVE Goal
    <2>1. PICK s \in Sessions, x \in {"stopping", "free"} :
              /\ At(c, "stop", s) \/ At(c, "join", s)
              /\ life' = [life EXCEPT ![s] = x]
              /\ UNCHANGED <<held, sessionList>>
      BY <1>6 DEF Stop, Destroyed, table
    <2>2. life[s] \in {"removed", "stopping"}
      BY <2>1 DEF At, Has, IInv, PointsAgree
    <2> QED BY <1>0, <2>1, <2>2 DEF Holders, TypeOK
  <1>7. \/ UNCHANGED <<life, held, sessionList>>
        \/ \E c \in Clients : \/ CreateSession(c) \/ Enlist(c) \/ Session(c) \/ Release(c)
                              \/ Remove(c) \/ Stop(c) \/ Destroyed(c)
    BY DEF Next, Call, GoesOn, Worker, Callback, Stopped, vars, table, objects, clients,
           Decrypt, Revoke, Die, Return, RequestConsume, Consumed, ReportKeyChange,
           OnKeyStatusUpdate, UpdateKeyStatus, Register, Unregister
  <1> QED BY <1>a, <1>1, <1>2, <1>3, <1>4, <1>5, <1>6, <1>7

\* A buffer is taken by a session that is made and given back once, by the Remove of the
\* session that has it.
LEMMA BuffersStep ==
    ASSUME IInv, Next, Defined, Defined' PROVE BuffersBalance'
  <1> DEFINE Goal == /\ occupied' = {buffer'[s] : s \in Built'}
                     /\ \A s, t \in Built' : buffer'[s] = buffer'[t] => s = t
  <1> SUFFICES Goal
    BY DEF BuffersBalance
  <1>0. /\ TypeOK
        /\ occupied = {buffer[s] : s \in Built}
        /\ \A s, t \in Built : buffer[s] = buffer[t] => s = t
        /\ Built \subseteq Sessions
    BY DEF IInv, BuffersBalance, Built
  <1>a. CASE UNCHANGED <<life, buffer, occupied>>
    BY <1>0, <1>a DEF Built
  <1>1. ASSUME NEW c \in Clients, CreateSession(c) PROVE Goal
    <2>1. PICK s \in Sessions :
              /\ occupied # Buffers
              /\ life[s] = "free"
              /\ life'   = [life EXCEPT ![s] = "alive"]
              /\ buffer' = [buffer EXCEPT ![s] = AquireBuffer]
              /\ occupied' = occupied \cup {AquireBuffer}
      BY <1>1, CreatedSession
    <2>2. AquireBuffer \notin occupied
      BY <1>0, <2>1, AcquiredIsFree DEF TypeOK
    <2>3. Built' = Built \cup {s} /\ s \notin Built
      BY <1>0, <2>1 DEF Built, TypeOK
    <2>4. buffer'[s] = AquireBuffer /\ \A t \in Built : buffer'[t] = buffer[t]
      BY <1>0, <2>1, <2>3 DEF TypeOK
    <2> HIDE DEF AquireBuffer
    <2> QED BY <1>0, <2>1, <2>2, <2>3, <2>4
  <1>2. ASSUME NEW c \in Clients, Release(c) PROVE Goal
    <2>1. PICK s \in held[c] :
              /\ life' = IF count[s] = 1 THEN [life EXCEPT ![s] = "dying"] ELSE life
              /\ UNCHANGED <<buffer, occupied>>
      BY <1>2 DEF Release, table
    <2>2. s \in Sessions /\ life[s] = "alive"
      <3>1. s \in Sessions /\ c \in Holders(s)
        BY <1>0 DEF TypeOK, Holders
      <3> QED BY <3>1 DEF IInv, HeldIsAlive
    <2>3. Built' = Built
      BY <1>0, <2>1, <2>2 DEF Built, TypeOK
    <2> QED BY <1>0, <2>1, <2>3
  <1>3. ASSUME NEW c \in Clients, Remove(c) PROVE Goal
    <2>1. PICK s \in Sessions :
              /\ At(c, "remove", s)
              /\ occupied' = occupied \ {buffer[s]}
              /\ life' = [life EXCEPT ![s] = "removed"]
              /\ UNCHANGED buffer
      BY <1>3 DEF Remove, ReleaseBuffer
    <2>2. s \in Built
      BY <2>1 DEF At, Has, IInv, PointsAgree, Built
    <2>3. Built' = Built \ {s}
      BY <1>0, <2>1 DEF Built, TypeOK
    <2> QED BY <1>0, <2>1, <2>2, <2>3
  <1>4. ASSUME NEW c \in Clients, Stop(c) \/ Destroyed(c) PROVE Goal
    <2>1. PICK s \in Sessions, x \in {"stopping", "free"} :
              /\ At(c, "stop", s) \/ At(c, "join", s)
              /\ life' = [life EXCEPT ![s] = x]
              /\ \E b : buffer' = [buffer EXCEPT ![s] = b]
              /\ UNCHANGED occupied
      <3>1. CASE Stop(c)
        <4>1. PICK s \in Sessions : /\ At(c, "stop", s)
                                    /\ life' = [life EXCEPT ![s] = "stopping"]
                                    /\ UNCHANGED <<buffer, occupied>>
          BY <3>1 DEF Stop, table
        <4>2. buffer' = [buffer EXCEPT ![s] = buffer[s]]
          BY <1>0, <4>1 DEF TypeOK
        <4> QED BY <4>1, <4>2
      <3>2. CASE Destroyed(c)
        BY <3>2 DEF Destroyed, table
      <3> QED BY <1>4, <3>1, <3>2
    <2>2. s \notin Built
      BY <2>1 DEF At, Has, IInv, PointsAgree, Built
    <2>3. Built' = Built /\ \A t \in Built : buffer'[t] = buffer[t]
      BY <1>0, <2>1, <2>2 DEF Built, TypeOK
    <2> QED BY <1>0, <2>1, <2>3
  <1>5. \/ UNCHANGED <<life, buffer, occupied>>
        \/ \E c \in Clients : \/ CreateSession(c) \/ Release(c)
                              \/ Remove(c) \/ Stop(c) \/ Destroyed(c)
    BY DEF Next, Call, GoesOn, Worker, Callback, Stopped, vars, table, objects, clients,
           Decrypt, Revoke, Enlist, Session, Die, Return, RequestConsume, Consumed,
           ReportKeyChange, OnKeyStatusUpdate, UpdateKeyStatus, Register, Unregister
  <1> QED BY <1>a, <1>1, <1>2, <1>3, <1>4, <1>5

\* The points of the clients and the lives of the sessions go together: nobody else takes
\* or drops a session that is made, nobody else goes on with one that is destroyed.
LEMMA PointsStep ==
    ASSUME IInv, Next, Defined, Defined' PROVE PointsAgree'
  <1> DEFINE Entering == {"enlist", "remove", "stop", "join"}
             Agree(c, s) ==
               /\ Has(c, "enlist", s)' => /\ life'[s] = "alive" /\ s \in held'[c]
                                          /\ s \notin sessionList'
               /\ Has(c, "remove", s)' => life'[s] = "dying"
               /\ Has(c, "stop", s)'   => life'[s] = "removed"
               /\ Has(c, "join", s)'   => life'[s] = "stopping"
             Alone(c, s) == \A d \in Clients, at \in Entering :
                               Has(c, at, s)' /\ Has(d, at, s)' => c = d
             Goal == \A c \in Clients, s \in Sessions : Agree(c, s) /\ Alone(c, s)
  <1> SUFFICES Goal
    BY DEF PointsAgree
  <1>0. /\ TypeOK
        /\ \A c \in Clients, s \in Sessions :
              /\ Has(c, "enlist", s) => /\ life[s] = "alive" /\ s \in held[c]
                                        /\ s \notin sessionList
              /\ Has(c, "remove", s) => life[s] = "dying"
              /\ Has(c, "stop", s)   => life[s] = "removed"
              /\ Has(c, "join", s)   => life[s] = "stopping"
              /\ \A d \in Clients, at \in Entering :
                    Has(c, at, s) /\ Has(d, at, s) => c = d
    BY DEF IInv, PointsAgree
  <1> USE DEF Has
  <1>a. CASE UNCHANGED <<pc, life, held, sessionList>>
    BY <1>0, <1>a
  <1>1. ASSUME NEW c \in Clients, CreateSession(c) PROVE Goal
    <2>1. PICK s \in Sessions :
              /\ life[s] = "free"
              /\ life' = [life EXCEPT ![s] = "alive"]
              /\ held' = [held EXCEPT ![c] = @ \cup {s}]
              /\ pc' = [pc EXCEPT ![c] = [at |-> "enlist", session |-> s]]
              /\ sessionList' = sessionList
      BY <1>1, CreatedSession
    <2>2. s \notin sessionList
      BY <2>1 DEF IInv, HeldIsAlive, Built
    <2>3. \A d \in Clients : pc[d].session = s => pc[d].at \notin Entering
      BY <1>0, <2>1
    <2> QED BY <1>0, <2>1, <2>2, <2>3 DEF TypeOK
  <1>2. ASSUME NEW c \in Clients, Enlist(c) PROVE Goal
    <2>1. PICK s \in Sessions :
              /\ Has(c, "enlist", s)
              /\ sessionList' = sessionList \cup {s}
              /\ pc' = [pc EXCEPT ![c] = Idle]
              /\ UNCHANGED <<life, held>>
      BY <1>2 DEF Enlist, At, objects
    <2>2. \A d \in Clients : pc'[d].at # "idle" => d # c /\ pc'[d] = pc[d]
      BY <1>0, <2>1 DEF TypeOK, Idle
    <2> QED BY <1>0, <2>1, <2>2
  <1>3. ASSUME NEW c \in Clients, Session(c) PROVE Goal
    <2>1. PICK s : /\ held' = [held EXCEPT ![c] = @ \cup {s}]
                   /\ UNCHANGED <<life, sessionList, pc>>
      BY <1>3 DEF Session, table
    <2> QED BY <1>0, <2>1 DEF TypeOK
  <1>4. ASSUME NEW c \in Clients, Release(c) PROVE Goal
    <2>1. PICK s \in held[c] :
              /\ held' = [held EXCEPT ![c] = @ \ {s}]
              /\ IF count[s] = 1
                 THEN life' = [life EXCEPT ![s] = "dying"] /\ Goes(c, "remove", s)
                 ELSE UNCHANGED <<life, pc>>
              /\ pc[c] = Idle
              /\ UNCHANGED sessionList
      BY <1>4 DEF Release, table
    <2>2. s \in Sessions /\ life[s] = "alive"
      <3>1. s \in Sessions /\ c \in Holders(s)
        BY <1>0 DEF TypeOK, Holders
      <3> QED BY <3>1 DEF IInv, HeldIsAlive
    <2>3. CASE count[s] # 1
      BY <1>0, <2>1, <2>3 DEF TypeOK, Idle
    <2>4. CASE count[s] = 1
      <3>1. \A d \in Clients : s \in held[d] => d = c
        BY <2>2, <2>4, SoleHolder DEF IInv
      <3>2. \A d \in Clients : pc[d].session = s => pc[d].at \notin Entering
        BY <1>0, <2>1, <2>2, <3>1 DEF Idle
      <3>3. /\ pc' = [pc EXCEPT ![c] = [at |-> "remove", session |-> s]]
            /\ life' = [life EXCEPT ![s] = "dying"]
        BY <2>1, <2>4 DEF Goes
      <3> QED BY <1>0, <2>1, <2>2, <3>2, <3>3 DEF TypeOK
    <2> QED BY <2>3, <2>4
  <1>5. ASSUME NEW c \in Clients, Remove(c) PROVE Goal
    <2>1. PICK s \in Sessions :
              /\ At(c, "remove", s)
              /\ sessionList' = sessionList \ {s}
              /\ life' = [life EXCEPT ![s] = "removed"]
              /\ pc' = [pc EXCEPT ![c] = [at |-> "stop", session |-> s]]
              /\ UNCHANGED held
      BY <1>5 DEF Remove, Goes
    <2>2. Has(c, "remove", s)
      BY <2>1 DEF At
    <2>3. \A d \in Clients \ {c} : pc[d].session = s => pc[d].at \notin Entering
      BY <1>0, <2>2
    <2> QED BY <1>0, <2>1, <2>2, <2>3 DEF TypeOK
  <1>6. ASSUME NEW c \in Clients, Stop(c) PROVE Goal
    <2>1. PICK s \in Sessions :
              /\ At(c, "stop", s)
              /\ life' = [life EXCEPT ![s] = "stopping"]
              /\ pc' = [pc EXCEPT ![c] = [at |-> "join", session |-> s]]
              /\ UNCHANGED <<held, sessionList>>
      BY <1>6 DEF Stop, Goes, table
    <2>2. Has(c, "stop", s)
      BY <2>1 DEF At
    <2>3. \A d \in Clients \ {c} : pc[d].session = s => pc[d].at \notin Entering
      BY <1>0, <2>2
    <2> QED BY <1>0, <2>1, <2>2, <2>3 DEF TypeOK
  <1>7. ASSUME NEW c \in Clients, Destroyed(c) PROVE Goal
    <2>1. PICK s \in Sessions :
              /\ At(c, "join", s)
              /\ life' = [life EXCEPT ![s] = "free"]
              /\ pc' = [pc EXCEPT ![c] = Idle]
              /\ UNCHANGED <<held, sessionList>>
      BY <1>7 DEF Destroyed, table
    <2>2. Has(c, "join", s)
      BY <2>1 DEF At
    <2>3. \A d \in Clients \ {c} : pc[d].session = s => pc[d].at \notin Entering
      BY <1>0, <2>2
    <2> QED BY <1>0, <2>1, <2>2, <2>3 DEF TypeOK, Idle
  <1>8. ASSUME NEW c \in Clients, Decrypt(c) PROVE Goal
    <2>1. \E s : pc' = [pc EXCEPT ![c] = [at |-> "decrypt", session |-> s]]
      BY <1>8 DEF Decrypt, Goes
    <2> QED BY <1>0, <1>8, <2>1 DEF Decrypt, TypeOK, table, objects
  <1>9. ASSUME /\ UNCHANGED <<life, held, sessionList>>
               /\ \A c \in Clients : pc'[c] \in {pc[c], Idle}
        PROVE  Goal
    BY <1>0, <1>9 DEF Idle
  <1>10. ASSUME NEW c \in Clients, Die(c) PROVE Goal
    <2>1. \A d \in Clients : pc'[d] \in {pc[d], Idle}
      BY <1>0, <1>10 DEF Die, TypeOK
    <2> QED BY <1>9, <1>10, <2>1 DEF Die, table, objects
  <1>11. ASSUME NEW s \in Sessions, Consumed(s) PROVE Goal
    <2>1. \A d \in Clients : pc'[d] \in {pc[d], Idle}
      BY <1>11 DEF Consumed
    <2> QED BY <1>9, <1>11, <2>1 DEF Consumed, table, objects
  <1>12. \/ UNCHANGED <<pc, life, held, sessionList>>
         \/ \E c \in Clients : \/ CreateSession(c) \/ Enlist(c) \/ Session(c) \/ Release(c)
                               \/ Remove(c) \/ Stop(c) \/ Destroyed(c) \/ Decrypt(c) \/ Die(c)
         \/ \E s \in Sessions : Consumed(s)
    BY DEF Next, Call, GoesOn, Worker, Callback, Stopped, vars, table, objects, clients,
           Revoke, Return, RequestConsume, ReportKeyChange, OnKeyStatusUpdate,
           UpdateKeyStatus, Register, Unregister
  <1> QED BY <1>a, <1>1, <1>2, <1>3, <1>4, <1>5, <1>6, <1>7, <1>8, <1>10, <1>11, <1>12

\* A session that is not in the list yet stays with the client that enters it.
LEMMA ListedStep ==
    ASSUME IInv, Next, Defined, Defined' PROVE ListedSoon'
  <1> DEFINE Goal == \A s \in Built' : s \notin sessionList' =>
                        \E c \in Clients : Has(c, "enlist", s)'
  <1> SUFFICES Goal
    BY DEF ListedSoon
  <1>0. /\ TypeOK
        /\ \A s \in Built : s \notin sessionList => \E c \in Clients : Has(c, "enlist", s)
        /\ Built \subseteq Sessions
    BY DEF IInv, ListedSoon, Built
  <1>a. CASE UNCHANGED <<pc, life, sessionList>>
    BY <1>0, <1>a DEF Has, Built
  <1>1. ASSUME NEW c \in Clients, CreateSession(c) PROVE Goal
    <2>1. PICK s \in Sessions :
              /\ Free(c)
              /\ life' = [life EXCEPT ![s] = "alive"]
              /\ pc' = [pc EXCEPT ![c] = [at |-> "enlist", session |-> s]]
              /\ sessionList' = sessionList
      BY ZenonT(30), <1>1, CreatedSession
    <2>2. Built' \subseteq Built \cup {s}
      BY <1>0, <2>1 DEF Built, TypeOK
    <2>3. Has(c, "enlist", s)'
      BY <1>0, <2>1 DEF Has, TypeOK
    <2>4. \A d \in Clients, t \in Sessions : Has(d, "enlist", t) => Has(d, "enlist", t)'
      BY <1>0, <2>1 DEF Has, Free, Idle, TypeOK
    <2> QED BY <1>0, <2>1, <2>2, <2>3, <2>4
  <1>2. ASSUME NEW c \in Clients, Enlist(c) PROVE Goal
    <2>1. PICK s \in Sessions :
              /\ At(c, "enlist", s)
              /\ sessionList' = sessionList \cup {s}
              /\ pc' = [pc EXCEPT ![c] = Idle]
              /\ UNCHANGED life
      BY <1>2 DEF Enlist, objects
    <2>2. \A d \in Clients, t \in Sessions \ {s} :
             Has(d, "enlist", t) => Has(d, "enlist", t)'
      BY <1>0, <2>1 DEF Has, At, TypeOK
    <2>3. Built' = Built
      BY <2>1 DEF Built
    <2> QED BY <1>0, <2>1, <2>2, <2>3
  <1>3. ASSUME NEW c \in Clients, Release(c) PROVE Goal
    <2>1. PICK s \in held[c] :
              /\ IF count[s] = 1
                 THEN life' = [life EXCEPT ![s] = "dying"] /\ Goes(c, "remove", s)
                 ELSE UNCHANGED <<life, pc>>
              /\ pc[c] = Idle
              /\ UNCHANGED sessionList
      BY <1>3 DEF Release, table
    <2>2. s \in Sessions /\ life[s] = "alive"
      <3>1. s \in Sessions /\ c \in Holders(s)
        BY <1>0 DEF TypeOK, Holders
      <3> QED BY <3>1 DEF IInv, HeldIsAlive
    <2>3. Built' = Built
      BY <1>0, <2>1, <2>2 DEF Built, TypeOK
    <2>4. \A d \in Clients, t \in Sessions : Has(d, "enlist", t) => Has(d, "enlist", t)'
      BY SMTT(30), <1>0, <2>1 DEF Has, Goes, Idle, TypeOK
    <2> QED BY <1>0, <2>1, <2>3, <2>4
  <1>4. ASSUME NEW c \in Clients, NEW s \in Sessions,
               At(c, "remove", s) \/ At(c, "stop", s) \/ At(c, "join", s),
               NEW x \in {"removed", "stopping", "free"}, life' = [life EXCEPT ![s] = x],
               sessionList' \in {sessionList, sessionList \ {s}},
               NEW p, pc' = [pc EXCEPT ![c] = p]
        PROVE  Goal
    <2>1. \A d \in Clients, t \in Sessions : Has(d, "enlist", t) => Has(d, "enlist", t)'
      BY <1>0, <1>4 DEF Has, At, TypeOK
    <2>2. Built' \subseteq Built /\ s \notin Built'
      BY <1>0, <1>4 DEF Built, TypeOK
    <2> QED BY <1>0, <1>4, <2>1, <2>2
  <1>5. ASSUME NEW c \in Clients, Remove(c) PROVE Goal
    <2>1. PICK s \in Sessions :
              /\ At(c, "remove", s)
              /\ sessionList' = sessionList \ {s}
              /\ life' = [life EXCEPT ![s] = "removed"]
              /\ Goes(c, "stop", s)
      BY <1>5 DEF Remove
    <2> QED BY <1>4, <2>1 DEF Goes
  <1>6. ASSUME NEW c \in Clients, Stop(c) PROVE Goal
    <2>1. PICK s \in Sessions :
              /\ At(c, "stop", s)
              /\ life' = [life EXCEPT ![s] = "stopping"]
              /\ Goes(c, "join", s)
              /\ sessionList' = sessionList
      BY <1>6 DEF Stop, table
    <2> QED BY <1>4, <2>1 DEF Goes
  <1>7. ASSUME NEW c \in Clients, Destroyed(c) PROVE Goal
    <2>1. PICK s \in Sessions :
              /\ At(c, "join", s)
              /\ life' = [life EXCEPT ![s] = "free"]
              /\ pc' = [pc EXCEPT ![c] = Idle]
              /\ sessionList' = sessionList
      BY <1>7 DEF Destroyed, table
    <2> QED BY <1>4, <2>1
  <1>8. ASSUME UNCHANGED <<life, sessionList>>,
               \A c \in Clients : pc[c].at = "enlist" => pc'[c] = pc[c]
        PROVE  Goal
    BY <1>0, <1>8 DEF Has, Built
  <1>9. ASSUME NEW c \in Clients, Decrypt(c) \/ Die(c) PROVE Goal
    <2>1. \A d \in Clients : pc[d].at = "enlist" => pc'[d] = pc[d]
      <3>1. pc[c].at # "enlist"
        BY <1>9 DEF Decrypt, Die, Free, Idle
      <3>2. \E p : pc' = [pc EXCEPT ![c] = p]
        BY <1>9 DEF Decrypt, Die, Goes
      <3> QED BY <1>0, <3>1, <3>2 DEF TypeOK
    <2>2. UNCHANGED <<life, sessionList>>
      BY <1>9 DEF Decrypt, Die, table, objects
    <2> QED BY <1>8, <2>1, <2>2
  <1>10. ASSUME NEW s \in Sessions, Consumed(s) PROVE Goal
    <2>1. \A d \in Clients : pc[d].at = "enlist" => pc'[d] = pc[d]
      BY <1>10 DEF Consumed, At
    <2> QED BY <1>8, <1>10, <2>1 DEF Consumed, table, objects
  <1>11. \/ UNCHANGED <<pc, life, sessionList>>
         \/ \E c \in Clients : \/ CreateSession(c) \/ Enlist(c) \/ Release(c) \/ Remove(c)
                               \/ Stop(c) \/ Destroyed(c) \/ Decrypt(c) \/ Die(c)
         \/ \E s \in Sessions : Consumed(s)
    BY DEF Next, Call, GoesOn, Worker, Callback, Stopped, vars, table, objects, clients,
           Session, Revoke, Return, RequestConsume, ReportKeyChange, OnKeyStatusUpdate,
           UpdateKeyStatus, Register, Unregister
  <1> QED BY <1>a, <1>1, <1>2, <1>3, <1>5, <1>6, <1>7, <1>9, <1>10, <1>11

\* Stop wakes the thread up, and the thread looks before it sleeps again.
LEMMA ThreadStep ==
    ASSUME IInv, Next, Defined, Defined' PROVE ThreadIsStopped'
  <1> DEFINE Goal == \A s \in Sessions :
                /\ life'[s] = "stopping" => worker'[s] # "waiting" \/ produced'[s]
                /\ life'[s] = "free" <=> (worker'[s] = "stopped" /\ life'[s] # "stopping")
  <1> SUFFICES Goal
    BY DEF ThreadIsStopped
  <1>0. /\ TypeOK
        /\ \A s \in Sessions :
              /\ life[s] = "stopping" => worker[s] # "waiting" \/ produced[s]
              /\ life[s] = "free" <=> (worker[s] = "stopped" /\ life[s] # "stopping")
    BY DEF IInv, ThreadIsStopped
  <1>a. CASE UNCHANGED <<life, worker, produced>>
    BY <1>0, <1>a
  <1>1. ASSUME NEW c \in Clients, CreateSession(c) PROVE Goal
    <2>1. PICK s \in Sessions :
              /\ life'     = [life EXCEPT ![s] = "alive"]
              /\ worker'   = [worker EXCEPT ![s] = "waiting"]
              /\ produced' = [produced EXCEPT ![s] = FALSE]
      BY <1>1, CreatedSession
    <2> QED BY <1>0, <2>1 DEF TypeOK
  <1>2. ASSUME NEW c \in Clients, Release(c) PROVE Goal
    <2>1. PICK s \in held[c] :
              /\ life' = IF count[s] = 1 THEN [life EXCEPT ![s] = "dying"] ELSE life
              /\ UNCHANGED <<worker, produced>>
      BY <1>2 DEF Release, exchange
    <2>2. s \in Sessions /\ life[s] = "alive"
      <3>1. s \in Sessions /\ c \in Holders(s)
        BY <1>0 DEF TypeOK, Holders
      <3> QED BY <3>1 DEF IInv, HeldIsAlive
    <2> QED BY <1>0, <2>1, <2>2 DEF TypeOK
  <1>3. ASSUME NEW c \in Clients, Remove(c) PROVE Goal
    <2>1. PICK s \in Sessions :
              /\ At(c, "remove", s)
              /\ life' = [life EXCEPT ![s] = "removed"]
              /\ UNCHANGED <<worker, produced>>
      BY <1>3 DEF Remove, exchange
    <2>2. life[s] = "dying"
      BY <2>1 DEF At, Has, IInv, PointsAgree
    <2> QED BY <1>0, <2>1, <2>2 DEF TypeOK
  <1>4. ASSUME NEW c \in Clients, Stop(c) PROVE Goal
    <2>1. PICK s \in Sessions :
              /\ At(c, "stop", s)
              /\ life' = [life EXCEPT ![s] = "stopping"]
              /\ produced' = [produced EXCEPT ![s] = TRUE]
              /\ UNCHANGED worker
      BY <1>4 DEF Stop, FakeSignal
    <2> QED BY <1>0, <2>1 DEF TypeOK
  <1>5. ASSUME NEW c \in Clients, Destroyed(c) PROVE Goal
    <2>1. PICK s \in Sessions :
              /\ worker[s] = "stopped"
              /\ life' = [life EXCEPT ![s] = "free"]
              /\ produced' = [produced EXCEPT ![s] = FALSE]
              /\ UNCHANGED worker
      BY <1>5 DEF Destroyed
    <2> QED BY <1>0, <2>1 DEF TypeOK
  <1>6. ASSUME NEW c \in Clients, Decrypt(c) PROVE Goal
    <2>1. PICK s \in held[c] :
              /\ produced' = [produced EXCEPT ![s] = TRUE]
              /\ UNCHANGED <<life, worker>>
      BY <1>6 DEF Decrypt, objects
    <2> QED BY <1>0, <2>1 DEF TypeOK
  <1>7. ASSUME NEW s \in Sessions, RequestConsume(s) PROVE Goal
    BY <1>0, <1>7 DEF RequestConsume, TypeOK, objects
  <1>8. ASSUME NEW s \in Sessions, Consumed(s) PROVE Goal
    BY <1>0, <1>8 DEF Consumed, TypeOK, objects
  <1>9. \/ UNCHANGED <<life, worker, produced>>
        \/ \E c \in Clients : \/ CreateSession(c) \/ Release(c) \/ Remove(c)
                              \/ Stop(c) \/ Destroyed(c) \/ Decrypt(c)
        \/ \E s \in Sessions : RequestConsume(s) \/ Consumed(s)
    BY DEF Next, Call, GoesOn, Worker, Callback, Stopped, vars, objects, exchange,
           Session, Enlist, Die, Revoke, Return, ReportKeyChange, OnKeyStatusUpdate,
           UpdateKeyStatus, Register, Unregister
  <1> QED BY <1>a, <1>1, <1>2, <1>3, <1>4, <1>5, <1>6, <1>7, <1>8, <1>9

\* Remove, which is past the callbacks, comes when there are none under way.
LEMMA ReportsStep ==
    ASSUME IInv, Next, Defined, Defined' PROVE ReportsOfBuilt'
  <1> DEFINE Goal == \A s \in Sessions : report'[s] # "idle" => life'[s] \in {"alive", "dying"}
  <1> SUFFICES Goal
    BY DEF ReportsOfBuilt, Built
  <1>0. TypeOK /\ \A s \in Sessions : report[s] # "idle" => life[s] \in {"alive", "dying"}
    BY DEF IInv, ReportsOfBuilt, Built
  <1>a. CASE UNCHANGED <<report, life>>
    BY <1>0, <1>a
  <1>1. ASSUME NEW c \in Clients, CreateSession(c) PROVE Goal
    <2>1. PICK s \in Sessions : life' = [life EXCEPT ![s] = "alive"] /\ report' = report
      BY <1>1, CreatedSession
    <2> QED BY <1>0, <2>1 DEF TypeOK
  <1>2. ASSUME NEW c \in Clients, Release(c) PROVE Goal
    <2>1. PICK s \in held[c] :
              /\ life' = IF count[s] = 1 THEN [life EXCEPT ![s] = "dying"] ELSE life
              /\ UNCHANGED report
      BY <1>2 DEF Release, keys
    <2> QED BY <1>0, <2>1 DEF TypeOK
  <1>3. ASSUME NEW c \in Clients, Remove(c) PROVE Goal
    <2>1. PICK s \in Sessions :
              /\ life' = [life EXCEPT ![s] = "removed"]
              /\ race' = IF report[s] # "idle" THEN "destroyed in callback"
                         ELSE IF worker[s] = "decrypting" THEN "destroyed in use" ELSE race
              /\ UNCHANGED report
      BY <1>3 DEF Remove, keys
    <2>2. report[s] = "idle"
      BY <2>1 DEF Defined
    <2> QED BY <1>0, <2>1, <2>2 DEF TypeOK
  <1>4. ASSUME NEW c \in Clients, Stop(c) \/ Destroyed(c) PROVE Goal
    <2>1. PICK s \in Sessions, x \in {"stopping", "free"} :
              /\ At(c, "stop", s) \/ At(c, "join", s)
              /\ life' = [life EXCEPT ![s] = x]
              /\ UNCHANGED report
      BY <1>4 DEF Stop, Destroyed, keys
    <2>2. life[s] \in {"removed", "stopping"}
      BY <2>1 DEF At, Has, IInv, PointsAgree
    <2> QED BY <1>0, <2>1, <2>2 DEF TypeOK
  <1>5. ASSUME NEW s \in Sessions, NEW k \in Keys, UpdateKeyStatus(s, k) PROVE Goal
    BY <1>0, <1>5 DEF UpdateKeyStatus, TypeOK, objects
  <1>6. ASSUME NEW s \in Sessions, ReportKeyChange(s) \/ OnKeyStatusUpdate(s) PROVE Goal
    BY <1>0, <1>6 DEF ReportKeyChange, OnKeyStatusUpdate, TypeOK, objects
  <1>7. \/ UNCHANGED <<report, life>>
        \/ \E c \in Clients : \/ CreateSession(c) \/ Release(c) \/ Remove(c)
                              \/ Stop(c) \/ Destroyed(c)
        \/ \E s \in Sessions : \/ ReportKeyChange(s) \/ OnKeyStatusUpdate(s)
                               \/ \E k \in Keys : UpdateKeyStatus(s, k)
    BY DEF Next, Call, GoesOn, Worker, Callback, Stopped, vars, objects, keys, Decrypt,
           Session, Enlist, Die, Revoke, Return, RequestConsume, Consumed, Register,
           Unregister
  <1> QED BY <1>a, <1>1, <1>2, <1>3, <1>4, <1>5, <1>6, <1>7

\* Whatever changes a key is followed by a report, which reaches all that are registered;
\* who registers in between learns the key from the list, or has overlooked the report of
\* a session that was not in it.
LEMMA InformedStep ==
    ASSUME IInv, Next, Defined, Defined' PROVE Informed'
  <1> DEFINE Knows(o, s) ==
                /\ /\ life'[s] \in {"alive", "dying"} /\ report'[s] # "reporting"
                   /\ <<o, s>> \notin overlooked'
                   => \/ view'[o][s] = status'[s]
                      \/ /\ status'[s] = "pending"
                         /\ view'[o][s] = IF s \in sessionList' THEN "created" ELSE "none"
                /\ life'[s] \notin {"alive", "dying"} => view'[o][s] = "none"
             Goal == \A o \in observers', s \in Sessions : Knows(o, s)
  <1> SUFFICES Goal
    BY DEF Informed, Built
  <1>0. /\ TypeOK
        /\ \A o \in observers, s \in Sessions :
              /\ /\ life[s] \in {"alive", "dying"} /\ report[s] # "reporting"
                 /\ <<o, s>> \notin overlooked
                 => \/ view[o][s] = status[s]
                    \/ /\ status[s] = "pending"
                       /\ view[o][s] = IF s \in sessionList THEN "created" ELSE "none"
              /\ life[s] \notin {"alive", "dying"} => view[o][s] = "none"
        /\ \A s \in sessionList : life[s] \in {"alive", "dying"}
        /\ \A s \in Sessions : report[s] # "idle" => life[s] \in {"alive", "dying"}
        /\ "none" \notin Keys /\ "pending" \notin Keys
    BY SessionsAssumption DEF IInv, Informed, HeldIsAlive, ReportsOfBuilt, Built
  <1>b. ASSUME NEW o \in observers, NEW t \in Sessions,
               life'[t] = life[t], report'[t] = report[t], status'[t] = status[t],
               view'[o][t] = view[o][t], t \in sessionList' <=> t \in sessionList,
               <<o, t>> \in overlooked => <<o, t>> \in overlooked'
        PROVE  Knows(o, t)
    BY <1>0, <1>b
  <1>a. CASE UNCHANGED <<life, report, status, sessionList, told>>
    BY <1>0, <1>a DEF told
  <1>1. ASSUME NEW c \in Clients, CreateSession(c) PROVE Goal
    <2>1. PICK s \in Sessions :
              /\ life[s] = "free"
              /\ life'   = [life EXCEPT ![s] = "alive"]
              /\ status' = [status EXCEPT ![s] = "pending"]
              /\ UNCHANGED <<sessionList, report, observers, view, overlooked>>
      BY <1>1, CreatedSession
    <2>2. s \notin sessionList
      BY <1>0, <2>1
    <2> QED BY ZenonT(30), <1>0, <2>1, <2>2 DEF TypeOK
  <1>2. ASSUME NEW c \in Clients, Enlist(c) PROVE Goal
    <2>1. PICK s \in Sessions :
              /\ At(c, "enlist", s)
              /\ sessionList' = sessionList \cup {s}
              /\ Tell(s, [o \in Observers |-> IF view[o][s] = "none" THEN "created"
                                                                     ELSE view[o][s]])
              /\ UNCHANGED <<life, report, status, observers, overlooked>>
      BY <1>2 DEF Enlist, objects, keys
    <2>2. life[s] = "alive" /\ s \notin sessionList
      BY <2>1 DEF At, Has, IInv, PointsAgree
    <2>3. \A o \in observers : /\ \A t \in Sessions \ {s} : view'[o][t] = view[o][t]
                               /\ view'[o][s] = IF view[o][s] = "none" THEN "created"
                                                                       ELSE view[o][s]
      BY <1>0, <2>1 DEF Tell, TypeOK
    <2>4. status[s] # "none"
      BY <1>0 DEF TypeOK
    <2>5. \A o \in observers : Knows(o, s)
      BY <1>0, <2>1, <2>2, <2>3, <2>4
    <2>6. ASSUME NEW o \in observers, NEW t \in Sessions \ {s} PROVE Knows(o, t)
      <3>1. t \in sessionList' <=> t \in sessionList
        BY <2>1
      <3>2. view'[o][t] = view[o][t]
        BY <2>3
      <3>3. /\ life'[t] = life[t] /\ report'[t] = report[t] /\ status'[t] = status[t]
            /\ overlooked' = overlooked
        BY <2>1
      <3> HIDE DEF Knows
      <3> QED BY <1>b, <3>1, <3>2, <3>3
    <2>7. observers' = observers
      BY <2>1
    <2> HIDE DEF Knows
    <2> QED BY <2>5, <2>6, <2>7
  <1>3. ASSUME NEW o \in Observers, Register(o) PROVE Goal
    <2>1. /\ observers' = observers \cup {o}
          /\ view' = [view EXCEPT ![o] = [s \in Sessions |-> KeysOf(s)]]
          /\ o \notin observers
          /\ UNCHANGED <<life, report, status, sessionList>>
      BY <1>3 DEF Register, table, objects, keys
    <2>2. overlooked' = overlooked \cup
              {<<o, s>> : s \in {t \in Sessions \ sessionList :
                                    life[t] = "alive" /\ status[t] # "pending"}}
      BY <1>3 DEF Register
    <2>3. \A s \in Sessions : view'[o][s] = IF s \in sessionList THEN status[s] ELSE "none"
      BY <1>0, <2>1 DEF KeysOf, TypeOK
    <2>4. \A d \in observers : view'[d] = view[d]
      BY <1>0, <2>1 DEF TypeOK
    <2>5. \A s \in Sessions \ sessionList : life[s] # "dying"
      <3> SUFFICES ASSUME NEW s \in Sessions \ sessionList, life[s] = "dying" PROVE FALSE
        OBVIOUS
      <3>1. s \in Built
        BY DEF Built
      <3>2. PICK c \in Clients : Has(c, "enlist", s)
        BY <3>1 DEF IInv, ListedSoon
      <3> QED BY <3>2 DEF IInv, PointsAgree
    <2>6. ASSUME NEW s \in Sessions PROVE Knows(o, s)
      <3>1. CASE s \in sessionList
        BY <1>0, <2>1, <2>3, <3>1
      <3>2. CASE s \notin sessionList /\ (life[s] # "alive" \/ status[s] = "pending")
        BY <2>1, <2>3, <2>5, <3>2
      <3>3. CASE s \notin sessionList /\ life[s] = "alive" /\ status[s] # "pending"
        BY <2>1, <2>2, <2>3, <3>3
      <3> QED BY <3>1, <3>2, <3>3
    <2>7. ASSUME NEW d \in observers, NEW s \in Sessions PROVE Knows(d, s)
      <3>1. <<d, s>> \in overlooked => <<d, s>> \in overlooked'
        BY <2>2
      <3> QED BY <1>0, <2>1, <2>4, <3>1
    <2> QED BY ZenonT(30), <2>1, <2>6, <2>7
  <1>4. ASSUME NEW o \in Observers, Unregister(o) PROVE Goal
    <2>1. /\ observers' = observers \ {o}
          /\ view' = [view EXCEPT ![o] = [s \in Sessions |-> "none"]]
          /\ overlooked' = {p \in overlooked : p[1] # o}
          /\ UNCHANGED <<life, report, status, sessionList>>
      BY <1>4 DEF Unregister, table, objects, keys
    <2>2. \A d \in observers' : /\ view'[d] = view[d] /\ d \in observers
                                /\ \A s \in Sessions : <<d, s>> \in overlooked =>
                                      <<d, s>> \in overlooked'
      BY <1>0, <2>1 DEF TypeOK
    <2>3. ASSUME NEW d \in observers', NEW t \in Sessions PROVE Knows(d, t)
      <3>1. /\ d \in observers
            /\ life'[t] = life[t] /\ report'[t] = report[t] /\ status'[t] = status[t]
            /\ sessionList' = sessionList /\ view'[d][t] = view[d][t]
            /\ <<d, t>> \in overlooked => <<d, t>> \in overlooked'
        BY <2>1, <2>2
      <3> HIDE DEF Knows
      <3> QED BY <1>b, <3>1
    <2> HIDE DEF Knows
    <2> QED BY <2>3
  <1>5. ASSUME NEW c \in Clients, Release(c) PROVE Goal
    <2>1. PICK s \in held[c] :
              /\ life' = IF count[s] = 1 THEN [life EXCEPT ![s] = "dying"] ELSE life
              /\ UNCHANGED <<report, status, sessionList, observers, view, overlooked>>
      BY <1>5 DEF Release, table, keys, told
    <2>2. s \in Sessions /\ life[s] = "alive"
      <3>1. s \in Sessions /\ c \in Holders(s)
        BY <1>0 DEF TypeOK, Holders
      <3> QED BY <3>1 DEF IInv, HeldIsAlive
    <2>3. ASSUME NEW o \in observers, NEW t \in Sessions PROVE Knows(o, t)
      <3>1. /\ life[t] \in {"alive", "dying"} <=> life'[t] \in {"alive", "dying"}
            /\ status' = status /\ report' = report /\ view' = view
            /\ sessionList' = sessionList /\ overlooked' = overlooked
        BY <1>0, <2>1, <2>2 DEF TypeOK
      <3> QED BY <1>0, <3>1
    <2>4. observers' = observers
      BY <2>1
    <2> HIDE DEF Knows
    <2> QED BY <2>3, <2>4
  <1>6. ASSUME NEW c \in Clients, Remove(c) PROVE Goal
    <2>1. PICK s \in Sessions :
              /\ sessionList' = sessionList \ {s}
              /\ life' = [life EXCEPT ![s] = "removed"]
              /\ Tell(s, [o \in Observers |-> "none"])
              /\ overlooked' = {p \in overlooked : p[2] # s}
              /\ UNCHANGED <<report, status, observers>>
      BY <1>6 DEF Remove, keys
    <2>2. \A o \in observers : /\ \A t \in Sessions \ {s} : view'[o][t] = view[o][t]
                               /\ view'[o][s] = "none"
      BY <1>0, <2>1 DEF Tell, TypeOK
    <2>3. ASSUME NEW o \in observers, NEW t \in Sessions \ {s} PROVE Knows(o, t)
      <3>1. t \in sessionList' <=> t \in sessionList
        BY <2>1
      <3>2. <<o, t>> \in overlooked => <<o, t>> \in overlooked'
        BY <2>1
      <3>3. view'[o][t] = view[o][t]
        BY <2>2
      <3>4. life'[t] = life[t] /\ report'[t] = report[t] /\ status'[t] = status[t]
        BY <1>0, <2>1 DEF TypeOK
      <3> HIDE DEF Knows
      <3> QED BY <1>b, <3>1, <3>2, <3>3, <3>4
    <2>4. \A o \in observers : Knows(o, s)
      <3>1. life'[s] = "removed"
        BY <1>0, <2>1 DEF TypeOK
      <3> QED BY <2>2, <3>1
    <2>5. observers' = observers
      BY <2>1
    <2> HIDE DEF Knows
    <2> QED BY <2>3, <2>4, <2>5
  <1>7. ASSUME NEW c \in Clients, Stop(c) \/ Destroyed(c) PROVE Goal
    <2>1. PICK s \in Sessions, x \in {"stopping", "free"} :
              /\ At(c, "stop", s) \/ At(c, "join", s)
              /\ life' = [life EXCEPT ![s] = x]
              /\ \E k : status' = [status EXCEPT ![s] = k]
              /\ UNCHANGED <<report, sessionList, observers, view, overlooked>>
      <3>1. CASE Stop(c)
        <4>1. PICK s \in Sessions : /\ At(c, "stop", s)
                                    /\ life' = [life EXCEPT ![s] = "stopping"]
          BY <3>1 DEF Stop
        <4>2. status' = [status EXCEPT ![s] = status[s]]
          BY <1>0, <3>1 DEF Stop, keys, TypeOK
        <4> QED BY <3>1, <4>1, <4>2 DEF Stop, table, keys, told
      <3>2. CASE Destroyed(c)
        BY <3>2 DEF Destroyed, table, told
      <3> QED BY <1>7, <3>1, <3>2
    <2>2. life[s] \in {"removed", "stopping"}
      BY <2>1 DEF At, Has, IInv, PointsAgree
    <2>3. \A t \in Sessions \ {s} : status'[t] = status[t] /\ life'[t] = life[t]
      BY <1>0, <2>1 DEF TypeOK
    <2>4. life'[s] \notin {"alive", "dying"}
      BY <1>0, <2>1 DEF TypeOK
    <2>5. ASSUME NEW o \in observers, NEW t \in Sessions PROVE Knows(o, t)
      <3>1. CASE t = s
        BY <1>0, <2>1, <2>2, <2>4, <3>1
      <3>2. CASE t # s
        <4>1. status'[t] = status[t] /\ life'[t] = life[t]
          BY <2>3, <3>2
        <4> QED BY <1>0, <2>1, <4>1
      <3> QED BY <3>1, <3>2
    <2>6. observers' = observers
      BY <2>1
    <2> HIDE DEF Knows
    <2> QED BY <2>5, <2>6
  <1>8. ASSUME NEW s \in Sessions, NEW k \in Keys, UpdateKeyStatus(s, k) PROVE Goal
    BY ZenonT(30), <1>0, <1>8 DEF UpdateKeyStatus, TypeOK, table, objects, told
  <1>9. ASSUME NEW s \in Sessions, ReportKeyChange(s) PROVE Goal
    <2>1. /\ Tell(s, [o \in Observers |-> status[s]])
          /\ overlooked' = {p \in overlooked : p[2] # s}
          /\ report' = [report EXCEPT ![s] = IF sink[s] THEN "calling" ELSE "idle"]
          /\ report[s] = "reporting"
          /\ UNCHANGED <<life, status, sessionList, observers>>
      BY <1>9 DEF ReportKeyChange, table, objects
    <2>2. \A o \in observers : /\ \A t \in Sessions \ {s} : view'[o][t] = view[o][t]
                               /\ view'[o][s] = status[s]
      BY <1>0, <2>1 DEF Tell, TypeOK
    <2>3. life[s] \in {"alive", "dying"}
      BY <1>0, <2>1
    <2>4. \A o \in observers, t \in Sessions \ {s} :
             <<o, t>> \in overlooked => <<o, t>> \in overlooked'
      BY <2>1
    <2>5. ASSUME NEW o \in observers, NEW t \in Sessions \ {s} PROVE Knows(o, t)
      <3>1. /\ life'[t] = life[t] /\ status'[t] = status[t]
            /\ sessionList' = sessionList
        BY <2>1
      <3>2. report'[t] = report[t]
        BY <1>0, <2>1 DEF TypeOK
      <3>3. view'[o][t] = view[o][t]
        BY <2>2
      <3>4. <<o, t>> \in overlooked => <<o, t>> \in overlooked'
        BY <2>4
      <3> HIDE DEF Knows
      <3> QED BY <1>b, <3>1, <3>2, <3>3, <3>4
    <2>6. \A o \in observers : Knows(o, s)
      <3>1. life'[s] \in {"alive", "dying"} /\ status'[s] = status[s]
        BY <2>1, <2>3
      <3> QED BY <2>2, <3>1
    <2>7. observers' = observers
      BY <2>1
    <2> HIDE DEF Knows
    <2> QED BY <2>5, <2>6, <2>7
  <1>10. ASSUME NEW s \in Sessions, OnKeyStatusUpdate(s) PROVE Goal
    BY ZenonT(30), <1>0, <1>10 DEF OnKeyStatusUpdate, TypeOK, table, objects, told
  <1>11. \/ UNCHANGED <<life, report, status, sessionList, told>>
         \/ \E c \in Clients : \/ CreateSession(c) \/ Enlist(c) \/ Release(c) \/ Remove(c)
                               \/ Stop(c) \/ Destroyed(c)
         \/ \E s \in Sessions : \/ ReportKeyChange(s) \/ OnKeyStatusUpdate(s)
                                \/ \E k \in Keys : UpdateKeyStatus(s, k)
         \/ \E o \in Observers : Register(o) \/ Unregister(o)
    BY DEF Next, Call, GoesOn, Worker, Callback, Stopped, vars, table, objects, keys,
           Decrypt, Session, Die, Revoke, Return, RequestConsume, Consumed
  <1> QED BY <1>a, <1>1, <1>2, <1>3, <1>4, <1>5, <1>6, <1>7, <1>8, <1>9, <1>10, <1>11

-----------------------------------------------------------------------------
(* Theorems                                                                *)

\* The inductive invariant holds in every state.
LEMMA Inductive == Spec => []IInv
  <1>1. Init => IInv
    <2> SUFFICES ASSUME Init PROVE IInv
      OBVIOUS
    <2>1. TypeOK
      <3>1. 0 \in Buffers /\ 0 \in 0..Cardinality(Clients)
        <4>1. Cardinality(Clients) \in Nat
          BY SessionsAssumption, FS_CardinalityType
        <4> QED BY <4>1, SessionsAssumption DEF Buffers
      <3> QED BY <3>1 DEF Init, TypeOK, Lives, Points, Races, Idle
    <2>2. \A s \in Sessions : Holders(s) = {}
      BY DEF Init, Holders
    <2>3. CountsBalance
      BY <2>2, FS_EmptySet DEF Init, CountsBalance
    <2>4. Built = {}
      BY DEF Init, Built
    <2>5. HeldIsAlive /\ BuffersBalance
      BY <2>2, <2>4 DEF Init, HeldIsAlive, BuffersBalance
    <2>6. PointsAgree
      BY DEF Init, Idle, PointsAgree, Has
    <2> QED BY <2>1, <2>3, <2>4, <2>5, <2>6
            DEF Init, IInv, ListedSoon, ThreadIsStopped, ReportsOfBuilt, Informed
  <1>2. IInv /\ [Next]_vars => IInv'
    <2> SUFFICES ASSUME IInv, [Next]_vars PROVE IInv'
      OBVIOUS
    <2>1. TypeOK'
      BY TypeInvariance DEF IInv
    <2>2. CASE UNCHANGED vars
      BY <2>1, <2>2
         DEF vars, table, objects, exchange, keys, clients, told, IInv, CountsBalance,
             Holders, HeldIsAlive, BuffersBalance, Built, PointsAgree, Has, ListedSoon,
             ThreadIsStopped, ReportsOfBuilt, Informed, Defined
    <2>3. CASE Next /\ Defined /\ Defined'
      BY <2>1, <2>3, CountsStep, HeldStep, BuffersStep, PointsStep, ListedStep, ThreadStep,
         ReportsStep, InformedStep DEF IInv
    <2>4. CASE ~Defined'
      BY <2>1, <2>4 DEF IInv, CountsBalance, HeldIsAlive, BuffersBalance, PointsAgree,
                        ListedSoon, ThreadIsStopped, ReportsOfBuilt, Informed
    <2> QED BY <2>2, <2>3, <2>4, DefinedStep
  <1> QED BY <1>1, <1>2, PTL DEF Spec

\* The state is well typed, whatever clients do and die, and whatever the CDM reports.
THEOREM TypeCorrect == Spec => []TypeOK
  BY Inductive, PTL DEF IInv

\* The occupied buffers are those of the sessions before Remove, one each; every session
\* is counted by its holders and lives as long as it has one (CreateSession, Session,
\* Release and the destructor of SessionImplementation).
THEOREM ResourcesBalance == Spec => []SessionsBalance
  <1>1. IInv => SessionsBalance
    BY DEF IInv, CountsBalance, HeldIsAlive, BuffersBalance, SessionsBalance
  <1> QED BY <1>1, Inductive, PTL

\* Register, ReportCreate, ReportKeyChange and ReportDestroy leave no observer with an
\* old key, but for the report that came before the session was in the list.
THEOREM ObserversAreInformed == Spec => []ObserversKnowKeys
  <1>1. IInv => ObserversKnowKeys
    <2> SUFFICES ASSUME IInv, Defined, NEW o \in observers, NEW s \in Sessions
                 PROVE  /\ /\ s \in sessionList /\ report[s] # "reporting"
                           /\ <<o, s>> \notin overlooked
                           => \/ view[o][s] = status[s]
                              \/ view[o][s] = "created" /\ status[s] = "pending"
                        /\ s \notin Built => view[o][s] = "none"
      BY DEF ObserversKnowKeys
    <2>1. s \in sessionList => s \in Built
      BY DEF IInv, HeldIsAlive
    <2> QED BY <2>1 DEF IInv, Informed
  <1> QED BY <1>1, Inductive, PTL

\* The destructor never waits for a thread that sleeps without a signal on its way.
THEOREM DestructorGoesOn == Spec => []ThreadIsStopped
  BY Inductive, PTL DEF IInv
=============================================================================
