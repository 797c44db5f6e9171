-------------------------- MODULE WpaChannelProofs --------------------------
(***************************************************************************)
(* What TLAPS proves of WpaChannel, for any set of callers and any bounds: *)
(* the state is well typed, the list of requests never holds a pointer to  *)
(* a frame that is gone, and a Trigger is never lost; commands do not      *)
(* overtake each other, and each gets its own answer until a caller gives  *)
(* up; and each step of the channel is one of WpaMailbox, or none.         *)
(***************************************************************************)
EXTENDS WpaChannel, SequenceTheorems, TLAPS

\* RemoveAt, which stands for std::list::erase, on a sequence.
LEMMA RemoveAtProperties ==
    ASSUME NEW S, NEW s \in Seq(S), NEW i \in 1..Len(s)
    PROVE  /\ RemoveAt(s, i) \in Seq(S)
           /\ Len(RemoveAt(s, i)) = Len(s) - 1
           /\ \A j \in 1..(Len(s) - 1) :
                 RemoveAt(s, i)[j] = IF j < i THEN s[j] ELSE s[j + 1]
  <1> DEFINE a == SubSeq(s, 1, i - 1)
             b == SubSeq(s, i + 1, Len(s))
  <1>0. Len(s) \in Nat /\ i \in Nat /\ 1 <= i /\ i <= Len(s)
    BY LenProperties
  <1>1. a \in Seq(S) /\ Len(a) = i - 1 /\ \A j \in 1..(i - 1) : a[j] = s[j]
    BY <1>0, SubSeqProperties
  <1>2. b \in Seq(S) /\ Len(b) = Len(s) - i /\ \A j \in 1..(Len(s) - i) : b[j] = s[i + j]
    BY <1>0, SubSeqProperties
  <1> HIDE DEF a, b
  <1>3. a \o b \in Seq(S) /\ Len(a \o b) = Len(s) - 1
    <2>1. a \o b \in Seq(S) /\ Len(a \o b) = Len(a) + Len(b)
      BY <1>1, <1>2, ConcatProperties
    <2> QED BY <2>1, <1>0, <1>1, <1>2
  <1>4. ASSUME NEW j \in 1..(Len(s) - 1)
        PROVE  (a \o b)[j] = IF j < i THEN s[j] ELSE s[j + 1]
    <2>1. (a \o b)[j] = IF j <= Len(a) THEN a[j] ELSE b[j - Len(a)]
      BY <1>1, <1>2, ConcatProperties
    <2>2. CASE j < i
      BY <2>1, <2>2, <1>1
    <2>3. CASE j >= i
      <3>1. j - Len(a) \in 1..(Len(s) - i) /\ i + (j - Len(a)) = j + 1
        BY <2>3, <1>1
      <3>2. b[j - Len(a)] = s[j + 1]
        BY <3>1, <1>2
      <3> QED BY <2>1, <2>3, <3>2, <1>1
    <2>4. j < i \/ j >= i
      BY <1>0
    <2> QED BY <2>2, <2>3, <2>4
  <1> QED BY <1>3, <1>4 DEF RemoveAt, a, b

\* Orphaned renames members and leaves the length alone.
LEMMA OrphanedProperties ==
    ASSUME NEW S, NEW s \in Seq(S), Orphan \in S, NEW r
    PROVE  Orphaned(s, r) \in Seq(S)
  BY DEF Orphaned

\* The same of being empty.
LEMMA OrphanedLength ==
    ASSUME NEW S, NEW s \in Seq(S), s # <<>>, NEW r
    PROVE  Orphaned(s, r) # <<>>
  <1>1. Len(s) \in Nat /\ Len(s) # 0 /\ DOMAIN s = 1..Len(s)
    BY EmptySeq, LenProperties
  <1>2. 1 \in DOMAIN Orphaned(s, r)
    BY <1>1 DEF Orphaned
  <1> QED BY <1>2

\* A list that is not empty has a front and a rest.
LEMMA FrontAndRest ==
    ASSUME NEW S, NEW s \in Seq(S), s # <<>>
    PROVE  Head(s) \in S /\ Tail(s) \in Seq(S)
  BY HeadTailProperties

\* What Append, Tail and Head do to the members of a list.
LEMMA ListProperties ==
    ASSUME NEW S, NEW s \in Seq(S), NEW e \in S
    PROVE  /\ Append(s, e) \in Seq(S)
           /\ Len(Append(s, e)) = Len(s) + 1
           /\ \A i \in 1..Len(s) : Append(s, e)[i] = s[i]
           /\ Append(s, e)[Len(s) + 1] = e
           /\ s = <<>> <=> Len(s) = 0
           /\ s # <<>> => /\ Head(s) = s[1]
                          /\ Head(s) \in S
                          /\ Tail(s) \in Seq(S)
                          /\ Len(Tail(s)) = Len(s) - 1
                          /\ \A i \in 1..(Len(s) - 1) : Tail(s)[i] = s[i + 1]
  BY AppendProperties, HeadTailProperties, EmptySeq

\* Submit keeps the type of the list.
LEMMA SubmitType ==
    ASSUME requests \in Seq(Requests), NEW r \in Requests, Submit(r)
    PROVE  requests' \in Seq(Requests)
  BY DEF Submit

\* Revoke keeps the types of what it changes.
LEMMA RevokeType ==
    ASSUME TypeOK, NEW c \in Callers, Revoke(c)
    PROVE  /\ requests' \in Seq(Requests)
           /\ unsent' \in [Requests -> BOOLEAN]
           /\ settable' \in [Internal -> BOOLEAN]
           /\ signaled' \in [Callers -> {"no", "own", "foreign"}]
           /\ writeSlot' \in BOOLEAN
           /\ sending' \in Requests \cup {Nobody}
           /\ receiving' \in BOOLEAN
           /\ wire' \in Seq(Requests \cup {Orphan})
           /\ inbox' \in Seq(Requests \cup {Orphan} \cup Events)
           /\ receiving' => inbox' # <<>>
           /\ race' \in Races
  <1>1. requests' \in Seq(Requests) /\ writeSlot' \in BOOLEAN
    <2>1. CASE UNCHANGED <<requests, writeSlot>>
      BY <2>1 DEF TypeOK
    <2>2. ASSUME NEW i \in 1..Len(requests), requests' = RemoveAt(requests, i),
                 writeSlot' = (writeSlot \/ i = 1)
          PROVE  requests' \in Seq(Requests) /\ writeSlot' \in BOOLEAN
      BY <2>2, RemoveAtProperties DEF TypeOK
    <2> QED BY <2>1, <2>2, LenProperties DEF Revoke, Found, TriggerAfterErase, TypeOK
  <1>2. wire' \in Seq(Requests \cup {Orphan})
    BY OrphanedProperties DEF TypeOK, Revoke
  <1>3. inbox' \in Seq(Requests \cup {Orphan} \cup Events)
    BY OrphanedProperties DEF TypeOK, Revoke
  <1>4. receiving' => inbox' # <<>>
    BY OrphanedLength DEF TypeOK, Revoke
  <1>5. race' \in Races
    BY DEF TypeOK, Revoke, Races
  <1> QED BY <1>1, <1>2, <1>3, <1>4, <1>5 DEF TypeOK, Revoke, Requests

\* Every step keeps the types: the invariant of the theorem TypeCorrect.
LEMMA TypeInvariance == TypeOK /\ [Next]_vars => TypeOK'
  <1> SUFFICES ASSUME TypeOK, [Next]_vars PROVE TypeOK'
    OBVIOUS
  <1>0. /\ Callers \subseteq Requests
        /\ Internal \subseteq Requests
        /\ "status" \in Internal /\ "network" \in Internal
    BY DEF Requests, Internal
  <1>1. ASSUME NEW c \in Callers, Start(c) PROVE TypeOK'
    <2>1. requests' \in Seq(Requests)
      BY <1>0, <1>1, SubmitType DEF Start, SubmitFrom, TypeOK
    <2> QED BY <1>0, <1>1, <2>1
            DEF Start, LoadCustom, SubmitFrom, object, socket, TypeOK, Points
  <1>2. ASSUME NEW c \in Callers, Trigger(c) PROVE TypeOK'
    BY <1>2 DEF Trigger, queue, object, TypeOK, Points
  <1>3. ASSUME NEW c \in Callers, Answered(c) PROVE TypeOK'
    BY <1>3 DEF Answered, queue, object, socket, TypeOK, Points
  <1>4. ASSUME NEW c \in Callers, Expire(c) PROVE TypeOK'
    BY <1>4 DEF Expire, queue, object, socket, TypeOK, Points
  <1>5. ASSUME NEW c \in Callers, Again(c) PROVE TypeOK'
    <2>1. requests' \in Seq(Requests)
      BY <1>0, <1>5, SubmitType DEF Again, SubmitFrom, TypeOK
    <2> QED BY <1>0, <1>5, <2>1
            DEF Again, LoadCustom, SubmitFrom, object, socket, TypeOK, Points
  <1>6. ASSUME NEW c \in Callers, EnterSet(c) PROVE TypeOK'
    BY <1>6 DEF EnterSet, queue, object, socket, TypeOK, Points, Races
  <1>7. ASSUME NEW c \in Callers, LeaveSet(c) PROVE TypeOK'
    <2>1. requests' \in Seq(Requests)
      BY <1>0, <1>7, SubmitType DEF LeaveSet, SubmitFrom, TypeOK
    <2> QED BY <1>0, <1>7, <2>1
            DEF LeaveSet, SetRequest, SubmitFrom, object, socket, TypeOK, Points
  <1>8. ASSUME NEW c \in Callers, Finish(c) PROVE TypeOK'
    <2>1. phase' \in Phases /\ pc' \in [Callers -> Points]
      BY <1>8 DEF Finish, TypeOK, Phases, Points
    <2>2. attached' = attached /\ timedOut' = timedOut /\ Revoke(c)
      BY <1>8 DEF Finish
    <2> QED BY <2>1, <2>2, RevokeType DEF TypeOK
  <1>9. ASSUME NEW c \in Callers, AttachFailed(c) PROVE TypeOK'
    <2>1. requests' \in Seq(Requests)
      BY <1>0, <1>9, SubmitType DEF AttachFailed, SubmitFrom, TypeOK
    <2> QED BY <1>9, <2>1 DEF AttachFailed, SubmitFrom, socket, TypeOK, Phases, Points
  <1>10. ASSUME NEW c \in Callers, Destruct(c) PROVE TypeOK'
    <2>1. /\ requests' \in Seq(Requests)
          /\ wire' \in Seq(Requests \cup {Orphan})
          /\ inbox' \in Seq(Requests \cup {Orphan} \cup Events)
      BY <1>10 DEF Destruct
    <2>2. settable' \in [Internal -> BOOLEAN] /\ unsent' \in [Requests -> BOOLEAN]
      BY <1>0, <1>10 DEF Destruct, TypeOK
    <2> QED BY <1>10, <2>1, <2>2 DEF Destruct, TypeOK, Phases, Points
  <1>11. ASSUME Release PROVE TypeOK'
    BY <1>11 DEF Release, queue, socket, TypeOK, Phases
  <1>12. ASSUME SendData PROVE TypeOK'
    <2>1. requests # <<>> => Head(requests) \in Requests
      BY ListProperties DEF TypeOK
    <2>2. sending' \in Requests \cup {Nobody} /\ writeSlot' \in BOOLEAN
      BY <1>12, <2>1 DEF SendData, TypeOK
    <2> QED BY <1>12, <2>2 DEF SendData, queue, object, TypeOK
  <1>13. ASSUME SendCopy PROVE TypeOK'
    <2>1. sending \in Requests \cup {Orphan}
      BY <1>13 DEF SendCopy, TypeOK
    <2>2. wire' \in Seq(Requests \cup {Orphan})
      BY <1>13, <2>1 DEF SendCopy, TypeOK
    <2> QED BY <1>13, <2>2 DEF SendCopy, object, TypeOK
  <1>14. ASSUME ReceiveReply PROVE TypeOK'
    <2>1. inbox' \in Seq(Requests \cup {Orphan} \cup Events)
      BY <1>14, FrontAndRest DEF ReceiveReply, TypeOK
    <2>2. receiving' \in BOOLEAN /\ (receiving' => inbox' # <<>>)
      BY <1>14 DEF ReceiveReply, ThreadFree, TypeOK
    <2> QED BY <1>14, <2>1, <2>2 DEF ReceiveReply, queue, object, TypeOK
  <1>15. ASSUME ReceiveComplete PROVE TypeOK'
    <2> DEFINE r == Head(requests)
    <2>1. r \in Requests /\ Tail(requests) \in Seq(Requests)
      BY <1>15, FrontAndRest DEF ReceiveComplete, TypeOK
    <2>2. PICK next \in FollowUps(r) :
            /\ Completed(r, Head(inbox), next)
            /\ race'  = IF next = "network" /\ \E c \in Callers : pc[c] = "setting"
                        THEN "racing Set" ELSE race
            /\ wire'  = IF Head(inbox) = r THEN wire ELSE Orphaned(wire, r)
            /\ inbox' = IF Head(inbox) = r THEN Tail(inbox)
                                           ELSE Orphaned(Tail(inbox), r)
      BY <1>15 DEF ReceiveComplete
    <2>3. next \in {"detail", "network", Nobody}
      BY <2>2 DEF FollowUps
    <2>4. /\ requests' \in Seq(Requests)
          /\ unsent' \in [Requests -> BOOLEAN]
          /\ settable' \in [Internal -> BOOLEAN]
          /\ signaled' \in [Callers -> {"no", "own", "foreign"}]
      <3>1. CASE r \in Callers
        BY <2>1, <2>2, <3>1 DEF Completed, TypeOK
      <3>2. CASE r \notin Callers
        <4>1. next # Nobody => next \in Requests
          BY <2>3 DEF Requests, Internal
        <4>2. requests' \in Seq(Requests)
          <5>0. requests' = IF next = Nobody THEN Tail(requests)
                            ELSE Append(Tail(requests), next)
            BY <2>2, <3>2 DEF Completed
          <5>1. CASE next = Nobody
            BY <2>1, <5>0, <5>1
          <5>2. CASE next # Nobody
            BY <2>1, <4>1, <5>0, <5>2
          <5> QED BY <5>1, <5>2
        <4> QED BY <2>1, <2>2, <3>2, <4>2 DEF Completed, TypeOK
      <3> QED BY <3>1, <3>2
    <2>5. Tail(inbox) \in Seq(Requests \cup {Orphan} \cup Events)
      BY <1>15, FrontAndRest DEF ReceiveComplete, TypeOK
    <2>6. wire' \in Seq(Requests \cup {Orphan})
      BY <2>2, OrphanedProperties DEF TypeOK
    <2>7. inbox' \in Seq(Requests \cup {Orphan} \cup Events)
      BY <2>2, <2>5, OrphanedProperties DEF TypeOK
    <2>8. race' \in Races
      BY <2>2 DEF TypeOK, Races
    <2> QED BY <1>15, <2>4, <2>6, <2>7, <2>8 DEF ReceiveComplete, TriggerAfterPop, object, TypeOK
  <1>16. ASSUME ReceiveEmpty PROVE TypeOK'
    BY <1>16 DEF ReceiveEmpty, queue, object, socket, TypeOK, Races
  <1>17. ASSUME ReceiveEvent PROVE TypeOK'
    <2> DEFINE r == RequestOf(Head(inbox))
    <2>1. r \in Internal
      BY <1>17 DEF ReceiveEvent, IsReply, RequestOf, Events, Internal
    <2>2. requests' \in Seq(Requests) /\ writeSlot' \in BOOLEAN
      BY <1>0, <1>17, <2>1, SubmitType DEF ReceiveEvent, TypeOK
    <2>3. unsent' \in [Requests -> BOOLEAN] /\ settable' \in [Internal -> BOOLEAN]
      BY <1>0, <1>17, <2>1 DEF ReceiveEvent, SetRequest, TypeOK
    <2>4. inbox' \in Seq(Requests \cup {Orphan} \cup Events) /\ ~receiving'
      BY <1>17, FrontAndRest DEF ReceiveEvent, ThreadFree, IsReply, TypeOK
    <2> QED BY <1>17, <2>2, <2>3, <2>4 DEF ReceiveEvent, object, TypeOK
  <1>18. ASSUME Reply PROVE TypeOK'
    <2>1. Head(wire) \in Requests \cup {Orphan} \cup Events
          /\ Tail(wire) \in Seq(Requests \cup {Orphan})
      BY <1>18, ListProperties DEF Reply, TypeOK
    <2>2. /\ wire' \in Seq(Requests \cup {Orphan})
          /\ inbox' \in Seq(Requests \cup {Orphan} \cup Events)
          /\ inbox' # <<>>
      BY <1>18, <2>1 DEF Reply, TypeOK
    <2> QED BY <1>18, <2>2 DEF Reply, queue, TypeOK
  <1>19. ASSUME NEW e \in Emitted, Emit(e) PROVE TypeOK'
    <2>1. inbox' \in Seq(Requests \cup {Orphan} \cup Events) /\ inbox' # <<>>
      BY <1>19, ChannelAssumption DEF Emit, TypeOK
    <2> QED BY <1>19, <2>1 DEF Emit, queue, object, TypeOK
  <1>20. ASSUME UNCHANGED vars PROVE TypeOK'
    BY <1>20 DEF vars, queue, object, socket, TypeOK
  <1> QED BY <1>1, <1>2, <1>3, <1>4, <1>5, <1>6, <1>7, <1>8, <1>9, <1>10, <1>11,
             <1>12, <1>13, <1>14, <1>15, <1>16, <1>17, <1>18, <1>19, <1>20
          DEF Next, Caller, Socket, Stopped

\* The initial state is well typed.
LEMMA InitType == Init => TypeOK
  <1> SUFFICES ASSUME Init PROVE TypeOK
    OBVIOUS
  <1>1. requests \in Seq(Requests) /\ wire \in Seq(Requests \cup {Orphan})
    BY DEF Init
  <1>2. inbox \in Seq(Requests \cup {Orphan} \cup Events)
    BY DEF Init
  <1>3. unsent \in [Requests -> BOOLEAN] /\ settable \in [Internal -> BOOLEAN]
    BY DEF Init
  <1> QED BY <1>1, <1>2, <1>3 DEF Init, TypeOK, Points, Phases, Races

\* The state is well typed, whatever the callers, the supplicant and the bounds.
THEOREM TypeCorrect == Spec => []TypeOK
  BY InitType, TypeInvariance, PTL DEF Spec
-----------------------------------------------------------------------------
(* The list of requests and its triggers                                   *)

\* The only thread between the test and the assignments of Set, which a race on
\* _settable would break.
SettingAlone ==
    Alive => \A c, d \in Callers : pc[c] = "setting" =>
        /\ settable["network"]
        /\ pc[d] = "setting" => c = d

\* The inductive invariant: a trigger is lost if a request that is in the list is
\* loaded again, and that takes a caller that submits twice or a Set that is not
\* guarded by the list.
IInv ==
    /\ TypeOK
    /\ QueueHoldsLiveRequests
    /\ SetGuardsTheList
    /\ SettingAlone
    /\ NoLostTrigger

\* The members of a list that one is appended to.
LEMMA AppendMembers ==
    ASSUME NEW S, NEW s \in Seq(S), NEW e \in S
    PROVE  /\ DOMAIN s = 1..Len(s)
           /\ DOMAIN Append(s, e) = 1..(Len(s) + 1)
           /\ \A i \in DOMAIN Append(s, e) :
                 Append(s, e)[i] = IF i = Len(s) + 1 THEN e ELSE s[i]
  BY AppendProperties, LenProperties

\* The members of a list that is popped.
LEMMA TailMembers ==
    ASSUME NEW S, NEW s \in Seq(S), s # <<>>
    PROVE  /\ Tail(s) \in Seq(S)
           /\ 1 \in DOMAIN s /\ Head(s) = s[1]
           /\ \A i \in DOMAIN Tail(s) : i + 1 \in DOMAIN s /\ Tail(s)[i] = s[i + 1]
  BY HeadTailProperties, LenProperties, EmptySeq

\* The members of a list that one is erased from.
LEMMA EraseMembers ==
    ASSUME NEW S, NEW s \in Seq(S), NEW i \in DOMAIN s
    PROVE  \A j \in DOMAIN RemoveAt(s, i) :
              /\ j \in Int
              /\ (IF j < i THEN j ELSE j + 1) \in DOMAIN s \ {i}
              /\ RemoveAt(s, i)[j] = s[IF j < i THEN j ELSE j + 1]
  <1>1. Len(s) \in Nat /\ DOMAIN s = 1..Len(s)
    BY LenProperties
  <1>2. /\ RemoveAt(s, i) \in Seq(S) /\ Len(RemoveAt(s, i)) = Len(s) - 1
        /\ \A j \in 1..(Len(s) - 1) :
              RemoveAt(s, i)[j] = IF j < i THEN s[j] ELSE s[j + 1]
    BY <1>1, RemoveAtProperties
  <1>3. DOMAIN RemoveAt(s, i) = 1..(Len(s) - 1)
    BY <1>2, LenProperties
  <1> QED BY <1>1, <1>2, <1>3

\* The list keeps holding live requests: what is submitted was not in it, and what
\* is revoked was in it at most once.
LEMMA QueueStep ==
    ASSUME IInv, Alive, Next PROVE QueueHoldsLiveRequests'
  <1> SUFFICES ASSUME Alive' PROVE QueueHoldsLiveRequests'
    BY DEF QueueHoldsLiveRequests
  <1>0. requests \in Seq(Requests) /\ Callers \subseteq Requests
    BY DEF IInv, TypeOK, Requests
  <1>a. /\ pc \in [Callers -> Points] /\ signaled \in [Callers -> {"no", "own", "foreign"}]
        /\ Callers \cap Internal = {}
    BY ChannelAssumption DEF IInv, TypeOK
  <1>b. \A i, j \in DOMAIN requests : requests[i] \in Callers =>
           /\ pc[requests[i]] \in {"submitted", "waiting", "expired", "refreshing", "revoking"}
           /\ signaled[requests[i]] = "no"
           /\ requests[i] = requests[j] => i = j
    BY DEF IInv, QueueHoldsLiveRequests
  <1> USE <1>0, <1>a, <1>b
  <1>1. ASSUME NEW c \in Callers, Start(c) \/ Again(c) PROVE QueueHoldsLiveRequests'
    <2>1. /\ requests' = Append(requests, c)
          /\ signaled' = [signaled EXCEPT ![c] = "no"]
          /\ pc[c] \in {"idle", "answered"}
          /\ \/ pc' = [pc EXCEPT ![c] = "submitted"]
             \/ pc' = [pc EXCEPT ![c] = "waiting"]
      BY <1>1 DEF Start, Again, SubmitFrom, Submit, LoadCustom
    <2>2. \A i \in DOMAIN requests : requests[i] # c
      BY <2>1
    <2> QED BY <2>1, <2>2, AppendMembers DEF QueueHoldsLiveRequests
  <1>2. ASSUME NEW c \in Callers, Trigger(c) \/ Answered(c) \/ Expire(c) \/ EnterSet(c)
        PROVE  QueueHoldsLiveRequests'
    <2>1. requests' = requests /\ signaled' = signaled
      BY <1>2 DEF Trigger, Answered, Expire, EnterSet, queue
    <2>2. CASE Trigger(c)
      BY <2>1, <2>2 DEF Trigger, QueueHoldsLiveRequests
    <2>3. CASE Answered(c)
      BY <2>1, <2>3 DEF Answered, QueueHoldsLiveRequests
    <2>4. CASE Expire(c)
      BY <2>1, <2>4 DEF Expire, QueueHoldsLiveRequests
    <2>5. CASE EnterSet(c)
      BY ZenonT(30), <2>1, <2>5 DEF EnterSet, QueueHoldsLiveRequests
    <2> QED BY <1>2, <2>2, <2>3, <2>4, <2>5
  <1>3. ASSUME NEW c \in Callers, LeaveSet(c) \/ AttachFailed(c)
        PROVE  QueueHoldsLiveRequests'
    <2>1. PICK r \in Internal : requests' = Append(requests, r)
      BY <1>3 DEF LeaveSet, AttachFailed, SubmitFrom, Submit, Internal
    <2>2. /\ signaled' = signaled
          /\ pc[c] \in {"setting", "answered", "expired"}
          /\ \/ pc' = [pc EXCEPT ![c] = "refreshing"]
             \/ pc' = [pc EXCEPT ![c] = "revoking"]
      BY <1>3 DEF LeaveSet, AttachFailed, SubmitFrom
    <2>3. r \in Requests /\ r \notin Callers
      BY DEF Requests
    <2> QED BY <2>1, <2>2, <2>3, AppendMembers DEF QueueHoldsLiveRequests
  <1>4. ASSUME NEW c \in Callers, Finish(c) PROVE QueueHoldsLiveRequests'
    <2>1. /\ signaled' = [signaled EXCEPT ![c] = "no"]
          /\ pc' = [pc EXCEPT ![c] = "idle"]
          /\ Revoke(c)
      BY <1>4 DEF Finish, Revoke
    <2>2. CASE Found(c) = {} /\ requests' = requests
      BY <2>1, <2>2 DEF Found, QueueHoldsLiveRequests
    <2>3. CASE \E i \in DOMAIN requests : requests[i] = c /\ requests' = RemoveAt(requests, i)
      <3>1. PICK i \in DOMAIN requests : requests[i] = c /\ requests' = RemoveAt(requests, i)
        BY <2>3
      <3>2. \A j \in DOMAIN requests' :
              /\ j \in Int
              /\ (IF j < i THEN j ELSE j + 1) \in DOMAIN requests \ {i}
              /\ requests'[j] = requests[IF j < i THEN j ELSE j + 1]
        BY <3>1, EraseMembers
      <3>3. i \in Int
        BY LenProperties
      <3>4. \A j \in DOMAIN requests' : requests'[j] # c
        BY <3>1, <3>2
      <3> QED BY <2>1, <3>2, <3>3, <3>4 DEF QueueHoldsLiveRequests
    <2> QED BY <2>1, <2>2, <2>3 DEF Revoke, Found
  <1>5. ASSUME NEW c \in Callers, Destruct(c) PROVE QueueHoldsLiveRequests'
    BY <1>5 DEF Destruct, Alive
  <1>6. ASSUME ReceiveComplete PROVE QueueHoldsLiveRequests'
    <2> DEFINE r == Head(requests)
    <2>1. /\ Tail(requests) \in Seq(Requests)
          /\ 1 \in DOMAIN requests /\ r = requests[1]
          /\ \A i \in DOMAIN Tail(requests) :
                i + 1 \in DOMAIN requests /\ Tail(requests)[i] = requests[i + 1]
      BY <1>6, TailMembers DEF ReceiveComplete
    <2>2. PICK next \in FollowUps(r) : Completed(r, Head(inbox), next)
      BY <1>6 DEF ReceiveComplete
    <2>3. pc' = pc
      BY <1>6 DEF ReceiveComplete
    <2>4. DOMAIN Tail(requests) \subseteq Nat
      BY <2>1, LenProperties
    <2>5. CASE r \in Callers
      <3>1. requests' = Tail(requests)
            /\ \A c \in Callers : c # r => signaled'[c] = signaled[c]
        BY <2>2, <2>5 DEF Completed
      <3>2. \A i \in DOMAIN Tail(requests) : Tail(requests)[i] # r
        BY <2>1, <2>4, <2>5
      <3> QED BY <2>1, <2>3, <2>4, <3>1, <3>2 DEF QueueHoldsLiveRequests
    <2>6. CASE r \notin Callers
      <3>1. /\ signaled' = signaled
            /\ requests' = IF next = Nobody THEN Tail(requests)
                           ELSE Append(Tail(requests), next)
        BY <2>2, <2>6 DEF Completed
      <3>2. CASE next = Nobody
        BY <2>1, <2>3, <2>4, <3>1, <3>2 DEF QueueHoldsLiveRequests
      <3>3. CASE next # Nobody
        <4>1. next \in Internal
          BY <2>2, <3>3 DEF FollowUps, Internal
        <4>2. next \in Requests /\ next \notin Callers
          BY <4>1 DEF Requests
        <4>3. /\ DOMAIN Tail(requests) = 1..Len(Tail(requests))
              /\ Len(Tail(requests)) \in Nat
              /\ DOMAIN requests' = 1..(Len(Tail(requests)) + 1)
              /\ \A i \in DOMAIN requests' :
                    requests'[i] = IF i = Len(Tail(requests)) + 1 THEN next
                                   ELSE Tail(requests)[i]
          BY <2>1, <3>1, <3>3, <4>2, AppendMembers, LenProperties
        <4>4. \A i \in DOMAIN requests' : requests'[i] \in Callers =>
                /\ i + 1 \in DOMAIN requests
                /\ requests'[i] = requests[i + 1]
          BY <2>1, <4>2, <4>3
        <4>5. DOMAIN requests' \subseteq Nat
          BY <4>3
        <4> QED BY <2>3, <3>1, <4>4, <4>5 DEF QueueHoldsLiveRequests
      <3> QED BY <3>2, <3>3
    <2> QED BY <2>5, <2>6
  <1>7. ASSUME ReceiveEvent PROVE QueueHoldsLiveRequests'
    <2>1. pc' = pc /\ signaled' = signaled
      BY <1>7 DEF ReceiveEvent
    <2>2. CASE requests' = requests
      BY <2>1, <2>2 DEF QueueHoldsLiveRequests
    <2>3. CASE requests' # requests
      <3>1. PICK r \in Internal : requests' = Append(requests, r)
        BY <1>7, <2>3 DEF ReceiveEvent, IsReply, Submit, RequestOf, Events, Internal
      <3>2. r \in Requests /\ r \notin Callers
        BY DEF Requests
      <3> QED BY <2>1, <3>1, <3>2, AppendMembers DEF QueueHoldsLiveRequests
    <2> QED BY <2>2, <2>3
  <1>8. ASSUME UNCHANGED <<requests, pc, signaled>> PROVE QueueHoldsLiveRequests'
    BY <1>8 DEF QueueHoldsLiveRequests
  <1>9. ASSUME Release \/ SendData \/ SendCopy \/ ReceiveReply \/ ReceiveEmpty \/ Reply
                 \/ \E e \in Emitted : Emit(e)
        PROVE  UNCHANGED <<requests, pc, signaled>>
    BY <1>9 DEF Release, SendData, SendCopy, ReceiveReply, ReceiveEmpty, Reply, Emit, queue
  <1> QED BY <1>1, <1>2, <1>3, <1>4, <1>5, <1>6, <1>7, <1>8, <1>9
          DEF Next, Caller, Socket, Stopped
\* A member request that is settable is not in the list: the Set that makes it
\* not settable is followed by the only Submit, and only being popped undoes it.
LEMMA SetStep ==
    ASSUME IInv, Alive, Next PROVE SetGuardsTheList' /\ SettingAlone'
  <1> SUFFICES ASSUME Alive' PROVE SetGuardsTheList' /\ SettingAlone'
    BY DEF SetGuardsTheList, SettingAlone
  <1>0. /\ requests \in Seq(Requests)
        /\ Callers \subseteq Requests /\ Internal \subseteq Requests
        /\ Callers \cap Internal = {}
        /\ pc \in [Callers -> Points]
        /\ settable \in [Internal -> BOOLEAN]
        /\ DOMAIN requests = 1..Len(requests) /\ Len(requests) \in Nat
    BY ChannelAssumption, LenProperties DEF IInv, TypeOK, Requests
  <1>a. \A r \in Internal \ {"status"} :
          /\ \A i \in DOMAIN requests : requests[i] = r => ~settable[r]
          /\ \A i, j \in DOMAIN requests : requests[i] = r /\ requests[j] = r => i = j
    BY DEF IInv, SetGuardsTheList, ToSet
  <1>b. \A c, d \in Callers : pc[c] = "setting" =>
          settable["network"] /\ (pc[d] = "setting" => c = d)
    BY DEF IInv, SettingAlone
  <1>c. SUFFICES /\ \A r \in Internal \ {"status"} :
                      /\ \A i \in DOMAIN requests' : requests'[i] = r => ~settable'[r]
                      /\ \A i, j \in DOMAIN requests' :
                            requests'[i] = r /\ requests'[j] = r => i = j
                 /\ \A c, d \in Callers : pc'[c] = "setting" =>
                      settable'["network"] /\ (pc'[d] = "setting" => c = d)
    BY DEF SetGuardsTheList, SettingAlone, ToSet
  <1> DEFINE Goal == /\ \A r \in Internal \ {"status"} :
                      /\ \A i \in DOMAIN requests' : requests'[i] = r => ~settable'[r]
                      /\ \A i, j \in DOMAIN requests' :
                            requests'[i] = r /\ requests'[j] = r => i = j
                 /\ \A c, d \in Callers : pc'[c] = "setting" =>
                      settable'["network"] /\ (pc'[d] = "setting" => c = d)
  <1> USE <1>0, <1>a, <1>b
  <1>1. ASSUME NEW c \in Callers, Start(c) \/ Again(c) PROVE Goal
    <2>1. /\ requests' = Append(requests, c)
          /\ settable' = settable
          /\ \/ pc' = [pc EXCEPT ![c] = "submitted"]
             \/ pc' = [pc EXCEPT ![c] = "waiting"]
      BY <1>1 DEF Start, Again, SubmitFrom, Submit
    <2> QED BY <2>1, AppendMembers
  <1>2. ASSUME NEW c \in Callers, Trigger(c) \/ Answered(c) \/ Expire(c) PROVE Goal
    <2>1. /\ requests' = requests /\ settable' = settable
          /\ \A d \in Callers : pc'[d] = "setting" => pc[d] = "setting"
      BY <1>2 DEF Trigger, Answered, Expire, queue
    <2> QED BY <2>1
  <1>3. ASSUME NEW c \in Callers, EnterSet(c) PROVE Goal
    BY <1>3 DEF EnterSet, queue, Alive
  <1>4. ASSUME NEW c \in Callers, LeaveSet(c) PROVE Goal
    <2>1. /\ requests' = Append(requests, "network")
          /\ settable' = [settable EXCEPT !["network"] = FALSE]
          /\ pc[c] = "setting"
          /\ \/ pc' = [pc EXCEPT ![c] = "refreshing"]
             \/ pc' = [pc EXCEPT ![c] = "revoking"]
          /\ "network" \in Internal
      BY <1>4 DEF LeaveSet, SubmitFrom, Submit, SetRequest, Internal
    <2>2. \A i \in DOMAIN requests : requests[i] # "network"
      BY <2>1
    <2>3. \A d \in Callers : pc'[d] # "setting"
      BY <2>1
    <2> QED BY <2>1, <2>2, <2>3, AppendMembers
  <1>5. ASSUME NEW c \in Callers, AttachFailed(c) PROVE Goal
    <2>1. /\ requests' = Append(requests, "status")
          /\ settable' = settable
          /\ \/ pc' = [pc EXCEPT ![c] = "refreshing"]
             \/ pc' = [pc EXCEPT ![c] = "revoking"]
          /\ "status" \in Requests
      BY <1>5 DEF AttachFailed, SubmitFrom, Submit, Internal
    <2> QED BY <2>1, AppendMembers
  <1>6. ASSUME NEW c \in Callers, Finish(c) PROVE Goal
    <2>1. settable' = settable /\ pc' = [pc EXCEPT ![c] = "idle"] /\ Revoke(c)
      BY <1>6 DEF Finish, Revoke
    <2>2. CASE requests' = requests
      BY <2>1, <2>2
    <2>3. CASE \E i \in DOMAIN requests : requests' = RemoveAt(requests, i)
      <3>1. PICK i \in DOMAIN requests : requests' = RemoveAt(requests, i)
        BY <2>3
      <3>2. \A j \in DOMAIN requests' :
              /\ j \in Int
              /\ (IF j < i THEN j ELSE j + 1) \in DOMAIN requests \ {i}
              /\ requests'[j] = requests[IF j < i THEN j ELSE j + 1]
        BY <3>1, EraseMembers
      <3> QED BY <2>1, <3>2
    <2> QED BY <2>1, <2>2, <2>3 DEF Revoke, Found
  <1>7. ASSUME ReceiveComplete PROVE Goal
    <2> DEFINE r == Head(requests)
               t == Tail(requests)
    <2>1. /\ t \in Seq(Requests)
          /\ 1 \in DOMAIN requests /\ r = requests[1]
          /\ \A i \in DOMAIN t : i + 1 \in DOMAIN requests /\ t[i] = requests[i + 1]
      BY <1>7, TailMembers DEF ReceiveComplete
    <2>2. PICK next \in FollowUps(r) :
            /\ Completed(r, Head(inbox), next)
            /\ race' = IF next = "network" /\ \E c \in Callers : pc[c] = "setting"
                       THEN "racing Set" ELSE race
      BY <1>7 DEF ReceiveComplete
    <2>3. pc' = pc
      BY <1>7 DEF ReceiveComplete
    <2>4. DOMAIN t = 1..Len(t) /\ Len(t) \in Nat
      BY <2>1, LenProperties
    <2>5. CASE r \in Callers
      <3>1. requests' = t /\ settable' = settable
        BY <2>2, <2>5 DEF Completed
      <3> QED BY <2>1, <2>3, <2>4, <3>1
    <2>6. CASE r \notin Callers
      <3> DEFINE reload == IF r = "status" THEN {r} ELSE {next} \ {Nobody}
                 loaded == [settable EXCEPT ![r] = TRUE]
      <3>1. /\ \A n \in reload : loaded[n]
            /\ settable' = [i \in Internal |-> loaded[i] /\ i \notin reload]
            /\ requests' = IF next = Nobody THEN t ELSE Append(t, next)
        BY <2>2, <2>6 DEF Completed
      <3>2. r \in Internal
        BY <2>1, <2>6 DEF Requests
      <3>3. \A i \in DOMAIN t : t[i] \in Internal \ {"status"} =>
              ~loaded[t[i]] /\ (\A j \in DOMAIN t : t[i] = t[j] => i = j)
        <4>1. \A i \in DOMAIN t : t[i] \in Internal \ {"status"} => t[i] # r
          BY <2>1, <2>4
        <4>2. \A i \in DOMAIN t : t[i] \in Internal \ {"status"} => ~settable[t[i]]
          BY <2>1
        <4>3. \A i, j \in DOMAIN t : t[i] \in Internal \ {"status"} /\ t[i] = t[j] => i = j
          BY <2>1, <2>4
        <4> QED BY <4>1, <4>2, <4>3
      <3>4. next \in {"detail", "network", Nobody}
        BY <2>2 DEF FollowUps
      <3>5. \A c, d \in Callers : pc'[c] = "setting" =>
              settable'["network"] /\ (pc'[d] = "setting" => c = d)
        <4>1. SUFFICES ASSUME NEW c \in Callers, pc[c] = "setting"
                       PROVE  settable'["network"]
          BY <2>3
        <4>2. next # "network"
          BY <4>1, <2>2 DEF Alive
        <4>3. loaded["network"] /\ "network" \notin reload /\ "network" \in Internal
          BY <3>2, <3>4, <4>1, <4>2 DEF Internal
        <4> QED BY <3>1, <4>3
      <3>6. CASE next = Nobody
        BY <3>1, <3>2, <3>3, <3>5, <3>6
      <3>7. CASE next # Nobody
        <4>1. next \in reload /\ next \in Requests
          BY <3>4, <3>7, <2>2 DEF FollowUps, Requests, Internal
        <4>2. \A i \in DOMAIN t : t[i] # next
          BY <3>1, <3>3, <3>4, <3>7, <4>1 DEF Internal
        <4>3. /\ DOMAIN requests' = 1..(Len(t) + 1)
              /\ \A i \in DOMAIN requests' :
                    requests'[i] = IF i = Len(t) + 1 THEN next ELSE t[i]
          BY <2>1, <3>1, <3>7, <4>1, AppendMembers
        <4>4. ~settable'[next]
          BY <3>1, <3>4, <3>7, <4>1 DEF Internal
        <4> QED BY <2>4, <3>1, <3>3, <3>5, <4>2, <4>3, <4>4
      <3> QED BY <3>6, <3>7
    <2> QED BY <2>5, <2>6
  <1>8. ASSUME ReceiveEvent PROVE Goal
    <2>1. pc' = pc
      BY <1>8 DEF ReceiveEvent
    <2>2. CASE requests' = requests /\ settable' = settable
      BY <2>1, <2>2
    <2>3. CASE Submit("status") /\ settable' = settable
      <3>1. "status" \in Requests
        BY DEF Internal
      <3> QED BY <2>1, <2>3, <3>1, AppendMembers DEF Submit
    <2>4. ASSUME NEW r \in {"scan", "detail"}, settable[r], SetRequest(r), Submit(r)
          PROVE  Goal
      <3>1. r \in Internal
        BY DEF Internal
      <3>2. \A i \in DOMAIN requests : requests[i] # r
        BY <2>4, <3>1
      <3> QED BY <2>1, <2>4, <3>1, <3>2, AppendMembers DEF Submit, SetRequest
    <2> QED BY <1>8, <2>2, <2>3, <2>4 DEF ReceiveEvent, IsReply, RequestOf, Events
  <1>9. ASSUME Release \/ SendData \/ SendCopy \/ ReceiveReply \/ ReceiveEmpty \/ Reply
                 \/ \E e \in Emitted : Emit(e)
        PROVE  Goal
    <2>1. requests' = requests /\ pc' = pc /\ settable' = settable
      BY <1>9 DEF Release, SendData, SendCopy, ReceiveReply, ReceiveEmpty, Reply, Emit, queue
    <2> QED BY <2>1
  <1>10. ASSUME NEW c \in Callers, Destruct(c) PROVE Goal
    BY <1>10 DEF Destruct, Alive
  <1> QED BY <1>1, <1>2, <1>3, <1>4, <1>5, <1>6, <1>7, <1>8, <1>9, <1>10
          DEF Next, Caller, Socket, Stopped
\* A caller that is about to Trigger.
Triggering == \E c \in Callers : pc[c] \in {"submitted", "refreshing"}

\* The trigger of the front request is not lost: the first Submit leaves a caller
\* that triggers, a pop and the Revoke of the front trigger themselves, and no
\* request that is in the list is loaded again.
LEMMA TriggerStep ==
    ASSUME IInv, Alive, Next PROVE NoLostTrigger'
  <1>0. /\ requests \in Seq(Requests)
        /\ Callers \subseteq Requests /\ Internal \subseteq Requests
        /\ pc \in [Callers -> Points]
        /\ unsent \in [Requests -> BOOLEAN]
        /\ requests # <<>> => Head(requests) = requests[1] /\ 1 \in DOMAIN requests
    BY TailMembers DEF IInv, TypeOK, Requests
  <1>a. requests # <<>> /\ unsent[requests[1]] => writeSlot \/ Triggering
    BY <1>0 DEF IInv, NoLostTrigger, Triggering
  <1> DEFINE Goal == requests' # <<>> /\ unsent'[Head(requests')]
                       => writeSlot' \/ Triggering'
  <1>b. SUFFICES Goal
    BY DEF NoLostTrigger, Triggering
  <1> USE <1>0, <1>a
  <1>c. ASSUME NEW c \in Callers, NEW r \in Requests, NEW trigger, NEW go,
               trigger \in {"submitted", "refreshing"},
               SubmitFrom(c, r, trigger, go), writeSlot' = writeSlot,
               pc[c] \notin {"submitted", "refreshing"},
               requests # <<>> => (unsent'[requests[1]] => unsent[requests[1]])
        PROVE  Goal
    <2>1. requests' = Append(requests, r)
          /\ pc' = [pc EXCEPT ![c] = IF requests = <<>> THEN trigger ELSE go]
      BY <1>c DEF SubmitFrom, Submit
    <2>2. CASE requests = <<>>
      <3>1. pc'[c] \in {"submitted", "refreshing"}
        BY <2>1, <2>2, <1>c
      <3> QED BY <3>1 DEF Triggering
    <2>3. CASE requests # <<>>
      <3>1. requests' # <<>> /\ Head(requests') = requests[1]
        BY <2>1, <2>3, HeadTailProperties, ListProperties
      <3>2. Triggering => Triggering'
        BY <2>1, <1>c DEF Triggering
      <3> QED BY <3>1, <3>2, <2>3, <1>c
    <2> QED BY <2>2, <2>3
  <1>1. ASSUME NEW c \in Callers, Start(c) \/ Again(c) PROVE Goal
    <2>1. /\ SubmitFrom(c, c, "submitted", "waiting")
          /\ writeSlot' = writeSlot
          /\ pc[c] \in {"idle", "answered"}
          /\ unsent' = [unsent EXCEPT ![c] = TRUE]
      BY <1>1 DEF Start, Again, LoadCustom, socket
    <2>2. requests # <<>> => requests[1] # c
      BY <2>1 DEF IInv, QueueHoldsLiveRequests
    <2> QED BY <2>1, <2>2, <1>c
  <1>2. ASSUME NEW c \in Callers, Trigger(c) PROVE Goal
    BY <1>2 DEF Trigger
  <1>3. ASSUME NEW c \in Callers, Answered(c) \/ Expire(c) \/ EnterSet(c) PROVE Goal
    <2>1. /\ requests' = requests /\ unsent' = unsent /\ writeSlot' = writeSlot
          /\ Triggering => Triggering'
      BY <1>3 DEF Answered, Expire, EnterSet, queue, socket, Triggering
    <2> QED BY <2>1
  <1>4. ASSUME NEW c \in Callers, LeaveSet(c) PROVE Goal
    <2>1. /\ SubmitFrom(c, "network", "refreshing", "revoking")
          /\ writeSlot' = writeSlot
          /\ pc[c] = "setting"
          /\ unsent' = [unsent EXCEPT !["network"] = TRUE]
          /\ "network" \in Internal \ {"status"}
      BY <1>4 DEF LeaveSet, SetRequest, socket, Internal
    <2>2. requests # <<>> => requests[1] # "network"
      BY <2>1 DEF IInv, SettingAlone, SetGuardsTheList, ToSet
    <2> QED BY <2>1, <2>2, <1>c
  <1>5. ASSUME NEW c \in Callers, AttachFailed(c) PROVE Goal
    <2>1. /\ SubmitFrom(c, "status", "refreshing", "revoking")
          /\ writeSlot' = writeSlot
          /\ pc[c] \in {"answered", "expired"}
          /\ unsent' = unsent
          /\ "status" \in Requests
      BY <1>5 DEF AttachFailed, socket, Internal
    <2> QED BY <2>1, <1>c
  <1>6. ASSUME NEW c \in Callers, Finish(c) PROVE Goal
    <2>1. /\ pc' = [pc EXCEPT ![c] = "idle"]
          /\ pc[c] \in {"answered", "expired", "revoking"}
          /\ Revoke(c)
          /\ unsent' = [unsent EXCEPT ![c] = FALSE]
      BY <1>6 DEF Finish, Revoke
    <2>2. Triggering => Triggering'
      BY <2>1 DEF Triggering
    <2>3. CASE UNCHANGED <<requests, writeSlot>>
      BY <2>1, <2>2, <2>3
    <2>4. ASSUME NEW i \in 1..Len(requests), requests' = RemoveAt(requests, i),
                 writeSlot' = (writeSlot \/ i = 1)
          PROVE  Goal
      <3>1. CASE i = 1
        BY <2>4, <3>1
      <3>2. CASE i # 1
        <4>0. Len(requests) \in Nat /\ i \in Nat /\ i > 1 /\ requests # <<>>
          BY <3>2, LenProperties, EmptySeq
        <4>1. /\ requests' \in Seq(Requests) /\ Len(requests') = Len(requests) - 1
              /\ \A j \in 1..(Len(requests) - 1) :
                    requests'[j] = IF j < i THEN requests[j] ELSE requests[j + 1]
          BY <2>4, RemoveAtProperties
        <4>2. 1 \in 1..(Len(requests) - 1)
          BY <4>0
        <4>3. requests'[1] = requests[1]
          BY <4>0, <4>1, <4>2
        <4>4. requests' # <<>> /\ Head(requests') = requests[1]
          BY <4>0, <4>1, <4>2, <4>3, HeadTailProperties, ListProperties
        <4>5. unsent'[requests[1]] => unsent[requests[1]]
          BY <2>1
        <4> QED BY <2>2, <2>4, <4>0, <4>4, <4>5
      <3> QED BY <3>1, <3>2
    <2> QED BY ZenonT(30), <2>1, <2>3, <2>4, LenProperties DEF Revoke, Found, TriggerAfterErase
  <1>7. ASSUME NEW c \in Callers, Destruct(c) PROVE Goal
    BY <1>7 DEF Destruct
  <1>8. ASSUME SendData PROVE Goal
    BY <1>8 DEF SendData, queue
  <1>9. ASSUME SendCopy PROVE Goal
    <2>1. /\ requests' = requests /\ writeSlot' = writeSlot /\ pc' = pc
          /\ unsent' = [unsent EXCEPT ![sending] = FALSE]
      BY <1>9 DEF SendCopy
    <2> QED BY <2>1 DEF Triggering
  <1>10. ASSUME ReceiveComplete PROVE Goal
    BY <1>10 DEF ReceiveComplete, TriggerAfterPop
  <1>11. ASSUME ReceiveEvent PROVE Goal
    <2>1. pc' = pc
      BY <1>11 DEF ReceiveEvent
    <2>2. ASSUME NEW r \in Requests, Submit(r), writeSlot' = (writeSlot \/ requests = <<>>),
                 requests # <<>> => (unsent'[requests[1]] => unsent[requests[1]])
          PROVE  Goal
      <3>1. CASE requests = <<>>
        BY <2>2, <3>1
      <3>2. CASE requests # <<>>
        <4>1. requests' # <<>> /\ Head(requests') = requests[1]
          BY <2>2, <3>2, HeadTailProperties, ListProperties DEF Submit
        <4> QED BY <2>1, <2>2, <3>2, <4>1 DEF Triggering
      <3> QED BY <3>1, <3>2
    <2>3. CASE UNCHANGED <<requests, unsent, settable, writeSlot>>
      BY <2>1, <2>3 DEF Triggering
    <2>4. CASE /\ Submit("status") /\ unsent' = unsent
               /\ writeSlot' = (writeSlot \/ requests = <<>>)
      BY <2>2, <2>4 DEF Internal
    <2>5. ASSUME NEW r \in {"scan", "detail"}, settable[r], SetRequest(r), Submit(r),
                 writeSlot' = (writeSlot \/ requests = <<>>)
          PROVE  Goal
      <3>1. r \in Internal \ {"status"}
        BY DEF Internal
      <3>2. requests # <<>> => requests[1] # r
        BY <2>5, <3>1 DEF IInv, SetGuardsTheList, ToSet
      <3> QED BY <2>2, <2>5, <3>1, <3>2 DEF SetRequest
    <2> QED BY <1>11, <2>3, <2>4, <2>5 DEF ReceiveEvent, IsReply, RequestOf, Events
  <1>12. ASSUME Release \/ ReceiveReply \/ ReceiveEmpty \/ Reply \/ \E e \in Emitted : Emit(e)
         PROVE  Goal
    <2>1. UNCHANGED <<requests, unsent, writeSlot, pc>>
      BY <1>12 DEF Release, ReceiveReply, ReceiveEmpty, Reply, Emit, queue, socket
    <2> QED BY <2>1 DEF Triggering
  <1> QED BY <1>1, <1>2, <1>3, <1>4, <1>5, <1>6, <1>7, <1>8, <1>9, <1>10, <1>11, <1>12
          DEF Next, Caller, Socket, Stopped

\* The inductive invariant holds in every state.
LEMMA Inductive == Spec => []IInv
  <1>1. Init => IInv
    <2> SUFFICES ASSUME Init PROVE IInv
      OBVIOUS
    <2>1. requests = <<>> /\ \A c \in Callers : pc[c] = "idle"
      BY DEF Init
    <2>2. DOMAIN requests = {}
      BY <2>1
    <2> QED BY <2>1, <2>2, InitType
            DEF IInv, QueueHoldsLiveRequests, SetGuardsTheList, SettingAlone,
                NoLostTrigger, ToSet
  <1>2. IInv /\ [Next]_vars => IInv'
    <2> SUFFICES ASSUME IInv, [Next]_vars PROVE IInv'
      OBVIOUS
    <2>1. TypeOK'
      BY TypeInvariance DEF IInv
    <2>2. CASE Alive /\ Next
      BY <2>1, <2>2, QueueStep, SetStep, TriggerStep DEF IInv
    <2>3. CASE UNCHANGED vars
      BY <2>1, <2>3 DEF IInv, vars, queue, object, socket, QueueHoldsLiveRequests,
                        SetGuardsTheList, SettingAlone, NoLostTrigger, Alive
    <2>4. Next => Alive \/ UNCHANGED vars
      BY DEF Next, Caller, Socket, Stopped, Start, Trigger, Answered, Expire, Again,
             EnterSet, LeaveSet, Finish, AttachFailed, Destruct, Release, SendData,
             SendCopy, ReceiveReply, ReceiveComplete, ReceiveEmpty, ReceiveEvent,
             Reply, Emit
    <2> QED BY <2>2, <2>3, <2>4
  <1> QED BY <1>1, <1>2, PTL DEF Spec

\* Neither the socket thread nor a caller that times out ever forgets to trigger for
\* the request that has come to the front.
THEOREM TriggersNotLost == Spec => []NoLostTrigger
  BY Inductive, PTL DEF IInv

\* _requests never holds a pointer to a CustomRequest that has left the stack.
THEOREM NoDanglingRequest == Spec => []QueueHoldsLiveRequests
  BY Inductive, PTL DEF IInv

\* A member request submitted on Set is in the list at most once, and settable again
\* only when it has left it.
THEOREM MembersSubmittedOnce == Spec => []SetGuardsTheList
  BY Inductive, PTL DEF IInv

-----------------------------------------------------------------------------
(* The commands on their way                                               *)

\* A command that is on its way was sent: its request has nothing to send.
SentIsSent ==
    Alive => \A r \in Requests : r \in ToSet(inbox) \cup ToSet(wire) => ~unsent[r]

\* What waits behind the front request was not sent, and a status request that is not in
\* front is loaded.
UnsentBehind ==
    Alive =>
        /\ \A i \in DOMAIN requests : i > 1 => \/ unsent[requests[i]]
                                               \/ requests[i] = "status"
        /\ unsent["status"] \/ (requests # <<>> /\ Head(requests) = "status")

\* The socket thread is either sending the front request or receiving a reply.
ThreadAtFront ==
    Alive =>
        /\ sending # Nobody => /\ requests # <<>> /\ Head(requests) = sending
                               /\ unsent[sending]
                               /\ ~receiving
        /\ receiving => Head(inbox) \notin Events

\* Until some Wait runs out of time a caller leaves when its request has been answered,
\* and nothing is on its way for one that has left.
NobodyAbandons ==
    ~timedOut =>
        /\ \A c \in Callers : pc[c] # "expired"
        /\ Alive => /\ Orphan \notin ToSet(inbox) \cup ToSet(wire)
                    /\ \A c \in Callers : pc[c] \in {"answered", "setting", "refreshing",
                                                     "revoking"} => c \notin ToSet(requests)

LineInv ==
    /\ OneCommandAtATime
    /\ SentIsSent
    /\ UnsentBehind
    /\ ThreadAtFront
    /\ NobodyAbandons
    /\ AnswersMatchUntilTimeout

\* What a list holds when one is appended to it, or its front is popped.
LEMMA SetOfList ==
    ASSUME NEW S, NEW s \in Seq(S), NEW e \in S
    PROVE  /\ ToSet(Append(s, e)) = ToSet(s) \cup {e}
           /\ s # <<>> => /\ ToSet(s) = ToSet(Tail(s)) \cup {Head(s)}
                          /\ Head(s) = s[1]
           /\ s # <<>> <=> ToSet(s) # {}
  <1>0. DOMAIN s = 1..Len(s) /\ Len(s) \in Nat
    BY LenProperties
  <1>1. ToSet(Append(s, e)) = ToSet(s) \cup {e}
    <2>1. ASSUME NEW x \in ToSet(Append(s, e)) PROVE x \in ToSet(s) \cup {e}
      <3>1. PICK i \in DOMAIN Append(s, e) : x = Append(s, e)[i]
        BY DEF ToSet
      <3> QED BY <1>0, <3>1, AppendMembers DEF ToSet
    <2>2. ASSUME NEW x \in ToSet(s) PROVE x \in ToSet(Append(s, e))
      <3>1. PICK i \in DOMAIN s : x = s[i]
        BY DEF ToSet
      <3>2. i \in DOMAIN Append(s, e) /\ Append(s, e)[i] = x
        BY <1>0, <3>1, AppendMembers
      <3> QED BY <3>2 DEF ToSet
    <2>3. e \in ToSet(Append(s, e))
      <3>1. Len(s) + 1 \in DOMAIN Append(s, e) /\ Append(s, e)[Len(s) + 1] = e
        BY <1>0, AppendMembers
      <3> QED BY <3>1 DEF ToSet
    <2> QED BY <2>1, <2>2, <2>3
  <1>2. ASSUME s # <<>>
        PROVE  ToSet(s) = ToSet(Tail(s)) \cup {Head(s)} /\ Head(s) = s[1] /\ ToSet(s) # {}
    <2>1. 1 \in DOMAIN s /\ Head(s) = s[1]
      BY <1>2, TailMembers
    <2>2. ASSUME NEW x \in ToSet(s) PROVE x \in ToSet(Tail(s)) \cup {Head(s)}
      <3>1. PICK i \in DOMAIN s : x = s[i]
        BY DEF ToSet
      <3>2. CASE i = 1
        BY <2>1, <3>1, <3>2
      <3>3. CASE i # 1
        <4>1. i - 1 \in DOMAIN Tail(s) /\ Tail(s)[i - 1] = x
          BY <1>0, <1>2, <3>1, <3>3, HeadTailProperties
        <4> QED BY <4>1 DEF ToSet
      <3> QED BY <3>2, <3>3
    <2>3. ASSUME NEW x \in ToSet(Tail(s)) PROVE x \in ToSet(s)
      <3>1. PICK i \in DOMAIN Tail(s) : x = Tail(s)[i]
        BY DEF ToSet
      <3> QED BY <1>2, <3>1, TailMembers DEF ToSet
    <2>4. Head(s) \in ToSet(s)
      BY <2>1 DEF ToSet
    <2> QED BY <2>1, <2>2, <2>3, <2>4
  <1>3. s = <<>> => ToSet(s) = {}
    BY DEF ToSet
  <1> QED BY <1>1, <1>2, <1>3

\* The same for the front alone.
LEMMA SetOfPopped ==
    ASSUME NEW S, NEW s \in Seq(S), s # <<>>
    PROVE  ToSet(s) = ToSet(Tail(s)) \cup {Head(s)} /\ Head(s) \in S
  <1>1. Head(s) \in S
    BY HeadTailProperties
  <1> QED BY <1>1, SetOfList

\* Orphaned takes the name of one off what is on its way, and leaves the rest in place.
LEMMA OrphanedMembers ==
    ASSUME NEW S, NEW s \in Seq(S), NEW r
    PROVE  /\ DOMAIN Orphaned(s, r) = DOMAIN s /\ Len(Orphaned(s, r)) = Len(s)
           /\ \A i \in DOMAIN s : Orphaned(s, r)[i] = IF s[i] = r THEN Orphan ELSE s[i]
           /\ \A m : m # Orphan /\ m # r => (m \in ToSet(Orphaned(s, r)) <=> m \in ToSet(s))
           /\ r # Orphan => r \notin ToSet(Orphaned(s, r))
           /\ r \notin ToSet(s) => Orphaned(s, r) = s
           /\ s = <<>> <=> Orphaned(s, r) = <<>>
  <1>0. DOMAIN s = 1..Len(s) /\ Len(s) \in Nat
    BY LenProperties
  <1>1. /\ DOMAIN Orphaned(s, r) = DOMAIN s
        /\ \A i \in DOMAIN s : Orphaned(s, r)[i] = IF s[i] = r THEN Orphan ELSE s[i]
    BY DEF Orphaned
  <1>2. Orphaned(s, r) \in Seq(S \cup {Orphan})
    BY <1>0 DEF Orphaned
  <1>3. Len(Orphaned(s, r)) = Len(s)
    BY <1>0, <1>1, <1>2, LenProperties
  <1>4. ASSUME NEW m, m # Orphan, m # r
        PROVE  m \in ToSet(Orphaned(s, r)) <=> m \in ToSet(s)
    BY <1>1, <1>4 DEF ToSet
  <1>5. r # Orphan => r \notin ToSet(Orphaned(s, r))
    BY <1>1 DEF ToSet
  <1>6. r \notin ToSet(s) => Orphaned(s, r) = s
    <2> SUFFICES ASSUME r \notin ToSet(s) PROVE Orphaned(s, r) = s
      OBVIOUS
    <2>1. \A i \in DOMAIN s : Orphaned(s, r)[i] = s[i]
      BY <1>1 DEF ToSet
    <2> QED BY <1>0, <1>1, <1>2, <1>3, <2>1, SeqEqual
  <1>7. s = <<>> <=> Orphaned(s, r) = <<>>
    BY <1>0, <1>2, <1>3, EmptySeq
  <1> QED BY <1>1, <1>3, <1>4, <1>5, <1>6, <1>7

\* Before a step: what the list, the socket and the supplicant know of each other.
LEMMA LineFacts ==
    ASSUME IInv, LineInv, Alive
    PROVE  /\ requests \in Seq(Requests) /\ inbox \in Seq(Requests \cup {Orphan} \cup Events)
           /\ wire \in Seq(Requests \cup {Orphan})
           /\ unsent \in [Requests -> BOOLEAN]
           /\ Orphan \notin Requests \cup Events \cup {Nobody}
           /\ Nobody \notin Requests
           /\ Requests \cap Events = {}
           /\ \A i, j \in DOMAIN requests :
                 requests[i] = requests[j] => i = j \/ requests[i] = "status"
           /\ \A r \in Requests : r \in ToSet(inbox) \cup ToSet(wire)
                 => requests # <<>> /\ Head(requests) = r
           /\ requests # <<>> => Head(requests) = requests[1] /\ 1 \in DOMAIN requests
  <1>1. /\ requests \in Seq(Requests) /\ inbox \in Seq(Requests \cup {Orphan} \cup Events)
        /\ wire \in Seq(Requests \cup {Orphan})
        /\ unsent \in [Requests -> BOOLEAN]
    BY DEF IInv, TypeOK
  <1>2. /\ Orphan \notin Requests \cup Events \cup {Nobody}
        /\ Nobody \notin Requests
        /\ Requests \cap Events = {}
    BY ChannelAssumption DEF Requests, Internal, Events, Nobody
  <1>3. ASSUME NEW i \in DOMAIN requests, NEW j \in DOMAIN requests, requests[i] = requests[j]
        PROVE  i = j \/ requests[i] = "status"
    <2>1. requests[i] \in Requests
      BY <1>1
    <2>2. CASE requests[i] \in Callers
      BY <1>3, <2>2 DEF IInv, QueueHoldsLiveRequests
    <2>3. CASE requests[i] \in Internal \ {"status"}
      BY <1>3, <2>3 DEF IInv, SetGuardsTheList
    <2> QED BY <2>1, <2>2, <2>3 DEF Requests
  <1>4. ASSUME NEW r \in Requests, r \in ToSet(inbox) \cup ToSet(wire)
        PROVE  requests # <<>> /\ Head(requests) = r
    BY <1>4 DEF LineInv, OneCommandAtATime, ToSet
  <1>5. requests # <<>> => Head(requests) = requests[1] /\ 1 \in DOMAIN requests
    BY <1>1, TailMembers
  <1> QED BY <1>1, <1>2, <1>3, <1>4, <1>5

\* The supplicant keeps the order of the commands, and its events ask for none.
LEMMA SupplicantKeepsLine ==
    ASSUME IInv, LineInv, Alive, Reply \/ \E e \in Emitted : Emit(e)
    PROVE  OneCommandAtATime' /\ SentIsSent' /\ ThreadAtFront'
  <1>1. /\ requests \in Seq(Requests) /\ inbox \in Seq(Requests \cup {Orphan} \cup Events)
        /\ wire \in Seq(Requests \cup {Orphan})
        /\ Requests \cap Events = {}
    BY LineFacts
  <1>2. /\ UNCHANGED <<requests, unsent, sending, receiving>>
        /\ receiving => inbox # <<>>
    BY DEF Reply, Emit, queue, IInv, TypeOK
  <1>3. CASE Reply
    <2> DEFINE m == Head(wire)
    <2>1. /\ wire # <<>> /\ wire' = Tail(wire) /\ inbox' = Append(inbox, m)
      BY <1>3 DEF Reply
    <2>2. m \in Requests \cup {Orphan} /\ m = wire[1] /\ 1 \in DOMAIN wire
      BY <1>1, <2>1, TailMembers
    <2>3. ToSet(inbox') \cup ToSet(wire') = ToSet(inbox) \cup ToSet(wire)
      <3>1. ToSet(inbox') = ToSet(inbox) \cup {m}
        BY SMTT(30), <1>1, <2>1, <2>2, SetOfList
      <3>2. ToSet(wire) = ToSet(wire') \cup {m}
        BY <1>1, <2>1, SetOfList
      <3> QED BY <3>1, <3>2
    <2>4. \A i \in DOMAIN inbox : inbox[i] \notin Requests
      BY <2>1 DEF LineInv, OneCommandAtATime
    <2>5. m \in Requests => wire' = <<>> /\ requests # <<>> /\ Head(requests) = m
      <3> SUFFICES ASSUME m \in Requests PROVE wire' = <<>> /\ requests # <<>> /\ Head(requests) = m
        OBVIOUS
      <3>1. Len(wire) = 1 /\ requests # <<>> /\ Head(requests) = m
        BY <2>2 DEF LineInv, OneCommandAtATime
      <3>2. Len(wire') = 0 /\ wire' \in Seq(Requests \cup {Orphan})
        BY <1>1, <2>1, <3>1, HeadTailProperties
      <3> QED BY <3>1, <3>2, EmptySeq
    <2>6. ASSUME NEW i \in DOMAIN inbox', inbox'[i] \in Requests
          PROVE  /\ wire' = <<>>
                 /\ \A j \in DOMAIN inbox' : j > i => inbox'[j] \in Events
                 /\ requests # <<>> /\ Head(requests) = inbox'[i]
      <3>1. /\ DOMAIN inbox = 1..Len(inbox) /\ DOMAIN inbox' = 1..(Len(inbox) + 1)
            /\ Len(inbox) \in Nat
            /\ inbox'[i] = IF i = Len(inbox) + 1 THEN m ELSE inbox[i]
        BY <1>1, <2>1, <2>2, AppendMembers, LenProperties
      <3>2. i = Len(inbox) + 1
        BY <2>4, <2>6, <3>1
      <3> QED BY <2>5, <2>6, <3>1, <3>2
    <2>7. ASSUME NEW i \in DOMAIN wire', wire'[i] \in Requests
          PROVE  i = Len(wire') /\ requests # <<>> /\ Head(requests) = wire'[i]
      <3>1. i + 1 \in DOMAIN wire /\ wire'[i] = wire[i + 1] /\ Len(wire') = Len(wire) - 1
        BY <1>1, <2>1, TailMembers, HeadTailProperties
      <3>2. i + 1 = Len(wire) /\ requests # <<>> /\ Head(requests) = wire'[i]
        BY <2>7, <3>1 DEF LineInv, OneCommandAtATime
      <3>3. i \in 1..Len(wire') /\ Len(wire) \in Nat
        BY <1>1, <2>1, HeadTailProperties, LenProperties
      <3> QED BY <3>1, <3>2, <3>3
    <2>8. OneCommandAtATime'
      BY <1>2, <2>3, <2>6, <2>7 DEF LineInv, OneCommandAtATime
    <2>9. SentIsSent'
      BY <1>2, <2>3 DEF LineInv, SentIsSent
    <2>10. receiving => Head(inbox') = Head(inbox)
      <3> SUFFICES ASSUME receiving PROVE Head(inbox') = Head(inbox)
        OBVIOUS
      <3> QED BY <1>1, <1>2, <2>1, <2>2, HeadTailAppend
    <2> QED BY <1>2, <2>8, <2>9, <2>10 DEF LineInv, ThreadAtFront
  <1>4. ASSUME NEW e \in Emitted, Emit(e)
        PROVE  OneCommandAtATime' /\ SentIsSent' /\ ThreadAtFront'
    <2>1. inbox' = Append(inbox, e) /\ wire' = wire /\ e \in Events /\ e \notin Requests
      BY <1>1, <1>4, ChannelAssumption DEF Emit
    <2>2. ToSet(inbox') = ToSet(inbox) \cup {e}
      BY <1>1, <2>1, SetOfList
    <2>3. /\ DOMAIN inbox = 1..Len(inbox) /\ DOMAIN inbox' = 1..(Len(inbox) + 1)
          /\ Len(inbox) \in Nat
          /\ \A i \in DOMAIN inbox' : inbox'[i] = IF i = Len(inbox) + 1 THEN e ELSE inbox[i]
      BY <1>1, <2>1, AppendMembers, LenProperties
    <2>4. ASSUME NEW i \in DOMAIN inbox', inbox'[i] \in Requests
          PROVE  /\ wire' = <<>>
                 /\ \A j \in DOMAIN inbox' : j > i => inbox'[j] \in Events
                 /\ requests # <<>> /\ Head(requests) = inbox'[i]
      <3>1. i \in DOMAIN inbox /\ inbox'[i] = inbox[i]
        BY <2>1, <2>3, <2>4
      <3>2. /\ wire = <<>> /\ \A j \in DOMAIN inbox : j > i => inbox[j] \in Events
            /\ requests # <<>> /\ Head(requests) = inbox[i]
        BY <2>4, <3>1 DEF LineInv, OneCommandAtATime
      <3> QED BY <2>1, <2>3, <3>1, <3>2
    <2>5. OneCommandAtATime'
      BY <1>2, <2>1, <2>2, <2>4 DEF LineInv, OneCommandAtATime
    <2>6. SentIsSent'
      BY <1>2, <2>1, <2>2 DEF LineInv, SentIsSent
    <2>7. receiving => Head(inbox') = Head(inbox)
      <3> SUFFICES ASSUME receiving PROVE Head(inbox') = Head(inbox)
        OBVIOUS
      <3> QED BY <1>1, <1>2, <2>1, HeadTailAppend
    <2> QED BY <1>2, <2>5, <2>6, <2>7 DEF LineInv, ThreadAtFront
  <1> QED BY <1>3, <1>4


\* An event that is taken from the inbox leaves the commands there as they are.
LEMMA EventLeavesCommands ==
    ASSUME IInv, LineInv, Alive,
           \/ inbox' = inbox
           \/ inbox # <<>> /\ inbox' = Tail(inbox) /\ Head(inbox) \notin Requests
    PROVE  /\ \A i \in DOMAIN inbox' : inbox'[i] \in Requests =>
                 /\ wire = <<>>
                 /\ \A j \in DOMAIN inbox' : j > i => inbox'[j] \in Events
                 /\ inbox'[i] \in ToSet(inbox)
           /\ \A r \in Requests : r \in ToSet(inbox') <=> r \in ToSet(inbox)
  <1>1. inbox \in Seq(Requests \cup {Orphan} \cup Events)
    BY LineFacts
  <1>2. CASE inbox' = inbox
    BY <1>2 DEF LineInv, OneCommandAtATime, ToSet
  <1>3. CASE inbox # <<>> /\ inbox' = Tail(inbox) /\ Head(inbox) \notin Requests
    <2>1. \A i \in DOMAIN inbox' : i \in Int /\ i + 1 \in DOMAIN inbox /\ inbox'[i] = inbox[i + 1]
      BY <1>1, <1>3, TailMembers, HeadTailProperties, LenProperties
    <2>2. ASSUME NEW i \in DOMAIN inbox', inbox'[i] \in Requests
          PROVE  /\ wire = <<>>
                 /\ \A j \in DOMAIN inbox' : j > i => inbox'[j] \in Events
                 /\ inbox'[i] \in ToSet(inbox)
      <3>1. /\ wire = <<>> /\ \A j \in DOMAIN inbox : j > i + 1 => inbox[j] \in Events
        BY <2>1, <2>2 DEF LineInv, OneCommandAtATime
      <3> QED BY <2>1, <3>1 DEF ToSet
    <2>3. ToSet(inbox) = ToSet(inbox') \cup {Head(inbox)}
      BY <1>1, <1>3, SetOfList
    <2> QED BY <1>3, <2>2, <2>3
  <1> QED BY <1>2, <1>3

\* What is submitted comes after what is on its way.
LEMMA SubmitKeepsLine ==
    ASSUME IInv, LineInv, Alive, NEW r \in Requests, Submit(r),
           \/ r \notin ToSet(requests) /\ unsent' = [unsent EXCEPT ![r] = TRUE]
           \/ r = "status" /\ unsent' = unsent,
           UNCHANGED <<sending, receiving, wire>>,
           \/ inbox' = inbox
           \/ ~receiving /\ inbox # <<>> /\ inbox' = Tail(inbox) /\ Head(inbox) \notin Requests
    PROVE  OneCommandAtATime' /\ SentIsSent' /\ UnsentBehind' /\ ThreadAtFront'
  <1>1. /\ requests \in Seq(Requests) /\ wire \in Seq(Requests \cup {Orphan})
        /\ unsent \in [Requests -> BOOLEAN]
        /\ Nobody \notin Requests /\ "status" \in Requests
        /\ sending \in Requests \cup {Nobody}
    BY LineFacts DEF IInv, TypeOK, Requests, Internal
  <1>2. \A q \in Requests : q \in ToSet(inbox) \cup ToSet(wire)
                               => requests # <<>> /\ Head(requests) = q
    BY LineFacts
  <1>3. /\ requests' \in Seq(Requests) /\ requests' # <<>>
        /\ Head(requests') = IF requests = <<>> THEN r ELSE Head(requests)
        /\ DOMAIN requests = 1..Len(requests) /\ DOMAIN requests' = 1..(Len(requests) + 1)
        /\ Len(requests) \in Nat
        /\ \A i \in DOMAIN requests' :
              requests'[i] = IF i = Len(requests) + 1 THEN r ELSE requests[i]
    BY <1>1, HeadTailAppend, AppendMembers, AppendProperties, LenProperties DEF Submit
  <1>4. \A q \in Requests : unsent[q] => unsent'[q]
    BY <1>1
  <1>5. \A q \in Requests : q # r => unsent'[q] = unsent[q]
    BY <1>1
  <1>6. requests = <<>> => unsent'[r]
    BY <1>1 DEF LineInv, UnsentBehind
  <1>7. requests # <<>> => \/ Head(requests) # r
                           \/ unsent' = unsent
    BY <1>1, LineFacts DEF ToSet
  <1>8. requests # <<>> => Head(requests) \in Requests /\ unsent'[Head(requests)] = unsent[Head(requests)]
    BY <1>1, <1>5, <1>7, HeadTailProperties
  <1>9. /\ \A i \in DOMAIN inbox' : inbox'[i] \in Requests =>
              /\ wire = <<>>
              /\ \A j \in DOMAIN inbox' : j > i => inbox'[j] \in Events
              /\ inbox'[i] \in ToSet(inbox)
        /\ \A q \in Requests : q \in ToSet(inbox') <=> q \in ToSet(inbox)
    BY EventLeavesCommands
  <1>10. OneCommandAtATime'
    <2>1. ASSUME NEW i \in DOMAIN inbox', inbox'[i] \in Requests
          PROVE  /\ wire' = <<>>
                 /\ \A j \in DOMAIN inbox' : j > i => inbox'[j] \in Events
                 /\ requests' # <<>> /\ Head(requests') = inbox'[i]
      BY <1>2, <1>3, <1>9, <2>1
    <2>2. ASSUME NEW i \in DOMAIN wire', wire'[i] \in Requests
          PROVE  i = Len(wire') /\ requests' # <<>> /\ Head(requests') = wire'[i]
      BY <1>3, <2>2 DEF LineInv, OneCommandAtATime
    <2>3. ASSUME ~unsent'[Head(requests')]
          PROVE  Head(requests') \in ToSet(inbox') \cup ToSet(wire')
      <3>1. requests # <<>> /\ Head(requests') = Head(requests)
        BY <1>3, <1>6, <2>3
      <3>2. ~unsent[Head(requests)] /\ Head(requests) \in Requests
        BY <1>8, <2>3, <3>1
      <3>3. Head(requests) \in ToSet(inbox) \cup ToSet(wire)
        BY <3>1, <3>2 DEF LineInv, OneCommandAtATime
      <3> QED BY <1>9, <3>1, <3>2, <3>3
    <2> QED BY <2>1, <2>2, <2>3 DEF OneCommandAtATime
  <1>11. SentIsSent'
    <2> SUFFICES ASSUME NEW q \in Requests, q \in ToSet(inbox') \cup ToSet(wire')
                 PROVE  ~unsent'[q]
      BY DEF SentIsSent
    <2>1. q \in ToSet(inbox) \cup ToSet(wire)
      BY <1>9
    <2> QED BY <1>2, <1>8, <2>1 DEF LineInv, SentIsSent
  <1>12. UnsentBehind'
    <2>1. ASSUME NEW i \in DOMAIN requests', i > 1
          PROVE  unsent'[requests'[i]] \/ requests'[i] = "status"
      <3>1. CASE i = Len(requests) + 1
        BY <1>1, <1>3, <3>1
      <3>2. CASE i # Len(requests) + 1
        <4>1. i \in DOMAIN requests /\ requests'[i] = requests[i] /\ requests[i] \in Requests
          BY <1>1, <1>3, <3>2
        <4> QED BY <1>4, <2>1, <4>1 DEF LineInv, UnsentBehind
      <3> QED BY <3>1, <3>2
    <2>2. unsent'["status"] \/ Head(requests') = "status"
      BY <1>1, <1>3, <1>4, <1>6 DEF LineInv, UnsentBehind
    <2> QED BY <1>3, <2>1, <2>2 DEF UnsentBehind
  <1>13. ThreadAtFront'
    <2>1. sending # Nobody => /\ requests # <<>> /\ Head(requests) = sending
                              /\ unsent'[sending]
                              /\ ~receiving
      BY <1>1, <1>4 DEF LineInv, ThreadAtFront
    <2>2. receiving => Head(inbox') \notin Events
      BY DEF LineInv, ThreadAtFront
    <2> QED BY <1>3, <2>1, <2>2 DEF ThreadAtFront
  <1> QED BY <1>10, <1>11, <1>12, <1>13


\* The socket thread sends the front request when nothing of it is on its way, and takes
\* nothing but replies for replies.
LEMMA SocketKeepsLine ==
    ASSUME IInv, LineInv, Alive, SendData \/ SendCopy \/ ReceiveReply \/ ReceiveEvent
    PROVE  OneCommandAtATime' /\ SentIsSent' /\ UnsentBehind' /\ ThreadAtFront'
  <1> DEFINE Goal == OneCommandAtATime' /\ SentIsSent' /\ UnsentBehind' /\ ThreadAtFront'
  <1>1. /\ requests \in Seq(Requests) /\ wire \in Seq(Requests \cup {Orphan})
        /\ inbox \in Seq(Requests \cup {Orphan} \cup Events)
        /\ unsent \in [Requests -> BOOLEAN]
        /\ Nobody \notin Requests /\ "status" \in Requests /\ Requests \cap Events = {}
        /\ sending \in Requests \cup {Nobody}
    BY LineFacts DEF IInv, TypeOK, Requests, Internal
  <1>2. \A r \in Requests : r \in ToSet(inbox) \cup ToSet(wire)
                               => requests # <<>> /\ Head(requests) = r
    BY LineFacts
  <1>3. CASE SendData
    <2>1. UNCHANGED <<requests, unsent, receiving, wire, inbox>> /\ ~receiving
      BY <1>3 DEF SendData, queue, ThreadFree
    <2>2. sending' = sending \/ (requests # <<>> /\ unsent[Head(requests)]
                                 /\ sending' = Head(requests))
      BY <1>3 DEF SendData
    <2>3. OneCommandAtATime' /\ SentIsSent' /\ UnsentBehind'
      BY <2>1 DEF LineInv, OneCommandAtATime, SentIsSent, UnsentBehind
    <2> QED BY <2>1, <2>2, <2>3 DEF LineInv, ThreadAtFront
  <1>4. CASE SendCopy
    <2> DEFINE r == sending
    <2>1. /\ UNCHANGED <<requests, receiving, inbox>>
          /\ wire' = Append(wire, r) /\ unsent' = [unsent EXCEPT ![r] = FALSE]
          /\ sending' = Nobody /\ r # Nobody
      BY <1>4 DEF SendCopy
    <2>2. r \in Requests /\ requests # <<>> /\ Head(requests) = r /\ unsent[r]
      BY <1>1, <2>1 DEF LineInv, ThreadAtFront
    <2>3. \A q \in Requests : q \notin ToSet(inbox) \cup ToSet(wire)
      BY <1>2, <2>2 DEF LineInv, SentIsSent
    <2>4. ToSet(wire') = ToSet(wire) \cup {r}
      BY <1>1, <2>1, <2>2, SetOfList
    <2>5. ASSUME NEW i \in DOMAIN wire', wire'[i] \in Requests
          PROVE  i = Len(wire') /\ wire'[i] = r
      <3>1. /\ DOMAIN wire = 1..Len(wire) /\ DOMAIN wire' = 1..(Len(wire) + 1)
            /\ wire'[i] = IF i = Len(wire) + 1 THEN r ELSE wire[i]
            /\ Len(wire') = Len(wire) + 1
        BY <1>1, <2>1, <2>2, AppendMembers, AppendProperties, LenProperties
      <3>2. i \in DOMAIN wire => wire[i] \notin Requests
        BY <2>3 DEF ToSet
      <3> QED BY <2>5, <3>1, <3>2
    <2>6. OneCommandAtATime'
      <3>1. \A i \in DOMAIN inbox' : inbox'[i] \notin Requests
        BY <2>1, <2>3 DEF ToSet
      <3> QED BY <2>1, <2>2, <2>4, <2>5, <3>1 DEF OneCommandAtATime
    <2>7. SentIsSent'
      BY <1>1, <2>1, <2>2, <2>3, <2>4 DEF SentIsSent
    <2>8. UnsentBehind'
      <3>1. ASSUME NEW i \in DOMAIN requests, i > 1
            PROVE  unsent'[requests[i]] \/ requests[i] = "status"
        <4>1. requests[1] = r /\ 1 \in DOMAIN requests
          BY <2>2, LineFacts
        <4>2. requests[i] # r \/ requests[i] = "status"
          BY <3>1, <4>1, LineFacts
        <4>3. requests[i] \in Requests
          BY <1>1
        <4> QED BY <1>1, <2>1, <3>1, <4>2, <4>3 DEF LineInv, UnsentBehind
      <3>2. unsent'["status"] \/ Head(requests) = "status"
        BY <1>1, <2>1, <2>2 DEF LineInv, UnsentBehind
      <3> QED BY <2>1, <2>2, <3>1, <3>2 DEF UnsentBehind
    <2>9. ThreadAtFront'
      BY <2>1 DEF LineInv, ThreadAtFront
    <2> QED BY <2>6, <2>7, <2>8, <2>9
  <1>5. ASSUME UNCHANGED <<requests, unsent, sending, receiving, wire>>,
               \/ inbox' = inbox
               \/ ~receiving /\ inbox # <<>> /\ inbox' = Tail(inbox) /\ Head(inbox) \notin Requests
        PROVE  Goal
    <2>1. /\ \A i \in DOMAIN inbox' : inbox'[i] \in Requests =>
                /\ wire = <<>>
                /\ \A j \in DOMAIN inbox' : j > i => inbox'[j] \in Events
                /\ inbox'[i] \in ToSet(inbox)
          /\ \A q \in Requests : q \in ToSet(inbox') <=> q \in ToSet(inbox)
      BY <1>5, EventLeavesCommands
    <2>2. OneCommandAtATime'
      <3>1. requests # <<>> => Head(requests) \in Requests
        BY <1>1, HeadTailProperties
      <3>2. ASSUME NEW i \in DOMAIN inbox', inbox'[i] \in Requests
            PROVE  /\ wire = <<>>
                   /\ \A j \in DOMAIN inbox' : j > i => inbox'[j] \in Events
                   /\ requests # <<>> /\ Head(requests) = inbox'[i]
        BY <1>2, <2>1, <3>2
      <3>3. requests # <<>> /\ ~unsent[Head(requests)]
               => Head(requests) \in ToSet(inbox') \cup ToSet(wire)
        BY <2>1, <3>1 DEF LineInv, OneCommandAtATime
      <3> QED BY <1>5, <3>2, <3>3 DEF LineInv, OneCommandAtATime
    <2>3. SentIsSent' /\ UnsentBehind'
      BY <1>5, <2>1 DEF LineInv, SentIsSent, UnsentBehind
    <2>4. ThreadAtFront'
      BY <1>5 DEF LineInv, ThreadAtFront
    <2> QED BY <2>2, <2>3, <2>4
  <1>6. CASE ReceiveReply
    <2>1. /\ UNCHANGED <<requests, unsent, sending, wire>>
          /\ ~receiving /\ sending = Nobody
          /\ inbox # <<>> /\ Head(inbox) \notin Events
      BY <1>6 DEF ReceiveReply, queue, ThreadFree, IsReply
    <2>2. CASE requests = <<>>
      <3>1. inbox' = Tail(inbox) /\ receiving' = receiving
        BY <1>6, <2>2 DEF ReceiveReply
      <3>2. Head(inbox) \notin Requests
        BY <1>1, <1>2, <2>1, <2>2, SetOfList
      <3> QED BY <1>5, <2>1, <3>1, <3>2
    <2>3. CASE requests # <<>>
      <3>1. inbox' = inbox /\ receiving' = TRUE
        BY <1>6, <2>3 DEF ReceiveReply
      <3>2. OneCommandAtATime' /\ SentIsSent' /\ UnsentBehind'
        BY <2>1, <3>1 DEF LineInv, OneCommandAtATime, SentIsSent, UnsentBehind
      <3> QED BY <2>1, <3>1, <3>2 DEF ThreadAtFront
    <2> QED BY <2>2, <2>3
  <1>7. CASE ReceiveEvent
    <2> DEFINE e == Head(inbox)
               r == RequestOf(e)
    <2>1. /\ UNCHANGED <<sending, receiving, wire>> /\ ~receiving
          /\ inbox # <<>> /\ inbox' = Tail(inbox) /\ e \in Events /\ e \notin Requests
      BY <1>1, <1>7 DEF ReceiveEvent, ThreadFree, IsReply
    <2>2. r \in {"status", "scan", "detail"}
      BY <2>1 DEF Events, RequestOf
    <2>3. CASE UNCHANGED <<requests, unsent>>
      BY <1>5, <2>1, <2>3
    <2>4. CASE r = "status" /\ Submit(r) /\ unsent' = unsent
      BY <1>1, <2>1, <2>4, SubmitKeepsLine
    <2>5. CASE r # "status" /\ settable[r] /\ SetRequest(r) /\ Submit(r)
      <3>1. r \in Internal \ {"status"} /\ r \in Requests
        BY <2>2, <2>5 DEF Internal, Requests
      <3>2. r \notin ToSet(requests) /\ unsent' = [unsent EXCEPT ![r] = TRUE]
        BY <2>5, <3>1 DEF IInv, SetGuardsTheList, SetRequest
      <3> HIDE DEF r
      <3> QED BY <2>1, <2>5, <3>1, <3>2, SubmitKeepsLine
    <2> HIDE DEF Goal
    <2> QED BY <1>7, <2>3, <2>4, <2>5 DEF ReceiveEvent
  <1> HIDE DEF Goal
  <1>8. Goal
    BY <1>3, <1>4, <1>6, <1>7 DEF Goal
  <1> QED BY <1>8 DEF Goal


\* When no command with a request is on its way, and all that is in the list is still to
\* be sent, the next one can be.
LEMMA NothingOnTheWay ==
    ASSUME requests' \in Seq(Requests), unsent'["status"],
           \A r \in ToSet(requests') : unsent'[r],
           \A r \in Requests : r \notin ToSet(inbox') \cup ToSet(wire')
    PROVE  OneCommandAtATime' /\ SentIsSent' /\ UnsentBehind'
  <1>1. requests' # <<>> => Head(requests') \in ToSet(requests')
    BY SetOfList DEF ToSet
  <1>2. OneCommandAtATime'
    BY <1>1 DEF OneCommandAtATime, ToSet
  <1>3. SentIsSent' /\ UnsentBehind'
    BY DEF SentIsSent, UnsentBehind, ToSet
  <1> QED BY <1>2, <1>3

\* All but the front request are loaded.
LEMMA RestIsLoaded ==
    ASSUME IInv, LineInv, Alive, requests # <<>>
    PROVE  /\ \A i \in DOMAIN requests : i > 1 /\ (requests[i] # "status" \/ Head(requests) # "status")
                                            => unsent[requests[i]]
           /\ Head(requests) # "status" => unsent["status"]
           /\ \A i \in DOMAIN requests : i \in Int /\ i >= 1 /\ requests[i] \in Requests
  <1>1. requests \in Seq(Requests) /\ DOMAIN requests = 1..Len(requests) /\ Len(requests) \in Nat
    BY LineFacts, LenProperties
  <1> QED BY <1>1 DEF LineInv, UnsentBehind

\* Revoke takes the request of c off the list, and its name off what is on its way.
LEMMA RevokeKeepsLine ==
    ASSUME IInv, LineInv, Alive, Alive', NEW c \in Callers, Revoke(c)
    PROVE  OneCommandAtATime' /\ SentIsSent' /\ UnsentBehind' /\ ThreadAtFront'
  <1>1. /\ requests \in Seq(Requests) /\ wire \in Seq(Requests \cup {Orphan})
        /\ inbox \in Seq(Requests \cup {Orphan} \cup Events)
        /\ unsent \in [Requests -> BOOLEAN]
        /\ Nobody \notin Requests /\ "status" \in Requests /\ Requests \cap Events = {}
        /\ Orphan \notin Requests \cup Events
        /\ c \in Requests /\ c # "status"
        /\ sending \in Requests \cup {Nobody} /\ (receiving => inbox # <<>>)
    BY LineFacts, ChannelAssumption DEF IInv, TypeOK, Requests, Internal
  <1>2. /\ wire' = Orphaned(wire, c) /\ inbox' = Orphaned(inbox, c)
        /\ unsent' = [unsent EXCEPT ![c] = FALSE]
        /\ UNCHANGED <<sending, receiving>>
        /\ sending # c
    BY DEF Revoke, Alive
  <1>3. \A r \in Requests : r \in ToSet(inbox) \cup ToSet(wire)
                               => requests # <<>> /\ Head(requests) = r
    BY LineFacts
  <1>4. receiving => Head(inbox') \notin Events
    <2> SUFFICES ASSUME receiving PROVE Head(inbox') \notin Events
      OBVIOUS
    <2>1. 1 \in DOMAIN inbox /\ Head(inbox) = inbox[1] /\ Head(inbox) \notin Events
      BY <1>1, TailMembers DEF LineInv, ThreadAtFront
    <2>2. inbox' # <<>> /\ inbox'[1] = IF inbox[1] = c THEN Orphan ELSE inbox[1]
      BY <1>1, <1>2, <2>1, OrphanedMembers
    <2>3. Head(inbox') = inbox'[1]
      OBVIOUS
    <2> QED BY <1>1, <2>1, <2>2, <2>3
  <1>5. CASE c \in ToSet(inbox) \cup ToSet(wire) \/ (requests # <<>> /\ Head(requests) = c)
    <2>1. requests # <<>> /\ Head(requests) = c /\ requests[1] = c /\ 1 \in DOMAIN requests
      BY <1>1, <1>3, <1>5, LineFacts
    <2>2. \A i \in DOMAIN requests : requests[i] = c => i = 1
      BY <1>1, <2>1, LineFacts
    <2>3. requests' = RemoveAt(requests, 1)
      BY <2>1, <2>2 DEF Revoke, Found
    <2>4. requests' \in Seq(Requests)
      BY <1>1, <2>1, <2>3, RemoveAtProperties, LenProperties
    <2>5. ASSUME NEW r \in ToSet(requests') PROVE unsent'[r]
      <3>1. PICK j \in DOMAIN requests' : r = requests'[j]
        BY DEF ToSet
      <3>2. /\ j \in Int /\ (IF j < 1 THEN j ELSE j + 1) \in DOMAIN requests \ {1}
            /\ r = requests[IF j < 1 THEN j ELSE j + 1]
        BY <1>1, <2>1, <2>3, <3>1, EraseMembers
      <3>3. PICK i \in DOMAIN requests \ {1} : r = requests[i]
        BY <3>2
      <3>4. r # c /\ r \in Requests /\ unsent[r]
        BY <1>1, <2>1, <2>2, <3>3, RestIsLoaded
      <3> QED BY <1>1, <1>2, <3>4
    <2>6. unsent'["status"]
      BY <1>1, <1>2, <2>1, RestIsLoaded
    <2>7. ASSUME NEW r \in Requests PROVE r \notin ToSet(inbox') \cup ToSet(wire')
      <3>1. r # Orphan /\ (r # c => r \notin ToSet(inbox) \cup ToSet(wire))
        BY <1>1, <1>3, <2>1
      <3> QED BY <1>1, <1>2, <3>1, OrphanedMembers
    <2>8. OneCommandAtATime' /\ SentIsSent' /\ UnsentBehind'
      BY <2>4, <2>5, <2>6, <2>7, NothingOnTheWay
    <2>9. ThreadAtFront'
      BY <1>2, <1>4, <2>1 DEF LineInv, ThreadAtFront
    <2> QED BY <2>8, <2>9
  <1>6. CASE c \notin ToSet(inbox) \cup ToSet(wire) /\ (requests # <<>> => Head(requests) # c)
    <2>1. wire' = wire /\ inbox' = inbox
      BY <1>1, <1>2, <1>6, OrphanedMembers
    <2>2. /\ requests' \in Seq(Requests)
          /\ requests' = <<>> <=> requests = <<>>
          /\ requests # <<>> => Head(requests') = Head(requests)
          /\ \A j \in DOMAIN requests' : j > 1 => \E i \in DOMAIN requests :
                i > 1 /\ requests'[j] = requests[i] /\ requests[i] # c
      <3>1. CASE Found(c) = {} /\ requests' = requests
        BY <1>1, <3>1 DEF Found
      <3>2. ASSUME NEW i \in Found(c), requests' = RemoveAt(requests, i)
            PROVE  /\ requests' \in Seq(Requests)
                   /\ requests' # <<>> /\ requests # <<>>
                   /\ Head(requests') = Head(requests)
                   /\ \A j \in DOMAIN requests' : j > 1 => \E k \in DOMAIN requests :
                         k > 1 /\ requests'[j] = requests[k] /\ requests[k] # c
        <4>1. i \in DOMAIN requests /\ requests[i] = c /\ requests # <<>>
          BY DEF Found
        <4>2. /\ DOMAIN requests = 1..Len(requests) /\ Len(requests) \in Nat
              /\ Head(requests) = requests[1] /\ 1 \in DOMAIN requests
          BY <1>1, <4>1, LineFacts, LenProperties
        <4>3. i > 1
          BY <1>6, <4>1, <4>2
        <4>4. /\ requests' \in Seq(Requests) /\ Len(requests') = Len(requests) - 1
              /\ DOMAIN requests' = 1..(Len(requests) - 1)
          <5>1. requests' \in Seq(Requests) /\ Len(requests') = Len(requests) - 1
            BY <1>1, <3>2, <4>1, <4>2, RemoveAtProperties
          <5> QED BY <5>1, LenProperties
        <4>5. requests' # <<>> /\ 1 \in DOMAIN requests' /\ Head(requests') = requests'[1]
          <5>1. Len(requests') >= 1
            BY <4>1, <4>2, <4>3, <4>4
          <5>2. requests' # <<>>
            BY <4>4, <5>1, EmptySeq
          <5> QED BY <4>4, <5>2, TailMembers
        <4>6. \A j \in DOMAIN requests' :
                 /\ (IF j < i THEN j ELSE j + 1) \in DOMAIN requests \ {i}
                 /\ requests'[j] = requests[IF j < i THEN j ELSE j + 1]
          BY <1>1, <3>2, <4>1, EraseMembers
        <4>7. Head(requests') = Head(requests)
          BY <4>2, <4>3, <4>5, <4>6
        <4>8. ASSUME NEW j \in DOMAIN requests', j > 1
              PROVE  \E k \in DOMAIN requests :
                        k > 1 /\ requests'[j] = requests[k] /\ requests[k] # c
          <5>1. PICK k \in DOMAIN requests \ {i} : k > 1 /\ requests'[j] = requests[k]
            BY <4>2, <4>4, <4>6, <4>8
          <5>2. requests[k] # c
            BY <1>1, <4>1, <5>1, LineFacts
          <5> QED BY <5>1, <5>2
        <4> QED BY <4>1, <4>4, <4>5, <4>7, <4>8
      <3> QED BY <3>1, <3>2 DEF Revoke
    <2>3. \A r \in Requests : r # c => unsent'[r] = unsent[r]
      BY <1>1, <1>2
    <2>4. requests # <<>> => Head(requests) \in Requests
      BY <1>1, HeadTailProperties
    <2>5. OneCommandAtATime'
      BY <1>6, <2>1, <2>2, <2>3, <2>4 DEF LineInv, OneCommandAtATime
    <2>6. SentIsSent'
      BY <1>6, <2>1, <2>3 DEF LineInv, SentIsSent
    <2>7. UnsentBehind'
      <3>1. ASSUME NEW j \in DOMAIN requests', j > 1
            PROVE  unsent'[requests'[j]] \/ requests'[j] = "status"
        <4>1. PICK i \in DOMAIN requests : i > 1 /\ requests'[j] = requests[i] /\ requests[i] # c
          BY <2>2, <3>1
        <4>2. requests[i] \in Requests
          BY <1>1
        <4> QED BY <2>3, <4>1, <4>2 DEF LineInv, UnsentBehind
      <3>2. unsent'["status"] \/ (requests' # <<>> /\ Head(requests') = "status")
        BY <1>1, <2>2, <2>3 DEF LineInv, UnsentBehind
      <3> QED BY <3>1, <3>2 DEF UnsentBehind
    <2>8. ThreadAtFront'
      BY <1>1, <1>2, <1>4, <2>2, <2>3 DEF LineInv, ThreadAtFront
    <2> QED BY <2>5, <2>6, <2>7, <2>8
  <1> QED BY <1>5, <1>6


\* A reply completes the front request, with what is on its way for it.
LEMMA CompleteKeepsLine ==
    ASSUME IInv, IInv', LineInv, Alive, ReceiveComplete
    PROVE  OneCommandAtATime' /\ SentIsSent' /\ UnsentBehind' /\ ThreadAtFront'
  <1> DEFINE r == Head(requests)
  <1>1. /\ requests \in Seq(Requests) /\ wire \in Seq(Requests \cup {Orphan})
        /\ inbox \in Seq(Requests \cup {Orphan} \cup Events)
        /\ unsent \in [Requests -> BOOLEAN]
        /\ Nobody \notin Requests /\ "status" \in Requests /\ Requests \cap Events = {}
        /\ Orphan \notin Requests \cup Events
        /\ requests' \in Seq(Requests)
    BY LineFacts DEF IInv, TypeOK, Requests, Internal
  <1>2. /\ receiving /\ receiving' = FALSE /\ sending' = sending
        /\ requests # <<>> /\ inbox # <<>>
    BY DEF ReceiveComplete, IInv, TypeOK
  <1>3. PICK next \in FollowUps(r) :
          /\ Completed(r, Head(inbox), next)
          /\ wire'  = IF Head(inbox) = r THEN wire ELSE Orphaned(wire, r)
          /\ inbox' = IF Head(inbox) = r THEN Tail(inbox) ELSE Orphaned(Tail(inbox), r)
    BY DEF ReceiveComplete
  <1>4. \A q \in Requests : q \in ToSet(inbox) \cup ToSet(wire) => r = q
    BY LineFacts
  <1>5. r \in Requests /\ r # Orphan
    BY <1>1, <1>2, HeadTailProperties
  <1>6. ASSUME NEW q \in Requests PROVE q \notin ToSet(inbox') \cup ToSet(wire')
    <2>1. CASE Head(inbox) = r
      <3>1. 1 \in DOMAIN inbox /\ inbox[1] = r
        BY <1>1, <1>2, <2>1, TailMembers
      <3>2. wire = <<>> /\ \A j \in DOMAIN inbox : j > 1 => inbox[j] \in Events
        BY <1>5, <3>1 DEF LineInv, OneCommandAtATime
      <3>3. ASSUME NEW i \in DOMAIN Tail(inbox) PROVE Tail(inbox)[i] \in Events
        <4>1. i \in Nat /\ i >= 1 /\ i + 1 \in DOMAIN inbox /\ Tail(inbox)[i] = inbox[i + 1]
          BY <1>1, <1>2, TailMembers, HeadTailProperties, LenProperties
        <4> QED BY <3>2, <4>1
      <3> QED BY <1>1, <1>3, <2>1, <3>2, <3>3 DEF ToSet
    <2>2. CASE Head(inbox) # r
      <3>1. ToSet(inbox) = ToSet(Tail(inbox)) \cup {Head(inbox)}
        BY <1>1, <1>2, SetOfList
      <3>2. Tail(inbox) \in Seq(Requests \cup {Orphan} \cup Events)
        BY <1>1, <1>2, TailMembers
      <3>3. q # Orphan /\ (q # r => q \notin ToSet(Tail(inbox)) \cup ToSet(wire))
        BY <1>1, <1>4, <3>1
      <3>4. wire' = Orphaned(wire, r) /\ inbox' = Orphaned(Tail(inbox), r)
        BY <1>3, <2>2
      <3> HIDE DEF r
      <3>5. q \notin ToSet(Orphaned(wire, r)) /\ q \notin ToSet(Orphaned(Tail(inbox), r))
        <4>1. q = r => q \notin ToSet(Orphaned(wire, r)) \cup ToSet(Orphaned(Tail(inbox), r))
          BY <1>1, <1>5, <3>2, OrphanedMembers
        <4>2. ASSUME q # r PROVE q \notin ToSet(Orphaned(wire, r))
          BY <1>1, <3>3, <4>2, OrphanedMembers
        <4>3. ASSUME q # r PROVE q \notin ToSet(Orphaned(Tail(inbox), r))
          <5>1. PICK t \in Seq(Requests \cup {Orphan} \cup Events) : t = Tail(inbox)
            BY <3>2
          <5>2. q # Orphan /\ q \notin ToSet(t)
            BY <3>3, <4>3, <5>1
          <5>3. q \in ToSet(Orphaned(t, r)) <=> q \in ToSet(t)
            BY <4>3, <5>2, OrphanedMembers
          <5> QED BY <5>1, <5>2, <5>3
        <4> QED BY <4>1, <4>2, <4>3
      <3> QED BY <3>4, <3>5
    <2> QED BY <2>1, <2>2
  <1>7. ASSUME NEW q \in ToSet(Tail(requests)), q # "status" \/ r # "status" PROVE unsent[q]
    <2>1. PICK i \in DOMAIN Tail(requests) : q = Tail(requests)[i]
      BY DEF ToSet
    <2>2. i + 1 \in DOMAIN requests /\ q = requests[i + 1] /\ i + 1 > 1
      BY <1>1, <1>2, <2>1, TailMembers, HeadTailProperties, LenProperties
    <2> QED BY <1>2, <1>7, <2>2, RestIsLoaded
  <1>8. r # "status" => unsent["status"]
    BY <1>2, RestIsLoaded
  <1>9. ToSet(Tail(requests)) \subseteq Requests
    BY <1>1, <1>2, HeadTailProperties DEF ToSet
  <1>10. unsent'["status"] /\ \A q \in ToSet(requests') : unsent'[q]
    <2>1. CASE r \in Callers
      <3>1. requests' = Tail(requests) /\ unsent' = unsent
        BY <1>3, <2>1 DEF Completed
      <3>2. r # "status"
        BY <2>1, ChannelAssumption DEF Internal
      <3> QED BY <1>7, <1>8, <3>1, <3>2
    <2>2. CASE r \notin Callers
      <3> DEFINE reload == IF r = "status" THEN {r} ELSE {next} \ {Nobody}
      <3>1. /\ unsent' = [q \in Requests |-> unsent[q] \/ q \in reload]
            /\ requests' = IF next = Nobody THEN Tail(requests)
                                            ELSE Append(Tail(requests), next)
        BY <1>3, <2>2 DEF Completed
      <3>2. unsent'["status"]
        BY <1>1, <1>8, <3>1
      <3>3. \A q \in ToSet(Tail(requests)) : unsent'[q]
        BY <1>1, <1>7, <1>9, <3>1, <3>2
      <3>4. CASE next = Nobody
        BY <3>1, <3>2, <3>3, <3>4
      <3>5. CASE next # Nobody
        <4>1. r # "status" /\ next \in Requests
          BY <3>5 DEF FollowUps, Requests, Internal
        <4>2. unsent'[next]
          BY <3>1, <3>5, <4>1
        <4>3. ToSet(requests') = ToSet(Tail(requests)) \cup {next}
          <5>1. Tail(requests) \in Seq(Requests)
            BY <1>1, <1>2, TailMembers
          <5>2. requests' = Append(Tail(requests), next)
            BY <3>1, <3>5
          <5>3. ToSet(Append(Tail(requests), next)) = ToSet(Tail(requests)) \cup {next}
            <6>1. PICK t \in Seq(Requests) : t = Tail(requests)
              BY <5>1
            <6>2. ToSet(Append(t, next)) = ToSet(t) \cup {next}
              BY <4>1, SetOfList
            <6> QED BY <6>1, <6>2
          <5> QED BY <5>2, <5>3
        <4> QED BY <3>2, <3>3, <4>2, <4>3
      <3> QED BY <3>4, <3>5
    <2> QED BY <2>1, <2>2
  <1>11. OneCommandAtATime' /\ SentIsSent' /\ UnsentBehind'
    BY <1>1, <1>6, <1>10, NothingOnTheWay
  <1>12. ThreadAtFront'
    BY <1>2 DEF LineInv, ThreadAtFront
  <1> QED BY <1>11, <1>12


\* A caller that submits has no request in the list, and neither has the member that is Set.
LEMMA SubmitsAbsent ==
    ASSUME IInv, Alive
    PROVE  /\ \A c \in Callers : pc[c] \in {"idle", "answered"} \/ signaled[c] # "no"
                                    => c \notin ToSet(requests)
           /\ \A c \in Callers : pc[c] = "setting" => "network" \notin ToSet(requests)
  <1>1. ASSUME NEW c \in Callers, c \in ToSet(requests)
        PROVE  pc[c] \notin {"idle", "answered"} /\ signaled[c] = "no"
    BY <1>1 DEF IInv, QueueHoldsLiveRequests, ToSet
  <1>2. ASSUME NEW c \in Callers, pc[c] = "setting" PROVE "network" \notin ToSet(requests)
    BY <1>2 DEF IInv, SettingAlone, SetGuardsTheList, Internal
  <1> QED BY <1>1, <1>2

\* Every step keeps the line of the commands.
LEMMA LineStep ==
    ASSUME IInv, IInv', LineInv, Alive, Next
    PROVE  OneCommandAtATime' /\ SentIsSent' /\ UnsentBehind' /\ ThreadAtFront'
  <1> DEFINE Goal == OneCommandAtATime' /\ SentIsSent' /\ UnsentBehind' /\ ThreadAtFront'
  <1>0. Callers \subseteq Requests /\ "network" \in Requests /\ "status" \in Requests
    BY DEF Requests, Internal
  <1>1. CASE ~Alive'
    BY <1>1 DEF OneCommandAtATime, SentIsSent, UnsentBehind, ThreadAtFront
  <1>2. CASE UNCHANGED <<requests, unsent, sending, receiving, wire, inbox>>
    BY <1>2 DEF LineInv, OneCommandAtATime, SentIsSent, UnsentBehind, ThreadAtFront
  <1>3. ASSUME NEW c \in Callers, Start(c) \/ Again(c) PROVE Goal
    <2>1. /\ Submit(c) /\ unsent' = [unsent EXCEPT ![c] = TRUE]
          /\ UNCHANGED <<sending, receiving, wire, inbox>>
          /\ pc[c] \in {"idle", "answered"}
      BY <1>3 DEF Start, Again, LoadCustom, SubmitFrom, socket
    <2>2. c \notin ToSet(requests) /\ c \in Requests
      BY <1>0, <2>1, SubmitsAbsent
    <2> QED BY <2>1, <2>2, SubmitKeepsLine
  <1>4. ASSUME NEW c \in Callers, LeaveSet(c) PROVE Goal
    <2>1. /\ Submit("network") /\ unsent' = [unsent EXCEPT !["network"] = TRUE]
          /\ UNCHANGED <<sending, receiving, wire, inbox>>
          /\ pc[c] = "setting"
      BY <1>4 DEF LeaveSet, SetRequest, SubmitFrom, socket
    <2>2. "network" \notin ToSet(requests)
      BY <2>1, SubmitsAbsent
    <2> QED BY <1>0, <2>1, <2>2, SubmitKeepsLine
  <1>5. ASSUME NEW c \in Callers, AttachFailed(c) PROVE Goal
    <2>1. /\ Submit("status") /\ unsent' = unsent
          /\ UNCHANGED <<sending, receiving, wire, inbox>>
      BY <1>5 DEF AttachFailed, SubmitFrom, socket
    <2> QED BY <1>0, <2>1, SubmitKeepsLine
  <1>6. ASSUME NEW c \in Callers, Finish(c) PROVE Goal
    BY <1>1, <1>6, RevokeKeepsLine DEF Finish
  <1>7. ASSUME NEW c \in Callers, Destruct(c) PROVE ~Alive'
    BY <1>7 DEF Destruct, Alive
  <1>8. CASE SendData \/ SendCopy \/ ReceiveReply \/ ReceiveEvent
    BY <1>8, SocketKeepsLine
  <1>9. CASE ReceiveComplete
    BY <1>9, CompleteKeepsLine
  <1>10. CASE ReceiveEmpty
    BY <1>1, <1>10 DEF ReceiveEmpty, Alive
  <1>11. CASE Reply \/ \E e \in Emitted : Emit(e)
    <2>1. UNCHANGED <<requests, unsent>>
      BY <1>11 DEF Reply, Emit, queue
    <2> QED BY <1>11, <2>1, SupplicantKeepsLine DEF LineInv, UnsentBehind
  <1>12. ASSUME NEW c \in Callers, Trigger(c) \/ Answered(c) \/ Expire(c) \/ EnterSet(c)
         PROVE  UNCHANGED <<requests, unsent, sending, receiving, wire, inbox>>
    BY <1>12 DEF Trigger, Answered, Expire, EnterSet, queue, socket
  <1>13. Release => UNCHANGED <<requests, unsent, sending, receiving, wire, inbox>>
    BY DEF Release, queue, socket
  <1> HIDE DEF Goal
  <1>14. Goal
    BY <1>1, <1>2, <1>3, <1>4, <1>5, <1>6, <1>7, <1>8, <1>9, <1>10, <1>11, <1>12, <1>13
       DEF Next, Caller, Socket, Stopped, Goal
  <1> QED BY <1>14 DEF Goal

\* Before any Wait has run out of time what comes in as a reply is that to the front request.
LEMMA ReplyIsOfFront ==
    ASSUME IInv, LineInv, Alive, ~timedOut, receiving
    PROVE  /\ requests # <<>> /\ Head(requests) \in Requests /\ Head(inbox) = Head(requests)
           /\ inbox # <<>>
  <1>1. inbox \in Seq(Requests \cup {Orphan} \cup Events) /\ inbox # <<>>
        /\ requests \in Seq(Requests)
    BY DEF IInv, TypeOK
  <1>2. Head(inbox) \in ToSet(inbox) /\ Head(inbox) \in Requests \cup {Orphan} \cup Events
    BY <1>1, SetOfList, HeadTailProperties
  <1>3. Head(inbox) \in Requests
    BY <1>2 DEF LineInv, ThreadAtFront, NobodyAbandons
  <1> QED BY <1>1, <1>2, <1>3, LineFacts

\* As long as no Wait runs out of time, a caller leaves without a trace.
LEMMA AbandonStep ==
    ASSUME IInv, IInv', LineInv, Alive, Next
    PROVE  NobodyAbandons' /\ AnswersMatchUntilTimeout'
  <1> DEFINE Gone == {"answered", "setting", "refreshing", "revoking"}
             Goal == /\ \A c \in Callers : pc'[c] # "expired" /\ signaled'[c] # "foreign"
                     /\ race' \notin {"revoked while sending", "front of empty"}
                     /\ Alive' => /\ Orphan \notin ToSet(inbox') \cup ToSet(wire')
                                  /\ \A c \in Callers : pc'[c] \in Gone => c \notin ToSet(requests')
  <1> SUFFICES ASSUME ~timedOut' PROVE Goal
    BY DEF NobodyAbandons, AnswersMatchUntilTimeout
  <1>1. ~timedOut
    BY DEF Next, Caller, Socket, Stopped, Start, Trigger, Answered, Expire, Again, EnterSet,
           LeaveSet, Finish, AttachFailed, Destruct, Release, SendData, SendCopy,
           ReceiveReply, ReceiveComplete, ReceiveEmpty, ReceiveEvent, Reply, Emit, vars
  <1>2. /\ \A c \in Callers : pc[c] # "expired" /\ signaled[c] # "foreign"
        /\ race = "none"
        /\ Orphan \notin ToSet(inbox) \cup ToSet(wire)
        /\ \A c \in Callers : pc[c] \in Gone => c \notin ToSet(requests)
    BY <1>1 DEF LineInv, NobodyAbandons, AnswersMatchUntilTimeout, Alive
  <1>3. /\ requests \in Seq(Requests) /\ wire \in Seq(Requests \cup {Orphan})
        /\ inbox \in Seq(Requests \cup {Orphan} \cup Events)
        /\ pc \in [Callers -> Points] /\ signaled \in [Callers -> {"no", "own", "foreign"}]
        /\ Orphan \notin Requests \cup Events
        /\ Callers \cap Internal = {} /\ Requests = Callers \cup Internal
    BY LineFacts, ChannelAssumption DEF IInv, TypeOK, Requests
  <1>4. ASSUME NEW r \in Requests, Submit(r) PROVE ToSet(requests') = ToSet(requests) \cup {r}
    BY <1>3, <1>4, SetOfList DEF Submit
  <1>5. ASSUME UNCHANGED <<requests, wire, signaled>>, race' \in {race, "racing Set"},
               inbox' = inbox \/ (inbox # <<>> /\ inbox' = Tail(inbox)),
               pc' = pc \/ \E c \in Callers, x \in Points \ {"expired"} :
                              /\ pc' = [pc EXCEPT ![c] = x]
                              /\ x \in Gone => c \notin ToSet(requests)
        PROVE  Goal
    <2>1. Orphan \notin ToSet(inbox') \cup ToSet(wire')
      <3>1. CASE inbox' = inbox
        BY <1>2, <1>5, <3>1
      <3>2. CASE inbox # <<>> /\ inbox' = Tail(inbox)
        <4>1. inbox \in Seq(Requests \cup {Orphan} \cup Events)
          BY <1>3
        <4>2. ToSet(inbox) = ToSet(Tail(inbox)) \cup {Head(inbox)}
          BY <3>2, <4>1, SetOfPopped
        <4> QED BY <1>2, <1>5, <3>2, <4>2
      <3> QED BY <1>5, <3>1, <3>2
    <2> QED BY <1>2, <1>3, <1>5, <2>1
  <1>6. ASSUME NEW c \in Callers, Start(c) \/ Again(c) PROVE Goal
    <2>1. /\ Submit(c) /\ signaled' = [signaled EXCEPT ![c] = "no"]
          /\ UNCHANGED <<wire, inbox, race>>
          /\ \E x \in {"submitted", "waiting"} : pc' = [pc EXCEPT ![c] = x]
      BY <1>6 DEF Start, Again, LoadCustom, SubmitFrom, socket
    <2>2. ToSet(requests') = ToSet(requests) \cup {c}
      BY <1>3, <1>4, <2>1
    <2> QED BY <1>2, <1>3, <2>1, <2>2
  <1>7. ASSUME NEW c \in Callers, LeaveSet(c) \/ AttachFailed(c) PROVE Goal
    <2>1. PICK r \in Internal, x \in {"refreshing", "revoking"} :
              Submit(r) /\ pc' = [pc EXCEPT ![c] = x]
      BY <1>7 DEF LeaveSet, AttachFailed, SubmitFrom, Internal
    <2>2. UNCHANGED <<wire, inbox, race, signaled>> /\ pc[c] \in Gone
      BY <1>2, <1>7 DEF LeaveSet, AttachFailed, socket
    <2>3. ToSet(requests') = ToSet(requests) \cup {r}
      BY <1>3, <1>4, <2>1
    <2> QED BY <1>2, <1>3, <2>1, <2>2, <2>3
  <1>8. ASSUME NEW c \in Callers, Finish(c) PROVE Goal
    <2>1. pc[c] \in {"answered", "revoking"} /\ Revoke(c) /\ pc' = [pc EXCEPT ![c] = "idle"]
      BY <1>2, <1>8 DEF Finish
    <2>2. c \notin ToSet(requests) /\ c \in Requests
      BY <1>2, <1>3, <2>1
    <2>3. requests # <<>> => Head(requests) # c
      BY <1>3, <2>2, SetOfList
    <2>4. Found(c) = {}
      BY <2>2 DEF Found, ToSet
    <2>5. c \notin ToSet(inbox) \cup ToSet(wire)
      BY <2>2, <2>3, LineFacts
    <2>6. wire' = wire /\ inbox' = inbox
      BY <1>3, <2>1, <2>5, OrphanedMembers DEF Revoke
    <2>7. sending # c
      BY <2>2, <2>3, LineFacts DEF LineInv, ThreadAtFront
    <2>8. requests' = requests /\ signaled' = [signaled EXCEPT ![c] = "no"] /\ race' = race
      BY <2>1, <2>4, <2>7 DEF Revoke
    <2> QED BY <1>2, <1>3, <2>1, <2>6, <2>8
  <1>9. ASSUME NEW c \in Callers, Destruct(c) PROVE Goal
    BY <1>2, <1>3, <1>9 DEF Destruct, Alive
  <1>10. ASSUME NEW c \in Callers, Trigger(c) \/ Answered(c) \/ EnterSet(c) PROVE Goal
    <2>1. UNCHANGED <<requests, wire, inbox, signaled>> /\ race' \in {race, "racing Set"}
      BY <1>10 DEF Trigger, Answered, EnterSet, queue, socket
    <2>2. CASE pc' = pc
      BY <1>5, <2>1, <2>2
    <2>3. CASE pc' # pc
      <3>1. PICK x \in Gone \cup {"waiting"} :
               /\ pc' = [pc EXCEPT ![c] = x]
               /\ pc[c] \in Gone \/ signaled[c] # "no" \/ x = "waiting"
        BY <1>10, <2>3 DEF Trigger, Answered, EnterSet
      <3>2. x \in Points \ {"expired"} /\ (x \in Gone => c \notin ToSet(requests))
        BY <1>2, <3>1, SubmitsAbsent DEF Points
      <3> QED BY <1>5, <2>1, <3>1, <3>2
    <2> QED BY <2>2, <2>3
  <1>11. CASE Release \/ SendData \/ ReceiveReply
    BY <1>5, <1>11 DEF Release, SendData, ReceiveReply, queue, socket
  <1>12. CASE SendCopy
    <2>1. /\ UNCHANGED <<requests, inbox, signaled, race, pc>>
          /\ wire' = Append(wire, sending) /\ sending # Nobody
      BY <1>12 DEF SendCopy
    <2>2. sending \in Requests
      BY <2>1 DEF IInv, TypeOK
    <2>3. ToSet(wire') = ToSet(wire) \cup {sending}
      BY <1>3, <2>1, <2>2, SetOfList
    <2> QED BY <1>2, <1>3, <2>1, <2>2, <2>3
  <1>13. CASE ReceiveEvent
    <2>1. /\ UNCHANGED <<wire, signaled, race, pc>>
          /\ inbox # <<>> /\ inbox' = Tail(inbox) /\ Head(inbox) \in Events
      BY <1>13 DEF ReceiveEvent, IsReply
    <2>2. requests' = requests \/ \E r \in Internal : Submit(r)
      BY <1>13, <2>1 DEF ReceiveEvent, RequestOf, Events, Internal
    <2>3. ToSet(requests') \subseteq ToSet(requests) \cup Internal
      BY <1>3, <1>4, <2>2
    <2>4. ToSet(inbox') \subseteq ToSet(inbox)
      BY <1>3, <2>1, SetOfList
    <2> QED BY <1>2, <1>3, <2>1, <2>3, <2>4
  <1>14. CASE ReceiveComplete
    <2> DEFINE r == Head(requests)
    <2>1. /\ requests # <<>> /\ r \in Requests /\ Head(inbox) = r /\ inbox # <<>>
      BY <1>1, <1>14, ReplyIsOfFront DEF ReceiveComplete
    <2>2. PICK next \in FollowUps(r) :
            /\ Completed(r, r, next)
            /\ race' \in {race, "racing Set"}
            /\ wire' = wire /\ inbox' = Tail(inbox)
      BY <1>14, <2>1 DEF ReceiveComplete
    <2>3. pc' = pc
      BY <1>14 DEF ReceiveComplete
    <2>4. ToSet(inbox') \subseteq ToSet(inbox)
      BY <1>3, <2>1, <2>2, SetOfPopped
    <2>5. ToSet(Tail(requests)) \subseteq ToSet(requests) /\ Tail(requests) \in Seq(Requests)
      BY <1>3, <2>1, SetOfList, TailMembers
    <2>6. CASE r \in Callers
      <3>1. requests' = Tail(requests) /\ signaled' = [signaled EXCEPT ![r] = "own"]
        BY <2>2, <2>6 DEF Completed
      <3> QED BY <1>2, <1>3, <2>2, <2>3, <2>4, <2>5, <3>1
    <2>7. CASE r \notin Callers
      <3>1. /\ signaled' = signaled
            /\ requests' = IF next = Nobody THEN Tail(requests)
                                            ELSE Append(Tail(requests), next)
        BY <2>2, <2>7 DEF Completed
      <3>2. next = Nobody \/ next \in Internal
        BY <2>2 DEF FollowUps, Internal
      <3>3. next \in Requests => ToSet(Append(Tail(requests), next))
                                    = ToSet(Tail(requests)) \cup {next}
        <4>1. PICK t \in Seq(Requests) : t = Tail(requests)
          BY <2>5
        <4>2. next \in Requests => ToSet(Append(t, next)) = ToSet(t) \cup {next}
          BY SetOfList
        <4> QED BY <4>1, <4>2
      <3>4. ToSet(requests') \subseteq ToSet(requests) \cup Internal
        BY <1>3, <2>5, <3>1, <3>2, <3>3
      <3> QED BY <1>2, <1>3, <2>2, <2>3, <2>4, <3>1, <3>4
    <2> QED BY <2>6, <2>7
  <1>15. CASE ReceiveEmpty
    BY <1>1, <1>15, ReplyIsOfFront DEF ReceiveEmpty
  <1>16. CASE Reply
    <2>1. /\ UNCHANGED <<requests, signaled, race, pc>>
          /\ wire # <<>> /\ wire' = Tail(wire) /\ inbox' = Append(inbox, Head(wire))
      BY <1>16 DEF Reply, queue
    <2>2. ToSet(wire) = ToSet(wire') \cup {Head(wire)} /\ Head(wire) \in Requests \cup {Orphan}
      BY <1>3, <2>1, SetOfPopped
    <2>3. ToSet(inbox') = ToSet(inbox) \cup {Head(wire)}
      <3>1. PICK m \in Requests \cup {Orphan} \cup Events : m = Head(wire)
        BY <2>2
      <3>2. ToSet(Append(inbox, m)) = ToSet(inbox) \cup {m}
        BY <1>3, SetOfList
      <3> QED BY <2>1, <3>1, <3>2
    <2> QED BY <1>2, <1>3, <2>1, <2>2, <2>3
  <1>17. ASSUME NEW e \in Emitted, Emit(e) PROVE Goal
    <2>1. /\ UNCHANGED <<requests, signaled, race, pc, wire>>
          /\ inbox' = Append(inbox, e) /\ e \in Events
      BY <1>17, ChannelAssumption DEF Emit, queue
    <2>2. ToSet(inbox') = ToSet(inbox) \cup {e}
      BY <1>3, <2>1, SetOfList
    <2> QED BY <1>2, <1>3, <2>1, <2>2
  <1>18. ~ \E c \in Callers : Expire(c)
    BY DEF Expire
  <1> HIDE DEF Goal
  <1> QED BY <1>6, <1>7, <1>8, <1>9, <1>10, <1>11, <1>12, <1>13, <1>14, <1>15, <1>16, <1>17, <1>18
          DEF Next, Caller, Socket, Stopped

\* The invariant of the commands on their way, on top of that of the list.
LEMMA LineInductive == Spec => []LineInv
  <1>1. Init => LineInv
    <2> SUFFICES ASSUME Init PROVE LineInv
      OBVIOUS
    <2>1. ToSet(requests) = {} /\ ToSet(inbox) = {} /\ ToSet(wire) = {}
      BY DEF Init, ToSet
    <2>2. "status" \in Requests
      BY DEF Requests, Internal
    <2>3. OneCommandAtATime /\ SentIsSent
      BY <2>1 DEF Init, OneCommandAtATime, SentIsSent
    <2>4. UnsentBehind /\ ThreadAtFront
      <3>1. unsent["status"] = ("status" = "status")
        BY <2>2 DEF Init
      <3>2. DOMAIN requests = {}
        BY DEF Init
      <3> QED BY <3>1, <3>2 DEF Init, UnsentBehind, ThreadAtFront
    <2>5. NobodyAbandons /\ AnswersMatchUntilTimeout
      BY <2>1 DEF Init, NobodyAbandons, AnswersMatchUntilTimeout
    <2> QED BY <2>3, <2>4, <2>5 DEF LineInv
  <1>2. IInv /\ IInv' /\ LineInv /\ [Next]_vars => LineInv'
    <2> SUFFICES ASSUME IInv, IInv', LineInv, [Next]_vars PROVE LineInv'
      OBVIOUS
    <2>1. CASE Alive /\ Next
      BY <2>1, LineStep, AbandonStep DEF LineInv
    <2>2. CASE UNCHANGED vars
      BY <2>2 DEF vars, queue, object, socket, LineInv, OneCommandAtATime, SentIsSent,
                  UnsentBehind, ThreadAtFront, NobodyAbandons, AnswersMatchUntilTimeout, Alive
    <2>3. Next => Alive \/ UNCHANGED vars
      BY DEF Next, Caller, Socket, Stopped, Start, Trigger, Answered, Expire, Again,
             EnterSet, LeaveSet, Finish, AttachFailed, Destruct, Release, SendData,
             SendCopy, ReceiveReply, ReceiveComplete, ReceiveEmpty, ReceiveEvent,
             Reply, Emit
    <2> QED BY <2>1, <2>2, <2>3
  <1> QED BY <1>1, <1>2, Inductive, PTL DEF Spec

\* Commands do not overtake each other, and the list never waits for a reply that nobody
\* is going to give.
THEOREM CommandsInOrder == Spec => []OneCommandAtATime
  BY LineInductive, PTL DEF LineInv

\* Until some Wait runs out of time every command gets its own reply, and the looks at the
\* list without the lock are harmless.
THEOREM AnswersMatch == Spec => []AnswersMatchUntilTimeout
  BY LineInductive, PTL DEF LineInv


-----------------------------------------------------------------------------
(* The steps of the mailbox                                                *)

\* What the mailbox does, but for what it has to do in the end.
MailboxSteps == Mailbox!Init /\ [][Mailbox!Next]_(Mailbox!vars)

\* The mailbox erases and searches as the channel does.
LEMMA SameLists ==
    /\ \A s : Mailbox!ToSet(s) = ToSet(s)
    /\ \A s, i : Mailbox!RemoveAt(s, i) = RemoveAt(s, i)
  BY DEF Mailbox!ToSet, ToSet, Mailbox!RemoveAt, RemoveAt

\* The mailbox does not see a step that leaves these alone.
LEMMA Unseen ==
    ASSUME UNCHANGED <<requests, receiving, signaled, timedOut>>, Alive' = Alive
    PROVE  UNCHANGED Mailbox!vars
  BY DEF Mailbox!vars

\* A Submit posts a request.
LEMMA SubmitPosts ==
    ASSUME IInv, Alive, Alive', NEW r \in Requests, Submit(r),
           UNCHANGED <<receiving, timedOut>>,
           \/ r \in Callers /\ signaled' = [signaled EXCEPT ![r] = "no"]
           \/ r \in Internal /\ signaled' = signaled
    PROVE  Mailbox!Next
  <1>1. signaled \in [Callers -> {"no", "own", "foreign"}] /\ Callers \cap Internal = {}
    BY ChannelAssumption DEF IInv, TypeOK
  <1>2. signaled' = [c \in Callers |-> IF c = r THEN "no" ELSE signaled[c]]
    BY <1>1
  <1>3. Mailbox!Post(r)
    BY <1>2 DEF Mailbox!Post, Submit
  <1>4. r \in Callers \cup Internal
    BY DEF Requests
  <1> QED BY <1>3, <1>4 DEF Mailbox!Next

\* What ends the object, or its defined behaviour, takes the mailbox down.
LEMMA EndAborts ==
    ASSUME ~Alive', timedOut' = timedOut,
           \/ signaled' = signaled
           \/ \E c \in Callers : signaled' = [signaled EXCEPT ![c] = "no"]
    PROVE  Mailbox!Next
  BY DEF Mailbox!Next, Mailbox!Abort

\* Revoke withdraws what its caller has given up.
LEMMA RevokeWithdraws ==
    ASSUME IInv, LineInv, Alive, NEW c \in Callers, Finish(c)
    PROVE  Mailbox!Next
  <1>1. /\ Revoke(c) /\ signaled' = [signaled EXCEPT ![c] = "no"]
        /\ UNCHANGED <<receiving, timedOut>>
        /\ pc[c] \in {"answered", "expired", "revoking"}
    BY DEF Finish, Revoke
  <1>2. CASE ~Alive'
    BY <1>1, <1>2, EndAborts
  <1>3. CASE Alive'
    <2>1. \/ \E i \in DOMAIN requests : requests[i] = c /\ requests' = RemoveAt(requests, i)
          \/ c \notin ToSet(requests) /\ requests' = requests
      BY <1>1 DEF Revoke, Found, ToSet
    <2>2. timedOut \/ c \notin ToSet(requests)
      BY <1>1 DEF LineInv, NobodyAbandons
    <2>3. Mailbox!Withdraw(c)
      <3>1. c \in ToSet(requests) => timedOut
        BY <2>2
      <3>2. (\E i \in DOMAIN requests : requests[i] = c) => c \in ToSet(requests)
        BY DEF ToSet
      <3> QED BY <1>1, <1>3, <2>1, <3>1, <3>2, SameLists DEF Mailbox!Withdraw
    <2> QED BY <2>3 DEF Mailbox!Next
  <1> QED BY <1>2, <1>3

\* A completion is one of the mailbox, and until a Wait ran out of time it is the own one.
LEMMA CompletionCompletes ==
    ASSUME IInv, LineInv, Alive, ReceiveComplete
    PROVE  Mailbox!Next
  <1> DEFINE r == Head(requests)
  <1>1. /\ requests # <<>> /\ receiving /\ receiving' = FALSE /\ timedOut' = timedOut
        /\ phase' = phase
    BY DEF ReceiveComplete, object
  <1>2. /\ requests \in Seq(Requests) /\ signaled \in [Callers -> {"no", "own", "foreign"}]
        /\ settable \in [Internal -> BOOLEAN] /\ Requests = Callers \cup Internal
        /\ Callers \cap Internal = {} /\ Nobody \notin Internal
    BY ChannelAssumption DEF IInv, TypeOK, Requests, Internal, Nobody
  <1>3. r \in Requests
    BY <1>1, <1>2, HeadTailProperties
  <1>4. PICK next \in FollowUps(r) :
          /\ Completed(r, Head(inbox), next)
          /\ race' = IF next = "network" /\ \E c \in Callers : pc[c] = "setting"
                     THEN "racing Set" ELSE race
    BY DEF ReceiveComplete
  <1>5. next = Nobody \/ next \in Internal \ {"status"}
    BY DEF FollowUps, Internal
  <1>6. ~timedOut => Head(inbox) = r
    BY <1>1, ReplyIsOfFront
  <1>7. CASE r \in Callers
    <2>1. /\ requests' = Tail(requests)
          /\ signaled' = [signaled EXCEPT ![r] = IF Head(inbox) = r THEN "own" ELSE "foreign"]
      BY <1>4, <1>7 DEF Completed
    <2>2. next = Nobody
      BY <1>2, <1>7 DEF FollowUps, Internal
    <2>3. Alive'
      BY <1>1, <1>4, <2>2 DEF Alive, Nobody
    <2>4. Mailbox!Complete
      BY <1>1, <1>6, <1>7, <2>1, <2>3 DEF Mailbox!Complete
    <2> QED BY <2>4 DEF Mailbox!Next
  <1>8. CASE r \in Internal
    <2>1. /\ signaled' = signaled
          /\ requests' = IF next = Nobody THEN Tail(requests) ELSE Append(Tail(requests), next)
      BY <1>2, <1>4, <1>8 DEF Completed
    <2>2. CASE ~Alive'
      BY <1>1, <2>1, <2>2, EndAborts
    <2>3. CASE Alive'
      <3>1. next # Nobody => next \notin ToSet(Tail(requests))
        <4> SUFFICES ASSUME next # Nobody, next \in ToSet(Tail(requests)) PROVE FALSE
          OBVIOUS
        <4>1. PICK i \in DOMAIN Tail(requests) : next = Tail(requests)[i]
          BY DEF ToSet
        <4>2. /\ i + 1 \in DOMAIN requests /\ next = requests[i + 1] /\ i + 1 # 1
              /\ 1 \in DOMAIN requests /\ requests[1] = r
          BY <1>1, <1>2, <4>1, TailMembers, HeadTailProperties, LenProperties
        <4>3. next \in Internal \ {"status"}
          BY <1>5
        <4>4. next # r /\ ~settable[next]
          BY <4>2, <4>3 DEF IInv, SetGuardsTheList, ToSet
        <4>5. r # "status"
          BY <4>3 DEF FollowUps, Nobody
        <4>6. [settable EXCEPT ![r] = TRUE][next]
          BY <1>2, <1>4, <1>8, <4>5 DEF Completed
        <4> QED BY <1>2, <4>3, <4>4, <4>6
      <3>2. Mailbox!Complete
        BY <1>1, <1>5, <1>8, <2>1, <2>3, <3>1, SameLists DEF Mailbox!Complete
      <3> QED BY <3>2 DEF Mailbox!Next
    <2> QED BY <2>2, <2>3
  <1> QED BY <1>2, <1>3, <1>7, <1>8


\* Every step of the channel is one of the mailbox, or is not seen by it.
LEMMA MailboxStep ==
    ASSUME IInv, LineInv, Alive, Next
    PROVE  [Mailbox!Next]_(Mailbox!vars)
  <1> DEFINE Goal == Mailbox!Next \/ UNCHANGED Mailbox!vars
  <1> SUFFICES Goal
    OBVIOUS
  <1>0. Callers \subseteq Requests /\ Internal \subseteq Requests
    BY DEF Requests
  <1>1. ASSUME NEW c \in Callers, Start(c) \/ Again(c) PROVE Goal
    <2>1. /\ Submit(c) /\ signaled' = [signaled EXCEPT ![c] = "no"]
          /\ UNCHANGED <<receiving, timedOut>> /\ Alive'
      BY <1>1 DEF Start, Again, LoadCustom, SubmitFrom, socket, object, Alive
    <2> QED BY <1>0, <2>1, SubmitPosts
  <1>2. ASSUME NEW c \in Callers, LeaveSet(c) \/ AttachFailed(c) PROVE Goal
    <2>1. PICK r \in Internal : Submit(r)
      BY <1>2 DEF LeaveSet, AttachFailed, SubmitFrom, Internal
    <2>2. signaled' = signaled /\ UNCHANGED <<receiving, timedOut>> /\ Alive'
      BY <1>2 DEF LeaveSet, AttachFailed, socket, object, Alive
    <2> QED BY <1>0, <2>1, <2>2, SubmitPosts
  <1>3. ASSUME NEW c \in Callers, Trigger(c) \/ Answered(c) PROVE Goal
    <2>1. UNCHANGED <<requests, receiving, signaled, timedOut>> /\ Alive' = Alive
      BY <1>3 DEF Trigger, Answered, queue, socket, object, Alive
    <2> QED BY <2>1, Unseen
  <1>4. ASSUME NEW c \in Callers, Expire(c) PROVE Goal
    <2>1. UNCHANGED <<requests, receiving, signaled>> /\ Alive' = Alive /\ timedOut' = TRUE
      BY <1>4 DEF Expire, queue, socket, object, Alive
    <2>2. Mailbox!GiveUp(c)
      BY <2>1 DEF Mailbox!GiveUp
    <2> QED BY <2>2 DEF Mailbox!Next
  <1>5. ASSUME NEW c \in Callers, EnterSet(c) PROVE Goal
    <2>1. UNCHANGED <<requests, receiving, signaled, timedOut>>
      BY <1>5 DEF EnterSet, queue, socket
    <2>2. CASE Alive'
      <3>1. Alive' = Alive
        BY <2>2
      <3> QED BY <2>1, <3>1, Unseen
    <2>3. CASE ~Alive'
      BY <2>1, <2>3, EndAborts
    <2> QED BY <2>2, <2>3
  <1>6. ASSUME NEW c \in Callers, Finish(c) PROVE Goal
    BY <1>6, RevokeWithdraws
  <1>7. ASSUME NEW c \in Callers, Destruct(c) PROVE Goal
    BY <1>7, EndAborts DEF Destruct, Alive
  <1>8. CASE Release \/ SendData \/ SendCopy \/ Reply \/ \E e \in Emitted : Emit(e)
    <2>1. UNCHANGED <<requests, receiving, signaled, timedOut>> /\ Alive' = Alive
      BY <1>8 DEF Release, SendData, SendCopy, Reply, Emit, queue, socket, object, Alive
    <2> QED BY <2>1, Unseen
  <1>9. CASE ReceiveReply
    <2>1. /\ UNCHANGED <<requests, signaled, timedOut>> /\ Alive' = Alive /\ ~receiving
          /\ \/ receiving' = receiving
             \/ requests # <<>> /\ receiving' = TRUE
      BY <1>9 DEF ReceiveReply, ThreadFree, queue, object, Alive
    <2>2. CASE receiving' = receiving
      BY <2>1, <2>2, Unseen
    <2>3. CASE requests # <<>> /\ receiving' = TRUE
      <3>1. Mailbox!Answer
        BY <2>1, <2>3 DEF Mailbox!Answer
      <3> QED BY <3>1 DEF Mailbox!Next
    <2> QED BY <2>1, <2>2, <2>3
  <1>10. CASE ReceiveComplete
    BY <1>10, CompletionCompletes
  <1>11. CASE ReceiveEmpty
    BY <1>11, EndAborts DEF ReceiveEmpty, queue, Alive
  <1>12. CASE ReceiveEvent
    <2>1. UNCHANGED <<signaled, receiving, timedOut>> /\ Alive' = Alive
      BY <1>12 DEF ReceiveEvent, object, Alive
    <2>2. requests' = requests \/ \E r \in Internal : Submit(r)
      BY <1>12 DEF ReceiveEvent, RequestOf, IsReply, Events, Internal
    <2>3. CASE requests' = requests
      BY <2>1, <2>3, Unseen
    <2>4. CASE \E r \in Internal : Submit(r)
      BY <1>0, <2>1, <2>4, SubmitPosts
    <2> QED BY <2>2, <2>3, <2>4
  <1> HIDE DEF Goal
  <1> QED
    BY <1>1, <1>2, <1>3, <1>4, <1>5, <1>6, <1>7, <1>8, <1>9, <1>10, <1>11, <1>12
       DEF Next, Caller, Socket, Stopped

\* The channel does what the mailbox does: completes requests in the order they were
\* submitted, gives a caller its own answer until some Wait runs out of time, and keeps
\* what it was not told to withdraw. That nothing stays in it is left to ImplementsMailbox.
THEOREM ChannelIsMailbox == Spec => MailboxSteps
  <1>1. Init => Mailbox!Init
    <2> SUFFICES ASSUME Init PROVE Mailbox!Init
      OBVIOUS
    <2>1. requests = <<>> /\ receiving = FALSE /\ timedOut = FALSE
      BY DEF Init
    <2>2. signaled = [c \in Callers |-> "no"]
      BY DEF Init
    <2>3. (Alive /\ receiving) = FALSE
      BY <2>1, Zenon
    <2>4. (IF Alive THEN requests ELSE <<>>) = <<>>
      BY <2>1
    <2> QED BY <2>1, <2>2, <2>3, <2>4 DEF Mailbox!Init
  <1>2. IInv /\ LineInv /\ [Next]_vars => [Mailbox!Next]_(Mailbox!vars)
    <2> SUFFICES ASSUME IInv, LineInv, [Next]_vars PROVE [Mailbox!Next]_(Mailbox!vars)
      OBVIOUS
    <2>1. CASE Alive /\ Next
      BY <2>1, MailboxStep
    <2>2. CASE UNCHANGED vars
      <3>1. UNCHANGED <<requests, receiving, signaled, timedOut>> /\ Alive' = Alive
        BY <2>2 DEF vars, queue, socket, object, Alive
      <3> QED BY <3>1, Unseen
    <2>3. Next => Alive \/ UNCHANGED vars
      BY DEF Next, Caller, Socket, Stopped, Start, Trigger, Answered, Expire, Again,
             EnterSet, LeaveSet, Finish, AttachFailed, Destruct, Release, SendData,
             SendCopy, ReceiveReply, ReceiveComplete, ReceiveEmpty, ReceiveEvent,
             Reply, Emit
    <2> QED BY <2>1, <2>2, <2>3
  <1> QED BY <1>1, <1>2, Inductive, LineInductive, PTL DEF Spec, MailboxSteps
=============================================================================
