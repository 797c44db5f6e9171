---------------------------- MODULE MonitorProofs ---------------------------
(***************************************************************************)
(* Proofs about Monitor, for any number of workers, processes, causes and  *)
(* limits: what the host lets happen between two states of the plugin      *)
(* keeps the reference of Monitor current although every worker tells the  *)
(* state the plugin has by then, and not the one it has brought about.     *)
(***************************************************************************)
EXTENDS Monitor, TLAPS

-----------------------------------------------------------------------------
(* The inductive invariant                                                 *)

\* One worker at a time has the plugin between two states, and the state says where.
OneTransition ==
    /\ \A w \in Workers : at[w] \in {"initialize", "configure"} => state = "activation"
    /\ \A w \in Workers :
          at[w] \in {"tell deactivation", "deinitialize"} => state = "deactivation"
    /\ \A v, w \in Workers :
          /\ at[v] \in {"initialize", "configure", "tell deactivation", "deinitialize"}
          /\ at[w] \in {"initialize", "configure", "tell deactivation", "deinitialize"}
          => v = w

\* The interface is there while the plugin is active, and Monitor has let go of it before
\* the plugin does.
LetGoInTime ==
    /\ state \in {"deactivated", "activation"} => memory = NoProcess
    /\ \A w \in Workers : at[w] = "deinitialize" => source = NoProcess
    /\ ~open => source = NoProcess

\* What was granted was counted, but for the failure that began the window.
GrantsAreCounted == \A c \in Causes : granted[c] <= count[c] + 1

\* A process that crashed since the plugin has it, in ACTIVATION or after, has a report to
\* come, unless the host has left it because the plugin was not active yet.
CrashIsReported ==
    /\ state = "activated" \/ \E w \in Workers : at[w] = "configure"
    /\ ~running
    => \/ lost \/ missed
       \/ \E i \in 1 .. Len(queue) : queue[i] = Job("deactivate", Failure)

IInv ==
    /\ TypeOK
    /\ OneTransition
    /\ LetGoInTime
    /\ SourceIsCurrent
    /\ GrantsAreCounted
    /\ CrashIsReported

-----------------------------------------------------------------------------
(* Lemmas                                                                  *)

\* Unlimited is a number above every limit.
LEMMA UnlimitedIsNat == MaxLimit \in Nat /\ Unlimited \in Nat /\ Unlimited = MaxLimit + 1
  BY MonitorAssumption DEF Unlimited

\* Counting on stays within the bound, and does not count backwards.
LEMMA CountsOn ==
    ASSUME NEW n \in 0 .. Unlimited
    PROVE  /\ CountOn(n) \in 0 .. Unlimited
           /\ n <= CountOn(n) /\ CountOn(n) <= n + 1
           /\ n < Unlimited => CountOn(n) = n + 1
  BY UnlimitedIsNat DEF CountOn

\* What StateChange leaves of the queue: it may have the job of a restart more.
LEMMA QueueOfStateChange ==
    ASSUME StateChange
    PROVE  queue' = queue \/ queue' = Append(queue, Restart)
  BY DEF StateChange, restart

\* StateChange counts a failure and grants a restart as RegisterRestart allows.
LEMMA StateChangeCounts ==
    ASSUME TypeOK, StateChange
    PROVE  \/ UNCHANGED <<count, window, granted, limit, givenUp>>
           \/ /\ reason \in Causes
              /\ count' = [count EXCEPT ![reason] = Counted(reason)]
              /\ window' = [window EXCEPT ![reason] = "going"]
              /\ \/ /\ limit[reason] = Unlimited \/ Counted(reason) < limit[reason]
                    /\ granted' = [granted EXCEPT ![reason] = CountOn(Granted(reason))]
                 \/ granted' = [granted EXCEPT ![reason] = Granted(reason)]
              /\ limit' = limit
              /\ givenUp' \in {givenUp, TRUE}
  BY DEF StateChange, restart, RegisterRestart

\* What StateChange does to the reference of Monitor.
LEMMA SourceOfStateChange ==
    ASSUME StateChange
    PROVE  \/ state = "activated" /\ open /\ source' = memory
           \/ state = "deactivation" /\ open /\ source' = NoProcess
           \/ state \in {"deactivated", "activation"} /\ source' = source
           \/ ~open /\ source' = source
  BY DEF StateChange, Set, LetGo

\* A count and what was granted keep their types.
LEMMA CountedType ==
    ASSUME TypeOK, NEW c \in Causes
    PROVE  Counted(c) \in 0 .. Unlimited /\ Granted(c) \in 0 .. Unlimited
  <1>1. count[c] \in 0 .. Unlimited /\ granted[c] \in 0 .. Unlimited /\ 0 \in 0 .. Unlimited
    BY UnlimitedIsNat DEF TypeOK
  <1> QED BY <1>1, CountsOn DEF Counted, Granted

-----------------------------------------------------------------------------
(* Types                                                                   *)

JobType == [to : {"activate", "deactivate"}, why : Reasons]

\* A job added at the end keeps the type of the queue.
LEMMA AddedJob ==
    ASSUME queue \in Seq(JobType), NEW job \in JobType
    PROVE  Append(queue, job) \in Seq(JobType)
  OBVIOUS

\* The jobs that the program makes.
LEMMA JobTypes ==
    /\ \A why \in Causes : Job("deactivate", why) \in JobType
    /\ \A to \in {"activate", "deactivate"} : Job(to, "requested") \in JobType
    /\ Restart \in JobType
  BY DEF Job, Restart, JobType, Reasons, Others

\* Every step keeps the types.
LEMMA TypeInvariance == TypeOK /\ [Next]_vars => TypeOK'
  <1> SUFFICES ASSUME TypeOK, [Next]_vars PROVE TypeOK'
    OBVIOUS
  <1>q. queue \in Seq(JobType)
    BY DEF TypeOK, JobType
  <1>a. CASE UNCHANGED vars
    BY <1>a DEF vars, host, plugin, monitor, restart, TypeOK
  <1>1. ASSUME NEW w \in Workers, Take(w) PROVE TypeOK'
    <2>1. Head(queue) \in JobType /\ queue' \in Seq(JobType)
      <3>1. queue # <<>> /\ queue' = Tail(queue)
        BY <1>1 DEF Take
      <3>2. Len(queue) > 0
        BY <1>q, <3>1
      <3> QED BY <1>q, <3>1, <3>2
    <2>2. /\ state' \in States /\ reason' \in Reasons
          /\ at' \in [Workers -> Points]
      BY <1>1, <2>1 DEF Take, TypeOK, JobType, States, Points
    <2>3. givenUp' \in BOOLEAN /\ missed' \in BOOLEAN
      BY <1>1 DEF Take, ComesEarly, TypeOK
    <2> QED BY <1>1, <2>1, <2>2, <2>3 DEF Take, TypeOK, JobType
  <1>2. ASSUME NEW w \in Workers, Tell(w) PROVE TypeOK'
    <2>1. StateChange
      BY <1>2 DEF Tell
    <2>2. queue' \in Seq(JobType)
      BY <1>q, <2>1, QueueOfStateChange, AddedJob, JobTypes
    <2>3. source' \in Processes \cup {NoProcess}
      BY <2>1, SourceOfStateChange DEF TypeOK
    <2>4. /\ limit' \in [Causes -> Limits \cup {Unlimited}]
          /\ count' \in [Causes -> 0 .. Unlimited]
          /\ window' \in [Causes -> Windows]
          /\ granted' \in [Causes -> 0 .. Unlimited]
          /\ givenUp' \in BOOLEAN
      <3>1. CASE UNCHANGED <<count, window, granted, limit, givenUp>>
        BY <3>1 DEF TypeOK
      <3>2. CASE ~ UNCHANGED <<count, window, granted, limit, givenUp>>
        <4>1. /\ reason \in Causes
              /\ count' = [count EXCEPT ![reason] = Counted(reason)]
              /\ window' = [window EXCEPT ![reason] = "going"]
              /\ \/ granted' = [granted EXCEPT ![reason] = CountOn(Granted(reason))]
                 \/ granted' = [granted EXCEPT ![reason] = Granted(reason)]
              /\ limit' = limit /\ givenUp' \in {givenUp, TRUE}
          BY <2>1, <3>2, StateChangeCounts
        <4>2. /\ Counted(reason) \in 0 .. Unlimited /\ Granted(reason) \in 0 .. Unlimited
              /\ CountOn(Granted(reason)) \in 0 .. Unlimited
          BY <4>1, CountedType, CountsOn
        <4> QED BY <4>1, <4>2 DEF TypeOK, Windows
      <3> QED BY <3>1, <3>2
    <2>5. at' \in [Workers -> Points]
      BY <1>2 DEF Tell, TypeOK, Points
    <2> QED BY <1>2, <2>2, <2>3, <2>4, <2>5 DEF Tell, plugin, TypeOK, JobType
  <1>3. ASSUME NEW w \in Workers, Initialize(w) \/ Configure(w) \/ Deinitialize(w)
        PROVE  TypeOK'
    <2>1. CASE Initialize(w)
      <3>1. at' \in [Workers -> Points] /\ running' \in BOOLEAN
        BY <2>1 DEF Initialize, TypeOK, Points
      <3>2. state' \in States /\ reason' \in Reasons
        BY <2>1 DEF Initialize, TypeOK, States, Reasons, Others
      <3> QED BY <2>1, <3>1, <3>2 DEF Initialize, monitor, restart, TypeOK
    <2>2. CASE Configure(w)
      <3>1. at' \in [Workers -> Points] /\ lost' \in BOOLEAN
        BY <2>2 DEF Configure, TypeOK, Points
      <3>2. state' \in States /\ reason' \in Reasons
        BY <2>2 DEF Configure, TypeOK, States, Reasons, Others
      <3>3. memory' \in Processes \cup {NoProcess}
        BY <2>2 DEF Configure, TypeOK
      <3> QED BY <2>2, <3>1, <3>2, <3>3 DEF Configure, monitor, restart, TypeOK
    <2>3. CASE Deinitialize(w)
      BY <2>3 DEF Deinitialize, monitor, restart, TypeOK, States, Points
    <2> QED BY <1>3, <2>1, <2>2, <2>3
  <1>4. CASE Crash
    BY <1>4 DEF Crash, host, monitor, restart, TypeOK
  <1>5. CASE Deactivated
    <2>1. queue' \in Seq(JobType)
      BY <1>q, <1>5, AddedJob, JobTypes, MonitorAssumption DEF Deactivated
    <2> QED BY <1>5, <2>1 DEF Deactivated, monitor, restart, TypeOK, JobType
  <1>6. CASE Probe
    BY <1>6 DEF Probe, host, plugin, restart, TypeOK
  <1>7. CASE Evaluate
    <2>1. queue' \in Seq(JobType)
      BY <1>q, <1>7, AddedJob, JobTypes DEF Evaluate
    <2> QED BY <1>7, <2>1 DEF Evaluate, plugin, restart, TypeOK, JobType
  <1>8. CASE Open
    BY <1>8 DEF Open, Set, host, plugin, TypeOK
  <1>9. CASE Close
    <2>1. 0 \in 0 .. Unlimited
      BY UnlimitedIsNat
    <2> QED BY <1>9, <2>1 DEF Close, Set, host, plugin, TypeOK, Windows
  <1>10. CASE Update
    BY <1>10 DEF Update, host, plugin, TypeOK
  <1>11. CASE WindowEnds
    BY <1>11 DEF WindowEnds, host, plugin, TypeOK, Windows
  <1>12. CASE Ask
    <2>1. queue' \in Seq(JobType)
      BY <1>q, <1>12, AddedJob, JobTypes DEF Ask
    <2> QED BY <1>12, <2>1 DEF Ask, plugin, monitor, restart, TypeOK, JobType
  <1> QED BY <1>a, <1>1, <1>2, <1>3, <1>4, <1>5, <1>6, <1>7, <1>8, <1>9, <1>10, <1>11, <1>12
          DEF Next

-----------------------------------------------------------------------------
(* The parts of the invariant                                              *)

\* A worker takes a job that brings the plugin into a transition only when it is in none.
LEMMA TransitionStep ==
    ASSUME TypeOK, OneTransition, Next
    PROVE  OneTransition'
  <1> DEFINE Busy == {"initialize", "configure", "tell deactivation", "deinitialize"}
  <1>1. ASSUME NEW w \in Workers, Take(w) PROVE OneTransition'
    <2>1. CASE UNCHANGED <<state, at>>
      BY <2>1 DEF OneTransition
    <2>2. CASE \/ /\ state = "deactivated" /\ state' = "activation"
                  /\ at' = [at EXCEPT ![w] = "initialize"]
               \/ /\ state = "activated" /\ state' = "deactivation"
                  /\ at' = [at EXCEPT ![w] = "tell deactivation"]
      <3>1. \A v \in Workers : at[v] \notin Busy
        BY <2>2 DEF OneTransition
      <3>2. \A v \in Workers \ {w} : at'[v] = at[v]
        BY <2>2 DEF TypeOK
      <3>3. at'[w] = IF state' = "activation" THEN "initialize" ELSE "tell deactivation"
        BY <2>2 DEF TypeOK
      <3> QED BY <2>2, <3>1, <3>2, <3>3 DEF OneTransition
    <2> QED BY <1>1, <2>1, <2>2 DEF Take
  <1>2. ASSUME NEW w \in Workers, Tell(w) PROVE OneTransition'
    <2>1. /\ \A v \in Workers \ {w} : at'[v] = at[v]
          /\ at'[w] = IF at[w] = "tell deactivation" THEN "deinitialize" ELSE "idle"
          /\ state' = state
      BY <1>2 DEF Tell, TypeOK
    <2> QED BY <2>1 DEF OneTransition
  <1>6. ASSUME NEW w \in Workers, at[w] = "initialize", state' = state,
               at' = [at EXCEPT ![w] = "configure"]
        PROVE  OneTransition'
    <2>1. at'[w] = "configure" /\ \A v \in Workers \ {w} : at'[v] = at[v]
      BY <1>6 DEF TypeOK
    <2>2. \A v \in Workers \ {w} : at[v] \notin Busy
      BY <1>6 DEF OneTransition
    <2>3. state' = "activation"
      BY <1>6 DEF OneTransition
    <2> QED BY <2>1, <2>2, <2>3 DEF OneTransition
  <1>3. ASSUME NEW w \in Workers, Initialize(w) \/ Configure(w) \/ Deinitialize(w),
               at' # [at EXCEPT ![w] = "configure"]
        PROVE  OneTransition'
    <2>1. /\ at[w] \in Busy
          /\ \A v \in Workers \ {w} : at'[v] = at[v]
          /\ at'[w] \notin Busy
      BY <1>3 DEF Initialize, Configure, Deinitialize, TypeOK
    <2>2. \A v \in Workers : at'[v] \notin Busy
      BY <2>1 DEF OneTransition
    <2> QED BY <2>2 DEF OneTransition
  <1>4. CASE UNCHANGED <<state, at>>
    BY <1>4 DEF OneTransition
  <1>5. \/ UNCHANGED <<state, at>>
        \/ \E w \in Workers : \/ Take(w) \/ Tell(w)
                             \/ Initialize(w) \/ Configure(w) \/ Deinitialize(w)
    BY DEF Next, Crash, Deactivated, Probe, Evaluate, Open, Close, Update, WindowEnds, Ask,
           host
  <1>7. ASSUME NEW w \in Workers, Initialize(w) \/ Configure(w) \/ Deinitialize(w)
        PROVE  \/ at' # [at EXCEPT ![w] = "configure"]
               \/ at[w] = "initialize" /\ state' = state
    <2>1. CASE Initialize(w)
      BY <2>1 DEF Initialize, TypeOK
    <2>2. CASE Configure(w) \/ Deinitialize(w)
      <3>1. at'[w] \in {"tell activated", "tell deactivated"}
        BY <2>2 DEF Configure, Deinitialize, TypeOK
      <3> QED BY <3>1 DEF TypeOK
    <2> QED BY <1>7, <2>1, <2>2
  <1> QED BY <1>1, <1>2, <1>3, <1>4, <1>5, <1>6, <1>7

\* The interface goes away only when Monitor has let go of it, and a new one comes only
\* when there is none.
LEMMA SourceStep ==
    ASSUME IInv, Next
    PROVE  LetGoInTime' /\ SourceIsCurrent'
  <1>0. /\ TypeOK /\ OneTransition /\ LetGoInTime /\ SourceIsCurrent
    BY DEF IInv
  <1>1. ASSUME NEW w \in Workers, Take(w) PROVE LetGoInTime' /\ SourceIsCurrent'
    <2>1. /\ UNCHANGED <<memory, source, open>>
          /\ state' \in {"deactivated", "activation"} => state \in {"deactivated", "activation"}
      BY <1>1 DEF Take
    <2>2. \A v \in Workers : at'[v] = "deinitialize" => at[v] = "deinitialize"
      BY <1>0, <1>1 DEF Take, TypeOK
    <2> QED BY <1>0, <2>1, <2>2 DEF LetGoInTime, SourceIsCurrent
  <1>2. ASSUME NEW w \in Workers, Tell(w) PROVE LetGoInTime' /\ SourceIsCurrent'
    <2>1. StateChange /\ UNCHANGED <<state, memory, open>>
      BY <1>2 DEF Tell, plugin
    <2>2. source' \in {source, memory, NoProcess} /\ (~open => source' = source)
      BY <2>1, SourceOfStateChange
    <2>3. SourceIsCurrent'
      BY <1>0, <2>1, <2>2 DEF SourceIsCurrent
    <2>4. ASSUME NEW v \in Workers, at'[v] = "deinitialize" PROVE source' = NoProcess
      <3>1. at[v] \in {"tell deactivation", "deinitialize"}
        BY <1>0, <1>2, <2>4 DEF Tell, TypeOK
      <3>2. state = "deactivation"
        BY <1>0, <3>1 DEF OneTransition
      <3>3. source' = NoProcess \/ (~open /\ source' = source)
        BY <2>1, <3>2, SourceOfStateChange
      <3> QED BY <1>0, <3>3 DEF LetGoInTime
    <2> QED BY <1>0, <2>1, <2>2, <2>3, <2>4 DEF LetGoInTime
  <1>3. ASSUME NEW w \in Workers, Initialize(w) \/ Configure(w)
        PROVE  LetGoInTime' /\ SourceIsCurrent'
    <2>1. memory = NoProcess /\ source = NoProcess
      BY <1>0, <1>3 DEF Initialize, Configure, OneTransition, LetGoInTime, SourceIsCurrent
    <2>2. source' = NoProcess
      BY <1>3, <2>1 DEF Initialize, Configure, monitor
    <2>3. state' \in {"deactivated", "activation"} => memory' = NoProcess
      BY <1>3, <2>1 DEF Initialize, Configure
    <2> QED BY <2>2, <2>3 DEF LetGoInTime, SourceIsCurrent
  <1>4. ASSUME NEW w \in Workers, Deinitialize(w) PROVE LetGoInTime' /\ SourceIsCurrent'
    <2>1. source = NoProcess
      BY <1>0, <1>4 DEF Deinitialize, LetGoInTime
    <2>2. source' = NoProcess /\ memory' = NoProcess
      BY <1>4, <2>1 DEF Deinitialize, monitor
    <2> QED BY <2>2 DEF LetGoInTime, SourceIsCurrent
  <1>5. CASE Open
    <2>1. /\ UNCHANGED <<state, at, memory>> /\ open'
          /\ source' = IF state = "activated" THEN memory ELSE NoProcess
      BY <1>5 DEF Open, Set, host, plugin
    <2>2. ASSUME NEW v \in Workers, at[v] = "deinitialize" PROVE state = "deactivation"
      BY <1>0, <2>2 DEF OneTransition
    <2> QED BY <1>0, <2>1, <2>2 DEF LetGoInTime, SourceIsCurrent
  <1>6. CASE Close
    BY <1>0, <1>6 DEF Close, Set, host, plugin, LetGoInTime, SourceIsCurrent
  <1>7. CASE UNCHANGED <<state, at, memory, source, open>>
    BY <1>0, <1>7 DEF LetGoInTime, SourceIsCurrent
  <1>8. \/ UNCHANGED <<state, at, memory, source, open>>
        \/ Open \/ Close
        \/ \E w \in Workers : \/ Take(w) \/ Tell(w)
                             \/ Initialize(w) \/ Configure(w) \/ Deinitialize(w)
    BY DEF Next, Crash, Deactivated, Probe, Evaluate, Update, WindowEnds, Ask, host, plugin,
           monitor
  <1> QED BY <1>1, <1>2, <1>3, <1>4, <1>5, <1>6, <1>7, <1>8

\* What StateChange does to one cause.
LEMMA GrantOfStateChange ==
    ASSUME TypeOK, StateChange, NEW c \in Causes
    PROVE  \/ count'[c] = count[c] /\ granted'[c] = granted[c]
           \/ /\ count'[c] = Counted(c)
              /\ \/ /\ limit[c] = Unlimited \/ Counted(c) < limit[c]
                    /\ granted'[c] = CountOn(Granted(c))
                 \/ granted'[c] = Granted(c)
  <1>1. CASE UNCHANGED <<count, window, granted, limit, givenUp>>
    BY <1>1
  <1>2. CASE /\ reason \in Causes
             /\ count' = [count EXCEPT ![reason] = Counted(reason)]
             /\ \/ /\ limit[reason] = Unlimited \/ Counted(reason) < limit[reason]
                   /\ granted' = [granted EXCEPT ![reason] = CountOn(Granted(reason))]
                \/ granted' = [granted EXCEPT ![reason] = Granted(reason)]
    BY <1>2 DEF TypeOK
  <1> QED BY <1>1, <1>2, StateChangeCounts

\* A window that goes on counts the failure before it grants the restart, and a new one
\* begins with one failure that is not counted.
LEMMA GrantStep ==
    ASSUME TypeOK, GrantsAreCounted, StateChange, NEW c \in Causes
    PROVE  /\ granted'[c] <= count'[c] + 1
           /\ granted'[c] > granted[c] /\ limit[c] # Unlimited => granted'[c] <= limit[c]
  <1>1. /\ count[c] \in 0 .. Unlimited /\ granted[c] \in 0 .. Unlimited
        /\ granted[c] <= count[c] + 1
        /\ Counted(c) \in 0 .. Unlimited /\ Granted(c) \in 0 .. Unlimited
        /\ Granted(c) <= granted[c]
    <2>1. count[c] \in 0 .. Unlimited /\ granted[c] \in 0 .. Unlimited
      BY DEF TypeOK
    <2>2. Counted(c) \in 0 .. Unlimited /\ Granted(c) \in 0 .. Unlimited
      BY CountedType
    <2>3. granted[c] <= count[c] + 1
      BY DEF GrantsAreCounted
    <2>4. Granted(c) <= granted[c]
      BY <2>1, UnlimitedIsNat DEF Granted
    <2> QED BY <2>1, <2>2, <2>3, <2>4
  <1>2. limit[c] # Unlimited => limit[c] \in 0 .. MaxLimit
    <2>1. limit[c] # Unlimited => limit[c] \in 0 .. Unlimited
      BY MonitorAssumption DEF TypeOK
    <2> QED BY <2>1, UnlimitedIsNat
  <1>3. CountOn(Granted(c)) <= Counted(c) + 1 /\ Granted(c) <= Counted(c) + 1
    <2>1. CASE window[c] = "going"
      <3>1. Granted(c) = granted[c] /\ Counted(c) = CountOn(count[c])
        BY <2>1 DEF Counted, Granted
      <3> QED BY <1>1, <3>1, UnlimitedIsNat DEF CountOn
    <2>2. CASE window[c] # "going"
      <3>1. Granted(c) = 0 /\ Counted(c) = 0
        BY <2>2 DEF Counted, Granted
      <3> QED BY <3>1, UnlimitedIsNat DEF CountOn
    <2> QED BY <2>1, <2>2
  <1>4. CountOn(Granted(c)) \in Nat
    BY <1>1, CountsOn, UnlimitedIsNat
  <1>5. CASE count'[c] = count[c] /\ granted'[c] = granted[c]
    BY <1>1, <1>5
  <1>6. CASE /\ count'[c] = Counted(c)
             /\ limit[c] = Unlimited \/ Counted(c) < limit[c]
             /\ granted'[c] = CountOn(Granted(c))
    BY <1>1, <1>2, <1>3, <1>4, <1>6, UnlimitedIsNat
  <1>7. CASE count'[c] = Counted(c) /\ granted'[c] = Granted(c)
    BY <1>1, <1>3, <1>7
  <1> QED BY <1>5, <1>6, <1>7, GrantOfStateChange

\* Restarts are granted by StateChange, which every Tell is.
LEMMA GrantsStep ==
    ASSUME TypeOK, GrantsAreCounted, Next
    PROVE  /\ GrantsAreCounted'
           /\ \A c \in Causes : granted'[c] > granted[c] /\ limit[c] # Unlimited
                                   => granted'[c] <= limit[c]
  <1>1. CASE StateChange
    BY <1>1, GrantStep DEF GrantsAreCounted
  <1>2. CASE Close
    BY <1>2, UnlimitedIsNat DEF Close, TypeOK, GrantsAreCounted
  <1>3. CASE UNCHANGED <<count, granted>>
    BY <1>3, UnlimitedIsNat DEF TypeOK, GrantsAreCounted
  <1>4. StateChange \/ Close \/ UNCHANGED <<count, granted>>
    BY DEF Next, Take, Tell, Initialize, Configure, Deinitialize, Crash, Deactivated, Probe,
           Evaluate, Open, Update, WindowEnds, Ask, monitor, restart
  <1> QED BY <1>1, <1>2, <1>3, <1>4

\* A job stays in the queue until it is its turn.
LEMMA JobStays ==
    ASSUME NEW q \in Seq(JobType), NEW i \in 1 .. Len(q)
    PROVE  /\ \A job \in JobType : \E j \in 1 .. Len(Append(q, job)) : Append(q, job)[j] = q[i]
           /\ Head(q) # q[i] => \E j \in 1 .. Len(Tail(q)) : Tail(q)[j] = q[i]
  <1>1. ASSUME NEW job \in JobType
        PROVE  \E j \in 1 .. Len(Append(q, job)) : Append(q, job)[j] = q[i]
    <2>1. i \in 1 .. Len(Append(q, job)) /\ Append(q, job)[i] = q[i]
      OBVIOUS
    <2> QED BY <2>1
  <1>2. ASSUME Head(q) # q[i]
        PROVE  \E j \in 1 .. Len(Tail(q)) : Tail(q)[j] = q[i]
    <2>1. q # <<>> /\ Head(q) = q[1] /\ Len(Tail(q)) = Len(q) - 1
      OBVIOUS
    <2>2. i - 1 \in 1 .. Len(Tail(q))
      BY <1>2, <2>1
    <2>3. Tail(q)[i - 1] = q[i]
      BY <2>1, <2>2
    <2> QED BY <2>2, <2>3
  <1> QED BY <1>1, <1>2

\* A crash is reported with a job, which is left only when the plugin is not active, and
\* after that is gone for a plugin that is between the start of its process and that.
LEMMA CrashStep ==
    ASSUME TypeOK, OneTransition, CrashIsReported, Next
    PROVE  CrashIsReported'
  <1> DEFINE Report   == Job("deactivate", Failure)
             Stops(q) == \E i \in 1 .. Len(q) : q[i] = Report
             Made     == state = "activated" \/ \E w \in Workers : at[w] = "configure"
  <1>0. queue \in Seq(JobType) /\ Report \in JobType
    BY JobTypes, MonitorAssumption DEF TypeOK, JobType
  <1>1. ASSUME NEW job \in JobType, Stops(queue), queue' = Append(queue, job)
        PROVE  Stops(queue')
    BY <1>0, <1>1, JobStays
  <1>2. ASSUME NEW w \in Workers, Take(w) PROVE CrashIsReported'
    <2>1. queue # <<>> /\ queue' = Tail(queue) /\ running' = running /\ lost' = lost
      BY <1>2 DEF Take
    <2>2. ASSUME Stops(queue), Head(queue) # Report PROVE Stops(queue')
      BY <1>0, <2>1, <2>2, JobStays
    <2>3. CASE UNCHANGED <<state, at>>
      <3>1. missed' = (missed \/ ComesEarly(Head(queue)))
        BY <1>2, <2>3 DEF Take
      <3>2. state = "activated" => Head(queue) # Report
        BY <1>2, <2>3 DEF Take, Job
      <3>3. ASSUME Made, ~running PROVE lost \/ missed' \/ Stops(queue')
        <4>1. lost \/ missed \/ Stops(queue)
          BY <3>3 DEF CrashIsReported
        <4>2. Head(queue) = Report => ComesEarly(Head(queue))
          BY <3>2, <3>3 DEF ComesEarly
        <4> QED BY <2>2, <3>1, <4>1, <4>2
      <3> QED BY <2>1, <2>3, <3>3 DEF CrashIsReported
    <2>4. CASE ~UNCHANGED <<state, at>>
      <3>1. /\ state' \in {"activation", "deactivation"}
            /\ state \in {"activated", "deactivated"}
            /\ at' = [at EXCEPT ![w] = IF state' = "activation"
                                       THEN "initialize" ELSE "tell deactivation"]
        BY <1>2, <2>4 DEF Take
      <3>2. \A v \in Workers : at'[v] # "configure"
        BY <3>1 DEF OneTransition, TypeOK
      <3> QED BY <3>1, <3>2 DEF CrashIsReported
    <2> QED BY <2>3, <2>4
  <1>3. ASSUME NEW w \in Workers, Tell(w) PROVE CrashIsReported'
    <2>1. StateChange /\ UNCHANGED <<state, running, lost, missed>>
      BY <1>3 DEF Tell, plugin
    <2>2. queue' = queue \/ queue' = Append(queue, Restart)
      BY <2>1, QueueOfStateChange
    <2>3. Stops(queue) => Stops(queue')
      BY <1>1, <2>2, JobTypes
    <2>4. \A v \in Workers : at'[v] = "configure" => at[v] = "configure"
      BY <1>3 DEF Tell, TypeOK
    <2> QED BY <2>1, <2>3, <2>4 DEF CrashIsReported
  <1>4. ASSUME NEW w \in Workers, Initialize(w) \/ Configure(w) \/ Deinitialize(w)
        PROVE  CrashIsReported'
    <2>1. ASSUME NEW v \in Workers, v # w PROVE at'[v] # "configure"
      <3>1. at[v] # "configure" /\ at'[v] = at[v]
        BY <1>4, <2>1 DEF Initialize, Configure, Deinitialize, OneTransition, TypeOK
      <3> QED BY <3>1
    <2>2. CASE Initialize(w)
      <3>1. state # "activated" /\ state' # "activated"
        BY <2>2 DEF Initialize, OneTransition
      <3>2. running' \/ at'[w] # "configure"
        BY <2>2 DEF Initialize, TypeOK
      <3> QED BY <2>1, <3>1, <3>2 DEF CrashIsReported
    <2>3. CASE Configure(w)
      <3>1. at'[w] # "configure" /\ UNCHANGED <<queue, running, missed>> /\ Made
        BY <2>3 DEF Configure, TypeOK
      <3>2. state' = "activated" => lost' = lost
        BY <2>3 DEF Configure
      <3> QED BY <2>1, <3>1, <3>2 DEF CrashIsReported
    <2>4. CASE Deinitialize(w)
      <3>1. at'[w] # "configure" /\ state' # "activated"
        BY <2>4 DEF Deinitialize, TypeOK
      <3> QED BY <2>1, <3>1 DEF CrashIsReported
    <2> QED BY <1>4, <2>2, <2>3, <2>4
  <1>5. CASE Crash
    BY <1>5 DEF Crash, CrashIsReported
  <1>6. CASE Deactivated
    <2>1. queue' = Append(queue, Report)
      BY <1>6 DEF Deactivated
    <2>2. /\ Len(queue') = Len(queue) + 1 /\ Len(queue) \in Nat
          /\ queue'[Len(queue) + 1] = Report
      BY <1>0, <2>1
    <2>3. Stops(queue')
      BY <2>2
    <2> QED BY <2>3 DEF CrashIsReported
  <1>7. CASE /\ \E job \in JobType : queue' = Append(queue, job)
             /\ UNCHANGED <<state, at, running, lost, missed>>
    BY <1>1, <1>7 DEF CrashIsReported
  <1>8. CASE UNCHANGED <<state, at, running, lost, missed, queue>>
    BY <1>8 DEF CrashIsReported
  <1>9. Evaluate \/ Ask => \/ UNCHANGED <<state, at, running, lost, missed, queue>>
                           \/ /\ \E job \in JobType : queue' = Append(queue, job)
                              /\ UNCHANGED <<state, at, running, lost, missed>>
    BY JobTypes DEF Evaluate, Ask, plugin
  <1>10. Probe \/ Open \/ Close \/ Update \/ WindowEnds
            => UNCHANGED <<state, at, running, lost, missed, queue>>
    BY DEF Probe, Open, Close, Update, WindowEnds, host, plugin
  <1> HIDE DEF Stops
  <1> QED BY <1>2, <1>3, <1>4, <1>5, <1>6, <1>7, <1>8, <1>9, <1>10 DEF Next

-----------------------------------------------------------------------------
(* Theorems                                                                *)

\* The inductive invariant holds in every state.
LEMMA Inductive == Spec => []IInv
  <1>1. Init => IInv
    <2> SUFFICES ASSUME Init PROVE IInv
      OBVIOUS
    <2>1. TypeOK
      <3>1. 0 \in 0 .. Unlimited /\ <<>> \in Seq([to : {"activate", "deactivate"},
                                                  why : Reasons])
        BY UnlimitedIsNat
      <3> QED BY <3>1 DEF Init, TypeOK, States, Points, Windows, Reasons, Others
    <2>2. OneTransition /\ LetGoInTime /\ SourceIsCurrent /\ CrashIsReported
      BY DEF Init, OneTransition, LetGoInTime, SourceIsCurrent, CrashIsReported
    <2>3. GrantsAreCounted
      BY DEF Init, GrantsAreCounted
    <2> QED BY <2>1, <2>2, <2>3 DEF IInv
  <1>2. IInv /\ [Next]_vars => IInv'
    <2> SUFFICES ASSUME IInv, [Next]_vars PROVE IInv'
      OBVIOUS
    <2>1. TypeOK'
      BY TypeInvariance DEF IInv
    <2>2. CASE UNCHANGED vars
      BY <2>1, <2>2 DEF vars, host, plugin, monitor, restart, IInv, OneTransition, LetGoInTime,
                        SourceIsCurrent, GrantsAreCounted, CrashIsReported
    <2>3. CASE Next
      BY <2>1, <2>3, TransitionStep, SourceStep, GrantsStep, CrashStep DEF IInv
    <2> QED BY <2>2, <2>3
  <1> QED BY <1>1, <1>2, PTL DEF Spec

\* The host, the plugin and Monitor keep their types.
THEOREM TypesHold == Spec => []TypeOK
  BY Inductive, PTL DEF IInv

\* Monitor looks at the interface of the process of the plugin, whichever workers tell it
\* the states, and however late.
THEOREM MonitorIsCurrent == Spec => []SourceIsCurrent
  BY Inductive, PTL DEF IInv

\* No restart beyond the limit set at the time.
THEOREM RestartsWithinLimit == Spec => RestartsLimited
  <1> DEFINE Within == \A c \in Causes : granted'[c] > granted[c] /\ limit[c] # Unlimited
                                            => granted'[c] <= limit[c]
  <1>1. IInv /\ [Next]_vars => [Within]_vars
    <2> SUFFICES ASSUME IInv, Next PROVE Within
      OBVIOUS
    <2> QED BY GrantsStep DEF IInv
  <1> QED BY <1>1, Inductive, PTL DEF Spec, RestartsLimited

\* A crash since the plugin has its process, in ACTIVATION or after, has its report to come,
\* as the notification of the connection or as its job, unless the host has left that job
\* because the plugin was not active yet. It is what CrashIsHandled starts from.
THEOREM CrashesAreReported == Spec => []CrashIsReported
  BY Inductive, PTL DEF IInv
=============================================================================
