-------------------------- MODULE WpaNetworksProofs -------------------------
(***************************************************************************)
(* What TLAPS proves of WpaNetworks, for any callers, access points, names *)
(* and profiles: the types, that the list of networks follows the air,     *)
(* that what was begun goes on, and that no profile is forgotten.          *)
(***************************************************************************)
EXTENDS WpaNetworks, SequenceTheorems, TLAPS

\* An entry that a caller has an iterator to is there, unless the caller is stale, and
\* what is reported of a BSS is of a BSS.
EntriesInUse ==
    \A c \in Callers :
        /\ call[c].op \in {"create", "destroying", "destroy", "use"} => call[c].ssid \in Ssids
        /\ call[c].op \in {"destroying", "destroy", "use"} /\ ~call[c].stale =>
              enabled[call[c].ssid] # None

MessagesOfBss ==
    \A i \in DOMAIN inbox : inbox[i].kind # "scanned" => inbox[i].about \subseteq Bss

\* A request is in the list once, and its caller waits; the one answer in the inbox is
\* that to the oldest request.
BoxUnique == IsInjective(box)

CallersWait ==
    \A c \in Callers : c \in ToSet(box) =>
        call[c].op \in {"scan", "create", "destroy", "use"} /\ call[c].answer = "none"

OneAnswer ==
    /\ answered => box # <<>>
    /\ \A i \in DOMAIN inbox : inbox[i].kind = "answer" =>
          /\ answered
          /\ \A j \in DOMAIN inbox : inbox[j].kind = "answer" => i = j

TypeInv ==
    TypeOK /\ EntriesInUse /\ MessagesOfBss /\ BoxUnique /\ CallersWait /\ OneAnswer

\* What follows message i in the inbox.
After(i, kind, b) ==
    \E j \in DOMAIN inbox : j > i /\ inbox[j].kind = kind /\ b \in inbox[j].about

Heads(r) == box # <<>> /\ Head(box) = r

\* What a message says of a BSS is so, or is followed by the event that says otherwise,
\* and a scan that reports a BSS is not over before its end is reported.
AirInOrder ==
    Alive => \A i \in DOMAIN inbox, b \in Bss :
        /\ inbox[i].kind = "answer" /\ b \in inbox[i].about =>
              b \in air \/ After(i, "removed", b)
        /\ inbox[i].kind = "answer" /\ inbox[i].ok /\ Heads("detail") /\ asked = b =>
              b \in air \/ After(i, "removed", b)
        /\ inbox[i].kind = "answer" /\ Heads("scan") /\ b \in air =>
              b \in inbox[i].about \/ After(i, "added", b)
        /\ inbox[i].kind = "removed" /\ b \in inbox[i].about /\ b \in air =>
              After(i, "added", b)
        /\ inbox[i].kind = "added" /\ b \in inbox[i].about =>
              busy \/ After(i, "scanned", Nowhere)

ListInv == ListFollowsAir /\ AirInOrder

\* A SCAN that was answered with OK is under way until its end is reported.
ScanUnderWay ==
    Alive => \A i \in DOMAIN inbox, c \in Callers :
        inbox[i].kind = "answer" /\ inbox[i].ok /\ Heads(c) /\ call[c].op = "scan" =>
            busy \/ After(i, "scanned", Nowhere)

WorkInv == WorkGoesOn /\ ScanUnderWay

\* Who knows of profile n: the caller that creates it, from the answer on, and after that
\* an entry that is not about to be erased because its profile was removed; or nobody,
\* since its creator gave up.
Removed(c) ==
    /\ call[c].op = "destroy" /\ ~call[c].stale
    /\ \/ call[c].answer = "ok"
       \/ Heads(c) /\ \E i \in DOMAIN inbox : inbox[i].kind = "answer" /\ inbox[i].ok

KnownForSure ==
    Alive => \A n \in profiles :
        \/ \E s \in Ssids : /\ enabled[s] = n
                            /\ \A c \in Callers : Removed(c) => call[c].ssid # s
        \/ \E c \in Callers : Creator(c, n)
        \/ n \in orphans

NumbersInOrder ==
    Alive =>
        /\ \A i \in DOMAIN inbox : inbox[i].kind # "answer" => inbox[i].number = Unset
        /\ \A c \in Callers :
              /\ call[c].op = "create" =>
                    /\ enabled[call[c].ssid] = Unset
                    /\ \A d \in Callers :
                          call[d].op = "create" /\ call[d].ssid = call[c].ssid => c = d
                    /\ call[c].answer = "none" => call[c].number = Unset
              /\ call[c].op \in {"destroying", "destroy"} /\ ~call[c].stale =>
                    enabled[call[c].ssid] \notin {None, Unset}
              /\ call[c].op = "destroy" /\ ~call[c].stale /\ call[c].answer = "none" =>
                    call[c].number = enabled[call[c].ssid]

ProfileInv == KnownForSure /\ NumbersInOrder

-----------------------------------------------------------------------------
(* Lists.                                                                  *)

\* What Append, Tail and Head do to the members of a list.
LEMMA Appended ==
    ASSUME NEW S, NEW s \in Seq(S), NEW e \in S
    PROVE  /\ Append(s, e) \in Seq(S) /\ Append(s, e) # <<>>
           /\ Len(s) \in Nat /\ Len(Append(s, e)) = Len(s) + 1
           /\ DOMAIN s = 1..Len(s) /\ DOMAIN Append(s, e) = 1..(Len(s) + 1)
           /\ \A i \in 1..Len(s) : Append(s, e)[i] = s[i]
           /\ Append(s, e)[Len(s) + 1] = e
           /\ ToSet(Append(s, e)) = ToSet(s) \cup {e}
           /\ s # <<>> => Head(Append(s, e)) = Head(s)
           /\ s = <<>> => Head(Append(s, e)) = e
  <1>1. /\ Append(s, e) \in Seq(S) /\ Append(s, e) # <<>>
        /\ Len(s) \in Nat /\ Len(Append(s, e)) = Len(s) + 1
        /\ DOMAIN s = 1..Len(s) /\ DOMAIN Append(s, e) = 1..(Len(s) + 1)
        /\ \A i \in 1..Len(s) : Append(s, e)[i] = s[i]
        /\ Append(s, e)[Len(s) + 1] = e
    BY AppendProperties, LenProperties
  <1>2. ToSet(Append(s, e)) = ToSet(s) \cup {e}
    BY <1>1 DEF ToSet
  <1>3. s # <<>> => Head(Append(s, e)) = Head(s)
    <2>1. s # <<>> => Head(s) = s[1] /\ Len(s) > 0
      BY HeadTailProperties, EmptySeq, <1>1
    <2>2. Head(Append(s, e)) = Append(s, e)[1]
      BY <1>1, HeadTailProperties
    <2> QED BY <1>1, <2>1, <2>2
  <1>4. s = <<>> => Head(Append(s, e)) = e
    <2>1. Head(Append(s, e)) = Append(s, e)[1]
      BY <1>1, HeadTailProperties
    <2>2. s = <<>> => Len(s) = 0
      BY EmptySeq
    <2> QED BY <1>1, <2>1, <2>2
  <1> QED BY <1>1, <1>2, <1>3, <1>4

LEMMA Taken ==
    ASSUME NEW S, NEW s \in Seq(S), s # <<>>
    PROVE  /\ Tail(s) \in Seq(S) /\ Head(s) \in S /\ Head(s) = s[1]
           /\ Len(s) \in Nat /\ Len(s) >= 1 /\ Len(Tail(s)) = Len(s) - 1
           /\ DOMAIN s = 1..Len(s) /\ DOMAIN Tail(s) = 1..(Len(s) - 1)
           /\ \A i \in 1..(Len(s) - 1) : Tail(s)[i] = s[i + 1]
           /\ ToSet(s) = {Head(s)} \cup ToSet(Tail(s))
  <1>1. /\ Tail(s) \in Seq(S) /\ Head(s) \in S /\ Head(s) = s[1]
        /\ Len(s) \in Nat /\ Len(s) >= 1 /\ Len(Tail(s)) = Len(s) - 1
        /\ DOMAIN s = 1..Len(s) /\ DOMAIN Tail(s) = 1..(Len(s) - 1)
        /\ \A i \in 1..(Len(s) - 1) : Tail(s)[i] = s[i + 1]
    BY HeadTailProperties, LenProperties, EmptySeq
  <1>2. ToSet(Tail(s)) = {s[i] : i \in 2..Len(s)}
    <2>1. ToSet(Tail(s)) = {Tail(s)[i] : i \in 1..(Len(s) - 1)}
      BY <1>1 DEF ToSet
    <2>2. \A i \in 1..(Len(s) - 1) : i + 1 \in 2..Len(s) /\ Tail(s)[i] = s[i + 1]
      BY <1>1
    <2>3. \A i \in 2..Len(s) : i - 1 \in 1..(Len(s) - 1) /\ Tail(s)[i - 1] = s[i]
      BY <1>1
    <2>4. ASSUME NEW x PROVE x \in ToSet(Tail(s)) <=> \E i \in 2..Len(s) : x = s[i]
      <3>1. x \in ToSet(Tail(s)) <=> \E i \in 1..(Len(s) - 1) : x = Tail(s)[i]
        BY <2>1
      <3>2. (\E i \in 1..(Len(s) - 1) : x = Tail(s)[i]) => \E i \in 2..Len(s) : x = s[i]
        BY <2>2
      <3>3. (\E i \in 2..Len(s) : x = s[i]) => \E i \in 1..(Len(s) - 1) : x = Tail(s)[i]
        BY <2>3
      <3> QED BY <3>1, <3>2, <3>3
    <2> QED BY <2>4
  <1>3. ToSet(s) = {s[i] : i \in 1..Len(s)}
    BY <1>1 DEF ToSet
  <1>4. 1..Len(s) = {1} \cup 2..Len(s)
    BY <1>1
  <1> QED BY <1>1, <1>2, <1>3, <1>4

\* A list without repetitions stays one.
LEMMA AppendDistinct ==
    ASSUME NEW S, NEW s \in Seq(S), IsInjective(s), NEW e \in S, e \notin ToSet(s)
    PROVE  IsInjective(Append(s, e))
  <1>1. \A i \in 1..Len(s) : s[i] # e
    BY Appended DEF ToSet
  <1> QED BY <1>1, Appended DEF IsInjective

LEMMA TailDistinct ==
    ASSUME NEW S, NEW s \in Seq(S), s # <<>>, IsInjective(s)
    PROVE  IsInjective(Tail(s)) /\ Head(s) \notin ToSet(Tail(s))
  <1>1. ASSUME NEW i \in DOMAIN Tail(s), NEW j \in DOMAIN Tail(s), Tail(s)[i] = Tail(s)[j]
        PROVE  i = j
    <2>1. s[i + 1] = s[j + 1] /\ i + 1 \in DOMAIN s /\ j + 1 \in DOMAIN s
      BY <1>1, Taken
    <2>2. i \in Nat /\ j \in Nat
      BY <1>1, Taken
    <2> QED BY <2>1, <2>2 DEF IsInjective
  <1>2. ASSUME NEW i \in DOMAIN Tail(s), Tail(s)[i] = Head(s) PROVE FALSE
    <2>1. s[i + 1] = s[1] /\ i + 1 \in DOMAIN s /\ 1 \in DOMAIN s /\ i \in Nat /\ i >= 1
      BY <1>2, Taken
    <2> QED BY <2>1 DEF IsInjective
  <1> QED BY <1>1, <1>2 DEF IsInjective, ToSet

\* One member is erased from a list without repetitions.
LEMMA Erased ==
    ASSUME NEW S, NEW s \in Seq(S), IsInjective(s), NEW i \in 1..Len(s)
    PROVE  /\ RemoveAt(s, i) \in Seq(S) /\ IsInjective(RemoveAt(s, i))
           /\ ToSet(RemoveAt(s, i)) = ToSet(s) \ {s[i]}
           /\ s # <<>> /\ (Head(s) # s[i] => RemoveAt(s, i) # <<>> /\ Head(RemoveAt(s, i)) = Head(s))
  <1> DEFINE a == SubSeq(s, 1, i - 1)
             b == SubSeq(s, i + 1, Len(s))
             t == RemoveAt(s, i)
  <1>0. /\ Len(s) \in Nat /\ i \in Nat /\ 1 <= i /\ i <= Len(s) /\ DOMAIN s = 1..Len(s)
        /\ s # <<>>
    BY LenProperties, EmptySeq
  <1>1. a \in Seq(S) /\ Len(a) = i - 1 /\ \A j \in 1..(i - 1) : a[j] = s[j]
    BY <1>0, SubSeqProperties
  <1>2. b \in Seq(S) /\ Len(b) = Len(s) - i /\ \A j \in 1..(Len(s) - i) : b[j] = s[i + j]
    <2>1. i + 1 \in Int /\ Len(s) \in Int /\ Len(s) - (i + 1) + 1 = Len(s) - i
      BY <1>0
    <2>2. \A j \in (i + 1)..Len(s) : s[j] \in S
      BY <1>0
    <2>3. /\ b \in Seq(S)
          /\ Len(b) = IF i + 1 <= Len(s) THEN Len(s) - (i + 1) + 1 ELSE 0
          /\ \A j \in 1..(Len(s) - (i + 1) + 1) : b[j] = s[(i + 1) + j - 1]
      BY <2>1, <2>2, SubSeqProperties
    <2> HIDE DEF b
    <2>4. Len(b) = Len(s) - i
      <3>1. CASE i + 1 <= Len(s)
        BY <2>1, <2>3, <3>1
      <3>2. CASE ~(i + 1 <= Len(s))
        <4>1. i = Len(s) /\ Len(s) - i = 0
          <5>1. \A n \in Nat : i <= n /\ ~(i + 1 <= n) => i = n /\ n - i = 0
            OBVIOUS
          <5> QED BY <1>0, <3>2, <5>1
        <4> QED BY <2>3, <3>2, <4>1
      <3> QED BY <3>1, <3>2
    <2>5. ASSUME NEW j \in 1..(Len(s) - i) PROVE b[j] = s[i + j]
      <3>1. j \in 1..(Len(s) - (i + 1) + 1)
        BY <2>1
      <3>2. (i + 1) + j - 1 = i + j
        BY <1>0
      <3> QED BY <2>3, <3>1, <3>2
    <2> QED BY <2>3, <2>4, <2>5
  <1>3. t = a \o b
    BY DEF RemoveAt
  <1> HIDE DEF a, b, t
  <1>4. t \in Seq(S) /\ Len(t) = Len(s) - 1 /\ DOMAIN t = 1..(Len(s) - 1)
    <2>1. t \in Seq(S) /\ Len(t) = Len(a) + Len(b)
      BY <1>1, <1>2, <1>3, ConcatProperties
    <2> QED BY <2>1, <1>0, <1>1, <1>2, LenProperties
  <1>5. ASSUME NEW j \in DOMAIN t
        PROVE  t[j] = s[IF j < i THEN j ELSE j + 1]
    <2>1. t[j] = IF j <= Len(a) THEN a[j] ELSE b[j - Len(a)]
      <3>1. \A k \in 1..(Len(a) + Len(b)) :
                (a \o b)[k] = IF k <= Len(a) THEN a[k] ELSE b[k - Len(a)]
        BY <1>1, <1>2, ConcatProperties
      <3>2. Len(a) + Len(b) = Len(s) - 1
        BY <1>0, <1>1, <1>2
      <3>3. j \in 1..(Len(a) + Len(b))
        BY <1>4, <3>2
      <3> QED BY <1>3, <3>1, <3>3
    <2>2. CASE j < i
      <3>1. j <= Len(a) /\ j \in 1..(i - 1)
        BY <2>2, <1>0, <1>1, <1>4
      <3> QED BY <2>1, <2>2, <3>1, <1>1
    <2>3. CASE j >= i
      <3>1. j - Len(a) \in 1..(Len(s) - i) /\ i + (j - Len(a)) = j + 1
        BY <2>3, <1>0, <1>1, <1>4
      <3>2. b[j - Len(a)] = s[j + 1]
        BY <3>1, <1>2
      <3> QED BY <2>1, <2>3, <3>2, <1>0, <1>1, <1>4
    <2>4. j < i \/ j >= i
      BY <1>0, <1>4
    <2> QED BY <2>2, <2>3, <2>4
  <1>6. ASSUME NEW j \in DOMAIN t
        PROVE  /\ j \in Nat /\ (IF j < i THEN j ELSE j + 1) \in DOMAIN s
               /\ (IF j < i THEN j ELSE j + 1) # i
    BY <1>0, <1>4
  <1>7. IsInjective(t)
    <2>1. ASSUME NEW j \in DOMAIN t, NEW k \in DOMAIN t, t[j] = t[k] PROVE j = k
      <3>1. (IF j < i THEN j ELSE j + 1) = (IF k < i THEN k ELSE k + 1)
        BY <1>5, <1>6, <2>1 DEF IsInjective
      <3> QED BY <1>0, <1>6, <3>1
    <2> QED BY <2>1 DEF IsInjective
  <1>8. ToSet(t) = ToSet(s) \ {s[i]}
    <2>1. ASSUME NEW j \in DOMAIN t PROVE t[j] \in ToSet(s) /\ t[j] # s[i]
      BY <1>0, <1>5, <1>6 DEF ToSet, IsInjective
    <2>2. ASSUME NEW j \in DOMAIN s, j # i PROVE s[j] \in ToSet(t)
      <3>1. CASE j < i
        BY <1>0, <1>4, <1>5, <3>1 DEF ToSet
      <3>2. CASE j > i
        <4>1. j - 1 \in DOMAIN t /\ ~(j - 1 < i) /\ (j - 1) + 1 = j
          BY <1>0, <1>4, <3>2
        <4>2. t[j - 1] = s[j]
          BY <1>5, <4>1
        <4> QED BY <4>1, <4>2 DEF ToSet
      <3> QED BY <1>0, <2>2, <3>1, <3>2
    <2> QED BY <2>1, <2>2 DEF ToSet
  <1>9. ASSUME Head(s) # s[i] PROVE t # <<>> /\ Head(t) = Head(s)
    <2>1. Head(s) = s[1] /\ i # 1
      BY <1>0, <1>9, Taken
    <2>2. 1 \in DOMAIN t /\ 1 < i
      BY <1>0, <1>4, <2>1
    <2>3. t[1] = s[1]
      BY <1>5, <2>2
    <2>4. t # <<>>
      BY <2>2, EmptySeq
    <2> QED BY <1>4, <2>1, <2>3, <2>4, Taken
  <1> QED BY <1>0, <1>4, <1>7, <1>8, <1>9 DEF t

\* The first member is replaced by one that is not in the list.
LEMMA Replaced ==
    ASSUME NEW S, NEW s \in Seq(S), s # <<>>, IsInjective(s), NEW e \in S, e \notin ToSet(s)
    PROVE  LET t == <<e>> \o Tail(s)
           IN  /\ t \in Seq(S) /\ IsInjective(t) /\ t # <<>> /\ Head(t) = e
               /\ ToSet(t) = (ToSet(s) \ {Head(s)}) \cup {e}
  <1> DEFINE t == <<e>> \o Tail(s)
             r == Tail(s)
  <1>1. /\ r \in Seq(S) /\ Len(s) \in Nat /\ Len(s) >= 1 /\ Len(r) = Len(s) - 1
        /\ DOMAIN r = 1..(Len(s) - 1) /\ ToSet(s) = {Head(s)} \cup ToSet(r)
        /\ IsInjective(r) /\ Head(s) \notin ToSet(r)
    BY Taken, TailDistinct
  <1>2. <<e>> \in Seq(S) /\ Len(<<e>>) = 1 /\ <<e>>[1] = e
    OBVIOUS
  <1> HIDE DEF r
  <1>3. /\ t \in Seq(S) /\ Len(t) = Len(s) /\ DOMAIN t = 1..Len(s)
        /\ \A j \in 1..Len(s) : t[j] = IF j <= 1 THEN <<e>>[j] ELSE r[j - 1]
    <2>1. t = <<e>> \o r
      BY DEF r
    <2>2. /\ <<e>> \o r \in Seq(S) /\ Len(<<e>> \o r) = 1 + Len(r)
          /\ \A j \in 1..(1 + Len(r)) :
                (<<e>> \o r)[j] = IF j <= 1 THEN <<e>>[j] ELSE r[j - 1]
      BY <1>1, <1>2, ConcatProperties
    <2> HIDE DEF t
    <2>3. 1 + Len(r) = Len(s)
      BY <1>1
    <2> QED BY <2>1, <2>2, <2>3, LenProperties
  <1> HIDE DEF t
  <1>4. t[1] = e /\ \A j \in 2..Len(s) : j - 1 \in DOMAIN r /\ t[j] = r[j - 1] /\ t[j] # e
    <2>1. t[1] = e
      BY <1>1, <1>2, <1>3
    <2>2. ASSUME NEW j \in 2..Len(s) PROVE j - 1 \in DOMAIN r /\ t[j] = r[j - 1]
      BY <1>1, <1>3
    <2>3. ASSUME NEW j \in DOMAIN r PROVE r[j] # e
      BY <1>1 DEF ToSet
    <2> QED BY <2>1, <2>2, <2>3
  <1>5. IsInjective(t)
    <2>1. ASSUME NEW j \in DOMAIN t, NEW k \in DOMAIN t, t[j] = t[k] PROVE j = k
      <3>1. j \in Nat /\ k \in Nat /\ (j = 1 \/ j \in 2..Len(s)) /\ (k = 1 \/ k \in 2..Len(s))
        BY <1>1, <1>3
      <3>2. CASE j \in 2..Len(s) /\ k \in 2..Len(s)
        <4>1. j - 1 = k - 1
          BY <1>1, <1>4, <2>1, <3>2 DEF IsInjective
        <4> QED BY <3>1, <4>1
      <3> QED BY <1>4, <2>1, <3>1, <3>2
    <2> QED BY <2>1 DEF IsInjective
  <1>6. ToSet(t) = ToSet(r) \cup {e}
    <2>1. ASSUME NEW j \in DOMAIN t PROVE t[j] \in ToSet(r) \cup {e}
      <3>1. j = 1 \/ j \in 2..Len(s)
        BY <1>1, <1>3
      <3> QED BY <1>4, <3>1 DEF ToSet
    <2>2. ASSUME NEW j \in DOMAIN r PROVE r[j] \in ToSet(t)
      <3>1. j + 1 \in 2..Len(s) /\ (j + 1) - 1 = j /\ j + 1 \in DOMAIN t
        BY <1>1, <1>3
      <3>2. t[j + 1] = r[j]
        BY <1>4, <3>1
      <3> QED BY <3>1, <3>2 DEF ToSet
    <2>3. e \in ToSet(t)
      BY <1>1, <1>3, <1>4 DEF ToSet
    <2> QED BY <2>1, <2>2, <2>3 DEF ToSet
  <1>7. t # <<>> /\ Head(t) = e
    <2>1. t # <<>>
      BY <1>1, <1>3, EmptySeq
    <2> QED BY <1>3, <1>4, <2>1, Taken
  <1> QED BY <1>1, <1>3, <1>5, <1>6, <1>7 DEF t

-----------------------------------------------------------------------------
(* The list of requests.                                                   *)

Requests == Internal \cup Callers

BoxInv ==
    /\ box \in Seq(Requests) /\ IsInjective(box)
    /\ asked \in Bss \cup {Nowhere}
    /\ "detail" \in ToSet(box) => asked \in Bss

LEMMA BoxAppends ==
    ASSUME BoxInv, NEW r \in Requests, r \notin ToSet(box), box' = Append(box, r),
           IF r = "detail" THEN asked' \in Bss ELSE asked' = asked
    PROVE  BoxInv' /\ ToSet(box)' = ToSet(box) \cup {r}
  <1>1. box' \in Seq(Requests) /\ ToSet(box') = ToSet(box) \cup {r}
    BY Appended DEF BoxInv
  <1>2. IsInjective(box')
    BY AppendDistinct DEF BoxInv
  <1>3. ToSet(box)' = ToSet(box') /\ IsInjective(box)' = IsInjective(box')
    BY DEF ToSet, IsInjective
  <1> QED BY <1>1, <1>2, <1>3 DEF BoxInv

LEMMA BoxTakes ==
    ASSUME BoxInv, box # <<>>, box' = Tail(box),
           asked' = asked \/ (Head(box) = "detail" /\ asked' = Nowhere)
    PROVE  BoxInv' /\ ToSet(box)' = ToSet(box) \ {Head(box)}
  <1>1. box' \in Seq(Requests) /\ ToSet(box) = {Head(box)} \cup ToSet(box')
    BY Taken DEF BoxInv
  <1>2. IsInjective(box') /\ Head(box) \notin ToSet(box')
    BY TailDistinct DEF BoxInv
  <1>3. ToSet(box)' = ToSet(box') /\ IsInjective(box)' = IsInjective(box')
    BY DEF ToSet, IsInjective
  <1> QED BY <1>1, <1>2, <1>3 DEF BoxInv

\* A caller takes its request out of the list, or leaves a late command in its place.
Abandons(c) ==
    /\ asked' = asked
    /\ \/ /\ Heads(c) /\ "late" \notin ToSet(box)
          /\ box' = <<"late">> \o Tail(box)
       \/ /\ answered => Head(box) # c
          /\ \E i \in DOMAIN box : box[i] = c /\ box' = RemoveAt(box, i)

LEMMA BoxAbandons ==
    ASSUME BoxInv, answered => box # <<>>, NEW c \in Callers, Abandons(c)
    PROVE  /\ BoxInv'
           /\ ToSet(box)' \subseteq (ToSet(box) \ {c}) \cup {"late"}
           /\ ToSet(box) \ {c} \subseteq ToSet(box)'
           /\ answered => /\ box # <<>> /\ box' # <<>>
                          /\ Head(box') = Head(box) \/ (Head(box) = c /\ Head(box') = "late")
  <1> USE NetworksAssumption
  <1>1. /\ box \in Seq(Requests) /\ IsInjective(box) /\ asked' = asked
        /\ "late" \in Requests /\ c # "late" /\ c # "detail"
    BY DEF BoxInv, Abandons, Requests, Internal
  <1>2. ToSet(box)' = ToSet(box') /\ IsInjective(box)' = IsInjective(box')
    BY DEF ToSet, IsInjective
  <1>3. CASE Heads(c) /\ "late" \notin ToSet(box) /\ box' = <<"late">> \o Tail(box)
    <2>1. /\ box' \in Seq(Requests) /\ IsInjective(box') /\ box' # <<>> /\ Head(box') = "late"
          /\ ToSet(box') = (ToSet(box) \ {c}) \cup {"late"}
      BY <1>1, <1>3, Replaced DEF Heads
    <2> QED BY <1>1, <1>2, <1>3, <2>1 DEF BoxInv, Heads
  <1>4. CASE /\ answered => Head(box) # c
             /\ \E i \in DOMAIN box : box[i] = c /\ box' = RemoveAt(box, i)
    <2>1. PICK i \in DOMAIN box : box[i] = c /\ box' = RemoveAt(box, i)
      BY <1>4
    <2>2. i \in 1..Len(box)
      BY <1>1, LenProperties
    <2>3. /\ box' \in Seq(Requests) /\ IsInjective(box') /\ ToSet(box') = ToSet(box) \ {c}
          /\ Head(box) # c => box' # <<>> /\ Head(box') = Head(box)
      BY <1>1, <2>1, <2>2, Erased
    <2> QED BY <1>1, <1>2, <1>4, <2>3 DEF BoxInv
  <1> QED BY <1>3, <1>4 DEF Abandons

\* Reevaluate keeps what is left of the list and may append to it.
LEMMA ReevaluateKeeps ==
    ASSUME BoxInv, box # <<>>, NEW l, NEW e, Reevaluate(l, e, Tail(box))
    PROVE  /\ BoxInv'
           /\ ToSet(box) \ {Head(box)} \subseteq ToSet(box)'
           /\ ToSet(box)' \subseteq (ToSet(box) \ {Head(box)}) \cup {"detail", "network"}
           /\ "detail" \in ToSet(box) /\ Head(box) # "detail" => asked' = asked
           /\ Bare(l) # {} => "detail" \in ToSet(box)'
           /\ race' \in {race, "null dispatch"}
  <1>1. PICK q \in Seq(Requests) : q = Tail(box)
    BY Taken DEF BoxInv
  <1>2. /\ ToSet(box) = {Head(box)} \cup ToSet(q) /\ Head(box) \notin ToSet(q)
        /\ IsInjective(q)
    BY <1>1, Taken, TailDistinct DEF BoxInv
  <1>3. /\ asked \in Bss \cup {Nowhere}
        /\ "detail" \in ToSet(q) => asked \in Bss
        /\ "detail" \in Requests /\ "network" \in Requests
    BY <1>2 DEF BoxInv, Requests, Internal
  <1>4. ToSet(box)' = ToSet(box') /\ IsInjective(box)' = IsInjective(box')
    BY DEF ToSet, IsInjective
  <1>5. CASE Bare(l) # {} /\ "detail" \in ToSet(q)
    <2>1. box' = q /\ asked' = asked /\ race' = race
      BY <1>1, <1>5 DEF Reevaluate
    <2> QED BY <1>2, <1>3, <1>4, <1>5, <2>1 DEF BoxInv
  <1>6. CASE Bare(l) # {} /\ "detail" \notin ToSet(q)
    <2>1. /\ box' = Append(q, "detail") /\ asked' \in Bare(l) /\ race' = race
      BY <1>1, <1>6 DEF Reevaluate
    <2>2. asked' \in Bss
      BY <2>1 DEF Bare
    <2>3. /\ box' \in Seq(Requests) /\ ToSet(box') = ToSet(q) \cup {"detail"}
          /\ IsInjective(box')
      BY <1>2, <1>3, <1>6, <2>1, Appended, AppendDistinct
    <2> QED BY <1>2, <1>3, <1>4, <1>6, <2>1, <2>2, <2>3 DEF BoxInv
  <1>7. CASE Bare(l) = {}
    <2>1. /\ \/ box' = q
             \/ "network" \notin ToSet(q) /\ box' = Append(q, "network")
          /\ asked' = IF "detail" \in ToSet(q) THEN asked ELSE Nowhere
          /\ race' \in {race, "null dispatch"}
      <3>1. \/ /\ box' = IF "network" \in ToSet(q) THEN q ELSE Append(q, "network")
               /\ asked' = StillAsked(q) /\ race' = race
            \/ /\ race' = IF phase = "running" THEN race ELSE "null dispatch"
               /\ box' = q /\ asked' = StillAsked(q)
        BY <1>1, <1>7 DEF Reevaluate
      <3>2. /\ \/ box' = q
               \/ "network" \notin ToSet(q) /\ box' = Append(q, "network")
            /\ race' \in {race, "null dispatch"}
        BY <3>1
      <3> QED BY <3>1, <3>2 DEF StillAsked
    <2>2. CASE box' = q
      BY <1>2, <1>3, <1>4, <1>7, <2>1, <2>2 DEF BoxInv
    <2>3. CASE "network" \notin ToSet(q) /\ box' = Append(q, "network")
      <3>1. /\ box' \in Seq(Requests) /\ ToSet(box') = ToSet(q) \cup {"network"}
            /\ IsInjective(box')
        BY <1>2, <1>3, <2>3, Appended, AppendDistinct
      <3> QED BY <1>2, <1>3, <1>4, <1>7, <2>1, <3>1 DEF BoxInv
    <2> QED BY <2>1, <2>2, <2>3
  <1> QED BY <1>5, <1>6, <1>7

-----------------------------------------------------------------------------
(* The socket.                                                             *)

InboxInv ==
    /\ inbox \in Seq(Messages) /\ answered \in BOOLEAN
    /\ MessagesOfBss
    /\ \A i \in DOMAIN inbox : inbox[i].kind = "answer" =>
          answered /\ \A j \in DOMAIN inbox : inbox[j].kind = "answer" => i = j

\* A datagram is sent, an answer only where there is none yet.
Sends(m) ==
    /\ m \in Messages /\ (m.kind # "scanned" => m.about \subseteq Bss)
    /\ inbox' = Append(inbox, m)
    /\ IF m.kind = "answer" THEN ~answered /\ answered' = TRUE ELSE answered' = answered

\* The oldest datagram is received.
Receives ==
    /\ inbox # <<>> /\ inbox' = Tail(inbox)
    /\ IF Head(inbox).kind = "answer" THEN answered' = FALSE ELSE answered' = answered

LEMMA InboxSends ==
    ASSUME InboxInv, NEW m, Sends(m)
    PROVE  /\ InboxInv'
           /\ Len(inbox) \in Nat /\ DOMAIN inbox = 1..Len(inbox)
           /\ DOMAIN inbox' = 1..(Len(inbox) + 1)
           /\ \A i \in DOMAIN inbox : i \in DOMAIN inbox' /\ inbox'[i] = inbox[i]
           /\ inbox'[Len(inbox) + 1] = m
  <1>1. /\ inbox' \in Seq(Messages)
        /\ Len(inbox) \in Nat /\ DOMAIN inbox = 1..Len(inbox)
        /\ DOMAIN inbox' = 1..(Len(inbox) + 1)
        /\ \A i \in 1..Len(inbox) : inbox'[i] = inbox[i]
        /\ inbox'[Len(inbox) + 1] = m
    BY Appended DEF InboxInv, Sends
  <1>2. \A i \in DOMAIN inbox' : i \in DOMAIN inbox \/ i = Len(inbox) + 1
    BY <1>1
  <1>3. answered' \in BOOLEAN
    BY DEF InboxInv, Sends
  <1>4. MessagesOfBss'
    BY <1>1, <1>2 DEF InboxInv, Sends, MessagesOfBss
  <1>5. ASSUME NEW i \in DOMAIN inbox', inbox'[i].kind = "answer"
        PROVE  answered' /\ \A j \in DOMAIN inbox' : inbox'[j].kind = "answer" => i = j
    BY <1>1, <1>2, <1>5 DEF InboxInv, Sends
  <1> QED BY <1>1, <1>3, <1>4, <1>5 DEF InboxInv

LEMMA InboxReceives ==
    ASSUME InboxInv, Receives
    PROVE  /\ InboxInv'
           /\ Head(inbox) \in Messages /\ Head(inbox) = inbox[1] /\ 1 \in DOMAIN inbox
           /\ Len(inbox) \in Nat /\ DOMAIN inbox = 1..Len(inbox)
           /\ DOMAIN inbox' = 1..(Len(inbox) - 1)
           /\ \A i \in DOMAIN inbox' : i + 1 \in DOMAIN inbox /\ inbox'[i] = inbox[i + 1]
           /\ Head(inbox).kind # "scanned" => Head(inbox).about \subseteq Bss
           /\ Head(inbox).kind = "answer" =>
                 answered /\ \A i \in DOMAIN inbox' : inbox'[i].kind # "answer"
  <1>1. /\ inbox' \in Seq(Messages) /\ Head(inbox) \in Messages /\ Head(inbox) = inbox[1]
        /\ Len(inbox) \in Nat /\ Len(inbox) >= 1 /\ DOMAIN inbox = 1..Len(inbox)
        /\ DOMAIN inbox' = 1..(Len(inbox) - 1)
        /\ \A i \in 1..(Len(inbox) - 1) : inbox'[i] = inbox[i + 1]
    BY Taken DEF InboxInv, Receives
  <1>2. /\ \A i \in DOMAIN inbox' : /\ i \in Nat /\ i >= 1 /\ i + 1 \in DOMAIN inbox
                                    /\ inbox'[i] = inbox[i + 1]
        /\ 1 \in DOMAIN inbox
    BY <1>1
  <1>3. answered' \in BOOLEAN
    BY DEF InboxInv, Receives
  <1>4. MessagesOfBss'
    BY <1>2 DEF InboxInv, MessagesOfBss
  <1>5. Head(inbox).kind = "answer" =>
            answered /\ \A i \in DOMAIN inbox' : inbox'[i].kind # "answer"
    BY <1>1, <1>2 DEF InboxInv
  <1>6. ASSUME NEW i \in DOMAIN inbox', inbox'[i].kind = "answer"
        PROVE  answered' /\ \A j \in DOMAIN inbox' : inbox'[j].kind = "answer" => i = j
    <2>1. answered' = answered /\ answered
      BY <1>2, <1>5, <1>6 DEF InboxInv, Receives
    <2>2. ASSUME NEW j \in DOMAIN inbox', inbox'[j].kind = "answer" PROVE i = j
      <3>1. i + 1 = j + 1 /\ i \in Nat /\ j \in Nat
        BY <1>2, <1>6, <2>2 DEF InboxInv
      <3> QED BY <3>1
    <2> QED BY <2>1, <2>2
  <1>7. Head(inbox).kind # "scanned" => Head(inbox).about \subseteq Bss
    BY <1>1, <1>2 DEF InboxInv, MessagesOfBss
  <1> QED BY <1>1, <1>2, <1>3, <1>4, <1>5, <1>6, <1>7 DEF InboxInv

\* What a command of a caller does.
LEMMA ExecutedCommand ==
    ASSUME TypeInv, NEW k, Executes(k)
    PROVE  /\ \/ \E ok \in BOOLEAN : Tell(Answer(ok))
              \/ \E n \in Profiles : Tell([Answer(TRUE) EXCEPT !.number = n])
           /\ profiles' \subseteq Profiles
           /\ busy' \in BOOLEAN /\ (busy => busy')
  <1>0. NextProfile \subseteq Profiles /\ profiles \subseteq Profiles /\ busy \in BOOLEAN
    BY DEF NextProfile, TypeInv, TypeOK
  <1>1. ASSUME NEW ok \in BOOLEAN, Tell(Answer(ok)) PROVE \E q \in BOOLEAN : Tell(Answer(q))
    BY <1>1, Zenon
  <1>2. CASE k.op = "scan"
    <2>1. PICK ok \in BOOLEAN : Tell(Answer(ok)) /\ busy' = (busy \/ ok)
      BY <1>2 DEF Executes
    <2>2. profiles' = profiles
      BY <1>2 DEF Executes
    <2> QED BY <1>0, <1>1, <2>1, <2>2
  <1>3. CASE k.op = "create"
    <2>1. UNCHANGED busy
      BY <1>3 DEF Executes
    <2>2. \/ Tell(Answer(FALSE)) /\ UNCHANGED profiles
          \/ \E n \in NextProfile : /\ Tell([Answer(TRUE) EXCEPT !.number = n])
                                     /\ profiles' = profiles \cup {n}
      BY <1>3 DEF Executes
    <2>3. CASE Tell(Answer(FALSE)) /\ UNCHANGED profiles
      BY <1>0, <1>1, <2>1, <2>3
    <2>4. CASE \E n \in NextProfile : /\ Tell([Answer(TRUE) EXCEPT !.number = n])
                                       /\ profiles' = profiles \cup {n}
      BY <1>0, <2>1, <2>4
    <2> QED BY <2>2, <2>3, <2>4
  <1>4. CASE k.op = "destroy"
    <2>1. (k.number \in profiles) \in BOOLEAN
      OBVIOUS
    <2>2. Tell(Answer(k.number \in profiles))
      BY <1>4, Zenon DEF Executes
    <2>3. profiles' = profiles \ {k.number} /\ UNCHANGED busy
      BY <1>4 DEF Executes
    <2>4. \E ok \in BOOLEAN : Tell(Answer(ok))
      BY <2>1, <2>2, Zenon
    <2> QED BY <1>0, <2>3, <2>4
  <1>5. CASE k.op = "use"
    <2>1. UNCHANGED <<profiles, busy>>
      BY <1>5 DEF Executes
    <2>2. \E ok \in {FALSE, k.number \in profiles} : Tell(Answer(ok))
      BY <1>5, Zenon DEF Executes
    <2>3. {FALSE, k.number \in profiles} \subseteq BOOLEAN
      OBVIOUS
    <2>4. \E ok \in BOOLEAN : Tell(Answer(ok))
      BY <2>2, <2>3, Zenon
    <2> QED BY <1>0, <2>1, <2>4
  <1> QED BY <1>2, <1>3, <1>4, <1>5 DEF Executes

\* What every action does with the socket.
LEMMA SocketSteps ==
    ASSUME TypeInv, Next
    PROVE  \/ UNCHANGED <<inbox, answered>>
           \/ Destruct /\ inbox' = <<>> /\ answered' = FALSE
           \/ Receive /\ Receives
           \/ \E m : Sends(m)
  <1> USE NetworksAssumption DEF socket
  <1>1. UNCHANGED vars => UNCHANGED <<inbox, answered>>
    BY DEF vars
  <1>2. (Initialize \/ Deinitialize \/ BeginScan) => UNCHANGED <<inbox, answered>>
    BY DEF Initialize, Deinitialize, BeginScan
  <1>3. Destruct => inbox' = <<>> /\ answered' = FALSE
    BY DEF Destruct
  <1>4. ASSUME NEW c \in Callers, Caller(c) PROVE UNCHANGED <<inbox, answered>>
    BY <1>4 DEF Caller, GiveUp, Scan, Activated, FinishScan, FinishCreate, RemoveNetwork,
                FinishDestroy, FinishUse, Create, Destroy, Use
  <1>5. ASSUME Receive PROVE Receives
    BY <1>5 DEF Receive, BssAdded, BssRemoved, ScanDone, CompleteScan, CompleteDetail,
                CompleteNetwork, CompleteLate, CompleteCaller, Completes, Receives
  <1>6. ASSUME NEW b \in Bss, Appear(b) \/ Disappear(b) PROVE \E m : Sends(m)
    <2>1. Event("added", b) \in Messages /\ Event("removed", b) \in Messages
      BY DEF Event, Messages, Ids, Names
    <2> QED BY <1>6, <2>1 DEF Appear, Disappear, Tell, Sends, Event
  <1>7. ASSUME EndScan PROVE \E m : Sends(m)
    <2>1. Event("scanned", Nowhere) \in Messages
      BY DEF Event, Messages, Ids, Names
    <2> QED BY <1>7, <2>1 DEF EndScan, Tell, Sends, Event
  <1>8. ASSUME NEW m \in Messages, m.kind = "answer", m.about \subseteq Bss, Tell(m),
               ~answered, answered' = TRUE
        PROVE  \E n : Sends(n)
    BY <1>8 DEF Tell, Sends
  <1>9. ASSUME NEW ok \in BOOLEAN
        PROVE  /\ Answer(ok) \in Messages /\ Answer(ok).kind = "answer"
               /\ Answer(ok).about \subseteq Bss
    BY DEF Answer, Messages, Ids, Names
  <1>10. ASSUME AnswerInternal PROVE \E m : Sends(m)
    <2>1. ~answered /\ answered' = TRUE
      BY <1>10 DEF AnswerInternal, Answers
    <2>2. air \subseteq Bss
      BY DEF TypeInv, TypeOK
    <2>3. LET m == [Answer(TRUE) EXCEPT !.about = air]
          IN  m \in Messages /\ m.kind = "answer" /\ m.about \subseteq Bss
      BY <2>2 DEF Answer, Messages, Ids, Names
    <2>4. ASSUME NEW s \in Names
          PROVE  LET m == [Answer(TRUE) EXCEPT !.name = s]
                 IN  m \in Messages /\ m.kind = "answer" /\ m.about \subseteq Bss
      BY DEF Answer, Messages, Ids
    <2>5. \/ Tell([Answer(TRUE) EXCEPT !.about = air])
          \/ \E ok \in BOOLEAN : Tell(Answer(ok))
          \/ \E s \in Names : Tell([Answer(TRUE) EXCEPT !.name = s])
      <3>1. (asked \in air) \in BOOLEAN
        OBVIOUS
      <3>2. \/ Tell([Answer(TRUE) EXCEPT !.about = air])
            \/ Tell(Answer(asked \in air)) \/ Tell(Answer(FALSE))
            \/ \E s \in Names : Tell([Answer(TRUE) EXCEPT !.name = s])
        BY <1>10, Zenon DEF AnswerInternal
      <3> QED BY <3>1, <3>2, Zenon
    <2> QED BY <1>8, <1>9, <2>1, <2>3, <2>4, <2>5
  <1>11. ASSUME AnswerLate \/ \E c \in Callers : AnswerCaller(c) PROVE \E m : Sends(m)
    <2>1. ~answered /\ answered' = TRUE
      BY <1>11 DEF AnswerCaller, AnswerLate, Answers
    <2>2. ASSUME NEW n \in Profiles
          PROVE  LET m == [Answer(TRUE) EXCEPT !.number = n]
                 IN  m \in Messages /\ m.kind = "answer" /\ m.about \subseteq Bss
      BY DEF Answer, Messages, Ids, Names
    <2>3. PICK k : Executes(k)
      BY <1>11 DEF AnswerCaller, AnswerLate
    <2>4. \/ \E ok \in BOOLEAN : Tell(Answer(ok))
          \/ \E n \in Profiles : Tell([Answer(TRUE) EXCEPT !.number = n])
      BY <2>3, ExecutedCommand
    <2> QED BY <1>8, <1>9, <2>1, <2>2, <2>4
  <1> QED BY <1>1, <1>2, <1>3, <1>4, <1>5, <1>6, <1>7, <1>10, <1>11
          DEF Next, Stopped, Supplicant

\* A request is made that is not in the list, and one is completed.
Demands(r) ==
    /\ r \in Requests /\ r \notin ToSet(box)
    /\ box' = Append(box, r)
    /\ IF r = "detail" THEN asked' \in Bss ELSE asked' = asked

Finishes ==
    /\ box # <<>> /\ box' = Tail(box)
    /\ asked' = asked \/ (Head(box) = "detail" /\ asked' = Nowhere)

GoesOnWith(l, e) == box # <<>> /\ Reevaluate(l, e, Tail(box))

\* The actions that complete a request, and those that leave the list as it is or add to it.
Completion ==
    \/ CompleteScan \/ CompleteDetail \/ CompleteNetwork \/ CompleteLate
    \/ \E c \in Callers : CompleteCaller(c)

Others ==
    \/ Initialize \/ Deinitialize \/ Supplicant \/ UNCHANGED vars
    \/ BssAdded \/ BssRemoved \/ ScanDone \/ \E c \in Callers : Caller(c)

LEMMA Actions == Next => Others \/ Completion \/ Destruct \/ Stopped
  BY DEF Next, Others, Completion, Receive, Stopped

LEMMA GivesUp ==
    ASSUME TypeInv, NEW c \in Callers, GiveUp(c)
    PROVE  /\ UNCHANGED <<box, asked>> \/ Abandons(c)
           /\ answered' = answered
           /\ call' = [call EXCEPT ![c].answer = "fail", ![c].number = Unset]
           /\ c \notin ToSet(box)'
  <1>0. BoxInv /\ (answered => box # <<>>)
    BY DEF TypeInv, TypeOK, BoxInv, BoxUnique, OneAnswer, Requests
  <1>1. /\ asked' = asked /\ answered' = answered
        /\ call' = [call EXCEPT ![c].answer = "fail", ![c].number = Unset]
    BY DEF GiveUp, socket
  <1>2. CASE Abandons(c)
    <2>1. c # "late"
      BY NetworksAssumption DEF Internal
    <2> QED BY <1>0, <1>1, <1>2, <2>1, BoxAbandons
  <1>3. CASE c \notin ToSet(box) /\ UNCHANGED box
    BY <1>1, <1>3 DEF ToSet
  <1>4. Abandons(c) \/ (c \notin ToSet(box) /\ UNCHANGED box)
    BY <1>1 DEF GiveUp, Abandons, Heads
  <1> QED BY <1>1, <1>2, <1>3, <1>4

LEMMA RequestsAdded ==
    ASSUME TypeInv, Others
    PROVE  \/ UNCHANGED <<box, asked>> /\ (answered' => answered \/ box # <<>>)
           \/ (\E r : Demands(r)) /\ answered' = answered
           \/ (\E c \in Callers : GiveUp(c) /\ Abandons(c)) /\ answered' = answered
  <1> USE NetworksAssumption DEF requests, socket
  <1>0. /\ Callers \subseteq Requests /\ Internal \subseteq Requests
        /\ \A c \in Callers : c \notin Internal
        /\ "scan" \in Internal /\ "detail" \in Internal /\ "network" \in Internal
        /\ \A c \in Callers : c # "detail"
    BY DEF Requests, Internal
  <1>1. \A c \in Callers : call[c].op \in {"idle", "activating", "destroying"} \/
                           call[c].answer # "none" => c \notin ToSet(box)
    BY DEF TypeInv, CallersWait
  <1>2. UNCHANGED vars => UNCHANGED <<box, asked, answered>>
    BY DEF vars
  <1>3. ASSUME Initialize \/ Deinitialize \/ BeginScan \/ EndScan \/ BssRemoved
        PROVE  UNCHANGED <<box, asked, answered>>
    BY <1>3 DEF Initialize, Deinitialize, BeginScan, EndScan, BssRemoved
  <1>4. ASSUME NEW b \in Bss, Appear(b) \/ Disappear(b) PROVE UNCHANGED <<box, asked, answered>>
    BY <1>4 DEF Appear, Disappear
  <1>5. ASSUME NEW r, Answers(r) PROVE UNCHANGED <<box, asked>> /\ box # <<>>
    BY <1>5 DEF Answers
  <1>6. ASSUME AnswerInternal \/ AnswerLate \/ \E c \in Callers : AnswerCaller(c)
        PROVE  UNCHANGED <<box, asked>> /\ box # <<>>
    BY <1>5, <1>6 DEF AnswerInternal, AnswerCaller, AnswerLate
  <1>8. ASSUME NEW c \in Callers, Caller(c)
        PROVE  /\ \/ UNCHANGED <<box, asked>> \/ \E r : Demands(r)
                  \/ GiveUp(c) /\ Abandons(c)
               /\ answered' = answered
    <2>1. CASE Scan(c) \/ FinishScan(c) \/ FinishCreate(c) \/ FinishDestroy(c)
                 \/ \E s \in Ssids : Destroy(c, s)
      BY <2>1 DEF Scan, FinishScan, FinishCreate, FinishDestroy, Destroy
    <2>2. CASE Activated(c) \/ \E s \in Ssids : Create(c, s) \/ Use(c, s)
      <3>1. box' = Append(box, c) /\ asked' = asked /\ answered' = answered
        BY <2>2 DEF Activated, Create, Use
      <3>2. call[c].op \in {"idle", "activating"}
        <4>1. call[c].op = "activating" \/ call[c] = Idle
          BY <2>2 DEF Activated, Create, Use, CanCall
        <4> QED BY <4>1 DEF Idle
      <3>3. Demands(c)
        BY <1>0, <1>1, <3>1, <3>2 DEF Demands
      <3> QED BY <3>1, <3>3
    <2>3. CASE RemoveNetwork(c)
      <3>1. box' = Append(box, c) /\ asked' = asked /\ answered' = answered
        BY <2>3 DEF RemoveNetwork, Submitted
      <3>2. call[c].op = "destroying"
        BY <2>3 DEF RemoveNetwork
      <3>3. Demands(c)
        BY <1>0, <1>1, <3>1, <3>2 DEF Demands
      <3> QED BY <3>1, <3>3
    <2>4. CASE FinishUse(c)
      <3>1. /\ asked' = asked /\ answered' = answered /\ call[c].answer # "none"
            /\ \/ box' = box
               \/ box' = Append(box, c)
               \/ "network" \notin ToSet(box) /\ box' = Append(box, "network")
        BY <2>4 DEF FinishUse, Submitted
      <3>2. CASE box' = Append(box, c)
        BY <1>0, <1>1, <3>1, <3>2 DEF Demands
      <3>3. CASE "network" \notin ToSet(box) /\ box' = Append(box, "network")
        BY <1>0, <3>1, <3>3 DEF Demands
      <3> QED BY <3>1, <3>2, <3>3
    <2>5. CASE GiveUp(c)
      BY <2>5, GivesUp
    <2> QED BY <1>8, <2>1, <2>2, <2>3, <2>4, <2>5 DEF Caller
  <1>9. ASSUME BssAdded \/ ScanDone
        PROVE  (UNCHANGED <<box, asked>> \/ \E r : Demands(r)) /\ answered' = answered
    <2>1. CASE BssAdded
      <3>1. Receives
        <4>1. /\ inbox # <<>> /\ inbox' = Tail(inbox) /\ answered' = answered
              /\ Head(inbox).kind = "added"
          BY <2>1 DEF BssAdded
        <4> QED BY <4>1 DEF Receives
      <3>2. InboxInv
        BY DEF TypeInv, TypeOK, OneAnswer, InboxInv
      <3>3. Head(inbox).about \subseteq Bss
        BY <2>1, <3>1, <3>2, InboxReceives DEF BssAdded
      <3>4. /\ answered' = answered
            /\ \/ UNCHANGED <<box, asked>>
               \/ /\ "detail" \notin ToSet(box) /\ box' = Append(box, "detail")
                  /\ asked' \in Head(inbox).about
        BY <2>1 DEF BssAdded
      <3>5. CASE "detail" \notin ToSet(box) /\ box' = Append(box, "detail")
                   /\ asked' \in Head(inbox).about
        BY <1>0, <3>3, <3>4, <3>5 DEF Demands
      <3> QED BY <2>1, <3>4, <3>5 DEF BssAdded
    <2>2. CASE ScanDone
      BY <1>0, <2>2 DEF ScanDone, Demands
    <2> QED BY <1>9, <2>1, <2>2
  <1> QED BY <1>2, <1>3, <1>4, <1>6, <1>8, <1>9 DEF Others, Supplicant

LEMMA RequestsCompleted ==
    ASSUME TypeInv, Completion
    PROVE  (Finishes \/ \E l : \E e : GoesOnWith(l, e)) /\ answered' = FALSE
  <1>1. ASSUME NEW r, Completes(r) PROVE box # <<>> /\ Head(box) = r /\ answered' = FALSE
    BY <1>1 DEF Completes
  <1>2. CASE CompleteScan
    <2>1. \/ box' = Tail(box) /\ asked' = asked
          \/ \E first : Reevaluate([listed EXCEPT ![first] = "bare"], enabled, Tail(box))
      BY <1>2 DEF CompleteScan
    <2> QED BY <1>1, <1>2, <2>1 DEF CompleteScan, Finishes, GoesOnWith
  <1>3. CASE CompleteDetail
    <2>1. \/ box' = Tail(box) /\ asked' = Nowhere
          \/ \E l : Reevaluate(l, enabled, Tail(box))
      BY <1>3 DEF CompleteDetail
    <2> QED BY <1>1, <1>3, <2>1 DEF CompleteDetail, Finishes, GoesOnWith
  <1>4. CASE CompleteNetwork
    <2>1. \/ box' = Tail(box) /\ asked' = asked
          \/ \E e : Reevaluate(listed, e, Tail(box))
      BY <1>4 DEF CompleteNetwork
    <2> QED BY <1>1, <1>4, <2>1 DEF CompleteNetwork, Finishes, GoesOnWith
  <1>5. CASE \E c \in Callers : CompleteCaller(c)
    <2>1. box' = Tail(box) /\ asked' = asked
      BY <1>5 DEF CompleteCaller
    <2> QED BY <1>1, <1>5, <2>1 DEF CompleteCaller, Finishes
  <1>6. CASE CompleteLate
    <2>1. box' = Tail(box) /\ asked' = asked
      BY <1>6 DEF CompleteLate
    <2> QED BY <1>1, <1>6, <2>1 DEF CompleteLate, Finishes
  <1> QED BY <1>2, <1>3, <1>4, <1>5, <1>6 DEF Completion

\* What every action does with the list of requests.
LEMMA BoxSteps ==
    ASSUME TypeInv, Next
    PROVE  \/ UNCHANGED <<box, asked>> /\ (answered' => answered \/ box # <<>>)
           \/ (\E r : Demands(r)) /\ answered' = answered
           \/ (\E c \in Callers : GiveUp(c) /\ Abandons(c)) /\ answered' = answered
           \/ (Finishes \/ \E l : \E e : GoesOnWith(l, e)) /\ answered' = FALSE
           \/ box' = <<>> /\ asked' = Nowhere /\ answered' = FALSE
  <1>1. Destruct => box' = <<>> /\ asked' = Nowhere /\ answered' = FALSE
    BY DEF Destruct
  <1>2. Stopped => Others
    BY DEF Stopped, Others
  <1> QED BY <1>1, <1>2, Actions, RequestsAdded, RequestsCompleted

\* The list of requests and the socket stay as they should.
LEMMA BoxAndInbox ==
    ASSUME TypeInv, Next
    PROVE  /\ BoxInv' /\ InboxInv' /\ (answered' => box' # <<>>)

  <1>1. /\ BoxInv /\ InboxInv /\ (answered => box # <<>>)
    BY DEF TypeInv, TypeOK, OneAnswer, InboxInv, BoxInv, BoxUnique, Requests
  <1>2. InboxInv'
    <2>1. CASE UNCHANGED <<inbox, answered>>
      BY <1>1, <2>1 DEF InboxInv, MessagesOfBss
    <2>2. CASE inbox' = <<>> /\ answered' = FALSE
      <3>1. inbox' \in Seq(Messages) /\ DOMAIN inbox' = {}
        BY <2>2, EmptySeq
      <3> QED BY <2>2, <3>1 DEF InboxInv, MessagesOfBss
    <2> QED BY <1>1, <2>1, <2>2, SocketSteps, InboxSends, InboxReceives
  <1>3. BoxInv' /\ (answered' => box' # <<>>)
    <2>1. CASE UNCHANGED <<box, asked>> /\ (answered' => answered \/ box # <<>>)
      BY <1>1, <2>1 DEF BoxInv, ToSet, IsInjective
    <2>2. CASE (\E r : Demands(r)) /\ answered' = answered
      <3>1. PICK r : Demands(r)
        BY <2>2
      <3> QED BY <1>1, <2>2, <3>1, BoxAppends, Appended DEF Demands, BoxInv
    <2>3. CASE Finishes /\ answered' = FALSE
      BY <1>1, <2>3, BoxTakes DEF Finishes
    <2>4. CASE (\E l : \E e : GoesOnWith(l, e)) /\ answered' = FALSE
      BY <1>1, <2>4, ReevaluateKeeps DEF GoesOnWith
    <2>5. CASE box' = <<>> /\ asked' = Nowhere /\ answered' = FALSE
      BY <1>1, <2>5, EmptySeq DEF BoxInv, ToSet, IsInjective
    <2>6. CASE (\E c \in Callers : Abandons(c)) /\ answered' = answered
      BY <1>1, <2>6, BoxAbandons
    <2> QED BY <2>1, <2>2, <2>3, <2>4, <2>5, <2>6, BoxSteps
  <1> QED BY <1>2, <1>3

-----------------------------------------------------------------------------
(* The callers and the entries.                                            *)

LEMMA IdsAreNotNone == Ids \subseteq Int /\ None \notin Ids /\ Unset \in Ids
  BY NetworksAssumption DEF Ids, Profiles, None, Unset, Refused

CallsInv ==
    /\ enabled \in [Ssids -> Ids \cup {None}]
    /\ call \in [Callers -> Calls]
    /\ race \in Races
    /\ EntriesInUse /\ CallersWait

\* Waiting for an answer, with an iterator or without.
Waits(k)   == k.op \in {"scan", "create", "destroy", "use"} /\ k.answer = "none"
UsesEntry(k, e) ==
    /\ k.op \in {"create", "destroying", "destroy", "use"} => k.ssid \in Ssids
    /\ k.op \in {"destroying", "destroy", "use"} /\ ~k.stale => e[k.ssid] # None

\* One caller goes on, while no entry is erased.
LEMMA CallChanges ==
    ASSUME TypeInv, NEW c \in Callers, NEW k \in Calls, call' = [call EXCEPT ![c] = k],
           ToSet(box)' \subseteq ToSet(box) \cup Internal \cup {c},
           c \in ToSet(box)' => Waits(k),
           \A s \in Ssids : enabled[s] # None => enabled'[s] # None,
           UsesEntry(k, enabled')
    PROVE  call' \in [Callers -> Calls] /\ EntriesInUse' /\ CallersWait'
  <1>1. /\ call \in [Callers -> Calls] /\ call' \in [Callers -> Calls]
        /\ call'[c] = k /\ \A d \in Callers \ {c} : call'[d] = call[d]
    BY DEF TypeInv, TypeOK
  <1>2. \A d \in Callers : UsesEntry(call[d], enabled)
    BY DEF TypeInv, EntriesInUse, UsesEntry
  <1>3. ASSUME NEW d \in Callers PROVE UsesEntry(call'[d], enabled')
    <2>1. CASE d = c
      BY <1>1, <2>1 DEF UsesEntry
    <2>2. CASE d # c
      BY <1>1, <1>2, <2>2 DEF UsesEntry
    <2> QED BY <2>1, <2>2
  <1>4. EntriesInUse'
    BY <1>3 DEF EntriesInUse, UsesEntry
  <1>5. ASSUME NEW d \in Callers, d \in ToSet(box)' PROVE Waits(call'[d])
    <2>1. CASE d = c
      BY <1>1, <1>5, <2>1
    <2>2. CASE d # c
      <3>1. d \in ToSet(box)
        BY <1>5, <2>2, NetworksAssumption
      <3> QED BY <1>1, <2>2, <3>1 DEF TypeInv, CallersWait, Waits
    <2> QED BY <2>1, <2>2
  <1>6. CallersWait'
    BY <1>5 DEF CallersWait, Waits
  <1> QED BY <1>1, <1>4, <1>6

\* What becomes of the list of requests, as a set, in every action.
LEMMA BoxMembers ==
    ASSUME TypeInv
    PROVE  /\ UNCHANGED box => ToSet(box)' = ToSet(box)
           /\ \A r \in Requests : box' = Append(box, r) => ToSet(box)' = ToSet(box) \cup {r}
           /\ box # <<>> /\ box' = Tail(box) => ToSet(box)' = ToSet(box) \ {Head(box)}
  <1>1. ASSUME UNCHANGED box PROVE ToSet(box)' = ToSet(box)
    BY <1>1 DEF ToSet
  <1>2. ASSUME NEW r \in Requests, box' = Append(box, r)
        PROVE  ToSet(box)' = ToSet(box) \cup {r}
    <2>1. ToSet(box') = ToSet(box) \cup {r}
      BY <1>2, Appended DEF TypeInv, TypeOK, Requests
    <2> QED BY <2>1 DEF ToSet
  <1>3. ASSUME box # <<>>, box' = Tail(box) PROVE ToSet(box)' = ToSet(box) \ {Head(box)}
    <2>1. ToSet(box) = {Head(box)} \cup ToSet(box')
      BY <1>3, Taken DEF TypeInv, TypeOK
    <2>2. Head(box) \notin ToSet(box')
      BY <1>3, TailDistinct DEF TypeInv, TypeOK, BoxUnique
    <2> QED BY <2>1, <2>2 DEF ToSet
  <1> QED BY <1>1, <1>2, <1>3

LEMMA CallSteps ==
    ASSUME TypeInv, NEW c \in Callers, Caller(c) \/ CompleteCaller(c)
    PROVE  CallsInv'
  <1> USE NetworksAssumption
  <1> DEFINE Changed(k) ==
        /\ k \in Calls /\ call' = [call EXCEPT ![c] = k]
        /\ ToSet(box)' \subseteq ToSet(box) \cup Internal \cup {c}
        /\ c \in ToSet(box)' => Waits(k)
        /\ enabled' \in [Ssids -> Ids \cup {None}]
        /\ \A s \in Ssids : enabled[s] # None => enabled'[s] # None
        /\ UsesEntry(k, enabled')
        /\ race' \in Races
  <1>0. /\ enabled \in [Ssids -> Ids \cup {None}] /\ call \in [Callers -> Calls]
        /\ call[c] \in Calls /\ race \in Races /\ inbox \in Seq(Messages)
        /\ UsesEntry(call[c], enabled)
        /\ c \in Requests /\ c \notin Internal
        /\ Idle \in Calls /\ (Waits(call[c]) \/ c \notin ToSet(box))
        /\ "network" \in Requests
    BY IdsAreNotNone DEF TypeInv, TypeOK, EntriesInUse, UsesEntry, Requests, Idle, Calls, Names,
       Operations, CallersWait, Waits, Internal
  <1>1. ASSUME NEW k, Changed(k) PROVE CallsInv'
    BY <1>1, CallChanges DEF CallsInv
  <1>2. UsesEntry(Idle, enabled') /\ ~Waits(Idle)
    BY DEF UsesEntry, Idle, Waits
  <1>4. ASSUME UNCHANGED box PROVE ToSet(box)' = ToSet(box)
    BY <1>4, BoxMembers
  <1>5. ASSUME NEW r \in Requests, box' = Append(box, r)
        PROVE  ToSet(box)' = ToSet(box) \cup {r}
    BY <1>5, BoxMembers
  <1>6. ASSUME UNCHANGED <<box, race, enabled>>, call' = [call EXCEPT ![c] = Idle],
               c \notin ToSet(box)
        PROVE  CallsInv'
    <2>1. Changed(Idle)
      BY <1>0, <1>2, <1>4, <1>6
    <2> HIDE DEF Changed
    <2> QED BY <1>1, <2>1
  <1>7. ASSUME Scan(c) PROVE CallsInv'
    <2> DEFINE k == [Idle EXCEPT !.op = "activating", !.ssid = Hidden]
    <2>1. k \in Calls /\ k.op = "activating"
      BY IdsAreNotNone DEF Idle, Calls, Operations, Names
    <2>2. call' = [call EXCEPT ![c] = k] /\ UNCHANGED <<box, race, enabled>> /\ call[c] = Idle
      BY <1>7 DEF Scan, Enter, CanCall, requests, lists
    <2>3. UsesEntry(k, enabled') /\ c \notin ToSet(box)
      BY <1>0, <1>2, <2>1, <2>2 DEF UsesEntry
    <2> HIDE DEF k
    <2>4. Changed(k)
      BY <1>0, <1>4, <2>1, <2>2, <2>3
    <2> HIDE DEF Changed
    <2> QED BY <1>1, <2>4
  <1>8. ASSUME Activated(c) PROVE CallsInv'
    <2> DEFINE k == [Idle EXCEPT !.op = "scan", !.ssid = Hidden]
    <2>1. k \in Calls /\ k.op = "scan" /\ k.answer = "none"
      BY IdsAreNotNone DEF Idle, Calls, Operations, Names
    <2>2. call' = [call EXCEPT ![c] = k] /\ UNCHANGED <<race, enabled>> /\ box' = Append(box, c)
      BY <1>8 DEF Activated, Enter
    <2>3. UsesEntry(k, enabled') /\ Waits(k)
      BY <2>1 DEF UsesEntry, Waits
    <2> HIDE DEF k
    <2>4. Changed(k)
      BY <1>0, <1>5, <2>1, <2>2, <2>3
    <2> HIDE DEF Changed
    <2> QED BY <1>1, <2>4
  <1>9. ASSUME FinishScan(c) PROVE CallsInv'
    BY <1>0, <1>6, <1>9 DEF FinishScan, Leave, requests, Waits
  <1>10. ASSUME FinishCreate(c) PROVE CallsInv'
    <2>1. /\ enabled' = [enabled EXCEPT ![call[c].ssid] = call[c].number]
          /\ call' = [call EXCEPT ![c] = Idle] /\ UNCHANGED <<box, race>>
          /\ call[c].op = "create" /\ call[c].answer # "none"
      BY <1>10 DEF FinishCreate, Leave, requests
    <2>2. call[c].ssid \in Ssids /\ call[c].number \in Ids /\ c \notin ToSet(box)
      BY <1>0, <2>1 DEF UsesEntry, Calls, Waits
    <2>3. /\ enabled' \in [Ssids -> Ids \cup {None}]
          /\ \A s \in Ssids : enabled[s] # None => enabled'[s] # None
      BY <1>0, <2>1, <2>2, IdsAreNotNone
    <2>4. Changed(Idle)
      BY <1>0, <1>2, <1>4, <2>1, <2>2, <2>3
    <2> HIDE DEF Changed
    <2> QED BY <1>1, <2>4
  <1>11. ASSUME NEW s \in Ssids, Create(c, s) PROVE CallsInv'
    <2> DEFINE k == [Idle EXCEPT !.op = "create", !.ssid = s]
    <2>1. k \in Calls /\ k.op = "create" /\ k.answer = "none" /\ k.ssid = s
      BY IdsAreNotNone DEF Idle, Calls, Operations, Names
    <2>2. /\ call' = [call EXCEPT ![c] = k] /\ race' = race /\ box' = Append(box, c)
          /\ enabled' = [enabled EXCEPT ![s] = Unset]
      BY <1>11 DEF Create, Enter
    <2>3. UsesEntry(k, enabled') /\ Waits(k)
      BY <2>1 DEF UsesEntry, Waits
    <2>4. /\ enabled' \in [Ssids -> Ids \cup {None}]
          /\ \A t \in Ssids : enabled[t] # None => enabled'[t] # None
      BY <1>0, <2>2, IdsAreNotNone
    <2> HIDE DEF k
    <2>5. Changed(k)
      BY <1>0, <1>5, <2>1, <2>2, <2>3, <2>4
    <2> HIDE DEF Changed
    <2> QED BY <1>1, <2>5
  <1>12. ASSUME NEW s \in Ssids, Destroy(c, s) PROVE CallsInv'
    <2> DEFINE k == [Idle EXCEPT !.op = "destroying", !.ssid = s]
    <2>1. k \in Calls /\ k.op = "destroying" /\ k.ssid = s
      BY IdsAreNotNone DEF Idle, Calls, Operations, Names
    <2>2. /\ call' = [call EXCEPT ![c] = k] /\ UNCHANGED <<race, box, enabled>>
          /\ enabled[s] # None /\ call[c] = Idle
      BY <1>12 DEF Destroy, Enter, CanCall, requests, lists
    <2>3. UsesEntry(k, enabled') /\ c \notin ToSet(box)
      BY <1>0, <1>2, <2>1, <2>2 DEF UsesEntry
    <2> HIDE DEF k
    <2>4. Changed(k)
      BY <1>0, <1>4, <2>1, <2>2, <2>3
    <2> HIDE DEF Changed
    <2> QED BY <1>1, <2>4
  <1>13. ASSUME NEW s \in Ssids, Use(c, s) PROVE CallsInv'
    <2> DEFINE k == [Idle EXCEPT !.op = "use", !.ssid = s, !.number = enabled[s]]
    <2>1. /\ call' = [call EXCEPT ![c] = k] /\ UNCHANGED <<race, enabled>>
          /\ enabled[s] # None /\ box' = Append(box, c)
      BY <1>13 DEF Use, lists
    <2>2. enabled[s] \in Ids
      BY <1>0, <2>1
    <2>3. k \in Calls /\ k.op = "use" /\ k.answer = "none" /\ k.ssid = s
      BY <2>2 DEF Idle, Calls, Operations, Names
    <2>4. UsesEntry(k, enabled') /\ Waits(k)
      BY <2>1, <2>3 DEF UsesEntry, Waits
    <2> HIDE DEF k
    <2>5. Changed(k)
      BY <1>0, <1>5, <2>1, <2>3, <2>4
    <2> HIDE DEF Changed
    <2> QED BY <1>1, <2>5
  <1>14. ASSUME NEW o \in {"destroy", "use"}, Submitted(c, o), UNCHANGED enabled,
                call[c].op \in {"destroying", "use"}
         PROVE  CallsInv'
    <2> DEFINE k == [call[c] EXCEPT !.op = o, !.answer = "none",
                                    !.number = IF call[c].stale THEN Unset
                                                 ELSE enabled[call[c].ssid]]
    <2>1. /\ call' = [call EXCEPT ![c] = k] /\ race' \in {race, "dangling"}
          /\ box' = Append(box, c)
      BY <1>14 DEF Submitted
    <2>2. /\ call[c].ssid \in Ssids
          /\ (IF call[c].stale THEN Unset ELSE enabled[call[c].ssid]) \in Ids
      BY <1>0, <1>14, IdsAreNotNone DEF UsesEntry
    <2>3. /\ k \in Calls /\ k.op = o /\ k.answer = "none" /\ k.ssid = call[c].ssid
          /\ k.stale = call[c].stale
      BY <1>0, <2>2 DEF Calls, Operations
    <2> HIDE DEF k
    <2>4. UsesEntry(k, enabled') /\ Waits(k)
      BY <1>0, <1>14, <2>2, <2>3 DEF UsesEntry, Waits
    <2>5. race' \in Races
      BY <1>0, <2>1 DEF Races
    <2>6. Changed(k)
      BY <1>0, <1>5, <1>14, <2>1, <2>3, <2>4, <2>5
    <2> HIDE DEF Changed
    <2> QED BY <1>1, <2>6
  <1>15. ASSUME RemoveNetwork(c) PROVE CallsInv'
    BY <1>14, <1>15 DEF RemoveNetwork, lists
  <1>16. ASSUME FinishUse(c) PROVE CallsInv'
    <2>1. UNCHANGED enabled /\ call[c].op = "use" /\ c \notin ToSet(box)
      BY <1>0, <1>16 DEF FinishUse, lists, Waits
    <2>2. CASE Submitted(c, "use")
      BY <1>14, <2>1, <2>2
    <2>3. CASE UNCHANGED <<box, race>> /\ Leave(c)
      BY <1>6, <2>1, <2>3 DEF Leave
    <2>4. CASE box' = Append(box, "network") /\ Leave(c) /\ UNCHANGED race
      <3>1. Changed(Idle)
        BY <1>0, <1>2, <1>5, <2>1, <2>4 DEF Leave, Internal
      <3> HIDE DEF Changed
      <3> QED BY <1>1, <3>1
    <2> QED BY <1>16, <2>2, <2>3, <2>4 DEF FinishUse
  <1>17. ASSUME FinishDestroy(c) PROVE CallsInv'
    <2>1. /\ call[c].op = "destroy" /\ UNCHANGED box /\ c \notin ToSet(box)
          /\ call[c].ssid \in Ssids
      BY <1>0, <1>17 DEF FinishDestroy, requests, Waits, UsesEntry
    <2>2. CASE Leave(c) /\ UNCHANGED <<enabled, race>>
      BY <1>6, <2>1, <2>2 DEF Leave
    <2>3. CASE Erase(c, call[c].ssid) /\ race' = IF call[c].stale THEN "dangling" ELSE race
      <3> DEFINE s == call[c].ssid
      <3>1. /\ enabled' = [enabled EXCEPT ![s] = None]
            /\ call' = [d \in Callers |->
                  IF d = c THEN Idle
                  ELSE IF call[d].ssid = s /\ call[d].op \in {"destroying", "destroy", "use"}
                  THEN [call[d] EXCEPT !.stale = TRUE] ELSE call[d]]
        BY <2>3 DEF Erase
      <3>2. s \in Ssids
        BY <2>1
      <3> HIDE DEF s
      <3>3. /\ enabled' \in [Ssids -> Ids \cup {None}] /\ race' \in Races
            /\ \A t \in Ssids \ {s} : enabled'[t] = enabled[t]
        BY <1>0, <2>3, <3>1, <3>2 DEF Races
      <3>4. ASSUME NEW d \in Callers
            PROVE  /\ call'[d] \in Calls
                   /\ UsesEntry(call'[d], enabled')
                   /\ d # c => call'[d].op = call[d].op /\ call'[d].answer = call[d].answer
        <4>1. CASE d = c
          BY <1>0, <1>2, <3>1, <4>1
        <4>2. CASE d # c
          <5>1. call[d] \in Calls /\ UsesEntry(call[d], enabled)
            BY DEF TypeInv, TypeOK, EntriesInUse, UsesEntry
          <5>2. CASE call[d].ssid = s /\ call[d].op \in {"destroying", "destroy", "use"}
            BY <3>1, <3>2, <4>2, <5>1, <5>2 DEF UsesEntry, Calls
          <5>3. CASE ~(call[d].ssid = s /\ call[d].op \in {"destroying", "destroy", "use"})
            <6>1. call'[d] = call[d]
              BY <3>1, <4>2, <5>3
            <6>2. UsesEntry(call[d], enabled')
              BY <3>3, <5>1, <5>3 DEF UsesEntry
            <6> QED BY <5>1, <6>1, <6>2
          <5> QED BY <5>2, <5>3
        <4> QED BY <4>1, <4>2
      <3>5. call' \in [Callers -> Calls]
        BY <3>1, <3>4
      <3>6. EntriesInUse'
        BY <3>4 DEF EntriesInUse, UsesEntry
      <3>7. CallersWait'
        <4>1. ASSUME NEW d \in Callers, d \in ToSet(box)' PROVE d \in ToSet(box) /\ d # c
          BY <1>4, <2>1, <4>1
        <4> QED BY <3>4, <4>1 DEF CallersWait, TypeInv
      <3> QED BY <3>3, <3>5, <3>6, <3>7 DEF CallsInv
    <2> QED BY <1>17, <2>2, <2>3 DEF FinishDestroy
  <1>18. ASSUME CompleteCaller(c) PROVE CallsInv'
    <2> DEFINE k == [call[c] EXCEPT !.answer = IF Head(inbox).ok THEN "ok" ELSE "fail",
                                    !.number = Head(inbox).number]
    <2>1. /\ call' = [call EXCEPT ![c] = k] /\ UNCHANGED <<race, enabled>>
          /\ box # <<>> /\ Head(box) = c /\ box' = Tail(box) /\ inbox # <<>>
      BY <1>18 DEF CompleteCaller, Completes, lists
    <2>2. Head(inbox) \in Messages
      BY <1>0, <2>1, Taken
    <2>3. /\ k \in Calls /\ k.op = call[c].op /\ k.ssid = call[c].ssid
          /\ k.stale = call[c].stale
      BY <1>0, <2>2 DEF Calls, Messages
    <2> HIDE DEF k
    <2>4. UsesEntry(k, enabled')
      BY <1>0, <2>1, <2>3 DEF UsesEntry
    <2>5. ToSet(box)' = ToSet(box) \ {c}
      BY <2>1, BoxMembers
    <2>6. Changed(k)
      BY <1>0, <2>1, <2>3, <2>4, <2>5
    <2> HIDE DEF Changed
    <2> QED BY <1>1, <2>6
  <1>19. ASSUME GiveUp(c) PROVE CallsInv'
    <2> DEFINE k == [call[c] EXCEPT !.answer = "fail", !.number = Unset]
    <2>1. /\ call' = [call EXCEPT ![c] = k] /\ UNCHANGED <<race, enabled>>
          /\ c \notin ToSet(box)'
      BY <1>19, GivesUp DEF GiveUp, lists
    <2>2. /\ k \in Calls /\ k.op = call[c].op /\ k.ssid = call[c].ssid
          /\ k.stale = call[c].stale
      BY <1>0, IdsAreNotNone DEF Calls
    <2> HIDE DEF k
    <2>3. UsesEntry(k, enabled')
      BY <1>0, <2>1, <2>2 DEF UsesEntry
    <2>4. ToSet(box)' \subseteq ToSet(box) \cup Internal
      <3>1. CASE UNCHANGED box
        BY <1>4, <3>1
      <3>2. CASE Abandons(c)
        BY <3>2, BoxAbandons DEF TypeInv, TypeOK, BoxInv, BoxUnique, OneAnswer, Requests, Internal
      <3> QED BY <1>19, <3>1, <3>2, GivesUp
    <2>5. Changed(k)
      BY <1>0, <2>1, <2>2, <2>3, <2>4
    <2> HIDE DEF Changed
    <2> QED BY <1>1, <2>5
  <1> QED BY <1>7, <1>8, <1>9, <1>10, <1>11, <1>12, <1>13, <1>15, <1>16, <1>17, <1>18, <1>19
          DEF Caller

\* The callers and the entries, whoever takes the step.
LEMMA CallsKept ==
    ASSUME TypeInv, Next
    PROVE  CallsInv'
  <1> USE NetworksAssumption
  <1>0. CallsInv
    BY DEF TypeInv, TypeOK, CallsInv
  <1>1. ASSUME UNCHANGED call, enabled' \in [Ssids -> Ids \cup {None}], race' \in Races,
               \A s \in Ssids : enabled[s] # None => enabled'[s] # None,
               ToSet(box)' \subseteq ToSet(box) \cup Internal
        PROVE  CallsInv'
    <2>1. ASSUME NEW d \in Callers, d \in ToSet(box)' PROVE d \in ToSet(box)
      BY <1>1, <2>1
    <2>2. CallersWait'
      BY <1>0, <1>1, <2>1 DEF CallersWait, CallsInv
    <2>3. EntriesInUse'
      BY <1>0, <1>1 DEF EntriesInUse, CallsInv
    <2> QED BY <1>0, <1>1, <2>2, <2>3 DEF CallsInv
  <1>2. ASSUME UNCHANGED <<call, enabled, race>>,
               ToSet(box)' \subseteq ToSet(box) \cup Internal
        PROVE  CallsInv'
    BY <1>0, <1>1, <1>2 DEF CallsInv
  <1>3. ASSUME UNCHANGED <<call, enabled, race>>, UNCHANGED box PROVE CallsInv'
    BY <1>2, <1>3, BoxMembers
  <1>4. CASE Initialize \/ Deinitialize \/ BeginScan \/ EndScan \/ AnswerInternal \/ Stopped
               \/ BssRemoved
    BY <1>3, <1>4 DEF Initialize, Deinitialize, BeginScan, EndScan, AnswerInternal, Answers,
                      Stopped, BssRemoved, vars, requests, lists
  <1>5. ASSUME NEW b \in Bss, Appear(b) \/ Disappear(b) PROVE CallsInv'
    BY <1>3, <1>5 DEF Appear, Disappear, requests, lists
  <1>6. ASSUME AnswerLate \/ \E c \in Callers : AnswerCaller(c) PROVE CallsInv'
    BY <1>3, <1>6 DEF AnswerCaller, AnswerLate, Answers, requests, lists
  <1>7. CASE Destruct
    <2>1. ToSet(box)' = {} /\ UNCHANGED <<call, enabled, race>>
      BY <1>7 DEF Destruct, ToSet
    <2> QED BY <1>2, <2>1
  <1>8. CASE BssAdded \/ ScanDone
    <2>1. UNCHANGED <<call, enabled, race>>
      BY <1>8 DEF BssAdded, ScanDone, lists
    <2>2. box' = box \/ \E r \in Internal : box' = Append(box, r)
      BY <1>8 DEF BssAdded, ScanDone, Internal, requests
    <2>3. ToSet(box)' \subseteq ToSet(box) \cup Internal
      BY <2>2, BoxMembers DEF Requests
    <2> QED BY <1>2, <2>1, <2>3
  <1>9. CASE CompleteScan \/ CompleteDetail \/ CompleteNetwork
    <2>1. /\ UNCHANGED call /\ box # <<>>
          /\ \/ box' = Tail(box) /\ race' = race
             \/ \E l : \E e : Reevaluate(l, e, Tail(box))
      <3>1. \A r : Completes(r) => box # <<>>
        BY DEF Completes
      <3>2. CASE CompleteScan
        BY <3>1, <3>2 DEF CompleteScan
      <3>3. CASE CompleteDetail
        BY <3>1, <3>3 DEF CompleteDetail
      <3>4. CASE CompleteNetwork
        BY <3>1, <3>4 DEF CompleteNetwork
      <3> QED BY <1>9, <3>2, <3>3, <3>4
    <2>2. ToSet(box)' \subseteq ToSet(box) \cup Internal /\ race' \in Races
      <3>1. BoxInv
        BY DEF TypeInv, TypeOK, BoxInv, BoxUnique, Requests
      <3>2. ASSUME NEW l, NEW e, Reevaluate(l, e, Tail(box))
            PROVE  ToSet(box)' \subseteq ToSet(box) \cup Internal /\ race' \in Races
        BY <1>0, <2>1, <3>1, <3>2, ReevaluateKeeps DEF Internal, Races, CallsInv
      <3>3. CASE box' = Tail(box) /\ race' = race
        BY <1>0, <2>1, <3>3, BoxMembers DEF CallsInv
      <3> QED BY <2>1, <3>2, <3>3
    <2>3. /\ enabled' \in [Ssids -> Ids \cup {None}]
          /\ \A s \in Ssids : enabled[s] # None => enabled'[s] # None
      <3>1. UNCHANGED enabled \/ \E s \in Ssids, b \in Bss :
                                    enabled[s] = None /\ enabled' = [enabled EXCEPT ![s] = IdIn(b)]
        BY <1>9 DEF CompleteScan, CompleteDetail, CompleteNetwork, Named
      <3>2. \A b \in Bss : IdIn(b) \in Ids
        BY DEF IdIn, Ids
      <3> QED BY <1>0, <3>1, <3>2, IdsAreNotNone DEF CallsInv
    <2> QED BY <1>1, <2>1, <2>2, <2>3
  <1>10. CASE CompleteLate
    <2>1. /\ UNCHANGED <<call, enabled>> /\ race' \in {race, "misread"}
          /\ box # <<>> /\ box' = Tail(box)
      BY <1>10 DEF CompleteLate, Completes, lists
    <2>2. ToSet(box)' \subseteq ToSet(box) /\ race' \in Races
      BY <1>0, <2>1, BoxMembers DEF CallsInv, Races
    <2> QED BY <1>0, <1>1, <2>1, <2>2 DEF CallsInv
  <1> QED BY <1>4, <1>5, <1>6, <1>7, <1>8, <1>9, <1>10, CallSteps DEF Next, Receive, Supplicant

\* What is left of the types.
LEMMA DataKept ==
    ASSUME TypeInv, Next
    PROVE  /\ listed' \in [Bss -> Entries] /\ scanning' \in BOOLEAN /\ phase' \in Phases
           /\ air' \subseteq Bss /\ profiles' \subseteq Profiles
           /\ busy' \in BOOLEAN /\ broken' \in BOOLEAN
           /\ overdue' \in Calls /\ orphans' \subseteq Profiles
  <1>0. /\ listed \in [Bss -> Entries] /\ scanning \in BOOLEAN /\ phase \in Phases
        /\ air \subseteq Bss /\ profiles \subseteq Profiles
        /\ busy \in BOOLEAN /\ broken \in BOOLEAN
        /\ overdue \in Calls /\ orphans \subseteq Profiles /\ call \in [Callers -> Calls]
    BY DEF TypeInv, TypeOK
  <1>1. /\ UNCHANGED listed \/ BssRemoved \/ CompleteScan \/ CompleteDetail
        /\ \/ UNCHANGED scanning \/ scanning' = FALSE \/ scanning' = TRUE
           \/ scanning' = (scanning /\ "scan" \notin ToSet(box))
           \/ \E c \in Callers : scanning' = (scanning /\ call[c].answer = "ok")
        /\ UNCHANGED phase \/ phase' \in {"running", "deinitializing", "closed"}
        /\ UNCHANGED air \/ \E b \in Bss : air' = air \cup {b} \/ air' = air \ {b}
        /\ UNCHANGED broken \/ broken' = FALSE \/ broken' = (broken \/ listed[asked] # "bare")
    BY DEF Next, Caller, Receive, Supplicant, Stopped, vars, lists, radio, Initialize,
           Deinitialize, Destruct, GiveUp, Scan, Activated, FinishScan, ScanAnswered, FinishCreate,
           RemoveNetwork, FinishDestroy, FinishUse, Create, Destroy, Use, BssAdded, BssRemoved,
           ScanDone, CompleteScan, CompleteDetail, CompleteNetwork, CompleteLate, CompleteCaller,
           AnswerInternal, AnswerCaller, AnswerLate, Answers, BeginScan, EndScan, Appear, Disappear
  <1>2. /\ UNCHANGED <<profiles, busy>> \/ (UNCHANGED profiles /\ busy' \in BOOLEAN)
                                      \/ \E k : Executes(k)
        /\ \/ UNCHANGED overdue \/ overdue' = Idle
           \/ \E c \in Callers :
                 overdue' = [Idle EXCEPT !.op = call[c].op, !.number = call[c].number]
        /\ orphans' \subseteq orphans \cup profiles \cup profiles'
    BY DEF Next, Caller, Receive, Supplicant, Stopped, vars, lists, radio, abandoned, Initialize,
           Deinitialize, Destruct, GiveUp, Scan, Activated, FinishScan, FinishCreate,
           RemoveNetwork, FinishDestroy, FinishUse, Create, Destroy, Use, BssAdded, BssRemoved,
           ScanDone, CompleteScan, CompleteDetail, CompleteNetwork, CompleteLate, CompleteCaller,
           AnswerInternal, AnswerCaller, AnswerLate, Answers, BeginScan, EndScan, Appear, Disappear
  <1>3. listed' \in [Bss -> Entries]
    <2>1. \A b, ok : Detailed(b, ok) \in Entries
      BY DEF Detailed, Entries
    <2> QED BY <1>0, <1>1, <2>1
            DEF BssRemoved, WithoutRemoved, CompleteScan, CompleteDetail, Entries
  <1>4. scanning' \in BOOLEAN /\ broken' \in BOOLEAN
    BY <1>0, <1>1
  <1>5. phase' \in Phases
    BY <1>0, <1>1 DEF Phases
  <1>6. air' \subseteq Bss
    BY <1>0, <1>1
  <1>7. profiles' \subseteq Profiles /\ busy' \in BOOLEAN
    BY <1>0, <1>2, ExecutedCommand
  <1>8. overdue' \in Calls
    <2>1. Idle \in Calls
      BY IdsAreNotNone, NetworksAssumption DEF Idle, Calls, Operations, Names
    <2>2. ASSUME NEW c \in Callers
          PROVE  [Idle EXCEPT !.op = call[c].op, !.number = call[c].number] \in Calls
      BY <1>0, <2>1 DEF Calls
    <2> QED BY <1>0, <1>2, <2>1, <2>2
  <1>9. orphans' \subseteq Profiles
    BY <1>0, <1>2, <1>7
  <1> QED BY <1>3, <1>4, <1>5, <1>6, <1>7, <1>8, <1>9

LEMMA TypeInvStep == TypeInv /\ [Next]_vars => TypeInv'
  <1> SUFFICES ASSUME TypeInv, [Next]_vars PROVE TypeInv'
    OBVIOUS
  <1>1. CASE UNCHANGED vars
    BY <1>1 DEF vars, requests, lists, radio, socket, abandoned, TypeInv, TypeOK, EntriesInUse,
                MessagesOfBss, BoxUnique, IsInjective, CallersWait, OneAnswer, ToSet
  <1>2. CASE Next
    BY <1>2, BoxAndInbox, CallsKept, DataKept
       DEF TypeInv, TypeOK, BoxInv, InboxInv, CallsInv, OneAnswer, BoxUnique, Requests
  <1> QED BY <1>1, <1>2

LEMMA TypeInvInit == Init => TypeInv
  <1> SUFFICES ASSUME Init PROVE TypeInv
    OBVIOUS
  <1> USE NetworksAssumption
  <1>1. /\ box = <<>> /\ inbox = <<>> /\ DOMAIN inbox = {} /\ DOMAIN box = {}
        /\ box \in Seq(Internal \cup Callers) /\ inbox \in Seq(Messages)
    BY EmptySeq DEF Init
  <1>2. Idle \in Calls
    BY IdsAreNotNone DEF Idle, Calls, Operations, Names
  <1>3. TypeOK
    BY <1>1, <1>2, EmptySeq
       DEF Init, TypeOK, ToSet, Entries, Phases, Races, Ids
  <1>4. EntriesInUse /\ CallersWait
    BY <1>1 DEF Init, EntriesInUse, CallersWait, ToSet, Idle
  <1>5. MessagesOfBss /\ BoxUnique /\ OneAnswer
    BY <1>1 DEF Init, MessagesOfBss, BoxUnique, IsInjective, OneAnswer
  <1> QED BY <1>3, <1>4, <1>5 DEF TypeInv

\* The types of WpaNetworks: every entry, request, datagram and caller is one the code
\* knows, and a detail is asked for a BSS.
THEOREM TypeCorrect == Spec => []TypeOK
  <1>1. TypeInv => TypeOK
    BY DEF TypeInv
  <1> QED BY <1>1, TypeInvInit, TypeInvStep, PTL DEF Spec

-----------------------------------------------------------------------------
(* What a step leaves of the order of things.                              *)

LEMMA TypeInvParts ==
    ASSUME TypeInv
    PROVE  BoxInv /\ InboxInv /\ (answered => box # <<>>)
  BY DEF TypeInv, TypeOK, OneAnswer, InboxInv, BoxInv, BoxUnique, Requests

\* As long as the oldest request is not completed it stays the oldest one, unless its caller
\* gives it up, and a pending detail request is for the same BSS.
LEMMA OldestStays ==
    ASSUME TypeInv, Next, answered'
    PROVE  /\ box # <<>> /\ box' # <<>>
           /\ "detail" \in ToSet(box) => asked' = asked
           /\ \A r : Heads(r)' => Heads(r) \/ r = "late"
           /\ \A r : Heads(r) => Heads(r)' \/ (r \in Callers /\ GiveUp(r))
  <1>1. BoxInv /\ (answered => box # <<>>)
    BY TypeInvParts
  <1>2. /\ box # <<>> /\ box' # <<>>
        /\ \/ Head(box') = Head(box)
           \/ \E c \in Callers : GiveUp(c) /\ Head(box) = c /\ Head(box') = "late"
        /\ "detail" \in ToSet(box) => asked' = asked
    <2>1. CASE UNCHANGED <<box, asked>> /\ (answered' => answered \/ box # <<>>)
      BY <1>1, <2>1
    <2>2. CASE (\E r : Demands(r)) /\ answered' = answered
      <3>1. PICK r : Demands(r)
        BY <2>2
      <3>2. box' # <<>> /\ Head(box') = Head(box)
        BY <1>1, <2>2, <3>1, Appended DEF Demands, BoxInv
      <3> QED BY <1>1, <2>2, <3>1, <3>2 DEF Demands
    <2>3. CASE (\E c \in Callers : GiveUp(c) /\ Abandons(c)) /\ answered' = answered
      <3>1. PICK c \in Callers : GiveUp(c) /\ Abandons(c)
        BY <2>3
      <3>2. asked' = asked
        BY <3>1 DEF Abandons
      <3> QED BY <1>1, <2>3, <3>1, <3>2, BoxAbandons
    <2> QED BY <2>1, <2>2, <2>3, BoxSteps
  <1> QED BY <1>2 DEF Heads

\* The messages behind a message stay behind it, and so does one that is sent.
LEMMA OrderReceived ==
    ASSUME InboxInv, Receives
    PROVE  /\ \A i \in DOMAIN inbox' : \A k, b : After(i + 1, k, b) => After(i, k, b)'
           /\ \A k, b : Coming(k, b) /\ ~(Head(inbox).kind = k /\ b \in Head(inbox).about) =>
                           Coming(k, b)'
           /\ \A k, b : After(1, k, b) => Coming(k, b)'
  <1>1. /\ Head(inbox) = inbox[1] /\ Len(inbox) \in Nat /\ DOMAIN inbox = 1..Len(inbox)
        /\ DOMAIN inbox' = 1..(Len(inbox) - 1)
        /\ \A i \in DOMAIN inbox' : i + 1 \in DOMAIN inbox /\ inbox'[i] = inbox[i + 1]
    BY InboxReceives
  <1>2. ASSUME NEW j \in DOMAIN inbox, j # 1
        PROVE  j - 1 \in DOMAIN inbox' /\ inbox'[j - 1] = inbox[j] /\ j \in Nat
    BY <1>1, <1>2
  <1>3. ASSUME NEW i \in DOMAIN inbox', NEW k, NEW b, After(i + 1, k, b) PROVE After(i, k, b)'
    <2>1. PICK j \in DOMAIN inbox : j > i + 1 /\ inbox[j].kind = k /\ b \in inbox[j].about
      BY <1>3 DEF After
    <2>2. j # 1 /\ j - 1 > i
      BY <1>1, <2>1
    <2> QED BY <1>2, <2>1, <2>2 DEF After
  <1>4. ASSUME NEW k, NEW b, ~(Head(inbox).kind = k /\ b \in Head(inbox).about), Coming(k, b)
        PROVE  Coming(k, b)'
    <2>1. PICK j \in DOMAIN inbox : inbox[j].kind = k /\ b \in inbox[j].about
      BY <1>4 DEF Coming
    <2> QED BY <1>1, <1>2, <1>4, <2>1 DEF Coming
  <1>5. ASSUME NEW k, NEW b, After(1, k, b) PROVE Coming(k, b)'
    <2>1. PICK j \in DOMAIN inbox : j > 1 /\ inbox[j].kind = k /\ b \in inbox[j].about
      BY <1>5 DEF After
    <2> QED BY <1>1, <1>2, <2>1 DEF Coming
  <1> QED BY <1>3, <1>4, <1>5

LEMMA OrderSent ==
    ASSUME InboxInv, NEW m, Sends(m)
    PROVE  /\ \A i \in DOMAIN inbox : \A k, b : After(i, k, b) => After(i, k, b)'
           /\ \A i \in DOMAIN inbox : \A b \in m.about : After(i, m.kind, b)'
           /\ \A k, b : Coming(k, b) => Coming(k, b)'
           /\ \A b \in m.about : Coming(m.kind, b)'
  <1>1. /\ Len(inbox) \in Nat /\ DOMAIN inbox = 1..Len(inbox)
        /\ DOMAIN inbox' = 1..(Len(inbox) + 1)
        /\ \A i \in DOMAIN inbox : i \in DOMAIN inbox' /\ inbox'[i] = inbox[i]
        /\ inbox'[Len(inbox) + 1] = m
    BY InboxSends
  <1>2. Len(inbox) + 1 \in DOMAIN inbox' /\ \A i \in DOMAIN inbox : Len(inbox) + 1 > i
    BY <1>1
  <1> QED BY <1>1, <1>2 DEF After, Coming

\* What a step makes of the messages that are there: unchanged, one received that is not
\* an answer, or one sent.
LEMMA AnswerSteps ==
    ASSUME TypeInv, Next, NEW i \in DOMAIN inbox', inbox'[i].kind = "answer"
    PROVE  /\ answered'
           /\ \/ UNCHANGED inbox
              \/ /\ Receives /\ Head(inbox).kind # "answer" /\ i + 1 \in DOMAIN inbox
                 /\ inbox'[i] = inbox[i + 1]
              \/ \E m : Sends(m) /\ i \in DOMAIN inbox /\ inbox'[i] = inbox[i]
              \/ Sends(inbox'[i])
  <1>1. InboxInv /\ InboxInv'
    BY TypeInvParts, BoxAndInbox
  <1>2. answered'
    BY <1>1 DEF InboxInv
  <1>3. CASE Receives
    BY <1>1, <1>2, <1>3, InboxReceives
  <1>4. ASSUME NEW m, Sends(m)
        PROVE  (i \in DOMAIN inbox /\ inbox'[i] = inbox[i]) \/ Sends(inbox'[i])
    <2>1. i \in DOMAIN inbox \/ i = Len(inbox) + 1
      BY <1>1, <1>4, InboxSends
    <2> QED BY <1>1, <1>4, <2>1, InboxSends
  <1> QED BY <1>2, <1>3, <1>4, SocketSteps

-----------------------------------------------------------------------------
(* What was begun goes on.                                                 *)

DetailsGoOn == ~broken /\ Bare(listed) # {} => "detail" \in ToSet(box)

ScanEnds ==
    scanning => \/ ScanAhead
                \/ \E c \in Callers : call[c].op = "scan" /\ call[c].answer # "ok"

LEMMA DetailsStep ==
    ASSUME TypeInv, Next, Alive, DetailsGoOn, ~Destruct
    PROVE  DetailsGoOn'
  <1> USE NetworksAssumption
  <1>1. ASSUME UNCHANGED <<listed, broken>>, ToSet(box) \subseteq ToSet(box)' \cup {"scan"} \cup
                       {"network"} \cup Callers
        PROVE  DetailsGoOn'
    <2>1. "detail" \notin Callers
      BY DEF Internal
    <2> QED BY <1>1, <2>1 DEF DetailsGoOn, Bare
  <1>2. ASSUME UNCHANGED <<listed, broken>>,
               box' = box \/ (\E r : Demands(r)) \/ (\E c \in Callers : Abandons(c))
                          \/ (box # <<>> /\ box' = Tail(box) /\ Head(box) # "detail")
        PROVE  DetailsGoOn'
    <2>1. CASE \E r : Demands(r)
      BY <1>1, <1>2, <2>1, TypeInvParts, BoxAppends DEF Demands
    <2>2. CASE box' = box
      BY <1>1, <1>2, <2>2, BoxMembers
    <2>3. CASE box # <<>> /\ box' = Tail(box) /\ Head(box) # "detail"
      <3>1. ToSet(box)' = ToSet(box) \ {Head(box)}
        BY <2>3, BoxMembers
      <3> QED BY <1>2, <2>3, <3>1 DEF DetailsGoOn, Bare
    <2>4. CASE \E c \in Callers : Abandons(c)
      <3>1. PICK c \in Callers : Abandons(c)
        BY <2>4
      <3>2. ToSet(box) \ {c} \subseteq ToSet(box)'
        BY <3>1, TypeInvParts, BoxAbandons
      <3> QED BY <1>1, <1>2, <3>2
    <2> QED BY <1>2, <2>1, <2>2, <2>3, <2>4
  <1>3. ASSUME NEW l, NEW e, box # <<>>, Reevaluate(l, e, Tail(box)), Bare(l) # {}
        PROVE  DetailsGoOn'
    BY <1>3, TypeInvParts, ReevaluateKeeps DEF DetailsGoOn
  <1>4. \A r : Completes(r) => box # <<>> /\ Head(box) = r /\ Receives
    BY DEF Completes, Receives
  <1>5. CASE BssRemoved
    <2>1. Bare(listed') \subseteq Bare(listed) /\ UNCHANGED <<box, broken>>
      BY <1>5 DEF BssRemoved, WithoutRemoved, Bare, requests
    <2> QED BY <2>1, BoxMembers DEF DetailsGoOn, Bare
  <1>6. CASE CompleteScan
    <2>1. Completes("scan")
      BY <1>6 DEF CompleteScan
    <2>2. CASE Head(inbox).about = {}
      <3>1. box' = Tail(box) /\ UNCHANGED broken
            /\ listed' = [b \in Bss |-> IF b \in {} THEN "bare" ELSE listed[b]]
        BY <1>6, <2>2 DEF CompleteScan
      <3>2. listed' = listed
        BY <3>1 DEF TypeInv, TypeOK
      <3> QED BY <1>2, <1>4, <2>1, <3>1, <3>2
    <2>3. CASE Head(inbox).about # {}
      <3>1. PICK first \in Head(inbox).about :
                Reevaluate([listed EXCEPT ![first] = "bare"], enabled, Tail(box))
        BY <1>6, <2>3 DEF CompleteScan
      <3>2. first \in Bss
        <4>1. Head(inbox).kind = "answer"
          BY <2>1 DEF Completes
        <4> QED BY <1>4, <2>1, <3>1, <4>1, TypeInvParts, InboxReceives
      <3>3. first \in Bare([listed EXCEPT ![first] = "bare"])
        BY <3>2 DEF Bare, TypeInv, TypeOK
      <3> QED BY <1>3, <1>4, <2>1, <3>1, <3>3
    <2> QED BY <2>2, <2>3
  <1>7. CASE CompleteDetail
    <2> DEFINE after == [listed EXCEPT ![asked] = Detailed(asked, Head(inbox).ok)]
    <2>1. /\ Completes("detail") /\ listed' = after
          /\ \/ Reevaluate(after, enabled, Tail(box))
             \/ listed[asked] # "bare" /\ broken' = (broken \/ listed[asked] # "bare")
      BY <1>7 DEF CompleteDetail, GoesOn
    <2> HIDE DEF after
    <2>2. CASE Reevaluate(after, enabled, Tail(box))
      <3>1. Bare(listed)' = Bare(after)
        BY <2>1 DEF Bare
      <3>2. CASE Bare(after) # {}
        BY <1>3, <1>4, <2>1, <2>2, <3>2
      <3>3. CASE Bare(after) = {}
        BY <3>1, <3>3 DEF DetailsGoOn
      <3> QED BY <3>2, <3>3
    <2> QED BY <2>1, <2>2 DEF DetailsGoOn
  <1>8. CASE CompleteNetwork
    <2>1. /\ Completes("network") /\ listed' = listed
          /\ \/ box' = Tail(box) /\ broken' = broken
             \/ \E e : Reevaluate(listed, e, Tail(box))
      BY <1>8 DEF CompleteNetwork
    <2>2. CASE box' = Tail(box) /\ broken' = broken
      BY <1>2, <1>4, <2>1, <2>2
    <2>3. CASE \E e : Reevaluate(listed, e, Tail(box))
      <3>1. CASE Bare(listed) # {}
        BY <1>3, <1>4, <2>1, <2>3, <3>1
      <3>2. CASE Bare(listed) = {}
        BY <2>1, <3>2 DEF DetailsGoOn, Bare
      <3> QED BY <3>1, <3>2
    <2> QED BY <2>1, <2>2, <2>3
  <1>9. ASSUME NEW c \in Callers, CompleteCaller(c) PROVE DetailsGoOn'
    <2>1. Completes(c) /\ box' = Tail(box) /\ UNCHANGED <<listed, broken>> /\ c # "detail"
      BY <1>9 DEF CompleteCaller, lists, Internal
    <2> QED BY <1>2, <1>4, <2>1
  <1>11. CASE CompleteLate
    <2>1. Completes("late") /\ box' = Tail(box) /\ UNCHANGED <<listed, broken>>
      BY <1>11 DEF CompleteLate, lists
    <2> QED BY <1>2, <1>4, <2>1
  <1>10. CASE BssAdded \/ ScanDone \/ Initialize \/ Deinitialize \/ Supplicant
                 \/ \E c \in Callers : Caller(c)
    <2>1. UNCHANGED <<listed, broken>>
      BY <1>10 DEF BssAdded, ScanDone, Initialize, Deinitialize, Supplicant, AnswerInternal,
            AnswerCaller, AnswerLate, Answers, BeginScan, EndScan, Appear, Disappear, Caller, GiveUp, Scan, Activated,
            FinishScan, FinishCreate, RemoveNetwork, FinishDestroy, FinishUse, Create, Destroy,
            Use, lists
    <2>2. box' = box \/ (\E r : Demands(r)) \/ (\E c \in Callers : Abandons(c))
      BY <1>10, RequestsAdded DEF Others
    <2> QED BY <1>2, <2>1, <2>2
  <1> QED BY <1>5, <1>6, <1>7, <1>8, <1>9, <1>10, <1>11 DEF Next, Receive, Stopped, Alive

\* A caller is where it was until it goes on, or its answer comes; the most that another
\* can do is to erase the entry under its iterator.
Marked(d) ==
    /\ call[d].op \in {"destroying", "destroy", "use"}
    /\ call'[d] = [call[d] EXCEPT !.stale = TRUE]

LEMMA CallerStays ==
    ASSUME TypeInv, Next, NEW d \in Callers, ~Caller(d), ~CompleteCaller(d)
    PROVE  call'[d] = call[d] \/ Marked(d)
  <1>0. call \in [Callers -> Calls]
    BY DEF TypeInv, TypeOK
  <1>1. ASSUME NEW c \in Callers, NEW k, call' = [call EXCEPT ![c] = k], c # d
        PROVE  call'[d] = call[d]
    BY <1>0, <1>1
  <1>2. ASSUME NEW c \in Callers, Caller(c) PROVE call'[d] = call[d] \/ Marked(d)
    <2>1. c # d
      BY <1>2
    <2>2. CASE Scan(c) \/ Activated(c) \/ FinishScan(c) \/ FinishCreate(c)
                 \/ \E s \in Ssids : Create(c, s) \/ Destroy(c, s)
      <3>1. \E k : call' = [call EXCEPT ![c] = k]
        BY <2>2 DEF GiveUp, Scan, Activated, FinishScan, FinishCreate, Create, Destroy, Enter, Leave
      <3> QED BY <1>1, <2>1, <3>1
    <2>3. CASE RemoveNetwork(c) \/ FinishUse(c) \/ \E s \in Ssids : Use(c, s)
      <3>1. ASSUME NEW o, Submitted(c, o) PROVE call'[d] = call[d]
        BY <1>0, <2>1, <3>1 DEF Submitted
      <3>2. \E o : Submitted(c, o) \/ \E k : call' = [call EXCEPT ![c] = k]
        BY <2>3 DEF RemoveNetwork, FinishUse, Use, Leave
      <3> QED BY <1>1, <2>1, <3>1, <3>2
    <2>4. CASE FinishDestroy(c)
      BY <1>0, <2>1, <2>4 DEF FinishDestroy, Leave, Erase, Marked
    <2>5. CASE GiveUp(c)
      BY <1>0, <2>1, <2>5, GivesUp
    <2> QED BY <1>2, <2>2, <2>3, <2>4, <2>5 DEF Caller
  <1>3. ASSUME NEW c \in Callers, CompleteCaller(c) PROVE call'[d] = call[d]
    <2>1. c # d
      BY <1>3
    <2> QED BY <1>0, <1>3, <2>1 DEF CompleteCaller
  <1>4. UNCHANGED call \/ \E c \in Callers : Caller(c) \/ CompleteCaller(c)
    BY DEF Next, Receive, Supplicant, Stopped, vars, Initialize, Deinitialize, Destruct, BssAdded,
           BssRemoved, ScanDone, CompleteScan, CompleteDetail, CompleteNetwork, CompleteLate,
           AnswerInternal, AnswerCaller, AnswerLate, Answers, BeginScan, EndScan, Appear, Disappear
  <1> QED BY <1>2, <1>3, <1>4

\* While a request is pending, neither completed nor given up, its caller waits.
LEMMA WaiterStays ==
    ASSUME TypeInv, Next, NEW c \in Callers, c \in ToSet(box), ~CompleteCaller(c), ~GiveUp(c)
    PROVE  call'[c] = call[c] \/ Marked(c)
  <1>1. Waits(call[c])
    BY DEF TypeInv, CallersWait, Waits
  <1>2. ~Caller(c)
    <2>1. Caller(c) => \/ call[c] = Idle \/ call[c].op = "activating"
                       \/ call[c].op = "destroying" \/ call[c].answer # "none"
      BY DEF Caller, Scan, Activated, FinishScan, FinishCreate, RemoveNetwork, FinishDestroy,
             FinishUse, Create, Destroy, Use, CanCall
    <2>2. ~Waits(Idle)
      BY DEF Waits, Idle
    <2> QED BY <1>1, <2>1, <2>2 DEF Waits
  <1> QED BY <1>2, CallerStays

\* One that is given up is not pending any more.
LEMMA GivenUp ==
    ASSUME TypeInv, Next, NEW c \in Callers, GiveUp(c)
    PROVE  /\ ~Heads(c)' /\ call'[c].answer = "fail" /\ call'[c].number = Unset
           /\ call'[c].op = call[c].op /\ call'[c].ssid = call[c].ssid
           /\ call'[c].stale = call[c].stale
  <1>1. ASSUME Heads(c)' PROVE c \in ToSet(box)'
    <2>1. box' \in Seq(Requests) /\ box' # <<>> /\ Head(box') = c
      BY <1>1, BoxAndInbox DEF BoxInv, Heads
    <2>2. c \in ToSet(box')
      BY <2>1, Taken
    <2> QED BY <2>2 DEF ToSet
  <1>2. call[c] \in Calls /\ call \in [Callers -> Calls]
    BY DEF TypeInv, TypeOK
  <1>3. /\ call' = [call EXCEPT ![c].answer = "fail", ![c].number = Unset]
        /\ c \notin ToSet(box)'
    BY GivesUp
  <1> QED BY <1>1, <1>2, <1>3 DEF Calls

\* Answers come from the supplicant alone, and so does the end of a scan.
LEMMA AnswerGiven ==
    ASSUME Next, ~answered, answered'
    PROVE  AnswerInternal \/ AnswerLate \/ \E c \in Callers : AnswerCaller(c)
  BY DEF Next, Receive, Caller, Supplicant, Stopped, vars, socket, Initialize, Deinitialize,
         Destruct, GiveUp, Scan, Activated, FinishScan, FinishCreate, RemoveNetwork, FinishDestroy,
         FinishUse, Create, Destroy, Use, BssAdded, BssRemoved, ScanDone, CompleteScan,
         CompleteDetail, CompleteNetwork, CompleteLate, CompleteCaller, Completes, BeginScan, EndScan,
         Appear, Disappear

LEMMA ScanOver ==
    ASSUME TypeInv, Next, busy, ~busy', busy' \in BOOLEAN
    PROVE  EndScan
  <1>1. UNCHANGED busy \/ busy' = TRUE \/ EndScan \/ \E k : Executes(k)
    BY DEF Next, Receive, Caller, Supplicant, Stopped, vars, radio, Initialize, Deinitialize,
           Destruct, GiveUp, Scan, Activated, FinishScan, FinishCreate, RemoveNetwork,
           FinishDestroy, FinishUse, Create, Destroy, Use, BssAdded, BssRemoved, ScanDone,
           CompleteScan, CompleteDetail, CompleteNetwork, CompleteLate, CompleteCaller, BeginScan,
           Appear, Disappear, AnswerInternal, AnswerCaller, AnswerLate
  <1> QED BY <1>1, ExecutedCommand

LEMMA EndIsSent ==
    ASSUME TypeInv, EndScan
    PROVE  Sends(Event("scanned", Nowhere)) /\ Coming("scanned", Nowhere)' /\ UNCHANGED answered
  <1>1. Event("scanned", Nowhere) \in Messages /\ Event("scanned", Nowhere).kind = "scanned"
        /\ Event("scanned", Nowhere).about = {Nowhere}
    BY IdsAreNotNone DEF Event, Messages, Names
  <1>2. Sends(Event("scanned", Nowhere)) /\ UNCHANGED answered
    BY <1>1 DEF EndScan, Tell, Sends
  <1> QED BY <1>1, <1>2, TypeInvParts, OrderSent

UnderWay ==
    \A i \in DOMAIN inbox, c \in Callers :
        inbox[i].kind = "answer" /\ inbox[i].ok /\ Heads(c) /\ call[c].op = "scan" =>
            busy \/ After(i, "scanned", Nowhere)

LEMMA UnderWayStep ==
    ASSUME TypeInv, Next, UnderWay
    PROVE  UnderWay'
  <1> SUFFICES ASSUME NEW i \in DOMAIN inbox', NEW c \in Callers, inbox'[i].kind = "answer",
                      inbox'[i].ok, Heads(c)', call'[c].op = "scan"
               PROVE  busy' \/ After(i, "scanned", Nowhere)'
    BY DEF UnderWay
  <1> USE NetworksAssumption
  <1>1. answered' /\ InboxInv /\ BoxInv /\ Heads(c) /\ busy \in BOOLEAN
    BY AnswerSteps, OldestStays, TypeInvParts DEF TypeInv, TypeOK, Internal
  <1>2. call[c].op = "scan"
    <2>1. c \in ToSet(box)
      BY <1>1, Taken DEF Heads, BoxInv
    <2>2. ~CompleteCaller(c)
      BY <1>1 DEF CompleteCaller, Completes
    <2>3. call'[c] = call[c] \/ Marked(c)
      BY <2>1, <2>2, WaiterStays, GivenUp
    <2>4. call[c] \in Calls
      BY DEF TypeInv, TypeOK
    <2> QED BY <2>3, <2>4 DEF Marked, Calls
  <1>3. ASSUME EndScan, i \in DOMAIN inbox PROVE After(i, "scanned", Nowhere)'
    <2>1. Sends(Event("scanned", Nowhere))
      BY <1>3, EndIsSent
    <2> QED BY <1>1, <1>3, <2>1, OrderSent DEF Event
  <1>4. CASE UNCHANGED inbox
    <2>1. busy \/ After(i, "scanned", Nowhere)
      BY <1>1, <1>2, <1>4 DEF UnderWay
    <2>2. After(i, "scanned", Nowhere) => After(i, "scanned", Nowhere)'
      BY <1>4 DEF After
    <2> QED BY <1>3, <1>4, <2>1, <2>2, ScanOver, DataKept
  <1>5. CASE Receives /\ Head(inbox).kind # "answer" /\ i + 1 \in DOMAIN inbox
               /\ inbox'[i] = inbox[i + 1]
    <2>1. busy \/ After(i + 1, "scanned", Nowhere)
      BY <1>1, <1>2, <1>5 DEF UnderWay
    <2>2. After(i + 1, "scanned", Nowhere) => After(i, "scanned", Nowhere)'
      BY <1>1, <1>5, OrderReceived
    <2>3. ~EndScan
      <3>1. EndScan => \E m : Sends(m)
        BY EndIsSent
      <3>2. ASSUME NEW m, Sends(m) PROVE FALSE
        <4>1. DOMAIN inbox' = 1..(Len(inbox) + 1) /\ Len(inbox) \in Nat
          BY <1>1, <3>2, InboxSends
        <4>2. DOMAIN inbox' = 1..(Len(inbox) - 1)
          BY <1>1, <1>5, InboxReceives
        <4> QED BY <4>1, <4>2
      <3> QED BY <3>1, <3>2
    <2> QED BY <2>1, <2>2, <2>3, ScanOver, DataKept
  <1>6. CASE \E m : Sends(m) /\ i \in DOMAIN inbox /\ inbox'[i] = inbox[i]
    <2>1. busy \/ After(i, "scanned", Nowhere)
      BY <1>1, <1>2, <1>6 DEF UnderWay
    <2>2. After(i, "scanned", Nowhere) => After(i, "scanned", Nowhere)'
      BY <1>1, <1>6, OrderSent
    <2> QED BY <1>3, <1>6, <2>1, <2>2, ScanOver, DataKept
  <1>7. CASE Sends(inbox'[i])
    <2>1. ~answered
      BY <1>7 DEF Sends
    <2>2. ~AnswerInternal /\ ~AnswerLate
      BY <1>1 DEF AnswerInternal, AnswerLate, Answers, Heads, Internal
    <2>3. PICK d \in Callers : AnswerCaller(d)
      BY <1>1, <2>1, <2>2, AnswerGiven
    <2>4. d = c
      BY <1>1, <2>3 DEF AnswerCaller, AnswerLate, Answers, Heads
    <2>5. PICK ok \in BOOLEAN : Tell(Answer(ok)) /\ busy' = (busy \/ ok)
      BY <1>2, <2>3, <2>4 DEF AnswerCaller, Executes
    <2>6. Answer(ok) \in Messages /\ Answer(ok).ok = ok
      BY IdsAreNotNone DEF Answer, Messages, Names
    <2>7. inbox' = Append(inbox, Answer(ok)) /\ inbox' = Append(inbox, inbox'[i])
      BY <1>7, <2>5 DEF Tell, Sends
    <2>8. inbox'[i] = Answer(ok)
      BY <1>1, <1>7, <2>6, <2>7, Appended DEF InboxInv, Sends
    <2> QED BY <2>5, <2>6, <2>8
  <1> QED BY <1>4, <1>5, <1>6, <1>7, AnswerSteps

\* The results of a scan stay ahead until they are taken over.
LEMMA AheadStays ==
    ASSUME TypeInv, Next, ScanAhead, ~Destruct, ~CompleteScan
    PROVE  ScanAhead'
  <1> USE NetworksAssumption
  <1>1. InboxInv /\ BoxInv /\ busy \in BOOLEAN
    BY TypeInvParts DEF TypeInv, TypeOK
  <1>2. CASE busy
    <2>1. busy' \/ EndScan
      BY <1>2, ScanOver, DataKept
    <2> QED BY <2>1, EndIsSent DEF ScanAhead
  <1>3. CASE Coming("scanned", Nowhere)
    <2>1. CASE UNCHANGED inbox
      BY <1>3, <2>1 DEF Coming, ScanAhead
    <2>2. CASE \E m : Sends(m)
      BY <1>1, <1>3, <2>2, OrderSent DEF ScanAhead
    <2>3. CASE Receives /\ Head(inbox).kind # "scanned"
      BY <1>1, <1>3, <2>3, OrderReceived DEF ScanAhead
    <2>4. CASE Receive /\ Head(inbox).kind = "scanned"
      <3>1. ScanDone
        BY <2>4 DEF Receive, BssAdded, BssRemoved, CompleteScan, CompleteDetail,
                    CompleteNetwork, CompleteLate, CompleteCaller, Completes
      <3>2. (box' = box /\ "scan" \in ToSet(box)) \/ box' = Append(box, "scan")
        BY <3>1 DEF ScanDone
      <3>3. "scan" \in ToSet(box)'
        BY <3>2, BoxMembers DEF Requests, Internal
      <3> QED BY <3>3 DEF ScanAhead
    <2> QED BY <2>1, <2>2, <2>3, <2>4, SocketSteps
  <1>4. CASE "scan" \in ToSet(box)
    <2>1. CASE UNCHANGED box
      BY <1>4, <2>1, BoxMembers DEF ScanAhead
    <2>2. CASE \E r : Demands(r)
      BY <1>1, <1>4, <2>2, BoxAppends DEF Demands, ScanAhead
    <2>3. CASE Completion
      <3>1. box # <<>> /\ Head(box) # "scan"
        BY <2>3 DEF Completion, CompleteDetail, CompleteNetwork, CompleteLate, CompleteCaller, Completes,
                    Internal
      <3>2. "scan" \in ToSet(box) \ {Head(box)}
        BY <1>4, <3>1
      <3>3. CASE Finishes
        BY <1>1, <3>2, <3>3, BoxTakes DEF Finishes, ScanAhead
      <3>4. CASE \E l : \E e : GoesOnWith(l, e)
        BY <1>1, <3>2, <3>4, ReevaluateKeeps DEF GoesOnWith, ScanAhead
      <3> QED BY <2>3, <3>3, <3>4, RequestsCompleted
    <2>4. Stopped => UNCHANGED box
      BY DEF Stopped, vars, requests
    <2>5. CASE \E c \in Callers : Abandons(c)
      <3>1. PICK c \in Callers : Abandons(c)
        BY <2>5
      <3>2. ToSet(box) \ {c} \subseteq ToSet(box)' /\ c # "scan"
        BY <3>1, TypeInvParts, BoxAbandons DEF Internal
      <3> QED BY <1>4, <3>2 DEF ScanAhead
    <2> QED BY <2>1, <2>2, <2>3, <2>4, <2>5, Actions, RequestsAdded
  <1> QED BY <1>2, <1>3, <1>4 DEF ScanAhead

LEMMA ScanStep ==
    ASSUME TypeInv, Next, UnderWay, ScanEnds, ~Destruct
    PROVE  ScanEnds'
  <1> SUFFICES ASSUME scanning'
               PROVE  \/ ScanAhead'
                      \/ \E c \in Callers : call'[c].op = "scan" /\ call'[c].answer # "ok"
    BY DEF ScanEnds
  <1> USE NetworksAssumption
  <1>0. InboxInv /\ BoxInv /\ call \in [Callers -> Calls] /\ busy \in BOOLEAN
    BY TypeInvParts DEF TypeInv, TypeOK
  <1>1. CASE ~scanning
    <2>1. \E c \in Callers : Activated(c)
      BY <1>1 DEF Next, Receive, Caller, Supplicant, Stopped, vars, lists, Initialize,
            Deinitialize, Destruct, GiveUp, Scan, FinishScan, ScanAnswered, FinishCreate, RemoveNetwork,
            FinishDestroy, FinishUse, Create, Destroy, Use, BssAdded, BssRemoved, ScanDone,
            CompleteScan, CompleteDetail, CompleteNetwork, CompleteLate, CompleteCaller, BeginScan, Appear,
            EndScan, Disappear, AnswerInternal, AnswerCaller, AnswerLate, Answers
    <2>2. PICK c \in Callers : call' = [call EXCEPT ![c] = [Idle EXCEPT !.op = "scan",
                                                                        !.ssid = Hidden]]
      BY <2>1 DEF Activated, Enter
    <2>3. call'[c].op = "scan" /\ call'[c].answer = "none"
      BY <1>0, <2>2 DEF Idle
    <2> QED BY <2>3
  <1>2. CASE ScanAhead
    <2>1. CompleteScan => ~scanning'
      BY DEF CompleteScan
    <2> QED BY <1>2, <2>1, AheadStays
  <1>3. ASSUME NEW c \in Callers, call[c].op = "scan", call[c].answer # "ok"
        PROVE  \/ ScanAhead'
               \/ \E d \in Callers : call'[d].op = "scan" /\ call'[d].answer # "ok"
    <2>1. CASE Caller(c)
      <3>1. FinishScan(c) \/ GiveUp(c)
        <4>1. call[c] # Idle
          BY <1>3 DEF Idle
        <4> QED BY <1>3, <2>1, <4>1
                DEF Caller, Scan, Activated, FinishCreate, RemoveNetwork, FinishDestroy,
                    FinishUse, Create, Destroy, Use, CanCall
      <3>2. CASE GiveUp(c)
        <4>1. call'[c].op = "scan" /\ call'[c].answer = "fail"
          BY <1>3, <3>2, GivenUp
        <4> QED BY <4>1
      <3> QED BY <1>3, <3>1, <3>2 DEF FinishScan, ScanAnswered
    <2>2. CASE CompleteCaller(c)
      <3>1. /\ Receives /\ Head(inbox).kind = "answer" /\ Heads(c) /\ UNCHANGED busy
            /\ call' = [call EXCEPT ![c].answer = IF Head(inbox).ok THEN "ok" ELSE "fail",
                                   ![c].number = Head(inbox).number]
        BY <2>2 DEF CompleteCaller, Completes, Receives, Heads, radio
      <3>2. Head(inbox) = inbox[1] /\ 1 \in DOMAIN inbox
        BY <1>0, <3>1, InboxReceives
      <3>3. CASE Head(inbox).ok
        <4>1. busy \/ After(1, "scanned", Nowhere)
          BY <1>3, <3>1, <3>2, <3>3 DEF UnderWay
        <4>2. busy' \/ Coming("scanned", Nowhere)'
          BY <1>0, <3>1, <4>1, OrderReceived
        <4> QED BY <4>2 DEF ScanAhead
      <3>4. CASE ~Head(inbox).ok
        <4>1. call'[c].op = "scan" /\ call'[c].answer = "fail"
          BY <1>0, <1>3, <3>1, <3>4 DEF Calls
        <4> QED BY <4>1
      <3> QED BY <3>3, <3>4
    <2>3. CASE ~Caller(c) /\ ~CompleteCaller(c)
      <3>1. call'[c] = call[c]
        BY <1>3, <2>3, CallerStays DEF Marked
      <3> QED BY <1>3, <3>1
    <2> QED BY <2>1, <2>2, <2>3
  <1> QED BY <1>1, <1>2, <1>3 DEF ScanEnds

\* After the last step nothing happens any more.
LEMMA DeadIsDead ==
    ASSUME Next, ~Alive
    PROVE  UNCHANGED vars
  BY DEF Next, Caller, Receive, Supplicant, Stopped, Initialize, Deinitialize, Destruct, GiveUp, Scan,
         Activated, FinishScan, FinishCreate, RemoveNetwork, FinishDestroy, FinishUse, Create,
         Destroy, Use, CanCall, BssAdded, BssRemoved, ScanDone, CompleteScan, CompleteDetail,
         CompleteNetwork, CompleteLate, CompleteCaller, Completes, AnswerInternal, AnswerCaller, AnswerLate, Answers, Room,
         BeginScan, EndScan, Appear, Disappear

LEMMA WorkStep == TypeInv /\ WorkInv /\ [Next]_vars => WorkInv'
  <1> SUFFICES ASSUME TypeInv, WorkInv, [Next]_vars PROVE WorkInv'
    OBVIOUS
  <1>1. CASE UNCHANGED vars
    BY <1>1 DEF vars, requests, lists, radio, socket, WorkInv, WorkGoesOn, ScanUnderWay, Alive,
                ScanAhead, Coming, Bare, After, Heads, ToSet
  <1>2. CASE Next /\ Alive
    <2>1. DetailsGoOn /\ ScanEnds /\ UnderWay
      BY <1>2 DEF WorkInv, WorkGoesOn, ScanUnderWay, DetailsGoOn, ScanEnds, UnderWay
    <2>2. UnderWay'
      BY <1>2, <2>1, UnderWayStep
    <2>3. CASE ~Destruct
      <3>1. DetailsGoOn' /\ ScanEnds'
        BY <1>2, <2>1, <2>3, DetailsStep, ScanStep
      <3> QED BY <2>2, <3>1
              DEF WorkInv, WorkGoesOn, ScanUnderWay, DetailsGoOn, ScanEnds, UnderWay
    <2>4. CASE Destruct
      BY <2>4 DEF Destruct, WorkInv, WorkGoesOn, ScanUnderWay, Alive
    <2> QED BY <2>3, <2>4
  <1> QED BY <1>1, <1>2, DeadIsDead

LEMMA WorkInit == Init => WorkInv
  <1> SUFFICES ASSUME Init PROVE WorkInv
    OBVIOUS
  <1>1. DOMAIN inbox = {} /\ Bare(listed) = {} /\ ~scanning
    BY DEF Init, Bare
  <1> QED BY <1>1 DEF WorkInv, WorkGoesOn, ScanUnderWay

\* What WifiControl has begun goes on (Reevaluate, Update, Activated, Aborted): while a
\* network has no detail one is being asked for, unless a detail nobody waited for came,
\* and IsScanning is true only while something is on its way to make it false.
THEOREM BegunGoesOn == Spec => []WorkGoesOn
  <1>1. WorkInv => WorkGoesOn
    BY DEF WorkInv
  <1>2. TypeInv /\ WorkInv /\ [Next]_vars => (TypeInv /\ WorkInv)'
    BY TypeInvStep, WorkStep
  <1> QED BY <1>1, <1>2, TypeInvInit, WorkInit, PTL DEF Spec

-----------------------------------------------------------------------------
(* The list of networks follows the air.                                   *)

\* Where a message is after a step: where it was, or it is new.
LEMMA MessageSteps ==
    ASSUME TypeInv, Next, NEW i \in DOMAIN inbox'
    PROVE  \/ \E o \in DOMAIN inbox :
                 /\ inbox'[i] = inbox[o]
                 /\ \A k, b : After(o, k, b) => After(i, k, b)'
                 /\ \A m : Sends(m) => \A b \in m.about : After(i, m.kind, b)'
           \/ Sends(inbox'[i])
  <1>1. InboxInv
    BY TypeInvParts
  <1>2. Len(inbox) \in Nat /\ DOMAIN inbox = 1..Len(inbox)
    BY <1>1, LenProperties DEF InboxInv
  <1>3. ASSUME NEW m, Sends(m)
        PROVE  DOMAIN inbox' = 1..(Len(inbox) + 1) /\ Len(inbox) + 1 \in DOMAIN inbox'
    <2>1. DOMAIN inbox' = 1..(Len(inbox) + 1)
      BY <1>1, <1>3, InboxSends
    <2> QED BY <1>2, <2>1
  <1>4. CASE UNCHANGED inbox
    <2>1. ASSUME NEW m, Sends(m) PROVE FALSE
      <3>1. Len(inbox) + 1 \in DOMAIN inbox
        BY <1>3, <1>4, <2>1
      <3> QED BY <1>2, <3>1
    <2>2. \A k, b : After(i, k, b) => After(i, k, b)'
      BY <1>4 DEF After
    <2> QED BY <1>4, <2>1, <2>2
  <1>5. CASE Receives
    <2>1. i + 1 \in DOMAIN inbox /\ inbox'[i] = inbox[i + 1] /\ DOMAIN inbox' = 1..(Len(inbox) - 1)
      BY <1>1, <1>5, InboxReceives
    <2>2. ASSUME NEW m, Sends(m) PROVE FALSE
      <3>1. Len(inbox) + 1 \in 1..(Len(inbox) - 1)
        BY <1>3, <2>1, <2>2
      <3> QED BY <1>2, <3>1
    <2>3. \A k, b : After(i + 1, k, b) => After(i, k, b)'
      BY <1>1, <1>5, OrderReceived
    <2> QED BY <2>1, <2>2, <2>3
  <1>6. ASSUME NEW n, Sends(n), i \in DOMAIN inbox
        PROVE  \E o \in DOMAIN inbox :
                 /\ inbox'[i] = inbox[o]
                 /\ \A k, b : After(o, k, b) => After(i, k, b)'
                 /\ \A m : Sends(m) => \A b \in m.about : After(i, m.kind, b)'
    <2>1. inbox'[i] = inbox[i]
      BY <1>1, <1>6, InboxSends
    <2>2. \A k, b : After(i, k, b) => After(i, k, b)'
      BY <1>1, <1>6, OrderSent
    <2>3. \A m : Sends(m) => \A b \in m.about : After(i, m.kind, b)'
      BY <1>1, <1>6, OrderSent
    <2> QED BY <1>6, <2>1, <2>2, <2>3
  <1>7. ASSUME NEW n, Sends(n), i \notin DOMAIN inbox PROVE Sends(inbox'[i])
    <2>1. i = Len(inbox) + 1
      BY <1>2, <1>3, <1>7
    <2>2. inbox'[i] = n
      BY <1>1, <1>7, <2>1, InboxSends
    <2> QED BY <1>7, <2>2
  <1>8. inbox' # <<>>
    OBVIOUS
  <1> QED BY <1>4, <1>5, <1>6, <1>7, <1>8, SocketSteps

\* Only the supplicant sends, and what it sends tells what it does.
LEMMA Sent ==
    ASSUME TypeInv, Next, NEW m, Sends(m)
    PROVE  \/ AnswerInternal /\ m.kind = "answer"
           \/ (AnswerLate \/ \E c \in Callers : AnswerCaller(c)) /\ m.kind = "answer"
           \/ \E b \in Bss : Appear(b) /\ m = Event("added", b)
           \/ \E b \in Bss : Disappear(b) /\ m = Event("removed", b)
           \/ EndScan /\ m = Event("scanned", Nowhere)
  <1> USE NetworksAssumption
  <1>1. InboxInv /\ m \in Messages /\ inbox' = Append(inbox, m)
    BY TypeInvParts DEF Sends
  <1>2. ASSUME NEW n \in Messages, Tell(n) PROVE m = n
    <2>1. inbox' = Append(inbox, n)
      BY <1>2 DEF Tell
    <2>2. \A x \in Messages : Append(inbox, x)[Len(inbox) + 1] = x
      BY <1>1, Appended DEF InboxInv
    <2>3. inbox'[Len(inbox) + 1] = n
      BY <1>2, <2>1, <2>2
    <2>4. inbox'[Len(inbox) + 1] = m
      BY <1>1, <2>2
    <2> QED BY <2>3, <2>4
  <1>3. \A b \in Bss \cup {Nowhere}, k \in {"added", "removed", "scanned"} :
            Event(k, b) \in Messages /\ Event(k, b).kind = k
    BY IdsAreNotNone DEF Event, Messages, Names
  <1>4. \A b \in Bss : Appear(b) => m = Event("added", b)
    BY <1>2, <1>3 DEF Appear
  <1>5. \A b \in Bss : Disappear(b) => m = Event("removed", b)
    BY <1>2, <1>3 DEF Disappear
  <1>6. EndScan => m = Event("scanned", Nowhere)
    BY <1>2, <1>3 DEF EndScan
  <1>7. inbox' # inbox /\ ~Receives /\ ~Destruct
    <2>1. /\ DOMAIN inbox' = 1..(Len(inbox) + 1) /\ Len(inbox) \in Nat /\ inbox' # <<>>
          /\ DOMAIN inbox = 1..Len(inbox)
      BY <1>1, InboxSends, Appended DEF InboxInv
    <2>2. Receives => DOMAIN inbox' = 1..(Len(inbox) - 1)
      BY <1>1, InboxReceives
    <2>3. /\ Len(inbox) + 1 \in DOMAIN inbox' /\ Len(inbox) + 1 \notin DOMAIN inbox
          /\ Len(inbox) + 1 \notin 1..(Len(inbox) - 1)
      BY <2>1
    <2> QED BY <2>1, <2>2, <2>3 DEF Destruct
  <1>8. Supplicant
    <2>1. ASSUME NEW c \in Callers, Caller(c) PROVE FALSE
      BY <1>7, <2>1 DEF Caller, GiveUp, Scan, Activated, FinishScan, FinishCreate, RemoveNetwork,
                FinishDestroy, FinishUse, Create, Destroy, Use, socket
    <2>2. ~Receive
      BY <1>7 DEF Receive, BssAdded, BssRemoved, ScanDone, CompleteScan, CompleteDetail,
                CompleteNetwork, CompleteLate, CompleteCaller, Completes, Receives
    <2> QED BY <1>7, <2>1, <2>2 DEF Next, Initialize, Deinitialize, Stopped, vars, socket
  <1>9. (AnswerInternal \/ AnswerLate \/ \E c \in Callers : AnswerCaller(c)) => m.kind = "answer"
    BY DEF AnswerInternal, AnswerCaller, AnswerLate, Answers, Sends
  <1>10. ~BeginScan
    BY <1>7 DEF BeginScan, socket
  <1> QED BY <1>4, <1>5, <1>6, <1>8, <1>9, <1>10 DEF Supplicant

\* What comes into the air or goes out of it is reported.
LEMMA AirSteps ==
    ASSUME TypeInv, Next, NEW b, b \in air <=> ~(b \in air')
    PROVE  \/ b \in air' /\ Appear(b) /\ Sends(Event("added", b))
           \/ b \in air /\ Disappear(b) /\ Sends(Event("removed", b))
  <1> USE NetworksAssumption
  <1>1. \E d \in Bss : Appear(d) \/ Disappear(d)
    BY DEF Next, Receive, Caller, Supplicant, Stopped, vars, radio, Initialize, Deinitialize,
           Destruct, GiveUp, Scan, Activated, FinishScan, FinishCreate, RemoveNetwork, FinishDestroy,
           FinishUse, Create, Destroy, Use, BssAdded, BssRemoved, ScanDone, CompleteScan,
           CompleteDetail, CompleteNetwork, CompleteLate, CompleteCaller, BeginScan, EndScan,
           AnswerInternal, AnswerCaller, AnswerLate, Answers
  <1>2. /\ b \in Bss
        /\ \/ Appear(b) /\ b \in air' /\ inbox' = Append(inbox, Event("added", b))
           \/ Disappear(b) /\ b \in air /\ inbox' = Append(inbox, Event("removed", b))
        /\ UNCHANGED answered
    BY <1>1 DEF Appear, Disappear, Tell
  <1>3. \A k \in {"added", "removed"} : /\ Event(k, b) \in Messages /\ Event(k, b).kind = k
                                        /\ Event(k, b).about = {b}
    BY <1>2, IdsAreNotNone DEF Event, Messages, Names
  <1> QED BY <1>2, <1>3 DEF Sends

\* AirInOrder, of one message.
InOrder(i, b) ==
    /\ inbox[i].kind = "answer" /\ b \in inbox[i].about =>
          b \in air \/ After(i, "removed", b)
    /\ inbox[i].kind = "answer" /\ inbox[i].ok /\ Heads("detail") /\ asked = b =>
          b \in air \/ After(i, "removed", b)
    /\ inbox[i].kind = "answer" /\ Heads("scan") /\ b \in air =>
          b \in inbox[i].about \/ After(i, "added", b)
    /\ inbox[i].kind = "removed" /\ b \in inbox[i].about /\ b \in air =>
          After(i, "added", b)
    /\ inbox[i].kind = "added" /\ b \in inbox[i].about =>
          busy \/ After(i, "scanned", Nowhere)

MessagesInOrder == \A i \in DOMAIN inbox, b \in Bss : InOrder(i, b)

\* A message that was in order stays so ...
LEMMA OldMessage ==
    ASSUME TypeInv, Next, NEW i \in DOMAIN inbox', NEW b \in Bss, NEW o \in DOMAIN inbox,
           InOrder(o, b), inbox'[i] = inbox[o],
           \A k, d : After(o, k, d) => After(i, k, d)',
           \A m : Sends(m) => \A d \in m.about : After(i, m.kind, d)'
    PROVE  InOrder(i, b)'
  <1>1. ASSUME b \in air PROVE b \in air' \/ After(i, "removed", b)'
    <2>1. CASE b \notin air'
      <3>1. Sends(Event("removed", b))
        BY <1>1, <2>1, AirSteps
      <3> QED BY <3>1 DEF Event
    <2> QED BY <2>1
  <1>2. ASSUME b \in air' PROVE b \in air \/ After(i, "added", b)'
    <2>1. CASE b \notin air
      <3>1. Sends(Event("added", b))
        BY <1>2, <2>1, AirSteps
      <3> QED BY <3>1 DEF Event
    <2> QED BY <2>1
  <1>3. ASSUME busy PROVE busy' \/ After(i, "scanned", Nowhere)'
    <2>1. CASE ~busy'
      <3>1. Sends(Event("scanned", Nowhere))
        BY <1>3, <2>1, ScanOver, EndIsSent, DataKept
      <3> QED BY <3>1 DEF Event
    <2> QED BY <2>1
  <1>4. ASSUME inbox'[i].kind = "answer"
        PROVE  /\ Heads("detail")' => Heads("detail") /\ asked' = asked
               /\ Heads("scan")' => Heads("scan")
    <2>1. answered'
      BY <1>4, AnswerSteps
    <2>2. Heads("detail") => "detail" \in ToSet(box)
      BY Taken, TypeInvParts DEF Heads, BoxInv
    <2> QED BY <2>1, <2>2, OldestStays
  <1>5. inbox'[i].kind = "answer" /\ b \in inbox'[i].about =>
            b \in air' \/ After(i, "removed", b)'
    BY <1>1 DEF InOrder
  <1>6. inbox'[i].kind = "answer" /\ inbox'[i].ok /\ Heads("detail")' /\ asked' = b =>
            b \in air' \/ After(i, "removed", b)'
    BY <1>1, <1>4 DEF InOrder
  <1>7. inbox'[i].kind = "answer" /\ Heads("scan")' /\ b \in air' =>
            b \in inbox'[i].about \/ After(i, "added", b)'
    BY <1>2, <1>4 DEF InOrder
  <1>8. inbox'[i].kind = "removed" /\ b \in inbox'[i].about /\ b \in air' =>
            After(i, "added", b)'
    BY <1>2 DEF InOrder
  <1>9. inbox'[i].kind = "added" /\ b \in inbox'[i].about =>
            busy' \/ After(i, "scanned", Nowhere)'
    BY <1>3 DEF InOrder
  <1> QED BY <1>5, <1>6, <1>7, <1>8, <1>9 DEF InOrder

\* ... and one that is sent is in order.
LEMMA NewMessage ==
    ASSUME TypeInv, Next, NEW i \in DOMAIN inbox', NEW b \in Bss, Sends(inbox'[i])
    PROVE  InOrder(i, b)'
  <1> USE NetworksAssumption
  <1> DEFINE m == inbox'[i]
  <1>1. InboxInv /\ BoxInv /\ m \in Messages /\ inbox' = Append(inbox, m)
    BY TypeInvParts DEF Sends
  <1>2. ASSUME NEW n \in Messages, Tell(n) PROVE m = n
    <2> HIDE DEF m
    <2>1. inbox' = Append(inbox, n)
      BY <1>2 DEF Tell
    <2>2. \A x \in Messages : Append(inbox, x)[Len(inbox) + 1] = x
      BY <1>1, Appended DEF InboxInv
    <2>3. inbox'[Len(inbox) + 1] = n
      BY <1>2, <2>1, <2>2
    <2>4. inbox'[Len(inbox) + 1] = m
      BY <1>1, <2>2
    <2> QED BY <2>3, <2>4
  <1>3. ASSUME NEW r, Answers(r)
        PROVE  /\ Heads(r) /\ air' = air /\ asked' = asked
               /\ \A q : Heads(q)' <=> q = r
    BY <1>3 DEF Answers, Heads, requests
  <1>4. \A ok \in BOOLEAN : /\ Answer(ok) \in Messages /\ Answer(ok).about = {}
                            /\ Answer(ok).ok = ok /\ Answer(ok).kind = "answer"
    BY IdsAreNotNone DEF Answer, Messages, Names
  <1>5. CASE AnswerInternal
    <2>1. m.kind = "answer"
      BY <1>5, <1>1 DEF AnswerInternal, Answers, Sends
    <2>2. CASE Answers("scan") /\ Tell([Answer(TRUE) EXCEPT !.about = air])
      <3>1. /\ [Answer(TRUE) EXCEPT !.about = air] \in Messages
            /\ [Answer(TRUE) EXCEPT !.about = air].about = air
        BY IdsAreNotNone DEF Answer, Messages, Names, TypeInv, TypeOK
      <3>2. m.about = air
        BY <1>2, <2>2, <3>1
      <3>3. ~Heads("detail")' /\ air' = air
        BY <1>3, <2>2
      <3> QED BY <2>1, <3>2, <3>3 DEF InOrder
    <2>3. CASE Answers("detail") /\ Tell(Answer(asked \in air))
      <3>1. (asked \in air) \in BOOLEAN
        OBVIOUS
      <3>2. m = Answer(asked \in air)
        BY <1>2, <1>4, <2>3, <3>1, Zenon
      <3>3. m.about = {} /\ (m.ok <=> asked \in air)
        BY <1>4, <3>1, <3>2, Zenon
      <3>4. ~Heads("scan")' /\ air' = air /\ asked' = asked
        BY <1>3, <2>3
      <3> QED BY <2>1, <3>3, <3>4 DEF InOrder
    <2>4. CASE Answers("network")
      <3>1. \/ Tell(Answer(FALSE))
            \/ \E s \in Names : Tell([Answer(TRUE) EXCEPT !.name = s])
        <4>1. ~Answers("scan") /\ ~Answers("detail")
          BY <2>4 DEF Answers
        <4> QED BY <1>5, <4>1 DEF AnswerInternal
      <3>2. \A s \in Names : /\ [Answer(TRUE) EXCEPT !.name = s] \in Messages
                             /\ [Answer(TRUE) EXCEPT !.name = s].about = {}
        BY IdsAreNotNone DEF Answer, Messages
      <3>3. m.about = {}
        BY <1>2, <1>4, <3>1, <3>2
      <3>4. ~Heads("scan")' /\ ~Heads("detail")'
        BY <1>3, <2>4
      <3> QED BY <2>1, <3>3, <3>4 DEF InOrder
    <2> QED BY <1>5, <2>2, <2>3, <2>4 DEF AnswerInternal
  <1>6. ASSUME NEW r, Answers(r), r \notin {"scan", "detail"}, NEW k, Executes(k)
        PROVE  InOrder(i, b)'
    <2>1. m.kind = "answer"
      BY <1>6, <1>1 DEF Answers, Sends
    <2>2. \/ \E ok \in BOOLEAN : Tell(Answer(ok))
          \/ \E n \in Profiles : Tell([Answer(TRUE) EXCEPT !.number = n])
      BY <1>6, ExecutedCommand
    <2>3. \A n \in Profiles : /\ [Answer(TRUE) EXCEPT !.number = n] \in Messages
                              /\ [Answer(TRUE) EXCEPT !.number = n].about = {}
      BY DEF Answer, Messages, Ids, Names
    <2>4. m.about = {}
      BY <1>2, <1>4, <2>2, <2>3
    <2>5. ~Heads("scan")' /\ ~Heads("detail")'
      BY <1>3, <1>6
    <2> QED BY <2>1, <2>4, <2>5 DEF InOrder
  <1>10. ASSUME NEW c \in Callers, AnswerCaller(c) PROVE InOrder(i, b)'
    <2>1. c \notin {"scan", "detail"}
      BY DEF Internal
    <2> QED BY <1>6, <1>10, <2>1 DEF AnswerCaller
  <1>11. CASE AnswerLate
    BY <1>6, <1>11 DEF AnswerLate
  <1>7. ASSUME NEW d \in Bss, Appear(d), m = Event("added", d) PROVE InOrder(i, b)'
    BY <1>7 DEF Appear, Event, InOrder
  <1>8. ASSUME NEW d \in Bss, Disappear(d), m = Event("removed", d) PROVE InOrder(i, b)'
    BY <1>8 DEF Disappear, Event, InOrder
  <1>9. ASSUME m = Event("scanned", Nowhere) PROVE InOrder(i, b)'
    BY <1>9 DEF Event, InOrder
  <1> HIDE DEF m
  <1> QED BY <1>5, <1>7, <1>8, <1>9, <1>10, <1>11, Sent DEF m

LEMMA OrderStep ==
    ASSUME TypeInv, Next, MessagesInOrder
    PROVE  MessagesInOrder'
  <1> SUFFICES ASSUME NEW i \in DOMAIN inbox', NEW b \in Bss PROVE InOrder(i, b)'
    BY DEF MessagesInOrder
  <1> QED BY OldMessage, NewMessage, MessageSteps DEF MessagesInOrder

\* A removal or an appearance that is coming is coming until it is received.
LEMMA ComingStays ==
    ASSUME TypeInv, Next, NEW k, NEW b, Coming(k, b), ~Destruct
    PROVE  \/ Coming(k, b)'
           \/ Receive /\ Receives /\ Head(inbox).kind = k /\ b \in Head(inbox).about
  <1>1. InboxInv
    BY TypeInvParts
  <1>2. CASE UNCHANGED inbox
    BY <1>2 DEF Coming
  <1>3. CASE \E m : Sends(m)
    BY <1>1, <1>3, OrderSent
  <1>4. CASE Receive /\ Receives
    BY <1>1, <1>4, OrderReceived
  <1> QED BY <1>2, <1>3, <1>4, SocketSteps

\* The actions that change what is listed.
LEMMA ListedChanges ==
    ASSUME Next, ~BssRemoved, ~CompleteScan, ~CompleteDetail
    PROVE  UNCHANGED listed
  BY DEF Next, Caller, Receive, Supplicant, Stopped, vars, lists, Initialize, Deinitialize,
         Destruct, GiveUp, Scan, Activated, FinishScan, FinishCreate, RemoveNetwork, FinishDestroy,
         FinishUse, Create, Destroy, Use, BssAdded, ScanDone, CompleteNetwork,
         CompleteLate, CompleteCaller, AnswerInternal, AnswerCaller, AnswerLate, Answers, BeginScan, EndScan, Appear,
         Disappear

\* The message in front, when it is an answer to the request r.
LEMMA Completed ==
    ASSUME TypeInv, NEW r, Completes(r)
    PROVE  /\ InboxInv /\ Receives /\ Heads(r) /\ 1 \in DOMAIN inbox /\ Head(inbox) = inbox[1]
           /\ Head(inbox) \in Messages /\ Head(inbox).kind = "answer"
           /\ Head(inbox).about \subseteq Bss
  <1>1. InboxInv /\ Receives /\ Heads(r) /\ Head(inbox).kind = "answer"
    BY TypeInvParts DEF Completes, Receives, Heads
  <1> QED BY <1>1, InboxReceives

NoGhost(b) == listed[b] \in {"bare", "detailed"} => b \in air \/ Coming("removed", b)

NoneLost(b) ==
    b \in air => \/ listed[b] # "absent" \/ Coming("added", b)
                 \/ "detail" \in ToSet(box) /\ asked = b
                 \/ ScanAhead

LEMMA NoGhostStep ==
    ASSUME TypeInv, Next, MessagesInOrder, ~Destruct, NEW b \in Bss, NoGhost(b)
    PROVE  NoGhost(b)'
  <1> SUFFICES ASSUME listed'[b] \in {"bare", "detailed"}
               PROVE  b \in air' \/ Coming("removed", b)'
    BY DEF NoGhost
  <1>1. CASE b \in air
    <2>1. b \in air' \/ Sends(Event("removed", b))
      BY <1>1, AirSteps
    <2> QED BY <2>1, TypeInvParts, OrderSent DEF Event
  <1>2. CASE Coming("removed", b)
    <2>1. CASE Receive /\ Receives /\ Head(inbox).kind = "removed" /\ b \in Head(inbox).about
      <3>1. BssRemoved
        BY <2>1 DEF Receive, BssAdded, ScanDone, CompleteScan, CompleteDetail, CompleteNetwork,
                    CompleteLate, CompleteCaller, Completes
      <3>2. listed'[b] = "absent"
        BY <2>1, <3>1 DEF BssRemoved, WithoutRemoved
      <3> QED BY <3>2
    <2> QED BY <1>2, <2>1, ComingStays
  <1>3. CASE listed[b] \notin {"bare", "detailed"}
    <2>1. listed \in [Bss -> Entries]
      BY DEF TypeInv, TypeOK
    <2>2. ~BssRemoved
      BY <1>3, <2>1 DEF BssRemoved, WithoutRemoved
    <2>3. CASE CompleteScan
      <3>1. Completes("scan") /\ UNCHANGED air
        BY <2>3 DEF CompleteScan, radio
      <3>2. b \in Head(inbox).about
        BY <1>3, <2>1, <2>3 DEF CompleteScan
      <3>3. b \in air \/ After(1, "removed", b)
        BY <3>1, <3>2, Completed DEF MessagesInOrder, InOrder
      <3> QED BY <3>1, <3>3, Completed, OrderReceived
    <2>4. CASE CompleteDetail
      <3>1. /\ Completes("detail") /\ UNCHANGED air
            /\ listed' = [listed EXCEPT ![asked] = Detailed(asked, Head(inbox).ok)]
        BY <2>4 DEF CompleteDetail, radio
      <3>2. asked = b
        BY <1>3, <2>1, <3>1
      <3>3. listed'[b] = Detailed(b, Head(inbox).ok)
        BY <2>1, <3>1, <3>2
      <3>4. Head(inbox).ok \in BOOLEAN
        BY <3>1, Completed DEF Messages
      <3>5. Head(inbox).ok
        BY <3>3, <3>4 DEF Detailed
      <3>6. b \in air \/ After(1, "removed", b)
        BY <3>1, <3>2, <3>5, Completed DEF MessagesInOrder, InOrder
      <3> QED BY <3>1, <3>6, Completed, OrderReceived
    <2> QED BY <1>3, <2>2, <2>3, <2>4, ListedChanges
  <1> QED BY <1>1, <1>2, <1>3 DEF NoGhost

\* A detail request is for the same BSS until its answer comes.
LEMMA DetailStays ==
    ASSUME TypeInv, Next, "detail" \in ToSet(box), ~CompleteDetail, ~Destruct
    PROVE  "detail" \in ToSet(box)' /\ asked' = asked
  <1> USE NetworksAssumption
  <1>1. BoxInv
    BY TypeInvParts
  <1>2. CASE UNCHANGED <<box, asked>>
    BY <1>2, BoxMembers
  <1>3. CASE \E r : Demands(r)
    BY <1>1, <1>3, BoxAppends DEF Demands
  <1>4. CASE Completion
    <2>1. box # <<>> /\ Head(box) # "detail"
      BY <1>4 DEF Completion, CompleteScan, CompleteNetwork, CompleteLate, CompleteCaller, Completes, Internal
    <2>2. CASE Finishes
      BY <1>1, <2>1, <2>2, BoxTakes DEF Finishes
    <2>3. CASE \E l : \E e : GoesOnWith(l, e)
      <3>1. PICK l, e : GoesOnWith(l, e)
        BY <2>3
      <3> QED BY <1>1, <2>1, <3>1, ReevaluateKeeps DEF GoesOnWith
    <2> QED BY <1>4, <2>2, <2>3, RequestsCompleted
  <1>5. Stopped => UNCHANGED <<box, asked>>
    BY DEF Stopped, vars, requests
  <1>6. CASE \E c \in Callers : Abandons(c)
    <2>1. PICK c \in Callers : Abandons(c)
      BY <1>6
    <2>2. ToSet(box) \ {c} \subseteq ToSet(box)' /\ c # "detail"
      BY <2>1, TypeInvParts, BoxAbandons DEF Internal
    <2> QED BY <2>1, <2>2 DEF Abandons
  <1> QED BY <1>2, <1>3, <1>4, <1>5, <1>6, Actions, RequestsAdded

LEMMA NoneLostStep ==
    ASSUME TypeInv, Next, MessagesInOrder, ~Destruct, NEW b \in Bss, NoneLost(b)
    PROVE  NoneLost(b)'
  <1> SUFFICES ASSUME b \in air'
               PROVE  \/ listed'[b] # "absent" \/ Coming("added", b)'
                      \/ "detail" \in ToSet(box)' /\ asked' = b
                      \/ ScanAhead'
    BY DEF NoneLost
  <1>0. listed \in [Bss -> Entries] /\ InboxInv /\ BoxInv
    BY TypeInvParts DEF TypeInv, TypeOK
  <1>1. CASE b \notin air
    <2>1. Sends(Event("added", b))
      BY <1>1, AirSteps
    <2> QED BY <1>0, <2>1, OrderSent DEF Event
  <1>2. CASE b \in air /\ listed[b] # "absent"
    <2>1. CASE BssRemoved
      <3>1. CASE b \in Head(inbox).about
        <4>1. Receives /\ Head(inbox).kind = "removed"
          BY <2>1 DEF BssRemoved, Receives
        <4>2. After(1, "added", b)
          BY <1>0, <1>2, <3>1, <4>1, InboxReceives DEF MessagesInOrder, InOrder
        <4> QED BY <1>0, <4>1, <4>2, OrderReceived
      <3>2. CASE b \notin Head(inbox).about
        BY <1>2, <2>1, <3>2 DEF BssRemoved, WithoutRemoved
      <3> QED BY <3>1, <3>2
    <2>2. CASE CompleteScan
      BY <1>0, <1>2, <2>2 DEF CompleteScan
    <2>3. CASE CompleteDetail
      <3>1. listed' = [listed EXCEPT ![asked] = Detailed(asked, Head(inbox).ok)]
        BY <2>3 DEF CompleteDetail
      <3>2. Detailed(asked, Head(inbox).ok) # "absent"
        BY DEF Detailed
      <3> QED BY <1>0, <1>2, <3>1, <3>2
    <2> QED BY <1>2, <2>1, <2>2, <2>3, ListedChanges
  <1>3. CASE Coming("added", b)
    <2>1. CASE Receive /\ Receives /\ Head(inbox).kind = "added" /\ b \in Head(inbox).about
      <3>1. BssAdded
        BY <2>1 DEF Receive, BssRemoved, ScanDone, CompleteScan, CompleteDetail, CompleteNetwork,
                    CompleteLate, CompleteCaller, Completes
      <3>2. busy \/ After(1, "scanned", Nowhere)
        BY <1>0, <2>1, InboxReceives DEF MessagesInOrder, InOrder
      <3>3. busy' = busy
        BY <3>1 DEF BssAdded, radio
      <3>4. busy' \/ Coming("scanned", Nowhere)'
        BY <1>0, <2>1, <3>2, <3>3, OrderReceived
      <3> QED BY <3>4 DEF ScanAhead
    <2> QED BY <1>3, <2>1, ComingStays
  <1>4. CASE "detail" \in ToSet(box) /\ asked = b
    <2>1. CASE CompleteDetail
      <3>1. listed' = [listed EXCEPT ![asked] = Detailed(asked, Head(inbox).ok)]
        BY <2>1 DEF CompleteDetail
      <3>2. Detailed(asked, Head(inbox).ok) # "absent"
        BY DEF Detailed
      <3> QED BY <1>0, <1>4, <3>1, <3>2
    <2> QED BY <1>4, <2>1, DetailStays
  <1>5. CASE b \in air /\ ScanAhead
    <2>1. CASE CompleteScan
      <3>1. /\ Completes("scan")
            /\ listed' = [d \in Bss |-> IF d \in Head(inbox).about THEN "bare" ELSE listed[d]]
        BY <2>1 DEF CompleteScan
      <3>2. b \in Head(inbox).about \/ After(1, "added", b)
        BY <1>5, <3>1, Completed DEF MessagesInOrder, InOrder
      <3> QED BY <3>1, <3>2, Completed, OrderReceived
    <2> QED BY <1>5, <2>1, AheadStays
  <1> QED BY <1>1, <1>2, <1>3, <1>4, <1>5 DEF NoneLost

LEMMA ListStep == TypeInv /\ ListInv /\ [Next]_vars => ListInv'
  <1> SUFFICES ASSUME TypeInv, ListInv, [Next]_vars PROVE ListInv'
    OBVIOUS
  <1>1. CASE UNCHANGED vars
    BY <1>1 DEF vars, requests, lists, radio, socket, ListInv, ListFollowsAir, AirInOrder, Alive,
                ScanAhead, Coming, After, Heads, ToSet
  <1>2. CASE Next /\ Alive
    <2>1. MessagesInOrder /\ \A b \in Bss : NoGhost(b) /\ NoneLost(b)
      BY <1>2 DEF ListInv, ListFollowsAir, AirInOrder, MessagesInOrder, InOrder, NoGhost, NoneLost
    <2>2. CASE ~Destruct
      <3>1. MessagesInOrder'
        BY <1>2, <2>1, OrderStep
      <3>2. \A b \in Bss : NoGhost(b)' /\ NoneLost(b)'
        BY <1>2, <2>1, <2>2, NoGhostStep, NoneLostStep
      <3>3. AirInOrder'
        BY <3>1 DEF AirInOrder, MessagesInOrder, InOrder
      <3>4. ListFollowsAir'
        BY <3>2 DEF ListFollowsAir, NoGhost, NoneLost
      <3> QED BY <3>3, <3>4 DEF ListInv
    <2>3. CASE Destruct
      BY <2>3 DEF Destruct, ListInv, ListFollowsAir, AirInOrder, Alive
    <2> QED BY <2>2, <2>3
  <1> QED BY <1>1, <1>2, DeadIsDead

LEMMA ListInit == Init => ListInv
  <1> SUFFICES ASSUME Init PROVE ListInv
    OBVIOUS
  <1>1. DOMAIN inbox = {} /\ air = {} /\ \A b \in Bss : listed[b] = "absent"
    BY DEF Init
  <1> QED BY <1>1 DEF ListInv, ListFollowsAir, AirInOrder

\* The list of networks follows the air (ReceiveData, ScanRequest, DetailRequest, Update):
\* for any number of access points and any length of the inbox, no network stays listed with
\* its data after it has gone without its removal coming, and none that is there is lost.
THEOREM ListIsOfTheAir == Spec => []ListFollowsAir
  <1>1. ListInv => ListFollowsAir
    BY DEF ListInv
  <1>2. TypeInv /\ ListInv /\ [Next]_vars => (TypeInv /\ ListInv)'
    BY TypeInvStep, ListStep
  <1> QED BY <1>1, <1>2, TypeInvInit, ListInit, PTL DEF Spec

-----------------------------------------------------------------------------
(* No profile is forgotten.                                                *)

\* NumbersInOrder, of one caller.
Creates(c) ==
    call[c].op = "create" =>
        /\ enabled[call[c].ssid] = Unset
        /\ \A d \in Callers : call[d].op = "create" /\ call[d].ssid = call[c].ssid => c = d
        /\ call[c].answer = "none" => call[c].number = Unset

Destroys(c) ==
    ~call[c].stale =>
        /\ call[c].op \in {"destroying", "destroy"} => enabled[call[c].ssid] \notin {None, Unset}
        /\ call[c].op = "destroy" /\ call[c].answer = "none" =>
              call[c].number = enabled[call[c].ssid]

EventsHaveNone == \A i \in DOMAIN inbox : inbox[i].kind # "answer" => inbox[i].number = Unset

Numbers == EventsHaveNone /\ \A c \in Callers : Creates(c) /\ Destroys(c)

\* Where a caller gets when it goes on.
LEMMA CallerGoes ==
    ASSUME TypeInv, NEW c \in Callers, Caller(c)
    PROVE  \/ call'[c].op \notin {"create", "destroying", "destroy"}
           \/ /\ GiveUp(c) /\ call'[c].op = call[c].op /\ call'[c].ssid = call[c].ssid
              /\ call'[c].stale = call[c].stale /\ call'[c].answer = "fail"
           \/ \E s \in Ssids : /\ Create(c, s) /\ call'[c].op = "create" /\ call'[c].ssid = s
                               /\ call'[c].number = Unset
           \/ \E s \in Ssids : /\ Destroy(c, s) /\ call'[c].op = "destroying"
                               /\ call'[c].ssid = s /\ call'[c].answer = "none"
           \/ /\ RemoveNetwork(c) /\ call'[c].op = "destroy" /\ call'[c].ssid = call[c].ssid
              /\ call'[c].stale = call[c].stale /\ call'[c].answer = "none"
              /\ ~call[c].stale => call'[c].number = enabled[call[c].ssid]
  <1>0. call \in [Callers -> Calls] /\ call[c] \in Calls
    BY DEF TypeInv, TypeOK
  <1>1. ASSUME call' = [call EXCEPT ![c] = Idle]
        PROVE  call'[c].op \notin {"create", "destroying", "destroy"}
    BY <1>0, <1>1 DEF Idle
  <1>2. ASSUME NEW o, NEW s, Enter(c, o, s)
        PROVE  /\ call'[c].op = o /\ call'[c].ssid = s /\ call'[c].number = Unset
               /\ call'[c].answer = "none"
    BY <1>0, <1>2 DEF Enter, Idle
  <1>3. ASSUME NEW o, Submitted(c, o)
        PROVE  /\ call'[c].op = o /\ call'[c].ssid = call[c].ssid
               /\ call'[c].stale = call[c].stale /\ call'[c].answer = "none"
               /\ ~call[c].stale => call'[c].number = enabled[call[c].ssid]
    BY <1>0, <1>3 DEF Submitted, Calls
  <1>4. CASE Scan(c)
    BY <1>2, <1>4 DEF Scan
  <1>5. CASE Activated(c)
    BY <1>2, <1>5 DEF Activated
  <1>6. CASE FinishScan(c) \/ FinishCreate(c)
    BY <1>1, <1>6 DEF FinishScan, FinishCreate, Leave
  <1>7. CASE FinishDestroy(c)
    BY <1>0, <1>1, <1>7 DEF FinishDestroy, Leave, Erase, Idle
  <1>8. CASE RemoveNetwork(c)
    BY <1>3, <1>8 DEF RemoveNetwork
  <1>9. CASE FinishUse(c)
    BY <1>1, <1>3, <1>9 DEF FinishUse, Leave
  <1>10. ASSUME NEW s \in Ssids, Create(c, s)
         PROVE  call'[c].op = "create" /\ call'[c].ssid = s /\ call'[c].number = Unset
    BY <1>2, <1>10 DEF Create
  <1>11. ASSUME NEW s \in Ssids, Destroy(c, s)
         PROVE  call'[c].op = "destroying" /\ call'[c].ssid = s /\ call'[c].answer = "none"
    BY <1>2, <1>11 DEF Destroy
  <1>12. ASSUME NEW s \in Ssids, Use(c, s) PROVE call'[c].op = "use"
    BY <1>0, <1>12 DEF Use, Idle
  <1>13. CASE GiveUp(c)
    <2> DEFINE k == [call[c] EXCEPT !.answer = "fail", !.number = Unset]
    <2>1. call' = [call EXCEPT ![c] = k]
      BY <1>13, GivesUp
    <2>2. /\ k.op = call[c].op /\ k.ssid = call[c].ssid /\ k.stale = call[c].stale
          /\ k.answer = "fail"
      BY <1>0 DEF Calls
    <2> HIDE DEF k
    <2> QED BY <1>0, <1>13, <2>1, <2>2
  <1> QED BY <1>4, <1>5, <1>6, <1>7, <1>8, <1>9, <1>10, <1>11, <1>12, <1>13
          DEF Caller

LEMMA CallerCompleted ==
    ASSUME TypeInv, NEW c \in Callers, CompleteCaller(c)
    PROVE  /\ call'[c].op = call[c].op /\ call'[c].ssid = call[c].ssid
           /\ call'[c].stale = call[c].stale /\ call'[c].answer # "none"
           /\ call'[c].answer = "ok" => Head(inbox).ok
           /\ call'[c].number = Head(inbox).number
           /\ Waits(call[c]) /\ enabled' = enabled
  <1>0. call \in [Callers -> Calls] /\ call[c] \in Calls
    BY DEF TypeInv, TypeOK
  <1>1. Completes(c) /\ enabled' = enabled
    BY DEF CompleteCaller, lists
  <1>2. c \in ToSet(box)
    BY <1>1, Taken, TypeInvParts DEF Completes, BoxInv
  <1>3. Waits(call[c])
    BY <1>2 DEF TypeInv, CallersWait, Waits
  <1> QED BY <1>0, <1>1, <1>3 DEF CompleteCaller, Calls

\* An entry is made where there was none, given its number by the caller that made it, and
\* erased by the caller that destroyed it.
LEMMA EntrySteps ==
    ASSUME TypeInv, Next, Alive', NEW s \in Ssids, enabled[s] # None
    PROVE  \/ enabled'[s] = enabled[s]
           \/ \E d \in Callers : FinishCreate(d) /\ call[d].op = "create" /\ call[d].ssid = s
           \/ \E d \in Callers : /\ FinishDestroy(d) /\ Erase(d, s)
                                 /\ call[d].op = "destroy" /\ call[d].ssid = s
                                 /\ ~call[d].stale /\ call[d].answer = "ok"
  <1>0. enabled \in [Ssids -> Ids \cup {None}]
    BY DEF TypeInv, TypeOK
  <1>1. \/ UNCHANGED enabled
        \/ \E d \in Callers : FinishCreate(d) \/ FinishDestroy(d)
        \/ \E d \in Callers : \E t \in Ssids : Create(d, t)
        \/ CompleteNetwork
    BY DEF Next, Caller, Receive, Supplicant, Stopped, vars, lists, Initialize, Deinitialize,
           Destruct, GiveUp, Scan, Activated, FinishScan, RemoveNetwork, FinishUse, Destroy, Use,
           BssAdded, BssRemoved, ScanDone, CompleteScan, CompleteDetail, CompleteLate, CompleteCaller,
           AnswerInternal, AnswerCaller, AnswerLate, Answers, BeginScan, EndScan, Appear, Disappear
  <1>2. ASSUME NEW d \in Callers, FinishCreate(d), call[d].ssid # s PROVE enabled'[s] = enabled[s]
    BY <1>0, <1>2 DEF FinishCreate
  <1>3. ASSUME NEW d \in Callers, FinishDestroy(d)
        PROVE  \/ enabled'[s] = enabled[s]
               \/ /\ Erase(d, s) /\ call[d].op = "destroy" /\ call[d].ssid = s
                  /\ ~call[d].stale /\ call[d].answer = "ok"
    <2>1. CASE UNCHANGED enabled
      BY <2>1
    <2>2. CASE /\ call[d].answer = "ok" /\ Erase(d, call[d].ssid)
               /\ race' = IF call[d].stale THEN "dangling" ELSE race
      <3>1. ~call[d].stale
        BY <2>2 DEF Alive
      <3>2. CASE call[d].ssid = s
        BY <1>3, <2>2, <3>1, <3>2 DEF FinishDestroy
      <3>3. CASE call[d].ssid # s
        BY <1>0, <2>2, <3>3 DEF Erase
      <3> QED BY <3>2, <3>3
    <2> QED BY <1>3, <2>1, <2>2 DEF FinishDestroy
  <1>4. ASSUME NEW d \in Callers, NEW t \in Ssids, Create(d, t) PROVE enabled'[s] = enabled[s]
    BY <1>0, <1>4 DEF Create, IsNew
  <1>5. ASSUME CompleteNetwork PROVE enabled'[s] = enabled[s]
    <2>1. \/ UNCHANGED enabled
          \/ \E t \in Ssids : \E v : enabled[t] = None /\ enabled' = [enabled EXCEPT ![t] = v]
      BY <1>5 DEF CompleteNetwork
    <2> QED BY <1>0, <2>1
  <1> QED BY <1>1, <1>2, <1>3, <1>4, <1>5 DEF FinishCreate

\* Who creates after a step did so before, or has just begun; so with who destroys.
LEMMA WhoCreates ==
    ASSUME TypeInv, Next, NEW c \in Callers, call'[c].op = "create"
    PROVE  \/ \E s \in Ssids : Create(c, s) /\ call'[c].ssid = s /\ call'[c].number = Unset
           \/ /\ call[c].op = "create" /\ call'[c].ssid = call[c].ssid
              /\ call'[c].answer = "none" =>
                    call[c].answer = "none" /\ call'[c].number = call[c].number
  <1>1. CASE Caller(c)
    BY <1>1, CallerGoes
  <1>2. CASE CompleteCaller(c)
    BY <1>2, CallerCompleted
  <1>3. CASE call'[c] = call[c]
    BY <1>3
  <1>4. CASE Marked(c)
    <2>1. call[c] \in Calls
      BY DEF TypeInv, TypeOK
    <2> QED BY <1>4, <2>1 DEF Marked, Calls
  <1> QED BY <1>1, <1>2, <1>3, <1>4, CallerStays

LEMMA WhoDestroys ==
    ASSUME TypeInv, Next, NEW c \in Callers, call'[c].op \in {"destroying", "destroy"},
           ~call'[c].stale
    PROVE  \/ \E s \in Ssids : Destroy(c, s) /\ call'[c].ssid = s /\ call'[c].op = "destroying"
           \/ /\ call[c].op \in {"destroying", "destroy"} /\ ~call[c].stale
              /\ call'[c].ssid = call[c].ssid
              /\ call'[c].op = "destroy" /\ call'[c].answer = "none" =>
                    \/ call'[c].number = enabled[call[c].ssid]
                    \/ /\ call[c].op = "destroy" /\ call[c].answer = "none"
                       /\ call'[c].number = call[c].number
  <1>1. CASE Caller(c)
    <2>1. RemoveNetwork(c) => call[c].op = "destroying"
      BY DEF RemoveNetwork
    <2> QED BY <1>1, <2>1, CallerGoes
  <1>2. CASE CompleteCaller(c)
    BY <1>2, CallerCompleted
  <1>3. CASE call'[c] = call[c]
    BY <1>3
  <1>4. CASE Marked(c)
    <2>1. call[c] \in Calls
      BY DEF TypeInv, TypeOK
    <2> QED BY <1>4, <2>1 DEF Marked, Calls
  <1> QED BY <1>1, <1>2, <1>3, <1>4, CallerStays

LEMMA CreatesStep ==
    ASSUME TypeInv, Next, Alive', Numbers, NEW c \in Callers
    PROVE  Creates(c)'
  <1> SUFFICES ASSUME call'[c].op = "create"
               PROVE  /\ enabled'[call'[c].ssid] = Unset
                      /\ \A d \in Callers :
                            call'[d].op = "create" /\ call'[d].ssid = call'[c].ssid => c = d
                      /\ call'[c].answer = "none" => call'[c].number = Unset
    BY DEF Creates
  <1>0. call \in [Callers -> Calls] /\ enabled \in [Ssids -> Ids \cup {None}] /\ None # Unset
    BY IdsAreNotNone DEF TypeInv, TypeOK
  <1>1. ASSUME NEW s \in Ssids, Create(c, s), call'[c].ssid = s, call'[c].number = Unset
        PROVE  /\ enabled'[call'[c].ssid] = Unset
               /\ \A d \in Callers :
                     call'[d].op = "create" /\ call'[d].ssid = call'[c].ssid => c = d
    <2>1. /\ enabled'[s] = Unset /\ enabled[s] = None
          /\ \A d \in Callers \ {c} : call'[d] = call[d]
      BY <1>0, <1>1 DEF Create, IsNew, Enter
    <2>2. ASSUME NEW d \in Callers \ {c}, call[d].op = "create", call[d].ssid = s PROVE FALSE
      BY <1>0, <2>1, <2>2 DEF Numbers, Creates
    <2> QED BY <1>1, <2>1, <2>2
  <1>2. ASSUME call[c].op = "create", call'[c].ssid = call[c].ssid
        PROVE  /\ enabled'[call'[c].ssid] = Unset
               /\ \A d \in Callers :
                     call'[d].op = "create" /\ call'[d].ssid = call'[c].ssid => c = d
    <2> DEFINE s == call[c].ssid
    <2>1. s \in Ssids /\ enabled[s] = Unset
      BY <1>2 DEF TypeInv, EntriesInUse, Numbers, Creates
    <2>2. enabled'[s] = Unset
      <3>1. ASSUME NEW d \in Callers, FinishCreate(d), call[d].op = "create", call[d].ssid = s
            PROVE  FALSE
        <4>1. d = c
          BY <1>2, <3>1 DEF Numbers, Creates
        <4>2. call'[d] = Idle
          BY <1>0, <3>1 DEF FinishCreate, Leave
        <4> QED BY <4>1, <4>2 DEF Idle
      <3>2. ASSUME NEW d \in Callers, call[d].op = "destroy", call[d].ssid = s, ~call[d].stale
            PROVE  FALSE
        BY <2>1, <3>2 DEF Numbers, Destroys
      <3> QED BY <1>0, <2>1, <3>1, <3>2, EntrySteps
    <2>3. ASSUME NEW d \in Callers, call'[d].op = "create", call'[d].ssid = s PROVE c = d
      <3>1. ~Create(d, s)
        BY <1>0, <2>1 DEF Create, IsNew
      <3>2. call[d].op = "create" /\ call[d].ssid = s
        BY <2>3, <3>1, WhoCreates
      <3> QED BY <1>2, <3>2 DEF Numbers, Creates
    <2> QED BY <1>2, <2>2, <2>3
  <1>3. call'[c].answer = "none" => call'[c].number = Unset
    BY WhoCreates DEF Numbers, Creates
  <1> QED BY <1>1, <1>2, <1>3, WhoCreates

LEMMA DestroysStep ==
    ASSUME TypeInv, Next, Alive', Numbers, NEW c \in Callers
    PROVE  Destroys(c)'
  <1> SUFFICES ASSUME ~call'[c].stale, call'[c].op \in {"destroying", "destroy"}
               PROVE  /\ enabled'[call'[c].ssid] \notin {None, Unset}
                      /\ call'[c].op = "destroy" /\ call'[c].answer = "none" =>
                            call'[c].number = enabled'[call'[c].ssid]
    BY DEF Destroys
  <1>0. call \in [Callers -> Calls] /\ enabled \in [Ssids -> Ids \cup {None}]
    BY DEF TypeInv, TypeOK
  <1>1. ASSUME NEW s \in Ssids, Destroy(c, s), call'[c].ssid = s, call'[c].op = "destroying"
        PROVE  /\ enabled'[call'[c].ssid] \notin {None, Unset}
               /\ call'[c].op = "destroy" /\ call'[c].answer = "none" =>
                     call'[c].number = enabled'[call'[c].ssid]
    BY <1>1 DEF Destroy, lists
  <1>2. ASSUME call[c].op \in {"destroying", "destroy"}, ~call[c].stale,
               call'[c].ssid = call[c].ssid,
               call'[c].op = "destroy" /\ call'[c].answer = "none" =>
                    \/ call'[c].number = enabled[call[c].ssid]
                    \/ /\ call[c].op = "destroy" /\ call[c].answer = "none"
                       /\ call'[c].number = call[c].number
        PROVE  /\ enabled'[call'[c].ssid] \notin {None, Unset}
               /\ call'[c].op = "destroy" /\ call'[c].answer = "none" =>
                     call'[c].number = enabled'[call'[c].ssid]
    <2> DEFINE s == call[c].ssid
    <2>1. s \in Ssids /\ enabled[s] \notin {None, Unset}
      BY <1>2 DEF TypeInv, EntriesInUse, Numbers, Destroys
    <2>2. enabled'[s] = enabled[s]
      <3>1. ASSUME NEW d \in Callers, FinishCreate(d), call[d].op = "create", call[d].ssid = s
            PROVE  FALSE
        BY <2>1, <3>1 DEF Numbers, Creates
      <3>2. ASSUME NEW d \in Callers, FinishDestroy(d), Erase(d, s), call[d].op = "destroy"
            PROVE  FALSE
        <4>1. CASE d = c
          BY <1>0, <3>2, <4>1 DEF Erase, Idle
        <4>2. CASE d # c
          <5>1. call'[c] = [call[c] EXCEPT !.stale = TRUE]
            BY <1>2, <3>2, <4>2 DEF Erase
          <5>2. call[c] \in Calls
            BY <1>0
          <5> QED BY <5>1, <5>2 DEF Calls
        <4> QED BY <4>1, <4>2
      <3> QED BY <2>1, <3>1, <3>2, EntrySteps
    <2>3. call[c].op = "destroy" /\ call[c].answer = "none" => call[c].number = enabled[s]
      BY <1>2 DEF Numbers, Destroys
    <2> HIDE DEF s
    <2> QED BY <1>2, <2>1, <2>2, <2>3 DEF s
  <1> QED BY <1>1, <1>2, WhoDestroys

LEMMA NumbersStep ==
    ASSUME TypeInv, Next, Alive', Numbers
    PROVE  Numbers'
  <1>1. ASSUME NEW i \in DOMAIN inbox', inbox'[i].kind # "answer"
        PROVE  inbox'[i].number = Unset
    <2>1. CASE Sends(inbox'[i])
      BY <1>1, <2>1, Sent DEF Event
    <2>2. CASE \E o \in DOMAIN inbox : inbox'[i] = inbox[o]
      BY <1>1, <2>2 DEF Numbers, EventsHaveNone
    <2> QED BY <2>1, <2>2, MessageSteps
  <1>2. EventsHaveNone'
    BY <1>1 DEF EventsHaveNone
  <1>3. \A c \in Callers : Creates(c)' /\ Destroys(c)'
    BY CreatesStep, DestroysStep
  <1> QED BY <1>2, <1>3 DEF Numbers

\* The profile of an entry is removed by the answer to REMOVE_NETWORK.
LEMMA RemovedStep ==
    ASSUME TypeInv, Next, Numbers, NEW c \in Callers, ~Removed(c), Removed(c)'
    PROVE  /\ AnswerCaller(c) /\ call[c].op = "destroy"
           /\ call'[c].ssid = call[c].ssid /\ call[c].number = enabled[call[c].ssid]
  <1> USE NetworksAssumption
  <1>0. /\ call[c] \in Calls /\ InboxInv /\ BoxInv
        /\ call'[c].op = "destroy" /\ ~call'[c].stale
    BY TypeInvParts DEF TypeInv, TypeOK, Removed
  <1>1. ~Marked(c)
    BY <1>0 DEF Marked, Calls
  <1>2. call'[c].answer # "ok"
    <2>1. CASE Caller(c)
      BY <1>0, <2>1, CallerGoes
    <2>2. CASE CompleteCaller(c)
      <3>1. SUFFICES ASSUME Head(inbox).ok PROVE FALSE
        BY <2>2, CallerCompleted
      <3>2. Completes(c) /\ call[c].op = "destroy" /\ ~call[c].stale
        BY <1>0, <2>2, CallerCompleted DEF CompleteCaller
      <3> QED BY <3>1, <3>2, Completed DEF Removed
    <2>3. CASE call'[c] = call[c]
      BY <1>0, <2>3 DEF Removed
    <2> QED BY <1>1, <2>1, <2>2, <2>3, CallerStays
  <1>3. PICK i \in DOMAIN inbox' : inbox'[i].kind = "answer" /\ inbox'[i].ok /\ Heads(c)'
    BY <1>2 DEF Removed
  <1>4. answered' /\ Heads(c) /\ c \in ToSet(box)
    <2>1. answered' /\ Heads(c)
      BY <1>3, AnswerSteps, OldestStays DEF Internal
    <2> QED BY <1>0, <2>1, Taken DEF Heads, BoxInv
  <1>5. call'[c] = call[c]
    <2>1. ~CompleteCaller(c) /\ ~GiveUp(c)
      BY <1>3, <1>4, GivenUp DEF CompleteCaller, Completes
    <2> QED BY <1>1, <1>4, <2>1, WaiterStays
  <1>6. \A o \in DOMAIN inbox : inbox[o].kind = "answer" => ~inbox[o].ok
    BY <1>0, <1>4, <1>5 DEF Removed
  <1>7. Sends(inbox'[i])
    BY <1>3, <1>6, MessageSteps
  <1>8. AnswerCaller(c)
    <2>1. ~AnswerInternal /\ ~AnswerLate
      BY <1>4 DEF AnswerInternal, AnswerLate, Answers, Heads, Internal
    <2>2. \A d \in Callers : AnswerCaller(d) => d = c
      BY <1>4 DEF AnswerCaller, AnswerLate, Answers, Heads
    <2>3. ~answered
      BY <1>3, <1>7 DEF Sends
    <2> QED BY <1>4, <2>1, <2>2, <2>3, AnswerGiven
  <1>9. call[c].answer = "none"
    BY <1>4 DEF TypeInv, CallersWait
  <1> QED BY <1>0, <1>5, <1>8, <1>9 DEF Numbers, Destroys

\* Who knows of a profile.
InEntry(n) ==
    \E s \in Ssids : enabled[s] = n /\ \A c \in Callers : Removed(c) => call[c].ssid # s

Known == \A n \in profiles : InEntry(n) \/ (\E c \in Callers : Creator(c, n)) \/ n \in orphans

LEMMA EntryKnows ==
    ASSUME TypeInv, Next, Alive', Numbers, NEW n \in profiles, n \in profiles', InEntry(n)
    PROVE  InEntry(n)'
  <1> USE NetworksAssumption
  <1>0. n \in Int /\ n # Unset /\ n # None /\ call \in [Callers -> Calls]
    BY DEF TypeInv, TypeOK, Profiles, Unset, None
  <1>1. PICK s \in Ssids : enabled[s] = n /\ \A c \in Callers : Removed(c) => call[c].ssid # s
    BY DEF InEntry
  <1>2. enabled'[s] = n
    <2>1. ASSUME NEW d \in Callers, call[d].op = "create", call[d].ssid = s PROVE FALSE
      BY <1>0, <1>1, <2>1 DEF Numbers, Creates
    <2>2. ASSUME NEW d \in Callers, call[d].op = "destroy", call[d].ssid = s,
                 ~call[d].stale, call[d].answer = "ok"
          PROVE  FALSE
      BY <1>1, <2>2 DEF Removed
    <2> QED BY <1>0, <1>1, <2>1, <2>2, EntrySteps
  <1>3. ASSUME NEW c \in Callers, Removed(c)', call'[c].ssid = s PROVE FALSE
    <2>1. CASE Removed(c)
      <3>1. call'[c].op = "destroy" /\ ~call'[c].stale /\ call[c].op = "destroy"
        BY <1>3, <2>1 DEF Removed
      <3>2. ~Destroy(c, s)
        BY <3>1 DEF Destroy, CanCall, Idle
      <3>3. call'[c].ssid = call[c].ssid
        BY <1>3, <3>1, <3>2, WhoDestroys
      <3> QED BY <1>1, <1>3, <2>1, <3>3
    <2>2. CASE ~Removed(c)
      <3>1. AnswerCaller(c) /\ call[c].op = "destroy" /\ call[c].number = n
        BY <1>1, <1>3, <2>2, RemovedStep
      <3>2. profiles' = profiles \ {n}
        BY <3>1 DEF AnswerCaller, Executes
      <3> QED BY <3>2
    <2> QED BY <2>1, <2>2
  <1> QED BY <1>2, <1>3 DEF InEntry

LEMMA CreatorKnows ==
    ASSUME TypeInv, Next, Alive', Numbers, NEW n \in profiles,
           NEW c \in Callers, Creator(c, n)
    PROVE  InEntry(n)' \/ Creator(c, n)' \/ n \in orphans'
  <1> USE NetworksAssumption
  <1>0. /\ n \in Int /\ n # Unset /\ n # None /\ call \in [Callers -> Calls]
        /\ enabled \in [Ssids -> Ids \cup {None}] /\ InboxInv /\ BoxInv
        /\ call[c].op = "create" /\ call[c].ssid \in Ssids
    <2>1. call[c].op = "create"
      BY DEF Creator
    <2>2. n \in Int /\ n # Unset /\ n # None
      BY DEF TypeInv, TypeOK, Profiles, Unset, None
    <2>3. /\ call \in [Callers -> Calls] /\ enabled \in [Ssids -> Ids \cup {None}]
          /\ InboxInv /\ BoxInv
      BY TypeInvParts DEF TypeInv, TypeOK
    <2> QED BY <2>1, <2>2, <2>3 DEF TypeInv, EntriesInUse
  <1>1. ~Marked(c)
    BY <1>0 DEF Marked
  <1>2. ASSUME NEW i \in DOMAIN inbox, inbox[i].number = n
        PROVE  inbox[i].kind = "answer" /\ answered
    BY <1>0, <1>2 DEF Numbers, EventsHaveNone, InboxInv
  <1>6. CASE GiveUp(c)
    BY <1>6 DEF GiveUp
  <1>3. CASE Caller(c) /\ ~GiveUp(c)
    <2>1. FinishCreate(c)
      <3>1. call[c] # Idle
        BY <1>0 DEF Idle
      <3> QED BY <1>0, <1>3, <3>1
              DEF Caller, Scan, Activated, FinishScan, RemoveNetwork, FinishDestroy, FinishUse,
                  Create, Destroy, Use, CanCall
    <2>2. /\ enabled' = [enabled EXCEPT ![call[c].ssid] = call[c].number]
          /\ call' = [call EXCEPT ![c] = Idle] /\ call[c].answer # "none"
      BY <2>1 DEF FinishCreate, Leave
    <2>3. call[c].number = n
      <3>1. ~Heads(c)
        BY <1>0, <2>2, Taken DEF Heads, TypeInv, CallersWait, BoxInv
      <3> QED BY <3>1 DEF Creator, Heads
    <2> DEFINE s == call[c].ssid
    <2>4. enabled'[s] = n /\ s \in Ssids
      BY <1>0, <2>2, <2>3
    <2>5. ASSUME NEW d \in Callers, Removed(d)' PROVE call'[d].ssid # s
      <3>1. d # c
        BY <1>0, <2>2, <2>5 DEF Removed, Idle
      <3>2. call'[d] = call[d]
        BY <1>0, <2>2, <3>1
      <3>3. call[d].op = "destroy" /\ ~call[d].stale
        BY <2>5, <3>2 DEF Removed
      <3> QED BY <1>0, <3>2, <3>3 DEF Numbers, Creates, Destroys
    <2> QED BY <2>4, <2>5 DEF InEntry
  <1>4. CASE CompleteCaller(c)
    <2>1. /\ call'[c].op = "create" /\ call'[c].number = Head(inbox).number
          /\ call[c].answer = "none"
      BY <1>0, <1>4, CallerCompleted DEF Waits
    <2>2. call[c].number # n
      BY <1>0, <2>1 DEF Numbers, Creates
    <2>3. PICK i \in DOMAIN inbox : inbox[i].number = n
      BY <2>2 DEF Creator, Heads
    <2>4. /\ 1 \in DOMAIN inbox /\ Head(inbox) = inbox[1] /\ inbox[1].kind = "answer"
      BY <1>4, Completed DEF CompleteCaller
    <2>5. i = 1
      BY <1>0, <1>2, <2>3, <2>4 DEF InboxInv
    <2> QED BY <2>1, <2>3, <2>4, <2>5 DEF Creator, Heads
  <1>5. CASE ~Caller(c) /\ ~CompleteCaller(c)
    <2>1. call'[c] = call[c]
      BY <1>1, <1>5, CallerStays
    <2>2. CASE call[c].number = n
      BY <1>0, <2>1, <2>2 DEF Creator, Heads
    <2>3. CASE Heads(c) /\ \E i \in DOMAIN inbox : inbox[i].number = n
      <3>1. PICK i \in DOMAIN inbox : inbox[i].number = n
        BY <2>3
      <3>2. inbox[i].kind = "answer" /\ answered
        BY <1>2, <3>1
      <3>3. ~Destruct
        BY DEF Destruct, Alive
      <3>4. ~Completion
        BY <1>5, <2>3
           DEF Completion, CompleteScan, CompleteDetail, CompleteNetwork, CompleteLate, CompleteCaller,
               Completes, Heads, Internal
      <3>5. ~(Receives /\ Head(inbox).kind = "answer" /\ Receive)
        BY <3>4 DEF Receive, BssAdded, BssRemoved, ScanDone, Completion
      <3>6. \E j \in DOMAIN inbox' : inbox'[j] = inbox[i]
        <4>1. CASE UNCHANGED inbox
          BY <4>1
        <4>2. CASE \E m : Sends(m)
          BY <1>0, <4>2, InboxSends
        <4>3. CASE Receive /\ Receives
          <5>1. /\ Len(inbox) \in Nat /\ DOMAIN inbox = 1..Len(inbox) /\ Head(inbox) = inbox[1]
                /\ DOMAIN inbox' = 1..(Len(inbox) - 1)
                /\ \A j \in DOMAIN inbox' : inbox'[j] = inbox[j + 1]
            BY <1>0, <4>3, InboxReceives
          <5>2. i # 1
            BY <3>2, <3>5, <4>3, <5>1
          <5>3. i - 1 \in DOMAIN inbox' /\ (i - 1) + 1 = i
            BY <5>1, <5>2
          <5> QED BY <5>1, <5>3
        <4> QED BY <3>3, <4>1, <4>2, <4>3, SocketSteps
      <3>7. Heads(c)'
        <4>1. CASE answered'
          <5>1. ~GiveUp(c)
            BY <1>5 DEF Caller
          <5> QED BY <2>3, <4>1, <5>1, OldestStays
        <4>2. CASE ~answered'
          <5>1. PICK j \in DOMAIN inbox' : inbox'[j] = inbox[i]
            BY <3>6
          <5>2. answered'
            BY <3>2, <5>1, AnswerSteps
          <5> QED BY <4>2, <5>2
        <4> QED BY <4>1, <4>2
      <3> QED BY <1>0, <2>1, <3>1, <3>6, <3>7 DEF Creator, Heads
    <2> QED BY <2>2, <2>3 DEF Creator, Heads
  <1> QED BY <1>3, <1>4, <1>5, <1>6

\* A profile that nobody knows of stays so.
LEMMA OrphanStays ==
    ASSUME Next, NEW n \in orphans, n \in profiles'
    PROVE  n \in orphans'
  BY DEF Next, Caller, Receive, Supplicant, Stopped, vars, abandoned, Initialize, Deinitialize,
         Destruct, GiveUp, Scan, Activated, FinishScan, FinishCreate, RemoveNetwork, FinishDestroy,
         FinishUse, Create, Destroy, Use, BssAdded, BssRemoved, ScanDone, CompleteScan,
         CompleteDetail, CompleteNetwork, CompleteLate, CompleteCaller, AnswerInternal,
         AnswerCaller, AnswerLate, BeginScan, EndScan, Appear, Disappear

\* A profile that is new is in the answer for the caller that creates it, or nobody's.
LEMMA NewProfile ==
    ASSUME TypeInv, Next, NEW n \in profiles', n \notin profiles
    PROVE  (\E c \in Callers : Creator(c, n)') \/ n \in orphans'
  <1> USE NetworksAssumption
  <1>1. AnswerLate \/ \E c \in Callers : AnswerCaller(c)
    BY DEF Next, Caller, Receive, Supplicant, Stopped, vars, radio, Initialize, Deinitialize,
           Destruct, GiveUp, Scan, Activated, FinishScan, FinishCreate, RemoveNetwork,
           FinishDestroy, FinishUse, Create, Destroy, Use, BssAdded, BssRemoved, ScanDone,
           CompleteScan, CompleteDetail, CompleteNetwork, CompleteLate, CompleteCaller,
           AnswerInternal, BeginScan, EndScan, Appear, Disappear
  <1> SUFFICES ASSUME ~AnswerLate PROVE \E c \in Callers : Creator(c, n)'
    BY DEF AnswerLate
  <1>2. PICK c \in Callers : AnswerCaller(c)
    BY <1>1
  <1>3. /\ call[c].op = "create" /\ Heads(c) /\ UNCHANGED <<box, call>>
        /\ n \in NextProfile /\ Tell([Answer(TRUE) EXCEPT !.number = n])
    <2>1. call[c].op = "create" /\ profiles' # profiles
      BY <1>2 DEF AnswerCaller, Executes
    <2>2. PICK k \in NextProfile : Tell([Answer(TRUE) EXCEPT !.number = k]) /\
                                   profiles' = profiles \cup {k}
      BY <1>2, <2>1 DEF AnswerCaller, Executes
    <2> QED BY <1>2, <2>1, <2>2 DEF AnswerCaller, Answers, Heads, requests
  <1>4. /\ [Answer(TRUE) EXCEPT !.number = n] \in Messages
        /\ [Answer(TRUE) EXCEPT !.number = n].number = n
    BY <1>3 DEF NextProfile, Answer, Messages, Ids, Names
  <1>5. \E i \in DOMAIN inbox' : inbox'[i].number = n
    BY <1>3, <1>4, TypeInvParts, Appended DEF Tell, InboxInv
  <1>6. Heads(c)' /\ call'[c].op = "create"
    BY <1>3 DEF Heads
  <1> QED BY <1>5, <1>6 DEF Creator, Heads

LEMMA KnownStep ==
    ASSUME TypeInv, Next, Alive', Numbers, Known
    PROVE  Known'
  <1> SUFFICES ASSUME NEW n \in profiles'
               PROVE  InEntry(n)' \/ (\E c \in Callers : Creator(c, n)') \/ n \in orphans'
    BY DEF Known
  <1>1. CASE n \notin profiles
    BY <1>1, NewProfile
  <1>2. CASE n \in profiles
    BY <1>2, EntryKnows, CreatorKnows, OrphanStays DEF Known
  <1> QED BY <1>1, <1>2

LEMMA ProfileStep == TypeInv /\ ProfileInv /\ [Next]_vars => ProfileInv'
  <1> SUFFICES ASSUME TypeInv, ProfileInv, [Next]_vars PROVE ProfileInv'
    OBVIOUS
  <1>1. CASE UNCHANGED vars
    BY <1>1 DEF vars, requests, lists, radio, socket, abandoned, ProfileInv, KnownForSure, NumbersInOrder,
                Alive, Creator, Removed, Heads
  <1>2. CASE Next /\ Alive
    <2>1. Numbers /\ Known
      BY <1>2 DEF ProfileInv, KnownForSure, NumbersInOrder, Numbers, EventsHaveNone, Creates,
                  Destroys, Known, InEntry
    <2>2. CASE Alive'
      <3>1. Numbers' /\ Known'
        BY <1>2, <2>1, <2>2, NumbersStep, KnownStep
      <3>2. NumbersInOrder'
        BY <3>1 DEF NumbersInOrder, Numbers, EventsHaveNone, Creates, Destroys
      <3>3. KnownForSure'
        BY <3>1 DEF KnownForSure, Known, InEntry
      <3> QED BY <3>2, <3>3 DEF ProfileInv
    <2>3. CASE ~Alive'
      BY <2>3 DEF ProfileInv, KnownForSure, NumbersInOrder
    <2> QED BY <2>2, <2>3
  <1> QED BY <1>1, <1>2, DeadIsDead

LEMMA ProfileInit == Init => ProfileInv
  <1> SUFFICES ASSUME Init PROVE ProfileInv
    OBVIOUS
  <1>1. DOMAIN inbox = {} /\ profiles = {} /\ \A c \in Callers : call[c].op = "idle"
    BY DEF Init, Idle
  <1> QED BY <1>1 DEF ProfileInv, KnownForSure, NumbersInOrder

\* No profile of the supplicant is forgotten (Create, Destroy): for any callers, names and
\* number of profiles, and whichever operations run out of time, each is in an entry or with
\* the caller that is creating it, unless that caller gave up before it had the number.
THEOREM NoProfileForgotten == Spec => []ProfilesKnown
  <1>1. ProfileInv => ProfilesKnown
    BY DEF ProfileInv, KnownForSure, ProfilesKnown, Creator, Heads
  <1>2. TypeInv /\ ProfileInv /\ [Next]_vars => (TypeInv /\ ProfileInv)'
    BY TypeInvStep, ProfileStep
  <1> QED BY <1>1, <1>2, TypeInvInit, ProfileInit, PTL DEF Spec
=============================================================================
