------------------------------- MODULE FeedProofs -------------------------------
(***************************************************************************)
(* Proofs about Feed, for any devices and bounds: a request the window was *)
(* told of stays on its list with its code, and each step is one of        *)
(* StatusFeed's.                                                           *)
(***************************************************************************)
EXTENDS Feed, SequenceTheorems, TLAPS

-----------------------------------------------------------------------------
(***************************************************************************)
(* Events, messages and queues of them.                                    *)
(***************************************************************************)
Event == {Changed, Lagged} \union {JoinRequest(d, c) : d \in Device, c \in Code}

Word == {"down", "mismatch", "update", "refresh"}

Message ==
    {Status(v, j, m) : v \in 0 .. MaxVersion, j \in BOOLEAN, m \in SUBSET Device}
        \union {Plain(k) : k \in Word}
        \union {JoinRequest(d, c) : d \in Device, c \in Code}

\* A status in which the device is a member takes its request from the list.
Clears(m, d) == m.kind = "status" /\ d \in m.members
Joins(m, d) == m.kind = "join" /\ m.device = d

Disturbs(m, d) == Clears(m, d) \/ Joins(m, d)

Undisturbed(q, d) == \A i \in 1 .. Len(q) : ~Disturbs(q[i], d)

\* The device's request c is on its way, with neither such a status nor another behind it.
Arrives(q, d, c) ==
    \E i \in 1 .. Len(q) :
        /\ Joins(q[i], d) /\ q[i].code = c
        /\ \A j \in i + 1 .. Len(q) : ~Disturbs(q[j], d)

\* A status or its absence, which has a version.
IsStatus(m) == m.kind \in {"status", "none"}

Ascending(q) ==
    \A i, j \in 1 .. Len(q) : i < j /\ IsStatus(q[i]) /\ IsStatus(q[j]) => q[i].version <= q[j].version

Between(q, low, high) == \A i \in 1 .. Len(q) : IsStatus(q[i]) => low <= q[i].version /\ q[i].version <= high

Repaints(q) == \E i \in 1 .. Len(q) : q[i].kind = "refresh"

LEMMA Bounds ==
    /\ None \notin Nat /\ Blank \notin Nat /\ None \notin Device /\ None \notin SUBSET Device
    /\ MaxVersion \in Nat /\ MaxAsks \in Nat /\ Capacity \in Nat \ {0} /\ MaxInbox \in Nat \ {0}
BY ValueAssumption, BoundAssumption

LEMMA EventFacts ==
    /\ Changed \in Event /\ Lagged \in Event
    /\ Changed.device = None /\ Lagged.device = None
    /\ \A d \in Device, c \in Code : /\ JoinRequest(d, c) \in Event
                                     /\ JoinRequest(d, c).device = d /\ JoinRequest(d, c).code = c
    /\ \A e \in Event : /\ e.device \in Device => e.code \in Code /\ e.kind = "join" /\ e \in Message
                        /\ e.kind = "join" => e \in Message /\ e.device \in Device
<1>1. /\ Changed \in Event /\ Lagged \in Event
      /\ Changed.device = None /\ Lagged.device = None /\ Changed.kind # "join" /\ Lagged.kind # "join"
  BY DEF Event, Changed, Lagged
<1>2. \A d \in Device, c \in Code : /\ JoinRequest(d, c) \in Event /\ JoinRequest(d, c) \in Message
                                    /\ JoinRequest(d, c).device = d /\ JoinRequest(d, c).code = c
                                    /\ JoinRequest(d, c).kind = "join"
  <2>1. \A d \in Device, c \in Code : JoinRequest(d, c) \in Event /\ JoinRequest(d, c) \in Message
    BY DEF Event, Message
  <2> QED BY <2>1 DEF JoinRequest
<1>3. ASSUME NEW e \in Event
      PROVE  e \in {Changed, Lagged} \/ \E d \in Device, c \in Code : e = JoinRequest(d, c)
  BY DEF Event
<1> QED BY <1>1, <1>2, <1>3, Bounds

LEMMA MessageFacts ==
    /\ \A k \in Word : Plain(k) \in Message /\ Plain(k).kind = k
    /\ \A v \in 0 .. MaxVersion, j \in BOOLEAN, m \in SUBSET Device :
          /\ Status(v, j, m) \in Message /\ Status(v, j, m).version = v /\ Status(v, j, m).members = m
          /\ IsStatus(Status(v, j, m))
    /\ \A m \in Message : /\ IsStatus(m) => m.version \in 0 .. MaxVersion /\ m.members \subseteq Device
                          /\ m.kind = "join" => m.device \in Device /\ m.code \in Code
<1>1. \A k \in Word : Plain(k) \in Message /\ Plain(k).kind = k
  BY DEF Message, Plain
<1>2. ASSUME NEW v \in 0 .. MaxVersion, NEW j \in BOOLEAN, NEW m \in SUBSET Device
      PROVE  /\ Status(v, j, m) \in Message /\ Status(v, j, m).version = v /\ Status(v, j, m).members = m
             /\ IsStatus(Status(v, j, m))
  <2>1. Status(v, j, m) \in Message
    BY DEF Message
  <2> QED BY <2>1 DEF Status, IsStatus
<1>3. ASSUME NEW m \in Message
      PROVE  /\ IsStatus(m) => m.version \in 0 .. MaxVersion /\ m.members \subseteq Device
             /\ m.kind = "join" => m.device \in Device /\ m.code \in Code
  <2>1. CASE \E v \in 0 .. MaxVersion, j \in BOOLEAN, n \in SUBSET Device : m = Status(v, j, n)
    <3>1. PICK v \in 0 .. MaxVersion, j \in BOOLEAN, n \in SUBSET Device : m = Status(v, j, n)
      BY <2>1
    <3>2. m.version = v /\ m.members = n /\ m.kind # "join"
      BY <3>1 DEF Status
    <3> QED BY <3>2
  <2>2. CASE \E k \in Word : m = Plain(k)
    BY <2>2 DEF Plain, Word, IsStatus
  <2>3. CASE \E d \in Device, c \in Code : m = JoinRequest(d, c)
    BY <2>3 DEF JoinRequest, IsStatus
  <2> QED BY <2>1, <2>2, <2>3 DEF Message
<1> QED BY <1>1, <1>2, <1>3

LEMMA AppendFacts ==
    ASSUME NEW S, NEW q \in Seq(S), NEW m \in S
    PROVE  /\ Append(q, m) \in Seq(S) /\ Len(q) \in Nat /\ Len(Append(q, m)) = Len(q) + 1
           /\ \A i \in 1 .. Len(q) : Append(q, m)[i] = q[i]
           /\ Append(q, m)[Len(q) + 1] = m
OBVIOUS

LEMMA TailFacts ==
    ASSUME NEW S, NEW q \in Seq(S), q # <<>>
    PROVE  /\ Len(q) \in Nat \ {0} /\ Head(q) \in S /\ Head(q) = q[1]
           /\ Tail(q) \in Seq(S) /\ Len(Tail(q)) = Len(q) - 1
           /\ \A i \in 1 .. Len(q) - 1 : Tail(q)[i] = q[i + 1]
BY HeadTailProperties, EmptySeq

\* What one more message changes.
LEMMA AppendMessage ==
    ASSUME NEW S, NEW q \in Seq(S), NEW m \in S
    PROVE  /\ \A d : Undisturbed(q, d) /\ ~Disturbs(m, d) => Undisturbed(Append(q, m), d)
           /\ \A d, c : Arrives(q, d, c) /\ ~Disturbs(m, d) => Arrives(Append(q, m), d, c)
           /\ \A d : Joins(m, d) => Arrives(Append(q, m), d, m.code)
           /\ Repaints(q) \/ m.kind = "refresh" => Repaints(Append(q, m))
           /\ \A low, high : Between(q, low, high) /\ (IsStatus(m) => low <= m.version /\ m.version <= high)
                                 => Between(Append(q, m), low, high)
           /\ Ascending(q) /\ (IsStatus(m) => \A i \in 1 .. Len(q) : IsStatus(q[i]) => q[i].version <= m.version)
                  => Ascending(Append(q, m))
<1> DEFINE r == Append(q, m)
<1>1. /\ r \in Seq(S) /\ Len(q) \in Nat /\ Len(r) = Len(q) + 1
      /\ \A i \in 1 .. Len(q) : r[i] = q[i]
      /\ r[Len(q) + 1] = m
  BY AppendFacts
<1> HIDE DEF r
<1>2. \A d : Undisturbed(q, d) /\ ~Disturbs(m, d) => Undisturbed(r, d)
  BY <1>1 DEF Undisturbed
<1>3. ASSUME NEW d, NEW c, Arrives(q, d, c), ~Disturbs(m, d) PROVE Arrives(r, d, c)
  <2>1. PICK i \in 1 .. Len(q) : /\ Joins(q[i], d) /\ q[i].code = c
                                 /\ \A j \in i + 1 .. Len(q) : ~Disturbs(q[j], d)
    BY <1>3 DEF Arrives
  <2>2. i \in 1 .. Len(r) /\ Joins(r[i], d) /\ r[i].code = c
    BY <1>1, <2>1
  <2>3. \A j \in i + 1 .. Len(r) : ~Disturbs(r[j], d)
    BY <1>1, <1>3, <2>1
  <2> QED BY <2>2, <2>3 DEF Arrives
<1>4. ASSUME NEW d, Joins(m, d) PROVE Arrives(r, d, m.code)
  <2>1. Len(r) \in 1 .. Len(r) /\ Joins(r[Len(r)], d) /\ r[Len(r)].code = m.code /\ \A j \in Len(r) + 1 .. Len(r) : FALSE
    BY <1>1, <1>4
  <2> QED BY <2>1 DEF Arrives
<1>5. Repaints(q) \/ m.kind = "refresh" => Repaints(r)
  <2>1. Len(r) \in 1 .. Len(r) /\ \A i \in 1 .. Len(q) : i \in 1 .. Len(r)
    BY <1>1
  <2> QED BY <1>1, <2>1 DEF Repaints
<1>6. \A low, high : Between(q, low, high) /\ (IsStatus(m) => low <= m.version /\ m.version <= high)
                         => Between(r, low, high)
  BY <1>1 DEF Between
<1>7. Ascending(q) /\ (IsStatus(m) => \A i \in 1 .. Len(q) : IsStatus(q[i]) => q[i].version <= m.version)
          => Ascending(r)
  BY <1>1 DEF Ascending
<1> QED BY <1>2, <1>3, <1>4, <1>5, <1>6, <1>7 DEF r

\* What one message less changes.
LEMMA TailMessage ==
    ASSUME NEW S, NEW q \in Seq(S), q # <<>>
    PROVE  /\ \A d : Undisturbed(q, d) => ~Disturbs(Head(q), d) /\ Undisturbed(Tail(q), d)
           /\ \A d, c : Arrives(q, d, c) =>
                  \/ Arrives(Tail(q), d, c)
                  \/ Joins(Head(q), d) /\ Head(q).code = c /\ Undisturbed(Tail(q), d)
           /\ Repaints(q) => Repaints(Tail(q)) \/ Head(q).kind = "refresh"
           /\ \A low, high : Between(q, low, high) =>
                  /\ Between(Tail(q), low, high)
                  /\ IsStatus(Head(q)) => low <= Head(q).version /\ Head(q).version <= high
           /\ Ascending(q) => Ascending(Tail(q))
           /\ \A low, high : Ascending(q) /\ Between(q, low, high) /\ IsStatus(Head(q)) =>
                  Between(Tail(q), Head(q).version, high)
<1> DEFINE r == Tail(q)  h == Head(q)
<1>1. /\ r \in Seq(S) /\ Len(q) \in Nat \ {0} /\ Len(r) = Len(q) - 1
      /\ \A i \in 1 .. Len(r) : r[i] = q[i + 1]
      /\ h = q[1]
  BY TailFacts
<1> HIDE DEF r, h
<1>2. \A d : Undisturbed(q, d) => ~Disturbs(h, d) /\ Undisturbed(r, d)
  BY <1>1 DEF Undisturbed
<1>3. ASSUME NEW d, NEW c, Arrives(q, d, c)
      PROVE  Arrives(r, d, c) \/ (Joins(h, d) /\ h.code = c /\ Undisturbed(r, d))
  <2>1. PICK i \in 1 .. Len(q) : /\ Joins(q[i], d) /\ q[i].code = c
                                 /\ \A j \in i + 1 .. Len(q) : ~Disturbs(q[j], d)
    BY <1>3 DEF Arrives
  <2>2. \A j \in 1 .. Len(r) : j >= i => ~Disturbs(r[j], d)
    BY <1>1, <2>1
  <2>3. CASE i = 1
    BY <1>1, <2>1, <2>2, <2>3 DEF Undisturbed
  <2>4. CASE i # 1
    <3>1. /\ i - 1 \in 1 .. Len(r) /\ Joins(r[i - 1], d) /\ r[i - 1].code = c
          /\ \A j \in i - 1 + 1 .. Len(r) : ~Disturbs(r[j], d)
      BY <1>1, <2>1, <2>2, <2>4
    <3> QED BY <3>1 DEF Arrives
  <2> QED BY <2>3, <2>4
<1>4. Repaints(q) => Repaints(r) \/ h.kind = "refresh"
  <2> SUFFICES ASSUME Repaints(q), h.kind # "refresh" PROVE Repaints(r)
    OBVIOUS
  <2>1. PICK i \in 1 .. Len(q) : q[i].kind = "refresh"
    BY DEF Repaints
  <2>2. i - 1 \in 1 .. Len(r) /\ r[i - 1].kind = "refresh"
    BY <1>1, <2>1
  <2> QED BY <2>2 DEF Repaints
<1>5. \A low, high : Between(q, low, high) =>
          Between(r, low, high) /\ (IsStatus(h) => low <= h.version /\ h.version <= high)
  BY <1>1 DEF Between
<1>6. Ascending(q) => Ascending(r)
  BY <1>1 DEF Ascending
<1>7. \A low, high : Ascending(q) /\ Between(q, low, high) /\ IsStatus(h) => Between(r, h.version, high)
  BY <1>1 DEF Ascending, Between
<1> QED BY <1>2, <1>3, <1>4, <1>5, <1>6, <1>7 DEF r, h

-----------------------------------------------------------------------------
(***************************************************************************)
(* The invariant.                                                          *)
(***************************************************************************)
\* A bus that is full holds one more: the notice of what it has lost.
BusFits == Len(bus) <= Capacity \/ (Len(bus) = Capacity + 1 /\ Head(bus) = Lagged)

Queues ==
    /\ bus \in Seq(Event) /\ BusFits
    /\ session # "live" => bus = <<>>
    /\ inbox \in Seq(Message) /\ Len(inbox) <= MaxInbox

Types ==
    /\ TypeOK /\ Queues
    /\ up \/ request = Nothing
    /\ window \/ client = "asleep"
    /\ client = "asleep" => session = "none"

\* The request is the one the window was told of.
Told(d) == request[d] # None /\ heard[d] = request[d]

\* It is on the bus, and no later one of its device.
Carried(q, d, c) ==
    \E i \in 1 .. Len(q) :
        /\ q[i].device = d /\ q[i].code = c
        /\ \A j \in i + 1 .. Len(q) : q[j].device # d

\* It is on the list and on the card, if there is one that is not to be drawn anew: or an
\* earlier one of its device is.
Shows(d) ==
    /\ pending[d] # None
    /\ \/ d \in masked
       \/ pending[d] = request[d] /\ (drawn = None \/ cards[d] \in {None, request[d]})

OnItsWay(d) ==
    \/ Carried(bus, d, request[d])
    \/ ~OnBus(d) /\ (Arrives(inbox, d, request[d]) \/ (Shows(d) /\ Undisturbed(inbox, d)))
    \/ \E a \in BOOLEAN : <<d, a>> \in sent

\* A device the window was told of is no member, and its request on the list or on its way.
Reaches == \A d \in Device : Told(d) => d \notin members /\ OnItsWay(d)

\* The cards are those of the list, or about to be.
Drawn ==
    /\ drawn # None => drawn = Listed(cards)
    /\ page = "status" => drawn # None /\ (drawn = Listed(pending) \/ Repaints(inbox))

\* What is to be shown is not older than what was shown.
InOrder == Ascending(inbox) /\ Between(inbox, shown, version)

Requests == [Device -> Code \union {None}]

LEMMA NoRequests == Nothing \in Requests /\ \A d \in Device : Nothing[d] = None
BY DEF Nothing, Requests

\* What an event on the bus changes.
LEMMA Emitted ==
    ASSUME Types, NEW e \in Event, request' \in Requests, Emit(e), session' = session
    PROVE  /\ bus' \in Seq(Event) /\ BusFits' /\ (session' # "live" => bus' = <<>>)
           /\ heard' \in Requests /\ masked' \subseteq Device
           /\ \A d \in Device : d # e.device =>
                  /\ heard'[d] = heard[d] => (d \in masked' <=> d \in masked)
                  /\ heard'[d] = heard[d] \/ heard'[d] = None
                  /\ heard'[d] # None => \A c : Carried(bus, d, c) => Carried(bus', d, c)
                  /\ ~OnBus(d) => ~OnBus(d)'
           /\ \A d \in Device : d = e.device /\ heard'[d] # None =>
                  heard'[d] = e.code /\ d \notin members /\ Carried(bus', d, e.code)
<1>0. /\ bus \in Seq(Event) /\ Len(bus) \in Nat /\ Capacity \in Nat \ {0}
      /\ Changed \in Event /\ Lagged \in Event
  BY Bounds, EventFacts DEF Types, Queues
<1> DEFINE whole == IF bus # <<>> /\ Head(bus) = Lagged THEN Tail(bus) ELSE bus
<1>1. whole \in Seq(Event) /\ Len(whole) \in 0 .. Capacity
  <2>1. CASE bus # <<>> /\ Head(bus) = Lagged
    BY <1>0, <2>1, TailFacts DEF Types, Queues, BusFits
  <2>2. CASE ~(bus # <<>> /\ Head(bus) = Lagged)
    <3>1. Len(bus) = Capacity + 1 => bus # <<>>
      BY <1>0, EmptySeq
    <3> QED BY <1>0, <2>2, <3>1 DEF Types, Queues, BusFits
  <2> QED BY <2>1, <2>2
<1>2. Queued(e) = IF Len(whole) = Capacity THEN <<Lagged>> \o Append(Tail(whole), e) ELSE Append(bus, e)
  BY DEF Queued
<1> DEFINE Longer == /\ Len(bus') = Len(bus) + 1 /\ bus'[Len(bus) + 1] = e
                     /\ \A i \in 1 .. Len(bus) : bus'[i] = bus[i]
           Shifted(s) == /\ Len(bus) = Capacity + s
                         /\ Len(bus') = Capacity + 1 /\ bus'[1] = Lagged /\ bus'[Capacity + 1] = e
                         /\ \A i \in 2 .. Capacity : bus'[i] = bus[i + s]
<1>3. ASSUME session = "live"
      PROVE  /\ bus' \in Seq(Event) /\ BusFits'
             /\ Len(bus') \in Nat \ {0} /\ bus'[Len(bus')] = e
             /\ Longer \/ \E s \in {0, 1} : Shifted(s)
  <2>0. bus' = Queued(e)
    BY <1>3 DEF Emit
  <2>1. CASE Len(whole) = Capacity
    <3> DEFINE t == Append(Tail(whole), e)
    <3>1. whole # <<>>
      BY <1>0, <2>1, EmptySeq
    <3>2. Tail(whole) \in Seq(Event) /\ Len(Tail(whole)) = Capacity - 1
          /\ \A i \in 1 .. Capacity - 1 : Tail(whole)[i] = whole[i + 1]
      BY <1>1, <2>1, <3>1, TailFacts
    <3>3. bus' = <<Lagged>> \o t
      BY <1>2, <2>0, <2>1
    <3>4. \E s \in {0, 1} : Len(bus) = Capacity + s /\ \A i \in 2 .. Capacity : whole[i] = bus[i + s]
      <4>1. CASE bus # <<>> /\ Head(bus) = Lagged
        <5>1. whole = Tail(bus)
          BY <4>1
        <5>2. Len(bus) = Capacity + 1 /\ \A i \in 1 .. Capacity : Tail(bus)[i] = bus[i + 1]
          BY <1>0, <2>1, <4>1, <5>1, TailFacts
        <5> HIDE DEF whole
        <5> QED BY <1>0, <5>1, <5>2
      <4>2. CASE ~(bus # <<>> /\ Head(bus) = Lagged)
        <5>1. whole = bus
          BY <4>2
        <5> HIDE DEF whole
        <5> QED BY <1>0, <2>1, <5>1
      <4> QED BY <4>1, <4>2
    <3> HIDE DEF whole
    <3>5. /\ t \in Seq(Event) /\ Len(t) = Capacity /\ t[Capacity] = e
          /\ \A i \in 1 .. Capacity - 1 : t[i] = whole[i + 1]
      BY <1>0, <3>2, AppendFacts
    <3> HIDE DEF t
    <3>6. <<Lagged>> \in Seq(Event) /\ Len(<<Lagged>>) = 1 /\ <<Lagged>>[1] = Lagged
      BY <1>0
    <3>7. /\ bus' \in Seq(Event) /\ Len(bus') = Capacity + 1
          /\ \A i \in 1 .. Capacity + 1 : bus'[i] = IF i <= 1 THEN <<Lagged>>[i] ELSE t[i - 1]
      BY <1>0, <3>3, <3>5, <3>6, ConcatProperties
    <3>8. bus'[1] = Lagged /\ bus'[Capacity + 1] = e /\ \A i \in 2 .. Capacity : bus'[i] = whole[i]
      BY <1>0, <3>5, <3>6, <3>7
    <3>9. Head(bus') = bus'[1]
      BY <1>0, <3>7
    <3>10. \E s \in {0, 1} : Shifted(s)
      BY <3>4, <3>7, <3>8
    <3>11. Len(bus') \in Nat \ {0} /\ bus'[Len(bus')] = e
      BY <1>0, <3>7, <3>8
    <3>12. BusFits'
      BY <1>0, <3>7, <3>8, <3>9 DEF BusFits
    <3> HIDE DEF Longer, Shifted
    <3> QED BY <3>7, <3>10, <3>11, <3>12
  <2>2. CASE Len(whole) # Capacity
    <3>1. bus' = Append(bus, e)
      BY <1>2, <2>0, <2>2
    <3>2. bus' \in Seq(Event) /\ Longer
      BY <1>0, <3>1, AppendFacts
    <3>3. CASE bus # <<>> /\ Head(bus) = Lagged
      <4>1. Len(bus) - 1 = Len(whole)
        BY <1>0, <3>3, TailFacts
      <4>2. Head(bus') = Lagged
        BY <1>0, <3>1, <3>3
      <4> HIDE DEF whole
      <4> QED BY <1>0, <1>1, <2>2, <3>2, <4>1, <4>2 DEF BusFits
    <3>4. CASE ~(bus # <<>> /\ Head(bus) = Lagged)
      <4>1. whole = bus
        BY <3>4
      <4> HIDE DEF whole
      <4> QED BY <1>0, <1>1, <2>2, <3>2, <4>1 DEF BusFits
    <3> QED BY <3>3, <3>4
  <2> QED BY <2>1, <2>2
<1>4. session # "live" => bus' = bus
  BY DEF Emit
<1> HIDE DEF whole
<1>5. bus' \in Seq(Event) /\ BusFits' /\ (session' # "live" => bus' = <<>>)
  <2>1. session = "live" => bus' \in Seq(Event) /\ BusFits'
    BY <1>3
  <2>2. session # "live" => bus' = bus
    BY <1>4
  <2> QED BY <2>1, <2>2 DEF Types, Queues, BusFits
<1>6. /\ heard' = [d \in Device |->
                     IF e.device = d
                     THEN IF session = "live" /\ d \notin members THEN e.code ELSE None
                     ELSE IF request'[d] = None \/ (OnBus(d) /\ ~OnBus(d)') THEN None
                     ELSE heard[d]]
      /\ masked' = {d \in masked : heard'[d] = heard[d]}
  BY DEF Emit
<1>7. heard' \in Requests /\ masked' \subseteq Device
  <2>1. heard \in Requests /\ masked \subseteq Device
    BY DEF Types, TypeOK, Requests
  <2> QED BY <1>6, <2>1, EventFacts DEF Requests
<1>8. ASSUME NEW d \in Device, d = e.device, heard'[d] # None
      PROVE  heard'[d] = e.code /\ d \notin members /\ Carried(bus', d, e.code)
  <2>1. session = "live" /\ heard'[d] = e.code /\ d \notin members
    BY <1>6, <1>8
  <2>2. bus' \in Seq(Event) /\ Len(bus') \in Nat \ {0} /\ bus'[Len(bus')] = e
    BY <1>0, <1>3, <2>1
  <2>3. Carried(bus', d, e.code)
    BY <1>8, <2>2 DEF Carried
  <2> QED BY <2>1, <2>3
<1>9. ASSUME NEW d \in Device, d # e.device
      PROVE  /\ heard'[d] = heard[d] => (d \in masked' <=> d \in masked)
             /\ heard'[d] = heard[d] \/ heard'[d] = None
             /\ heard'[d] # None => (OnBus(d) => OnBus(d)')
  BY <1>6, <1>9
<1>10. ASSUME NEW d \in Device, d # e.device
       PROVE  /\ ~OnBus(d) => ~OnBus(d)'
              /\ (OnBus(d) => OnBus(d)') => \A c : Carried(bus, d, c) => Carried(bus', d, c)
  <2>0. /\ DOMAIN bus = 1 .. Len(bus) /\ DOMAIN bus' = 1 .. Len(bus')
        /\ Lagged.device # d
    BY <1>0, <1>5, EventFacts, Bounds
  <2>1. OnBus(d) <=> \E i \in 1 .. Len(bus) : bus[i].device = d
    BY <2>0 DEF OnBus
  <2>2. OnBus(d)' <=> \E i \in 1 .. Len(bus') : bus'[i].device = d
    BY <2>0 DEF OnBus
  <2>3. CASE session # "live"
    BY <1>4, <2>1, <2>2, <2>3
  <2>4. CASE Longer
    <3>1. ~OnBus(d) => ~OnBus(d)'
      BY <1>0, <1>10, <2>1, <2>2, <2>4
    <3>2. ASSUME NEW c, Carried(bus, d, c) PROVE Carried(bus', d, c)
      <4>1. PICK i \in 1 .. Len(bus) : /\ bus[i].device = d /\ bus[i].code = c
                                       /\ \A j \in i + 1 .. Len(bus) : bus[j].device # d
        BY <3>2 DEF Carried
      <4>2. /\ i \in 1 .. Len(bus') /\ bus'[i].device = d /\ bus'[i].code = c
            /\ \A j \in i + 1 .. Len(bus') : bus'[j].device # d
        BY <1>0, <1>10, <2>4, <4>1
      <4> QED BY <4>2 DEF Carried
    <3> QED BY <3>1, <3>2
  <2>5. ASSUME NEW s \in {0, 1}, Shifted(s)
        PROVE  /\ ~OnBus(d) => ~OnBus(d)'
               /\ (OnBus(d) => OnBus(d)') => \A c : Carried(bus, d, c) => Carried(bus', d, c)
    <3>1. ASSUME NEW k \in 1 .. Len(bus'), bus'[k].device = d
          PROVE  k \in 2 .. Capacity /\ k + s \in 1 .. Len(bus) /\ bus[k + s].device = d
      BY <1>0, <1>10, <2>0, <2>5, <3>1
    <3>2. ~OnBus(d) => ~OnBus(d)'
      BY <2>1, <2>2, <3>1
    <3>3. ASSUME OnBus(d)', NEW c, Carried(bus, d, c) PROVE Carried(bus', d, c)
      <4>1. PICK i \in 1 .. Len(bus) : /\ bus[i].device = d /\ bus[i].code = c
                                       /\ \A j \in i + 1 .. Len(bus) : bus[j].device # d
        BY <3>3 DEF Carried
      <4>2. PICK k \in 2 .. Capacity : k + s \in 1 .. Len(bus) /\ bus[k + s].device = d
        BY <2>2, <3>1, <3>3
      <4>3. k + s <= i
        BY <1>0, <4>1, <4>2
      <4>4. i - s \in 2 .. Capacity /\ i - s \in 1 .. Len(bus') /\ bus'[i - s] = bus[i]
        BY <1>0, <2>5, <4>1, <4>2, <4>3
      <4>5. \A j \in i - s + 1 .. Len(bus') : bus'[j].device # d
        <5> SUFFICES ASSUME NEW j \in i - s + 1 .. Len(bus'), bus'[j].device = d PROVE FALSE
          OBVIOUS
        <5>1. j \in 1 .. Len(bus')
          BY <1>0, <2>5, <4>4
        <5>2. j + s \in i + 1 .. Len(bus) /\ bus[j + s].device = d
          BY <1>0, <2>5, <3>1, <4>4, <5>1
        <5> QED BY <4>1, <5>2
      <4> QED BY <4>1, <4>4, <4>5 DEF Carried
    <3>4. OnBus(d) \/ \A c : ~Carried(bus, d, c)
      BY <2>1 DEF Carried
    <3> QED BY <3>2, <3>3, <3>4
  <2> HIDE DEF Longer, Shifted
  <2> QED BY <1>3, <2>3, <2>4, <2>5
<1> HIDE DEF Longer, Shifted
<1> QED BY <1>5, <1>7, <1>8, <1>9, <1>10

FeedInv == Types /\ Reaches /\ Drawn /\ InOrder

\* What the engine does and sends.
LEMMA EngineStep ==
    ASSUME FeedInv, NEW e \in Event, Emit(e), UNCHANGED Outside,
           EngineTypeOK', version <= version', up \/ request' = Nothing,
           sent' \subseteq Device \X BOOLEAN,
           e.device \in Device => members' = members,
           \A d \in Device : d # e.device /\ request'[d] # None =>
               /\ request'[d] = request[d] /\ (d \in members' => d \in members)
               /\ \A a \in BOOLEAN : <<d, a>> \in sent => <<d, a>> \in sent'
    PROVE  FeedInv'
<1>1. UNCHANGED <<up, speaks, session, stale, window, client, showing, inbox, page, shown, pending, cards, drawn>>
  BY DEF Outside, view
<1>2. request' \in Requests /\ heard \in Requests
  BY DEF EngineTypeOK, Requests, FeedInv, Types, TypeOK
<1>3. /\ bus' \in Seq(Event) /\ BusFits' /\ (session' # "live" => bus' = <<>>)
      /\ heard' \in Requests /\ masked' \subseteq Device
      /\ \A d \in Device : d # e.device =>
             /\ heard'[d] = heard[d] => (d \in masked' <=> d \in masked)
             /\ heard'[d] = heard[d] \/ heard'[d] = None
             /\ heard'[d] # None => \A c : Carried(bus, d, c) => Carried(bus', d, c)
             /\ ~OnBus(d) => ~OnBus(d)'
      /\ \A d \in Device : d = e.device /\ heard'[d] # None =>
             heard'[d] = e.code /\ d \notin members /\ Carried(bus', d, e.code)
  BY <1>1, <1>2, Emitted DEF FeedInv
<1>4. Types'
  <2>1. Len(bus') <= Capacity + 1
    <3>1. Len(bus') \in Nat
      BY <1>3
    <3> QED BY <1>3, <3>1, Bounds DEF BusFits
  <2>2. Queues'
    BY <1>1, <1>3 DEF FeedInv, Types, Queues
  <2>3. LinkTypeOK'
    BY <1>1, <2>1 DEF FeedInv, Types, TypeOK, LinkTypeOK
  <2>4. ViewTypeOK'
    <3>1. shown' \in 0 .. version'
      BY <1>1 DEF FeedInv, Types, TypeOK, ViewTypeOK, EngineTypeOK
    <3> QED BY <1>1, <3>1 DEF FeedInv, Types, TypeOK, ViewTypeOK
  <2>5. TypeOK'
    BY <1>3, <2>3, <2>4 DEF TypeOK, Requests
  <2> QED BY <1>1, <2>2, <2>5 DEF FeedInv, Types
<1>5. Reaches'
  <2> SUFFICES ASSUME NEW d \in Device, Told(d)' PROVE d \notin members' /\ OnItsWay(d)'
    BY DEF Reaches
  <2>1. request'[d] # None /\ heard'[d] = request'[d] /\ heard'[d] # None
    BY DEF Told
  <2>2. CASE d = e.device
    BY <1>3, <2>1, <2>2 DEF OnItsWay
  <2>3. CASE d # e.device
    <3>1. /\ heard'[d] = heard[d] /\ request'[d] = request[d] /\ heard[d] # None
          /\ (d \in masked' <=> d \in masked) /\ (~OnBus(d) => ~OnBus(d)')
          /\ \A c : Carried(bus, d, c) => Carried(bus', d, c)
      BY <1>3, <2>1, <2>3
    <3>2. d \notin members /\ OnItsWay(d)
      BY <2>1, <3>1 DEF FeedInv, Reaches, Told
    <3>3. \A a \in BOOLEAN : <<d, a>> \in sent => <<d, a>> \in sent'
      BY <2>1, <2>3
    <3>4. Shows(d) => Shows(d)'
      BY <1>1, <3>1 DEF Shows
    <3> QED BY <1>1, <2>1, <2>3, <3>1, <3>2, <3>3, <3>4 DEF OnItsWay
  <2> QED BY <2>2, <2>3
<1>6. Drawn' /\ InOrder'
  <2>1. Between(inbox, shown, version')
    <3>1. \A i \in 1 .. Len(inbox) : IsStatus(inbox[i]) => inbox[i].version \in Nat
      <4>1. \A i \in 1 .. Len(inbox) : inbox[i] \in Message
        BY ElementOfSeq DEF FeedInv, Types, Queues
      <4> QED BY <4>1, MessageFacts, Bounds
    <3>2. version \in Nat /\ version' \in Nat
      BY DEF FeedInv, Types, TypeOK, EngineTypeOK
    <3>3. Between(inbox, shown, version)
      BY DEF FeedInv, InOrder
    <3> QED BY <3>1, <3>2, <3>3 DEF Between
  <2> QED BY <1>1, <2>1 DEF FeedInv, Drawn, InOrder
<1> QED BY <1>4, <1>5, <1>6 DEF FeedInv

LEMMA NetworkStep == FeedInv /\ (Network \/ Beat) => FeedInv'
<1> SUFFICES ASSUME FeedInv, Network \/ Beat PROVE FeedInv'
  OBVIOUS
<1>0. /\ version \in 0 .. MaxVersion /\ joined \in BOOLEAN /\ ticking \in BOOLEAN /\ (ticking => joined)
      /\ members \subseteq Device /\ asks \in 0 .. MaxAsks /\ request \in Requests
      /\ sent \subseteq Device \X BOOLEAN /\ (up \/ request = Nothing)
      /\ Changed \in Event /\ Changed.device = None /\ None \notin Device
  BY EventFacts, Bounds DEF FeedInv, Types, TypeOK, EngineTypeOK, Requests
<1>1. ASSUME NEW j \in BOOLEAN, NEW t \in BOOLEAN, Move(j, t) PROVE FeedInv'
  <2>1. /\ version' = version + 1 /\ version < MaxVersion /\ joined' = j /\ ticking' = t /\ (t => j)
        /\ members' \subseteq members /\ asks' = asks /\ sent' = sent /\ UNCHANGED Outside
        /\ request' \in {request, Nothing} /\ Emit(Changed)
    BY <1>1 DEF Move, Step
  <2>2. EngineTypeOK' /\ version <= version'
    BY <1>0, <2>1, NoRequests, Bounds DEF EngineTypeOK, Requests
  <2> QED BY <1>0, <2>1, <2>2, NoRequests, EngineStep
<1>2. ASSUME NEW m \in SUBSET members, Change(m) PROVE FeedInv'
  <2>1. /\ version' = version + 1 /\ version < MaxVersion /\ members' = m
        /\ UNCHANGED <<joined, ticking, request, asks, sent, Outside>> /\ Emit(Changed)
    BY <1>2 DEF Change, Step
  <2>2. EngineTypeOK' /\ version <= version'
    BY <1>0, <2>1, Bounds DEF EngineTypeOK, Requests
  <2> QED BY <1>0, <2>1, <2>2, EngineStep
<1>3. CASE Drift
  <2>1. /\ version' = version + 1 /\ version < MaxVersion
        /\ UNCHANGED <<joined, ticking, members, request, asks, sent, bus, heard, masked, up, speaks, session, stale,
                       window, client, showing, inbox, page, shown, pending, cards, drawn>>
    BY <1>3 DEF Drift, Step, Outside, view, history
  <2>2. Types'
    <3>1. ViewTypeOK'
      <4>1. shown' \in 0 .. version'
        BY <1>0, <2>1 DEF FeedInv, Types, TypeOK, ViewTypeOK
      <4> QED BY <2>1, <4>1 DEF FeedInv, Types, TypeOK, ViewTypeOK
    <3>2. EngineTypeOK'
      BY <1>0, <2>1, Bounds DEF EngineTypeOK, Requests
    <3>3. LinkTypeOK' /\ Queues'
      BY <2>1 DEF FeedInv, Types, TypeOK, LinkTypeOK, Queues, BusFits
    <3> QED BY <2>1, <3>1, <3>2, <3>3 DEF FeedInv, Types, TypeOK
  <2>3. Reaches' /\ Drawn'
    BY <2>1 DEF FeedInv, Reaches, Told, OnItsWay, Carried, OnBus, Shows, Drawn
  <2>4. InOrder'
    <3>1. \A i \in 1 .. Len(inbox) : IsStatus(inbox[i]) => inbox[i].version \in Nat
      <4>1. \A i \in 1 .. Len(inbox) : inbox[i] \in Message
        BY ElementOfSeq DEF FeedInv, Types, Queues
      <4> QED BY <4>1, MessageFacts, Bounds
    <3>2. Between(inbox, shown, version + 1)
      BY <1>0, <3>1 DEF FeedInv, InOrder, Between
    <3> QED BY <2>1, <3>2 DEF FeedInv, InOrder
  <2> QED BY <2>2, <2>3, <2>4 DEF FeedInv
<1>4. ASSUME NEW d \in Device, Ask(d) PROVE FeedInv'
  <2> DEFINE e == JoinRequest(d, asks')
  <2>1. /\ up /\ asks < MaxAsks /\ asks' = asks + 1 /\ request' = [request EXCEPT ![d] = asks']
        /\ UNCHANGED <<version, joined, ticking, members, sent, Outside>> /\ Emit(e)
    BY <1>4 DEF Ask
  <2>2. asks' \in Code /\ asks' \in 0 .. MaxAsks
    BY <1>0, <2>1, Bounds DEF Code
  <2>3. e \in Event /\ e.device = d
    BY <2>2, EventFacts
  <2> HIDE DEF e
  <2>4. EngineTypeOK' /\ version <= version'
    BY <1>0, <2>1, <2>2 DEF EngineTypeOK, Requests
  <2>5. \A f \in Device : f # d => request'[f] = request[f]
    BY <1>0, <2>1 DEF Requests
  <2> QED BY <1>0, <2>1, <2>3, <2>4, <2>5, EngineStep
<1>5. ASSUME NEW d \in Device, NEW a \in BOOLEAN, DecideElsewhere(d, a) PROVE FeedInv'
  <2>1. /\ up /\ version' = version + 1 /\ version < MaxVersion
        /\ request' = [request EXCEPT ![d] = None] /\ members' \in {members, members \union {d}}
        /\ UNCHANGED <<joined, ticking, asks, sent, Outside>> /\ Emit(Changed)
    BY <1>5 DEF DecideElsewhere, Decided, Step
  <2>2. EngineTypeOK' /\ version <= version'
    BY <1>0, <2>1, Bounds DEF EngineTypeOK, Requests
  <2>3. \A f \in Device : request'[f] # None => f # d /\ request'[f] = request[f]
    BY <1>0, <2>1 DEF Requests
  <2> QED BY <1>0, <2>1, <2>2, <2>3, EngineStep
<1>6. CASE Beat
  <2>1. UNCHANGED <<version, joined, ticking, members, request, asks, sent, Outside>> /\ Emit(Changed)
    BY <1>6 DEF Beat, engine
  <2>2. EngineTypeOK' /\ version <= version'
    BY <1>0, <2>1 DEF EngineTypeOK, Requests
  <2> QED BY <1>0, <2>1, <2>2, EngineStep
<1> QED BY <1>1, <1>2, <1>3, <1>4, <1>5, <1>6 DEF Network

LEMMA DecideStep == FeedInv /\ Request => FeedInv'
<1> SUFFICES ASSUME FeedInv, NEW d \in Device, NEW a \in BOOLEAN, Decide(d, a) PROVE FeedInv'
  BY DEF Request
<1>0. /\ version \in 0 .. MaxVersion /\ joined \in BOOLEAN /\ ticking \in BOOLEAN /\ (ticking => joined)
      /\ members \subseteq Device /\ asks \in 0 .. MaxAsks /\ request \in Requests
      /\ sent \subseteq Device \X BOOLEAN /\ (up \/ request = Nothing)
      /\ Changed \in Event /\ Changed.device = None /\ None \notin Device
  BY EventFacts, Bounds DEF FeedInv, Types, TypeOK, EngineTypeOK, Requests
<1>1. sent' \subseteq Device \X BOOLEAN
  BY <1>0 DEF Decide
<1>2. \A f \in Device, b \in BOOLEAN : f # d /\ <<f, b>> \in sent => <<f, b>> \in sent'
  BY DEF Decide
<1>3. CASE up /\ request[d] # None
  <2>1. /\ up /\ version' = version + 1 /\ version < MaxVersion
        /\ request' = [request EXCEPT ![d] = None] /\ members' \in {members, members \union {d}}
        /\ UNCHANGED <<joined, ticking, asks, Outside>> /\ Emit(Changed)
    BY <1>3 DEF Decide, Decided, Step
  <2>2. EngineTypeOK' /\ version <= version'
    BY <1>0, <2>1, Bounds DEF EngineTypeOK, Requests
  <2>3. \A f \in Device : request'[f] # None => f # d /\ request'[f] = request[f]
    BY <1>0, <2>1 DEF Requests
  <2> QED BY <1>0, <1>1, <1>2, <2>1, <2>2, <2>3, EngineStep
<1>4. CASE ~(up /\ request[d] # None)
  <2>1. UNCHANGED <<version, joined, ticking, members, request, asks, bus, heard, masked, up, speaks, session, stale,
                    window, client, showing, inbox, page, shown, pending, cards, drawn>>
    BY <1>4 DEF Decide, Outside, engine, view, history
  <2>2. Types'
    <3>1. EngineTypeOK' /\ ViewTypeOK' /\ LinkTypeOK' /\ Queues'
      BY <2>1 DEF FeedInv, Types, TypeOK, LinkTypeOK, EngineTypeOK, ViewTypeOK, Queues, BusFits
    <3> QED BY <1>1, <2>1, <3>1 DEF FeedInv, Types, TypeOK
  <2>3. Reaches'
    <3> SUFFICES ASSUME NEW f \in Device, Told(f)' PROVE f \notin members' /\ OnItsWay(f)'
      BY DEF Reaches
    <3>1. request[f] # None /\ f \notin members /\ OnItsWay(f)
      BY <2>1 DEF FeedInv, Reaches, Told
    <3>2. f # d
      BY <1>0, <1>4, <3>1, NoRequests
    <3> QED BY <1>2, <2>1, <3>1, <3>2 DEF OnItsWay, Carried, OnBus, Shows
  <2>4. Drawn' /\ InOrder'
    BY <2>1 DEF FeedInv, Drawn, InOrder
  <2> QED BY <2>2, <2>3, <2>4 DEF FeedInv
<1> QED BY <1>3, <1>4

\* A window that starts has been told of nothing.
LEMMA FreshStep ==
    ASSUME FeedInv, Fresh, UNCHANGED <<up, engine, shown, sent>>,
           window' \in BOOLEAN, speaks' \in {"same", "other", "newer"}
    PROVE  FeedInv'
<1>1. /\ client' = "asleep" /\ showing' = None /\ inbox' = <<>> /\ page' = "blank"
      /\ pending' = Nothing /\ cards' = Nothing /\ drawn' = None
      /\ session' = "none" /\ bus' = <<>> /\ stale' = FALSE /\ heard' = Nothing /\ masked' = {}
      /\ UNCHANGED <<up, version, joined, ticking, members, request, asks, shown, sent>>
  BY DEF Fresh, engine
<1>2. EngineTypeOK'
  BY <1>1 DEF FeedInv, Types, TypeOK, EngineTypeOK
<1>3. Queues'
  BY <1>1, Bounds, EmptySeq DEF Queues, BusFits
<1>4. LinkTypeOK'
  <2>1. Len(bus') <= Capacity + 1 /\ Len(inbox') <= MaxInbox
    BY <1>1, Bounds, EmptySeq
  <2>2. up \in BOOLEAN
    BY DEF FeedInv, Types, TypeOK, LinkTypeOK
  <2> QED BY <1>1, <2>1, <2>2 DEF LinkTypeOK
<1>5. ViewTypeOK'
  <2>1. shown' \in 0 .. version'
    BY <1>1 DEF FeedInv, Types, TypeOK, ViewTypeOK
  <2>2. pending' \in Requests /\ cards' \in Requests
    BY <1>1, NoRequests
  <2>3. page' \in {"blank", "status", "none", "down", "mismatch"} /\ drawn' \in (SUBSET Device) \union {None}
    BY <1>1
  <2> QED BY <2>1, <2>2, <2>3 DEF ViewTypeOK, Requests
<1>6. Types'
  BY <1>1, <1>2, <1>3, <1>4, <1>5, NoRequests DEF FeedInv, Types, TypeOK, Requests
<1>7. Reaches'
  BY <1>1, NoRequests DEF Reaches, Told
<1>8. Drawn'
  BY <1>1 DEF Drawn
<1>9. InOrder'
  BY <1>1, EmptySeq DEF InOrder, Ascending, Between
<1> QED BY <1>6, <1>7, <1>8, <1>9 DEF FeedInv

LEMMA DaemonStep == FeedInv /\ Daemon => FeedInv'
<1> SUFFICES ASSUME FeedInv, Daemon PROVE FeedInv'
  OBVIOUS
<1>1. CASE DaemonStops
  <2>1. /\ up' = FALSE /\ speaks' = "same" /\ session' = "none" /\ bus' = <<>> /\ stale' = FALSE
        /\ request' = Nothing /\ heard' = Nothing /\ masked' = {}
        /\ UNCHANGED <<version, joined, ticking, members, asks, window, client, showing, inbox,
                       page, shown, pending, cards, drawn, sent>>
    BY <1>1 DEF DaemonStops, view
  <2>2. EngineTypeOK' /\ ViewTypeOK'
    BY <2>1, NoRequests DEF FeedInv, Types, TypeOK, EngineTypeOK, ViewTypeOK, Requests
  <2>3. Queues' /\ Len(bus') = 0
    BY <2>1, Bounds, EmptySeq DEF FeedInv, Types, Queues, BusFits
  <2>4. LinkTypeOK'
    <3>1. Len(bus') <= Capacity + 1
      BY <2>3, Bounds
    <3>2. up' \in BOOLEAN
      BY <2>1
    <3> QED BY <2>1, <3>1, <3>2 DEF FeedInv, Types, TypeOK, LinkTypeOK
  <2>5. Types'
    BY <2>1, <2>2, <2>3, <2>4, NoRequests DEF FeedInv, Types, TypeOK, Requests
  <2>6. Reaches'
    BY <2>1, NoRequests DEF Reaches, Told
  <2>7. Drawn' /\ InOrder'
    BY <2>1 DEF FeedInv, Drawn, InOrder
  <2> QED BY <2>5, <2>6, <2>7 DEF FeedInv
<1>2. ASSUME NEW b \in {"same", "other", "newer"}, DaemonStarts(b) PROVE FeedInv'
  <2>1. /\ up' = TRUE /\ speaks' = b /\ ticking' = joined
        /\ UNCHANGED <<version, joined, members, request, asks, session, bus, stale, window, client, showing,
                       inbox, page, shown, pending, cards, drawn, sent, heard, masked>>
    BY <1>2 DEF DaemonStarts, stream, view, history
  <2>2. EngineTypeOK' /\ ViewTypeOK' /\ LinkTypeOK' /\ Queues'
    BY <2>1 DEF FeedInv, Types, TypeOK, EngineTypeOK, ViewTypeOK, LinkTypeOK, Queues, BusFits
  <2>3. Types'
    BY <2>1, <2>2 DEF FeedInv, Types, TypeOK
  <2>4. Reaches' /\ Drawn' /\ InOrder'
    BY <2>1 DEF FeedInv, Reaches, Told, OnItsWay, Carried, OnBus, Shows, Drawn, InOrder
  <2> QED BY <2>3, <2>4 DEF FeedInv
<1> QED BY <1>1, <1>2 DEF Daemon

\* One more message on its way to the window.
LEMMA Appended ==
    ASSUME FeedInv, NEW m \in Message, Len(inbox) < MaxInbox, inbox' = Append(inbox, m),
           IsStatus(m) => m.version = version /\ m.members = members
    PROVE  /\ inbox' \in Seq(Message) /\ Len(inbox') <= MaxInbox
           /\ \A d \in Device : d \notin members /\ ~Joins(m, d) =>
                  /\ Undisturbed(inbox, d) => Undisturbed(inbox', d)
                  /\ \A c : Arrives(inbox, d, c) => Arrives(inbox', d, c)
           /\ \A d \in Device : Joins(m, d) => Arrives(inbox', d, m.code)
           /\ Repaints(inbox) => Repaints(inbox')
           /\ Ascending(inbox') /\ Between(inbox', shown, version)
<1>1. inbox \in Seq(Message)
  BY DEF FeedInv, Types, Queues
<1>2. inbox' \in Seq(Message) /\ Len(inbox') <= MaxInbox
  BY <1>1, AppendFacts, Bounds
<1>3. \A d \in Device : d \notin members /\ ~Joins(m, d) => ~Disturbs(m, d)
  BY DEF Disturbs, Clears, IsStatus
<1>4. Ascending(inbox) /\ Between(inbox, shown, version) /\ shown \in 0 .. version /\ version \in Nat
  BY DEF FeedInv, InOrder, Types, TypeOK, ViewTypeOK, EngineTypeOK
<1>5. Between(inbox', shown, version)
  BY <1>1, <1>4, AppendMessage
<1>6. Ascending(inbox')
  <2>1. \A i \in 1 .. Len(inbox) : IsStatus(inbox[i]) => inbox[i].version <= version
    BY <1>4 DEF Between
  <2> QED BY <1>1, <1>4, <2>1, AppendMessage
<1> QED BY <1>1, <1>2, <1>3, <1>5, <1>6, AppendMessage

\* The engine and what is shown stay; the session, the client and the queues move.
LEMMA StreamStep ==
    ASSUME FeedInv, UNCHANGED <<up, engine, window, view, sent, history>>,
           Queues', LinkTypeOK', Ascending(inbox'), Between(inbox', shown, version),
           Repaints(inbox) => Repaints(inbox'),
           window' \/ client' = "asleep", client' = "asleep" => session' = "none",
           \A d \in Device : d \notin members =>
               /\ \A c : Carried(bus, d, c) =>
                      Carried(bus', d, c) \/ (~OnBus(d)' /\ Arrives(inbox', d, c))
               /\ ~OnBus(d) =>
                      /\ ~OnBus(d)'
                      /\ \A c : Arrives(inbox, d, c) => Arrives(inbox', d, c)
                      /\ Undisturbed(inbox, d) => Undisturbed(inbox', d)
    PROVE  FeedInv'
<1>1. UNCHANGED <<up, version, joined, ticking, members, request, asks, window, page, shown, pending, cards, drawn,
                  sent, heard, masked>>
  BY DEF engine, view, history
<1>2. Types'
  <2>1. EngineTypeOK' /\ ViewTypeOK'
    BY <1>1 DEF FeedInv, Types, TypeOK, EngineTypeOK, ViewTypeOK
  <2> QED BY <1>1, <2>1 DEF FeedInv, Types, TypeOK
<1>3. Reaches'
  <2> SUFFICES ASSUME NEW d \in Device, Told(d)' PROVE d \notin members' /\ OnItsWay(d)'
    BY DEF Reaches
  <2>1. d \notin members /\ OnItsWay(d)
    BY <1>1 DEF FeedInv, Reaches, Told
  <2>2. Shows(d)' <=> Shows(d)
    BY <1>1 DEF Shows
  <2> QED BY <1>1, <2>1, <2>2 DEF OnItsWay
<1>4. Drawn' /\ InOrder'
  BY <1>1 DEF FeedInv, Drawn, InOrder
<1> QED BY <1>2, <1>3, <1>4 DEF FeedInv

LEMMA SnapshotFacts ==
    ASSUME FeedInv
    PROVE  Snapshot \in Message /\ Snapshot.version = version /\ Snapshot.members = members
BY MessageFacts DEF Snapshot, FeedInv, Types, TypeOK, EngineTypeOK

LEMMA SessionStep == FeedInv /\ Session => FeedInv'
<1> SUFFICES ASSUME FeedInv, Session PROVE FeedInv'
  OBVIOUS
<1>0. /\ bus \in Seq(Event) /\ BusFits /\ inbox \in Seq(Message) /\ Len(inbox) <= MaxInbox /\ LinkTypeOK
      /\ (session # "live" => bus = <<>>) /\ Ascending(inbox) /\ Between(inbox, shown, version)
      /\ (window \/ client = "asleep") /\ (client = "asleep" => session = "none")
  BY DEF FeedInv, Types, TypeOK, Queues, InOrder
<1>1. UNCHANGED <<up, speaks, engine, window, client, showing, view, sent, history>>
  BY DEF Session, Answer, Subscribe, Forward, Flush, Elsewhere
<1>2. CASE Answer \/ Flush
  <2>1. /\ Len(inbox) < MaxInbox /\ inbox' = Append(inbox, Snapshot) /\ bus' = bus
        /\ session' \in {session, "answered"} /\ session # "none" /\ stale' \in {stale, FALSE}
        /\ (session' # "live" => session # "live")
    BY <1>2 DEF Answer, Flush, Tell, Room
  <2>2. inbox' \in Seq(Message) /\ Len(inbox') <= MaxInbox
    BY <2>1, Appended, SnapshotFacts
  <2>3. Queues'
    BY <1>0, <2>1, <2>2 DEF Queues, BusFits
  <2>4. LinkTypeOK'
    BY <1>0, <1>1, <2>1, <2>2 DEF LinkTypeOK
  <2>5. \A d \in Device : ~Joins(Snapshot, d)
    BY DEF Snapshot, Status, Joins
  <2> QED BY <1>0, <1>1, <2>1, <2>3, <2>4, <2>5, Appended, SnapshotFacts, StreamStep DEF OnBus
<1>3. CASE Subscribe
  <2>1. UNCHANGED <<bus, inbox, stale>> /\ session = "answered" /\ session' = "live"
    BY <1>3 DEF Subscribe
  <2>2. Queues' /\ LinkTypeOK'
    BY <1>0, <1>1, <2>1 DEF Queues, BusFits, LinkTypeOK
  <2> QED BY <1>0, <1>1, <2>1, <2>2, StreamStep DEF OnBus
<1>4. CASE Forward
  <2>1. /\ session = "live" /\ session' = session /\ bus # <<>> /\ bus' = Tail(bus)
        /\ \/ /\ Head(bus).kind = "join" /\ Len(inbox) < MaxInbox
              /\ inbox' = Append(inbox, Head(bus)) /\ stale' = stale
           \/ Head(bus).kind # "join" /\ inbox' = inbox /\ stale' = TRUE
    BY <1>4 DEF Forward, Tell, Room
  <2>2. /\ Head(bus) \in Event /\ Head(bus) = bus[1] /\ bus' \in Seq(Event) /\ Len(bus) \in Nat \ {0}
        /\ Len(bus') = Len(bus) - 1 /\ \A i \in 1 .. Len(bus) - 1 : bus'[i] = bus[i + 1]
    BY <1>0, <2>1, TailFacts
  <2>3. /\ Head(bus).kind = "join" => Head(bus) \in Message /\ Head(bus).device \in Device
        /\ Head(bus).device \in Device => Head(bus).kind = "join"
    BY <2>2, EventFacts
  <2>4. Head(bus).kind = "join" => ~IsStatus(Head(bus)) /\ Joins(Head(bus), Head(bus).device)
    BY DEF IsStatus, Joins
  <2>5. BusFits' /\ Len(bus') <= Capacity + 1
    BY <1>0, <2>2, Bounds DEF BusFits
  <2>6. inbox' \in Seq(Message) /\ Len(inbox') <= MaxInbox
    BY <1>0, <2>1, <2>3, <2>4, Appended
  <2>7. Queues'
    BY <2>1, <2>2, <2>5, <2>6 DEF Queues
  <2>8. LinkTypeOK'
    BY <1>0, <1>1, <2>1, <2>5, <2>6 DEF LinkTypeOK
  <2>9. ASSUME NEW d \in Device
        PROVE  /\ \A c : Carried(bus, d, c) =>
                      \/ Carried(bus', d, c)
                      \/ Joins(Head(bus), d) /\ Head(bus).code = c /\ ~OnBus(d)'
               /\ ~OnBus(d) => ~OnBus(d)' /\ ~Joins(Head(bus), d)
    <3>1. /\ DOMAIN bus = 1 .. Len(bus) /\ DOMAIN bus' = 1 .. Len(bus')
          /\ (bus[1].device = d => Joins(Head(bus), d)) /\ (Joins(Head(bus), d) => bus[1].device = d)
      BY <1>0, <2>2, <2>3 DEF Joins
    <3>2. ASSUME NEW c, Carried(bus, d, c)
          PROVE  Carried(bus', d, c) \/ (Joins(Head(bus), d) /\ Head(bus).code = c /\ ~OnBus(d)')
      <4>1. PICK i \in 1 .. Len(bus) : /\ bus[i].device = d /\ bus[i].code = c
                                       /\ \A j \in i + 1 .. Len(bus) : bus[j].device # d
        BY <3>2 DEF Carried
      <4>2. CASE i = 1
        <5>1. \A j \in 1 .. Len(bus') : bus'[j].device # d
          BY <2>2, <4>1, <4>2
        <5> QED BY <2>2, <3>1, <4>1, <4>2, <5>1 DEF OnBus
      <4>3. CASE i # 1
        <5>1. /\ i - 1 \in 1 .. Len(bus') /\ bus'[i - 1].device = d /\ bus'[i - 1].code = c
              /\ \A j \in i - 1 + 1 .. Len(bus') : bus'[j].device # d
          BY <2>2, <4>1, <4>3
        <5> QED BY <5>1 DEF Carried
      <4> QED BY <4>2, <4>3
    <3>3. ASSUME ~OnBus(d) PROVE ~OnBus(d)' /\ ~Joins(Head(bus), d)
      <4>1. \A j \in 1 .. Len(bus) : bus[j].device # d
        BY <3>1, <3>3 DEF OnBus
      <4>2. \A j \in 1 .. Len(bus') : bus'[j].device # d
        BY <2>2, <4>1
      <4> QED BY <2>2, <3>1, <4>1, <4>2 DEF OnBus
    <3> QED BY <3>2, <3>3
  <2>10. (window' \/ client' = "asleep") /\ (client' = "asleep" => session' = "none")
    BY <1>0, <1>1, <2>1
  <2>11. CASE Head(bus).kind = "join"
    <3>1. inbox' = Append(inbox, Head(bus)) /\ Len(inbox) < MaxInbox
      BY <2>1, <2>11
    <3>2. /\ Ascending(inbox') /\ Between(inbox', shown, version) /\ (Repaints(inbox) => Repaints(inbox'))
          /\ \A d \in Device : d \notin members =>
                 /\ \A c : Carried(bus, d, c) =>
                        Carried(bus', d, c) \/ (~OnBus(d)' /\ Arrives(inbox', d, c))
                 /\ ~OnBus(d) =>
                        /\ ~OnBus(d)'
                        /\ \A c : Arrives(inbox, d, c) => Arrives(inbox', d, c)
                        /\ Undisturbed(inbox, d) => Undisturbed(inbox', d)
      BY <2>3, <2>4, <2>9, <2>11, <3>1, Appended
    <3> QED BY <1>1, <2>7, <2>8, <2>10, <3>2, StreamStep
  <2>12. CASE Head(bus).kind # "join"
    <3>0. inbox' = inbox
      BY <2>1, <2>12
    <3>1. ASSUME NEW d \in Device
          PROVE  /\ \A c : Carried(bus, d, c) => Carried(bus', d, c)
                 /\ ~OnBus(d) => ~OnBus(d)'
      <4>1. ~Joins(Head(bus), d)
        BY <2>12 DEF Joins
      <4> QED BY <2>9, <4>1
    <3>2. Ascending(inbox') /\ Between(inbox', shown, version) /\ (Repaints(inbox) => Repaints(inbox'))
      BY <1>0, <3>0
    <3>3. \A d \in Device : d \notin members =>
              /\ \A c : Carried(bus, d, c) =>
                     Carried(bus', d, c) \/ (~OnBus(d)' /\ Arrives(inbox', d, c))
              /\ ~OnBus(d) =>
                     /\ ~OnBus(d)'
                     /\ \A c : Arrives(inbox, d, c) => Arrives(inbox', d, c)
                     /\ Undisturbed(inbox, d) => Undisturbed(inbox', d)
      <4>1. ASSUME NEW d \in Device
            PROVE  /\ \A c : Arrives(inbox, d, c) => Arrives(inbox', d, c)
                   /\ Undisturbed(inbox, d) => Undisturbed(inbox', d)
        BY <3>0 DEF Arrives, Undisturbed
      <4> QED BY <3>1, <4>1
    <3> QED BY <1>1, <2>7, <2>8, <2>10, <3>1, <3>2, <3>3, StreamStep
  <2> QED BY <2>11, <2>12
<1> QED BY <1>2, <1>3, <1>4 DEF Session

LEMMA ClientStep == FeedInv /\ Client => FeedInv'
<1> SUFFICES ASSUME FeedInv, Client PROVE FeedInv'
  OBVIOUS
<1>0. /\ bus \in Seq(Event) /\ BusFits /\ inbox \in Seq(Message) /\ Len(inbox) <= MaxInbox /\ LinkTypeOK
      /\ (session # "live" => bus = <<>>) /\ Ascending(inbox) /\ Between(inbox, shown, version)
      /\ (window \/ client = "asleep") /\ (client = "asleep" => session = "none")
  BY DEF FeedInv, Types, TypeOK, Queues, InOrder
<1>1. UNCHANGED <<up, speaks, engine, window, view, sent, history, bus, stale>>
  BY DEF Client, Connect, Greeted, HangUp, Ends, stream
<1>2. /\ session' \in {"none", "open", "greeted"} /\ bus = <<>>
      /\ (session' # "none" => up /\ window)
      /\ window /\ client' \in {"asleep", "greeting", "subscribed"}
      /\ (client' = "asleep" => session' = "none")
  BY <1>0 DEF Client, Connect, Greeted, HangUp, Ends, stream, LinkTypeOK
<1>3. \/ inbox' = inbox /\ showing' \in {showing, "lost", "unreachable", "mismatch", "update"}
      \/ \E end \in {"lost", "unreachable", "mismatch", "update"} :
             /\ showing' = end
             /\ inbox' = inbox \/ Tell(Plain(IF end \in {"lost", "unreachable"} THEN "down" ELSE end))
  BY DEF Client, Connect, Greeted, HangUp, Ends, Disconnected, stream
<1>4. inbox' = inbox \/ \E k \in Word : Len(inbox) < MaxInbox /\ inbox' = Append(inbox, Plain(k))
  BY <1>3 DEF Tell, Room, Word
<1>5. ASSUME NEW k \in Word
      PROVE  Plain(k) \in Message /\ ~IsStatus(Plain(k)) /\ \A d : ~Joins(Plain(k), d)
  BY MessageFacts DEF Word, IsStatus, Joins
<1> DEFINE Goes(q) ==
        /\ q \in Seq(Message) /\ Len(q) <= MaxInbox
        /\ \A d \in Device : d \notin members =>
               /\ Undisturbed(inbox, d) => Undisturbed(q, d)
               /\ \A c : Arrives(inbox, d, c) => Arrives(q, d, c)
        /\ Repaints(inbox) => Repaints(q)
        /\ Ascending(q) /\ Between(q, shown, version)
<1>6. Goes(inbox')
  <2>1. CASE inbox' = inbox
    BY <1>0, <2>1
  <2>2. ASSUME NEW k \in Word, Len(inbox) < MaxInbox, inbox' = Append(inbox, Plain(k))
        PROVE  Goes(inbox')
    BY <1>5, <2>2, Appended
  <2> QED BY <1>4, <2>1, <2>2
<1>7. Queues'
  BY <1>0, <1>1, <1>2, <1>6 DEF Queues, BusFits
<1>8. showing' \in {None, "lost", "unreachable", "mismatch", "update"}
  BY <1>0, <1>3 DEF LinkTypeOK
<1>9. LinkTypeOK'
  BY <1>0, <1>1, <1>2, <1>6, <1>8 DEF LinkTypeOK
<1> QED BY <1>1, <1>2, <1>6, <1>7, <1>9, StreamStep DEF OnBus

LEMMA Draws ==
    ASSUME FeedInv, NEW list \in Requests, Draw(list)
    PROVE  /\ drawn' = Listed(list) /\ drawn' = Listed(cards') /\ drawn' # None
           /\ drawn' \in SUBSET Device /\ cards' \in Requests
<1>1. Listed(list) \in SUBSET Device /\ Listed(list) # None
  BY Bounds DEF Listed
<1>2. cards \in Requests /\ (drawn # None => drawn = Listed(cards))
  BY DEF FeedInv, Types, TypeOK, ViewTypeOK, Drawn, Requests
<1> QED BY <1>1, <1>2 DEF Draw

LEMMA Applies ==
    ASSUME FeedInv, NEW list \in Requests, Apply(list)
    PROVE  /\ pending' = list /\ cards' \in Requests /\ drawn' \in (SUBSET Device) \union {None}
           /\ drawn' # None => drawn' = Listed(cards')
           /\ page' = "status" => drawn' # None /\ drawn' = Listed(pending')
           /\ cards' = list \/ (cards' = cards /\ drawn' = drawn)
<1>1. CASE page' = "status"
  <2>1. Draw(list) /\ pending' = list
    BY <1>1 DEF Apply
  <2> QED BY <1>1, <2>1, Draws DEF Draw
<1>2. CASE page' # "status"
  <2>1. cards' = cards /\ drawn' = drawn /\ pending' = list
    BY <1>2 DEF Apply
  <2>2. /\ cards \in Requests /\ drawn \in (SUBSET Device) \union {None}
        /\ drawn # None => drawn = Listed(cards)
    BY DEF FeedInv, Types, TypeOK, ViewTypeOK, Drawn, Requests
  <2> QED BY <1>2, <2>1, <2>2
<1> QED BY <1>1, <1>2

\* What keeps a listed device listed as it is.
LEMMA StillShows ==
    ASSUME NEW d \in Device, Shows(d), pending'[d] = pending[d], request' = request,
           d \in masked' <=> d \in masked,
           \/ drawn' = None \/ cards'[d] = pending'[d]
           \/ cards' = cards /\ drawn' = drawn
    PROVE  Shows(d)'
BY DEF Shows

\* The window has handled a message.
LEMMA Handled ==
    ASSUME FeedInv, inbox # <<>>, inbox' = Tail(inbox), UNCHANGED AsideFromPage,
           page' \in {"blank", "status", "none", "down", "mismatch"},
           pending' \in Requests, cards' \in Requests, drawn' \in (SUBSET Device) \union {None},
           drawn' # None => drawn' = Listed(cards'),
           page' = "status" => drawn' # None /\ drawn' = Listed(pending'),
           shown' = IF IsStatus(Head(inbox)) THEN Head(inbox).version ELSE shown,
           masked' \subseteq Device,
           \A d \in Device :
               /\ Shows(d) /\ ~Disturbs(Head(inbox), d) => Shows(d)'
               /\ Joins(Head(inbox), d) /\ Head(inbox).code = request[d] /\ heard[d] = request[d] =>
                      Shows(d)'
    PROVE  FeedInv'
<1>1. UNCHANGED <<up, speaks, version, joined, ticking, members, request, asks, session, bus, stale, window, client,
                  showing, sent, heard>>
  BY DEF AsideFromPage, Behind, engine, stream
<1>2. /\ inbox \in Seq(Message) /\ Len(inbox) \in Nat \ {0} /\ Len(inbox) <= MaxInbox
      /\ Head(inbox) \in Message /\ inbox' \in Seq(Message) /\ Len(inbox') = Len(inbox) - 1
      /\ shown \in 0 .. version /\ version \in Nat /\ version \in 0 .. MaxVersion
      /\ Ascending(inbox) /\ Between(inbox, shown, version)
  BY TailFacts DEF FeedInv, Types, TypeOK, Queues, ViewTypeOK, EngineTypeOK, InOrder
<1>3. shown' \in 0 .. version /\ Between(inbox', shown', version) /\ Ascending(inbox')
  <2>1. CASE IsStatus(Head(inbox))
    <3>1. shown' = Head(inbox).version /\ shown' \in 0 .. MaxVersion
      BY <1>2, <2>1, MessageFacts
    <3>2. shown' <= version /\ Between(inbox', shown', version) /\ Ascending(inbox')
      BY <1>2, <2>1, <3>1, TailMessage
    <3> QED BY <1>2, <3>1, <3>2, Bounds
  <2>2. CASE ~IsStatus(Head(inbox))
    BY <1>2, <2>2, TailMessage
  <2> QED BY <2>1, <2>2
<1>4. Types'
  <2>1. EngineTypeOK'
    BY <1>1 DEF FeedInv, Types, TypeOK, EngineTypeOK
  <2>2. Len(inbox') <= MaxInbox
    BY <1>2, Bounds
  <2>3. LinkTypeOK'
    BY <1>1, <2>2 DEF FeedInv, Types, TypeOK, LinkTypeOK
  <2>4. ViewTypeOK'
    BY <1>1, <1>3 DEF ViewTypeOK, Requests
  <2>5. Queues'
    BY <1>1, <1>2, <2>2 DEF FeedInv, Types, Queues, BusFits
  <2> QED BY <1>1, <2>1, <2>3, <2>4, <2>5 DEF FeedInv, Types, TypeOK
<1>5. Reaches'
  <2> SUFFICES ASSUME NEW d \in Device, Told(d)' PROVE d \notin members' /\ OnItsWay(d)'
    BY DEF Reaches
  <2>1. d \notin members /\ OnItsWay(d)
    BY <1>1 DEF FeedInv, Reaches, Told
  <2>2. Arrives(inbox, d, request[d]) =>
            Arrives(inbox', d, request[d]) \/ (Shows(d)' /\ Undisturbed(inbox', d))
    BY <1>1, <1>2, TailMessage DEF Told
  <2>3. Shows(d) /\ Undisturbed(inbox, d) => Shows(d)' /\ Undisturbed(inbox', d)
    BY <1>2, TailMessage
  <2> QED BY <1>1, <2>1, <2>2, <2>3 DEF OnItsWay, Carried, OnBus
<1>6. Drawn' /\ InOrder'
  BY <1>1, <1>3 DEF Drawn, InOrder
<1> QED BY <1>4, <1>5, <1>6 DEF FeedInv

LEMMA HandleStep == FeedInv /\ Handle => FeedInv'
<1> SUFFICES ASSUME FeedInv, Handle PROVE FeedInv'
  OBVIOUS
<1>0. /\ pending \in Requests /\ cards \in Requests
      /\ page \in {"blank", "status", "none", "down", "mismatch"}
  BY DEF FeedInv, Types, TypeOK, ViewTypeOK, Requests
<1>1. inbox # <<>> => Head(inbox) \in Message
  BY TailFacts DEF FeedInv, Types, Queues
<1>8. UNCHANGED AsideFromPage => request' = request
  BY DEF AsideFromPage, Behind, engine
<1>9. masked \subseteq Device
  BY DEF FeedInv, Types, TypeOK
<1>2. CASE HandleStatus
  <2> DEFINE s == Head(inbox)
             list == [d \in Device |-> IF d \in s.members THEN None ELSE pending[d]]
  <2>1. /\ inbox # <<>> /\ s.kind = "status" /\ page' = "status" /\ shown' = s.version /\ Apply(list)
        /\ inbox' = Tail(inbox) /\ UNCHANGED <<masked, AsideFromPage>>
    BY <1>2 DEF HandleStatus, Receives
  <2>2. list \in Requests
    BY <1>0 DEF Requests
  <2>3. \A d \in Device : (~Disturbs(s, d) => list[d] = pending[d]) /\ ~Joins(s, d)
    BY <2>1 DEF Disturbs, Clears, Joins
  <2> HIDE DEF s, list
  <2>4. IsStatus(s)
    BY <2>1 DEF IsStatus
  <2>5. pending' = list
    BY <2>1, <2>2, Applies
  <2>6. \A d \in Device : Shows(d) /\ ~Disturbs(s, d) => Shows(d)'
    BY <1>8, <1>9, <2>1, <2>2, <2>3, <2>5, Applies, StillShows
  <2> QED BY <1>9, <2>1, <2>2, <2>3, <2>4, <2>5, <2>6, Applies, Handled DEF s
<1>3. CASE HandleNone
  <2>1. /\ inbox # <<>> /\ Head(inbox).kind = "none" /\ page' = "none" /\ shown' = Head(inbox).version
        /\ drawn' = None /\ pending' = pending /\ cards' = cards
        /\ inbox' = Tail(inbox) /\ UNCHANGED <<masked, AsideFromPage>>
    BY <1>3 DEF HandleNone, Receives, Placeholder
  <2>2. IsStatus(Head(inbox)) /\ \A d \in Device : ~Joins(Head(inbox), d)
    BY <2>1 DEF IsStatus, Joins
  <2>3. \A d \in Device : Shows(d) => Shows(d)'
    BY <1>8, <2>1, StillShows
  <2> QED BY <1>0, <1>9, <2>1, <2>2, <2>3, Handled
<1>4. CASE HandleEnd
  <2>1. /\ inbox # <<>> /\ Head(inbox).kind \in {"down", "mismatch"} /\ page' \in {"down", "mismatch"}
        /\ shown' = shown /\ drawn' = None /\ pending' = pending /\ cards' = cards
        /\ inbox' = Tail(inbox) /\ UNCHANGED <<masked, AsideFromPage>>
    BY <1>4 DEF HandleEnd, Receives, Placeholder
  <2>2. ~IsStatus(Head(inbox)) /\ \A d \in Device : ~Joins(Head(inbox), d)
    BY <2>1 DEF IsStatus, Joins
  <2>3. \A d \in Device : Shows(d) => Shows(d)'
    BY <1>8, <2>1, StillShows
  <2> QED BY <1>0, <1>9, <2>1, <2>2, <2>3, Handled
<1>5. CASE HandleJoinRequest
  <2> DEFINE h == Head(inbox)  list == Added(h.device, h.code)
  <2>1. /\ inbox # <<>> /\ h.kind = "join" /\ page' = page /\ shown' = shown /\ Apply(list)
        /\ masked' = IF heard[h.device] = h.code /\ Meets(h.device, h.code)
                     THEN masked \union {h.device} ELSE masked \ {h.device}
        /\ inbox' = Tail(inbox) /\ UNCHANGED AsideFromPage
    BY <1>5 DEF HandleJoinRequest, Receives
  <2>2. h.device \in Device /\ h.code \in Code /\ h.code # None
    BY <1>1, <2>1, MessageFacts, Bounds DEF Code
  <2>3. /\ list \in Requests /\ list[h.device] # None
        /\ pending[h.device] \in {None, h.code} => list[h.device] = h.code
        /\ \A d \in Device : d # h.device => list[d] = pending[d]
    BY <1>0, <2>2 DEF Added, Requests
  <2>4. pending' = list
    BY <2>1, <2>3, Applies
  <2>5. masked' \subseteq Device /\ \A d \in Device : d # h.device => (d \in masked' <=> d \in masked)
    BY <1>9, <2>1, <2>2
  <2>6. ~IsStatus(h) /\ \A d \in Device : Joins(h, d) => d = h.device
    BY <2>1 DEF IsStatus, Joins
  <2>7. Joins(h, h.device)
    BY <2>1 DEF Joins
  <2> HIDE DEF h, list
  <2>8. \A d \in Device : Shows(d) /\ d # h.device => Shows(d)'
    BY <1>8, <2>1, <2>3, <2>4, <2>5, Applies, StillShows
  <2>9. ASSUME NEW d \in Device, d = h.device, h.code = request[d], heard[d] = request[d]
        PROVE  Shows(d)'
    <3>1. request' = request /\ request[d] # None
      BY <1>8, <2>1, <2>2, <2>9 DEF h
    <3>2. CASE Meets(d, h.code)
      <4>1. pending'[d] # None /\ d \in masked'
        BY <2>1, <2>3, <2>4, <2>9, <3>2
      <4> QED BY <4>1 DEF Shows
    <3>3. CASE ~Meets(d, h.code)
      <4>1. pending'[d] = request[d] /\ (drawn = None \/ cards[d] \in {None, request[d]})
        BY <2>3, <2>4, <2>9, <3>3 DEF Meets
      <4>2. drawn' = None \/ cards'[d] \in {None, request[d]}
        BY <2>1, <2>3, <2>4, <4>1, Applies
      <4> QED BY <3>1, <4>1, <4>2 DEF Shows
    <3> QED BY <3>2, <3>3
  <2>10. \A d \in Device : /\ Shows(d) /\ ~Disturbs(h, d) => Shows(d)'
                           /\ Joins(h, d) /\ h.code = request[d] /\ heard[d] = request[d] => Shows(d)'
    BY <2>6, <2>7, <2>8, <2>9 DEF Disturbs
  <2> QED BY <1>0, <2>1, <2>3, <2>4, <2>5, <2>6, <2>10, Applies, Handled DEF h
<1>6. CASE HandleRefresh
  <2>1. /\ inbox # <<>> /\ Head(inbox).kind = "refresh" /\ page' = page /\ shown' = shown /\ Apply(pending)
        /\ inbox' = Tail(inbox) /\ UNCHANGED <<masked, AsideFromPage>>
    BY <1>6 DEF HandleRefresh, Receives
  <2>2. ~IsStatus(Head(inbox)) /\ \A d \in Device : ~Joins(Head(inbox), d)
    BY <2>1 DEF IsStatus, Joins
  <2>3. pending' = pending
    BY <1>0, <2>1, Applies
  <2>4. \A d \in Device : Shows(d) => Shows(d)'
    BY <1>0, <1>8, <2>1, <2>3, Applies, StillShows
  <2> QED BY <1>0, <1>9, <2>1, <2>2, <2>3, <2>4, Applies, Handled
<1>7. CASE HandleUpdate
  <2>1. Fresh /\ UNCHANGED <<up, engine, shown, sent>> /\ window' = window /\ speaks' \in {"same", speaks}
    BY <1>7 DEF HandleUpdate, Behind
  <2> QED BY <2>1, FreshStep DEF FeedInv, Types, TypeOK, LinkTypeOK
<1> QED BY <1>2, <1>3, <1>4, <1>5, <1>6, <1>7 DEF Handle

LEMMA UserStep == FeedInv /\ User => FeedInv'
<1> SUFFICES ASSUME FeedInv, User PROVE FeedInv'
  OBVIOUS
<1>0. /\ pending \in Requests /\ cards \in Requests /\ speaks \in {"same", "other", "newer"}
      /\ inbox \in Seq(Message) /\ Len(inbox) <= MaxInbox /\ window \in BOOLEAN
      /\ Ascending(inbox) /\ Between(inbox, shown, version) /\ sent \subseteq Device \X BOOLEAN
  BY DEF FeedInv, Types, TypeOK, ViewTypeOK, LinkTypeOK, Queues, InOrder, Requests
<1>1. CASE OpenWindow \/ CloseWindow
  <2>1. Fresh /\ UNCHANGED <<up, engine, shown, sent>> /\ window' \in BOOLEAN /\ speaks' = speaks
    BY <1>1 DEF OpenWindow, CloseWindow
  <2> QED BY <1>0, <2>1, FreshStep
<1>2. CASE TimedRefresh
  <2>1. /\ page' = page /\ shown' = shown /\ Apply(pending)
        /\ UNCHANGED <<inbox, up, speaks, version, joined, ticking, members, request, asks, session, bus, stale,
                       window, client, showing, sent, heard, masked>>
    BY <1>2 DEF TimedRefresh, AsideFromPage, Behind, engine, stream
  <2>2. /\ pending' = pending /\ cards' \in Requests /\ drawn' \in (SUBSET Device) \union {None}
        /\ drawn' # None => drawn' = Listed(cards')
        /\ page' = "status" => drawn' # None /\ drawn' = Listed(pending')
        /\ cards' = pending \/ (cards' = cards /\ drawn' = drawn)
    BY <1>0, <2>1, Applies
  <2>3. EngineTypeOK' /\ LinkTypeOK' /\ Queues'
    BY <2>1 DEF FeedInv, Types, TypeOK, EngineTypeOK, LinkTypeOK, Queues, BusFits
  <2>4. ViewTypeOK'
    <3>1. shown' \in 0 .. version' /\ page' \in {"blank", "status", "none", "down", "mismatch"}
      BY <2>1 DEF FeedInv, Types, TypeOK, ViewTypeOK
    <3> QED BY <1>0, <2>2, <3>1 DEF ViewTypeOK, Requests
  <2>5. Types'
    BY <2>1, <2>3, <2>4 DEF FeedInv, Types, TypeOK
  <2>6. Reaches'
    <3>1. \A d \in Device : Shows(d) => Shows(d)'
      BY <2>1, <2>2, StillShows
    <3> QED BY <2>1, <3>1 DEF FeedInv, Reaches, Told, OnItsWay, Carried, OnBus
  <2>7. Drawn' /\ InOrder'
    BY <2>1, <2>2 DEF FeedInv, Drawn, InOrder
  <2> QED BY <2>5, <2>6, <2>7 DEF FeedInv
<1>3. ASSUME NEW d \in Device, NEW a \in BOOLEAN, Click(d, a) PROVE FeedInv'
  <2>1. /\ Len(inbox) < MaxInbox /\ pending' = [pending EXCEPT ![d] = None]
        /\ sent' = sent \union {<<d, a>>} /\ inbox' = Append(inbox, Plain("refresh"))
        /\ UNCHANGED <<up, speaks, version, joined, ticking, members, request, asks, session, bus, stale,
                       window, client, showing, page, shown, cards, drawn, heard, masked>>
    BY <1>3 DEF Click, Room, engine, stream, history
  <2> DEFINE m == Plain("refresh")
  <2>2. m \in Message /\ m.kind = "refresh" /\ ~IsStatus(m) /\ \A f \in Device : ~Joins(m, f)
    BY MessageFacts DEF Word, IsStatus, Joins
  <2>3. inbox' = Append(inbox, m)
    BY <2>1
  <2> HIDE DEF m
  <2>4. /\ inbox' \in Seq(Message) /\ Len(inbox') <= MaxInbox
        /\ \A f \in Device : f \notin members =>
               /\ Undisturbed(inbox, f) => Undisturbed(inbox', f)
               /\ \A c : Arrives(inbox, f, c) => Arrives(inbox', f, c)
        /\ Ascending(inbox') /\ Between(inbox', shown, version)
    BY <2>1, <2>2, <2>3, Appended
  <2>5. Repaints(inbox')
    BY <1>0, <2>2, <2>3, AppendMessage
  <2>6. pending' \in Requests /\ \A f \in Device : f # d => pending'[f] = pending[f]
    BY <1>0, <2>1 DEF Requests
  <2>7. EngineTypeOK' /\ LinkTypeOK' /\ Queues'
    BY <2>1, <2>4 DEF FeedInv, Types, TypeOK, EngineTypeOK, LinkTypeOK, Queues, BusFits
  <2>8. ViewTypeOK'
    <3>1. /\ shown' \in 0 .. version' /\ page' \in {"blank", "status", "none", "down", "mismatch"}
          /\ drawn' \in (SUBSET Device) \union {None}
      BY <2>1 DEF FeedInv, Types, TypeOK, ViewTypeOK
    <3> QED BY <1>0, <2>1, <2>6, <3>1 DEF ViewTypeOK, Requests
  <2>9. Types'
    BY <1>0, <2>1, <2>7, <2>8 DEF FeedInv, Types, TypeOK
  <2>10. Reaches'
    <3> SUFFICES ASSUME NEW f \in Device, Told(f)' PROVE f \notin members' /\ OnItsWay(f)'
      BY DEF Reaches
    <3>1. f \notin members /\ OnItsWay(f)
      BY <2>1 DEF FeedInv, Reaches, Told
    <3>2. f # d /\ Shows(f) => Shows(f)'
      BY <2>1, <2>6 DEF Shows
    <3> QED BY <2>1, <2>4, <3>1, <3>2 DEF OnItsWay, Carried, OnBus
  <2>11. Drawn'
    BY <2>1, <2>5 DEF FeedInv, Drawn
  <2>12. InOrder'
    BY <2>1, <2>4 DEF InOrder
  <2> QED BY <2>9, <2>10, <2>11, <2>12 DEF FeedInv
<1> QED BY <1>1, <1>2, <1>3 DEF User

LEMMA InitFeed == Init => FeedInv
<1> SUFFICES ASSUME Init PROVE FeedInv
  OBVIOUS
<1>1. bus = <<>> /\ inbox = <<>> /\ Len(bus) = 0 /\ Len(inbox) = 0
  BY EmptySeq DEF Init
<1>2. Queues
  BY <1>1, Bounds, EmptySeq DEF Init, Queues, BusFits
<1>3. EngineTypeOK
  BY Bounds, NoRequests DEF Init, EngineTypeOK, Requests
<1>4. LinkTypeOK
  <2>1. Len(bus) <= Capacity + 1 /\ Len(inbox) <= MaxInbox
    BY <1>1, Bounds
  <2> QED BY <2>1 DEF Init, LinkTypeOK
<1>5. ViewTypeOK
  <2>1. shown \in 0 .. version
    BY DEF Init
  <2>2. pending \in Requests /\ cards \in Requests
    BY NoRequests DEF Init
  <2> QED BY <2>1, <2>2 DEF Init, ViewTypeOK, Requests
<1>6. Types
  BY <1>2, <1>3, <1>4, <1>5, NoRequests DEF Init, Types, TypeOK, Requests
<1>7. Reaches
  BY NoRequests DEF Init, Reaches, Told
<1>8. Drawn /\ InOrder
  BY <1>1 DEF Init, Drawn, InOrder, Ascending, Between
<1> QED BY <1>6, <1>7, <1>8 DEF FeedInv

LEMMA FeedStep == FeedInv /\ [Next]_vars => FeedInv'
<1> SUFFICES ASSUME FeedInv, [Next]_vars PROVE FeedInv'
  OBVIOUS
<1>1. CASE UNCHANGED vars
  <2>1. UNCHANGED <<up, speaks, version, joined, ticking, members, request, asks, session, bus, stale,
                    window, client, showing, inbox, page, shown, pending, cards, drawn, sent, heard, masked>>
    BY <1>1 DEF vars, engine, stream, view, history
  <2>2. EngineTypeOK' /\ LinkTypeOK' /\ ViewTypeOK' /\ Queues'
    BY <2>1 DEF FeedInv, Types, TypeOK, EngineTypeOK, LinkTypeOK, ViewTypeOK, Queues, BusFits
  <2>3. Types'
    BY <2>1, <2>2 DEF FeedInv, Types, TypeOK
  <2>4. Reaches' /\ Drawn' /\ InOrder'
    BY <2>1 DEF FeedInv, Reaches, Told, OnItsWay, Carried, OnBus, Shows, Drawn, InOrder
  <2> QED BY <2>3, <2>4 DEF FeedInv
<1>2. CASE Next
  BY <1>2, NetworkStep, DaemonStep, SessionStep, ClientStep, HandleStep, UserStep, DecideStep DEF Next
<1> QED BY <1>1, <1>2

LEMMA FeedInvariance == Spec => []FeedInv
BY InitFeed, FeedStep, PTL DEF Spec

\* Every variable has its type, and no queue outgrows its bound.
THEOREM TypeCorrect == Spec => []TypeOK
<1>1. FeedInv => TypeOK
  BY DEF FeedInv, Types
<1> QED BY <1>1, FeedInvariance, PTL

\* A request the window was told of stays on its list, and on a card, with the code by which the
\* two people recognise it, until it is decided, whatever the bus loses, the session coalesces
\* and the window clears meanwhile (ipn-daemon subscribe_loop; ipn-gui apply_status), unless it
\* met an earlier one of its device there: for any devices, requests and lengths of the queues.
THEOREM RequestsAreListed == Spec => []HeardIsListed
<1>1. FeedInv => HeardIsListed
  <2> SUFFICES ASSUME FeedInv, AtRest, NEW d \in Device, request[d] # None, heard[d] = request[d]
               PROVE  /\ pending[d] # None /\ cards[d] # None
                      /\ d \in masked \/ {pending[d], cards[d]} = {request[d]}
    BY DEF HeardIsListed
  <2>1. bus = <<>> /\ inbox = <<>> /\ sent = {} /\ page = "status" /\ Len(bus) = 0 /\ Len(inbox) = 0
    BY EmptySeq DEF AtRest
  <2>2. OnItsWay(d)
    BY DEF FeedInv, Reaches, Told
  <2>3. ~Carried(bus, d, request[d]) /\ ~Arrives(inbox, d, request[d]) /\ ~Repaints(inbox)
    BY <2>1 DEF Carried, Arrives, Repaints
  <2>4. Shows(d)
    BY <2>1, <2>2, <2>3 DEF OnItsWay
  <2>5. drawn # None /\ Listed(cards) = Listed(pending)
    BY <2>1, <2>3 DEF FeedInv, Drawn
  <2>6. pending[d] # None /\ cards[d] # None
    BY <2>4, <2>5 DEF Shows, Listed
  <2> QED BY <2>4, <2>5, <2>6 DEF Shows
<1> QED BY <1>1, FeedInvariance, PTL

-----------------------------------------------------------------------------
(***************************************************************************)
(* The page.                                                               *)
(***************************************************************************)
\* A step that shows no status: what is on the page stays, or a placeholder comes.
LEMMA NothingIsShown ==
    ASSUME FeedInv', version' \in {version, version + 1}, shown' = shown,
           page' = page \/ page' \notin {"status", "none"}
    PROVE  Page!Environment
<1>1. ticking' \in BOOLEAN
  BY DEF FeedInv, Types, TypeOK, EngineTypeOK
<1> QED BY <1>1 DEF Page!Environment

\* One that does: it is no older than what was shown, and no newer than what the daemon knows.
LEMMA SomethingIsShown ==
    ASSUME FeedInv, HandleStatus \/ HandleNone
    PROVE  Page!Show
<1>1. /\ inbox # <<>> /\ IsStatus(Head(inbox)) /\ shown' = Head(inbox).version
      /\ page' \in {"status", "none"}
      /\ UNCHANGED <<version, ticking, window, up, speaks>>
  BY DEF HandleStatus, HandleNone, Receives, Placeholder, IsStatus, AsideFromPage, Behind, engine
<1>2. shown' \in shown .. version
  <2>1. /\ inbox \in Seq(Message) /\ Head(inbox) \in Message /\ Between(inbox, shown, version)
        /\ shown \in Nat /\ version \in Nat
    BY <1>1, TailFacts DEF FeedInv, Types, TypeOK, Queues, ViewTypeOK, EngineTypeOK, InOrder
  <2>2. shown <= Head(inbox).version /\ Head(inbox).version <= version
    BY <1>1, <2>1, TailMessage
  <2>3. Head(inbox).version \in Nat
    BY <1>1, <2>1, MessageFacts, Bounds
  <2> QED BY <1>1, <2>1, <2>2, <2>3
<1> QED BY <1>1, <1>2 DEF Page!Show

\* The page follows the daemon's status (StatusFeed): every step of the daemon's sessions, the
\* client and the window is one the page may take, so that it never goes back to a status older
\* than one it has shown.  That it comes to show the latest is left to the runs.
THEOREM PageStepsAreStatusFeeds == Spec => Page!Init /\ [][Page!Next]_(Page!vars)
<1>1. Init => Page!Init
  <2> SUFFICES ASSUME Init PROVE Page!Init
    OBVIOUS
  <2>1. ticking \in BOOLEAN /\ up \in BOOLEAN /\ page = "blank" /\ shown = 0 /\ version = 0
    BY DEF Init
  <2> QED BY <2>1 DEF Page!Init
<1>2. FeedInv /\ FeedInv' /\ [Next]_vars => [Page!Next]_(Page!vars)
  <2> SUFFICES ASSUME FeedInv, FeedInv', [Next]_vars PROVE Page!Next \/ UNCHANGED Page!vars
    OBVIOUS
  <2>1. CASE HandleStatus \/ HandleNone
    BY <2>1, SomethingIsShown DEF Page!Next
  <2>2. CASE HandleEnd \/ HandleJoinRequest \/ HandleRefresh \/ HandleUpdate
    <3>1. UNCHANGED <<version, shown>> /\ (page' = page \/ page' \notin {"status", "none"})
      BY <2>2 DEF HandleEnd, HandleJoinRequest, HandleRefresh, HandleUpdate, Placeholder, Fresh, AsideFromPage, Behind, engine
    <3> QED BY <3>1, NothingIsShown DEF Page!Next
  <2>3. CASE User
    <3>1. UNCHANGED <<version, shown>> /\ (page' = page \/ page' \notin {"status", "none"})
      BY <2>3 DEF User, OpenWindow, CloseWindow, TimedRefresh, Click, Fresh, AsideFromPage, Behind, engine
    <3> QED BY <3>1, NothingIsShown DEF Page!Next
  <2>4. CASE Network \/ Beat \/ Daemon \/ Request
    <3>1. version' \in {version, version + 1} /\ UNCHANGED <<shown, page>>
      BY <2>4 DEF Network, Move, Change, Drift, Ask, DecideElsewhere, Decided, Step, Beat, Daemon, DaemonStops,
                  DaemonStarts, Request, Decide, engine, Outside, view
    <3> QED BY <3>1, NothingIsShown DEF Page!Next
  <2>5. CASE Session \/ Client
    <3>1. UNCHANGED <<version, shown, page>>
      BY <2>5 DEF Session, Answer, Subscribe, Forward, Flush, Elsewhere, Client, Connect, Greeted, HangUp, Ends,
                  engine, view
    <3> QED BY <3>1, NothingIsShown DEF Page!Next
  <2>6. CASE UNCHANGED vars
    BY <2>6 DEF vars, engine, view, Page!vars
  <2> QED BY <2>1, <2>2, <2>3, <2>4, <2>5, <2>6 DEF Next, Handle
<1> QED BY <1>1, <1>2, FeedInvariance, PTL DEF Spec
=============================================================================
