------------------------- MODULE SpeedTicketsProofs -------------------------
(* Theorems about SpeedTickets, for all cars, cameras and times.           *)
(*                                                                         *)
(* An observation makes two turns of the same loop, so the invariant is    *)
(* stated of a sequence of tickets and a record of charged days, and one   *)
(* lemma shows that a turn keeps it.                                       *)
EXTENDS SpeedTickets, TLAPS

Charges == [Car -> SUBSET Nat]
Sightings == [Timestamp -> Mile \union {NotSeen}]

GoodTickets(tk) ==
  /\ tk \in Seq(Ticket)
  /\ \A i \in DOMAIN tk : tk[i].timestamp1 < tk[i].timestamp2

Apart(tk) ==
  \A i, j \in DOMAIN tk :
    i # j /\ tk[i].plate = tk[j].plate => DaysOn(tk[i]) \intersect DaysOn(tk[j]) = {}

(* The days charged are exactly those of the tickets. *)
Explained(tk, dc) ==
  /\ \A i \in DOMAIN tk : DaysOn(tk[i]) \subseteq dc[tk[i].plate]
  /\ \A car \in Car : \A d \in dc[car] :
       \E i \in DOMAIN tk : tk[i].plate = car /\ d \in DaysOn(tk[i])

Good(tk, dc) == GoodTickets(tk) /\ dc \in Charges /\ Apart(tk) /\ Explained(tk, dc)

LEMMA DaysType ==
  ASSUME NEW a \in Timestamp, NEW b \in Timestamp
  PROVE  DaysOf(<<a, b>>) \subseteq Nat
<1>1. a \in Nat /\ b \in Nat
  BY TimestampAssumption
<1>2. Day(a) \in Nat /\ Day(b) \in Nat
  BY <1>1 DEF Day
<1>. QED  BY <1>2 DEF DaysOf

(* A turn that tickets nothing. *)
LEMMA IdleTurn ==
  ASSUME NEW tk, NEW dc, Good(tk, dc), NEW car \in Car, NEW road, NEW h
  PROVE  Good(tk \o TicketsFor(car, road, h, {}), [dc EXCEPT ![car] = @ \union Charged({})])
<1>1. tk \o TicketsFor(car, road, h, {}) = tk
  BY DEF TicketsFor, Good, GoodTickets
<1>2. [dc EXCEPT ![car] = @ \union Charged({})] = dc
  BY DEF Charged, Good, Charges
<1>. QED  BY <1>1, <1>2

(* A turn that tickets the span from a to b. *)
LEMMA TicketTurn ==
  ASSUME NEW tk, NEW dc, Good(tk, dc), NEW car \in Car, NEW road \in Road,
         NEW h \in Sightings, NEW a \in Seen(h), NEW b \in Seen(h), a < b,
         DaysOf(<<a, b>>) \intersect dc[car] = {}
  PROVE  Good(tk \o TicketsFor(car, road, h, {<<a, b>>}),
              [dc EXCEPT ![car] = @ \union Charged({<<a, b>>})])
<1> DEFINE t == [plate |-> car, road |-> road, mile1 |-> h[a], timestamp1 |-> a,
                 mile2 |-> h[b], timestamp2 |-> b]
           days == DaysOf(<<a, b>>)
           tk2 == Append(tk, t)
           dc2 == [dc EXCEPT ![car] = @ \union days]
<1>1. TicketsFor(car, road, h, {<<a, b>>}) = <<t>>
  <2>1. (CHOOSE s \in {<<a, b>>} : TRUE) = <<a, b>>
    OBVIOUS
  <2>. QED  BY <2>1 DEF TicketsFor
<1>2. Charged({<<a, b>>}) = days
  BY DEF Charged
<1>3. tk \in Seq(Ticket) /\ dc \in Charges
  BY DEF Good, GoodTickets
<1>4. t \in Ticket /\ t.timestamp1 < t.timestamp2 /\ t.plate = car /\ DaysOn(t) = days
  <2>1. a \in Timestamp /\ b \in Timestamp /\ h[a] \in Mile /\ h[b] \in Mile
    BY DEF Seen, Sightings
  <2>. QED  BY <2>1 DEF Ticket, DaysOn
<1>5. days \subseteq Nat
  BY DaysType DEF Seen
<1> HIDE DEF t, days
<1>6. tk \o <<t>> = tk2
  BY <1>3, <1>4
<1>7. /\ tk2 \in Seq(Ticket) /\ Len(tk2) = Len(tk) + 1 /\ Len(tk) \in Nat
      /\ DOMAIN tk2 = 1..(Len(tk) + 1) /\ DOMAIN tk = 1..Len(tk)
      /\ tk2[Len(tk) + 1] = t
      /\ \A i \in 1..Len(tk) : tk2[i] = tk[i]
  BY <1>3, <1>4
<1>8. /\ dc2 \in Charges
      /\ dc2[car] = dc[car] \union days
      /\ \A c \in Car \ {car} : dc2[c] = dc[c]
  BY <1>3, <1>5 DEF Charges
<1>9. \A i \in 1..Len(tk) : tk[i].plate \in Car
  <2>1. \A i \in 1..Len(tk) : tk[i] \in Ticket
    BY <1>3
  <2>2. \A x \in Ticket : x.plate \in Car
    BY DEF Ticket
  <2>. QED  BY <2>1, <2>2
<1> HIDE DEF tk2, dc2
<1>10. GoodTickets(tk2)
  BY <1>4, <1>7 DEF Good, GoodTickets
<1>11. ASSUME NEW i \in 1..Len(tk), tk[i].plate = car
       PROVE  DaysOn(tk[i]) \intersect days = {}
  BY <1>7, <1>11 DEF Good, Explained, days
<1>12. Apart(tk2)
  <2> SUFFICES ASSUME NEW i \in DOMAIN tk2, NEW j \in DOMAIN tk2,
                      i # j, tk2[i].plate = tk2[j].plate
               PROVE  DaysOn(tk2[i]) \intersect DaysOn(tk2[j]) = {}
    BY DEF Apart
  <2>1. CASE i \in 1..Len(tk) /\ j \in 1..Len(tk)
    BY <1>7, <2>1 DEF Good, Apart
  <2>2. CASE i = Len(tk) + 1
    BY <1>4, <1>7, <1>11, <2>2
  <2>3. CASE j = Len(tk) + 1
    BY <1>4, <1>7, <1>11, <2>3
  <2>. QED  BY <1>7, <2>1, <2>2, <2>3
<1>13. Explained(tk2, dc2)
  <2>1. ASSUME NEW i \in DOMAIN tk2
        PROVE  DaysOn(tk2[i]) \subseteq dc2[tk2[i].plate]
    <3>1. CASE i = Len(tk) + 1
      BY <1>4, <1>7, <1>8, <3>1
    <3>2. CASE i \in 1..Len(tk)
      BY <1>7, <1>8, <1>9, <3>2 DEF Good, Explained
    <3>. QED  BY <1>7, <3>1, <3>2
  <2>2. ASSUME NEW c \in Car, NEW d \in dc2[c]
        PROVE  \E i \in DOMAIN tk2 : tk2[i].plate = c /\ d \in DaysOn(tk2[i])
    <3>1. CASE d \in dc[c]
      <4>1. PICK i \in DOMAIN tk : tk[i].plate = c /\ d \in DaysOn(tk[i])
        BY <3>1 DEF Good, Explained
      <4>. QED  BY <4>1, <1>7
    <3>2. CASE d \notin dc[c]
      <4>1. c = car /\ d \in days
        BY <1>8, <2>2, <3>2
      <4>2. Len(tk) + 1 \in DOMAIN tk2
        BY <1>7
      <4>. QED  BY <4>1, <4>2, <1>4, <1>7
    <3>. QED  BY <3>1, <3>2
  <2>. QED  BY <2>1, <2>2 DEF Explained
<1>14. Good(tk2, dc2)
  BY <1>8, <1>10, <1>12, <1>13 DEF Good
<1>. QED  BY <1>1, <1>2, <1>6, <1>14 DEF dc2

(* Either turn of an observation at ts. *)
LEMMA Turn ==
  ASSUME NEW tk, NEW dc, Good(tk, dc), NEW car \in Car, NEW road \in Road,
         NEW h \in Sightings, NEW ts \in Seen(h), NEW limit,
         NEW others \in SUBSET (Seen(h) \ {ts}),
         \A x, y \in others : x = y
  PROVE  LET spans == Ticketed(h, dc[car], limit, ts, others) IN
         Good(tk \o TicketsFor(car, road, h, spans), [dc EXCEPT ![car] = @ \union Charged(spans)])
<1> DEFINE spans == Ticketed(h, dc[car], limit, ts, others)
<1>1. CASE spans = {}
  BY <1>1, IdleTurn
<1>2. CASE spans # {}
  <2>1. PICK other \in others : Span(ts, other) \in spans
    BY <1>2 DEF Ticketed
  <2>2. spans = {Span(ts, other)}
    BY <2>1 DEF Ticketed
  <2>3. ts \in Nat /\ other \in Nat /\ other # ts
    BY TimestampAssumption DEF Seen
  <2>4. DaysOf(Span(ts, other)) \intersect dc[car] = {}
    BY <2>1 DEF Ticketed, Speeding
  <2>5. PICK a \in Seen(h), b \in Seen(h) : Span(ts, other) = <<a, b>> /\ a < b
    BY <2>3 DEF Span
  <2>6. Good(tk \o TicketsFor(car, road, h, {<<a, b>>}),
             [dc EXCEPT ![car] = @ \union Charged({<<a, b>>})])
    BY <2>4, <2>5, TicketTurn
  <2>. QED  BY <2>2, <2>5, <2>6
<1>. QED  BY <1>1, <1>2

IInv == Good(tickets, days_charged) /\ history \in [Car -> [Road -> Sightings]]

LEMMA InvInit == Init => IInv
<1> SUFFICES ASSUME Init PROVE IInv
  OBVIOUS
<1>1. history \in [Car -> [Road -> Sightings]]
  BY DEF Init, Sightings
<1>2. days_charged \in Charges /\ GoodTickets(tickets)
  BY DEF Init, Charges, GoodTickets
<1>3. Apart(tickets) /\ Explained(tickets, days_charged)
  BY DEF Init, Apart, Explained
<1>. QED  BY <1>1, <1>2, <1>3 DEF IInv, Good

LEMMA InvStep == IInv /\ [Next]_vars => IInv'
<1> SUFFICES ASSUME IInv, [Next]_vars PROVE IInv'
  OBVIOUS
<1>1. ASSUME NEW camera \in Camera, NEW car \in Car, NEW ts \in Timestamp,
             Observe(camera, car, ts)
      PROVE  IInv'
  <2> DEFINE road == camera.road
             h == [history[car][road] EXCEPT ![ts] = camera.mile]
             first == Ticketed(h, days_charged[car], camera.limit, ts, Previous(h, ts))
             days == days_charged[car] \union Charged(first)
             second == Ticketed(h, days, camera.limit, ts, Latest(h, ts))
             tk1 == tickets \o TicketsFor(car, road, h, first)
             dc1 == [days_charged EXCEPT ![car] = @ \union Charged(first)]
  <2>1. road \in Road /\ camera.mile \in Mile
    BY DEF Road, Mile
  <2>2. history[car][road] \in Sightings
    BY <2>1 DEF IInv
  <2>3. h \in Sightings
    BY <2>1, <2>2 DEF Sightings
  <2>4. ts \in Seen(h)
    <3>1. h[ts] = camera.mile
      BY <2>2 DEF Sightings
    <3>2. camera.mile \in Nat
      BY CameraAssumption
    <3>. QED  BY <3>1, <3>2 DEF Seen, NotSeen
  <2>5. days_charged \in Charges
    BY DEF IInv, Good
  <2> HIDE DEF h, road
  <2>6. Seen(h) \subseteq Nat
    BY TimestampAssumption DEF Seen
  <2>7. /\ Previous(h, ts) \in SUBSET (Seen(h) \ {ts})
        /\ \A x, y \in Previous(h, ts) : x = y
    BY <2>4, <2>6 DEF Previous
  <2>8. /\ Latest(h, ts) \in SUBSET (Seen(h) \ {ts})
        /\ \A x, y \in Latest(h, ts) : x = y
    BY <2>4, <2>6 DEF Latest
  <2>9. Good(tk1, dc1)
    BY <2>1, <2>3, <2>4, <2>7, Turn DEF IInv
  <2>10. dc1[car] = days
    BY <2>5 DEF Charges
  <2> HIDE DEF first, days, tk1, dc1
  <2>11. Good(tk1 \o TicketsFor(car, road, h, second), [dc1 EXCEPT ![car] = @ \union Charged(second)])
    BY <2>1, <2>3, <2>4, <2>8, <2>9, <2>10, Turn
  <2> HIDE DEF second
  <2>12. [dc1 EXCEPT ![car] = @ \union Charged(second)]
           = [days_charged EXCEPT ![car] = days \union Charged(second)]
    BY <2>5, <2>10 DEF dc1, Charges
  <2>13. /\ tickets' = tk1 \o TicketsFor(car, road, h, second)
         /\ days_charged' = [days_charged EXCEPT ![car] = days \union Charged(second)]
         /\ history' = [history EXCEPT ![car][road] = h]
    BY <1>1 DEF Observe, road, h, first, days, second, tk1
  <2>14. history' \in [Car -> [Road -> Sightings]]
    BY <2>1, <2>3, <2>13 DEF IInv
  <2>. QED  BY <2>11, <2>12, <2>13, <2>14 DEF IInv
<1>2. CASE UNCHANGED vars
  BY <1>2 DEF vars, IInv, Good, GoodTickets, Charges, Apart, Explained
<1>. QED  BY <1>1, <1>2 DEF Next

LEMMA InvCorrect == Spec => []IInv
BY InvInit, InvStep, PTL DEF Spec

(* Type correctness; in particular no ticket is for two observations of    *)
(* one instant, which new_entry asserts.                                   *)
THEOREM TypeCorrect == Spec => []TypeOK
<1>1. IInv => TypeOK
  BY DEF IInv, Good, GoodTickets, Charges, Sightings, TypeOK
<1>. QED  BY <1>1, InvCorrect, PTL

(* One ticket per car and day, however late the observations arrive.       *)
THEOREM OneTicketPerDay == Spec => []OnePerDay
<1>1. IInv => OnePerDay
  BY DEF IInv, Good, Apart, OnePerDay
<1>. QED  BY <1>1, InvCorrect, PTL

(* No day is charged without a ticket.                                     *)
THEOREM DaysAreTicketed == Spec => []DaysExplained
<1>1. IInv => DaysExplained
  <2> SUFFICES ASSUME IInv, NEW car \in Car
               PROVE  days_charged[car] =
                        UNION {DaysOn(tickets[i]) : i \in {k \in DOMAIN tickets : tickets[k].plate = car}}
    BY DEF DaysExplained
  <2>1. Explained(tickets, days_charged)
    BY DEF IInv, Good
  <2>. QED  BY <2>1 DEF Explained
<1>. QED  BY <1>1, InvCorrect, PTL

-----------------------------------------------------------------------------
(* A turn leaves no day of a speeding pair uncharged that could be.        *)
LEMMA TurnCovers ==
  ASSUME NEW h, NEW days, NEW limit, NEW ts, NEW others, NEW other \in others,
         NEW a \in Timestamp, NEW b \in Timestamp, a < b, Span(ts, other) = <<a, b>>,
         Exceeds(AbsDiff(h[a], h[b]), b - a, limit)
  PROVE  DaysOf(<<a, b>>) \intersect
           (days \union Charged(Ticketed(h, days, limit, ts, others))) # {}
<1> DEFINE spans == Ticketed(h, days, limit, ts, others)
<1>1. CASE DaysOf(<<a, b>>) \intersect days # {}
  BY <1>1
<1>2. CASE DaysOf(<<a, b>>) \intersect days = {}
  <2>1. <<a, b>> \in spans
    BY <1>2 DEF Ticketed, Speeding
  <2>2. DaysOf(<<a, b>>) \subseteq Charged(spans)
    BY <2>1 DEF Charged
  <2>3. Day(a) \in DaysOf(<<a, b>>)
    <3>1. a \in Nat /\ b \in Nat
      BY TimestampAssumption
    <3>2. Day(a) \in Nat /\ Day(b) \in Nat /\ Day(a) <= Day(b)
      BY <3>1 DEF Day
    <3>. QED  BY <3>2 DEF DaysOf
  <2>. QED  BY <2>2, <2>3
<1>. QED  BY <1>1, <1>2

LEMMA ObservationCovers ==
  ASSUME IInv, NEW camera \in Camera, NEW car \in Car, NEW ts \in Timestamp,
         Observe(camera, car, ts),
         \A t, u \in Seen(history[car][camera.road]) : t > ts /\ u > ts => t = u
  PROVE  Covered(camera, car, ts)'
<1> DEFINE road == camera.road
           h == [history[car][road] EXCEPT ![ts] = camera.mile]
           first == Ticketed(h, days_charged[car], camera.limit, ts, Previous(h, ts))
           days == days_charged[car] \union Charged(first)
           second == Ticketed(h, days, camera.limit, ts, Latest(h, ts))
<1>1. history' = [history EXCEPT ![car][road] = h]
      /\ days_charged' = [days_charged EXCEPT ![car] = days \union Charged(second)]
  BY DEF Observe
<1>2. road \in Road /\ history[car][road] \in Sightings
  BY DEF Road, IInv
<1>3. history'[car][road] = h /\ days_charged'[car] = days \union Charged(second)
  BY <1>1, <1>2 DEF IInv, Good, Charges
<1>4. \A t \in Seen(h) : t # ts => t \in Seen(history[car][road])
  BY <1>2 DEF Seen, Sightings
<1> HIDE DEF h, road
<1>5. SUFFICES ASSUME NEW a \in Timestamp, NEW b \in Timestamp,
                      ts \in {a, b}, Neighbours(h, a, b),
                      AbsDiff(h[a], h[b]) * 3600 > camera.limit * (b - a)
               PROVE  DaysOf(<<a, b>>) \intersect days_charged'[car] # {}
  <2>1. history'[car][camera.road] = h
    BY <1>3 DEF road
  <2>. QED  BY <2>1 DEF Covered
<1>6. /\ a < b /\ a \in Seen(h) /\ b \in Seen(h) /\ a \in Nat /\ b \in Nat
      /\ \A t \in Seen(h) : t \in Nat /\ (t <= a \/ b <= t)
  <2>1. \A t \in Seen(h) : t \in Nat
    BY TimestampAssumption DEF Seen
  <2>. QED  BY <1>5, <2>1 DEF Neighbours
<1>7. Exceeds(AbsDiff(h[a], h[b]), b - a, camera.limit)
  BY <1>5 DEF Exceeds
<1>8. CASE ts = b
  <2>1. a \in Previous(h, ts)
    <3>1. \A u \in Seen(h) : u < b => u <= a
      BY <1>6
    <3>. QED  BY <1>6, <1>8, <3>1 DEF Previous
  <2>2. Span(ts, a) = <<a, b>>
    BY <1>6, <1>8 DEF Span
  <2>3. DaysOf(<<a, b>>) \intersect days # {}
    BY <1>6, <1>7, <2>1, <2>2, TurnCovers
  <2>. QED  BY <1>3, <2>3
<1>9. CASE ts = a
  <2>1. b \in Latest(h, ts)
    <3>1. ASSUME NEW t \in Seen(h), t > b
          PROVE  FALSE
      <4>1. t > ts /\ b > ts /\ t # ts /\ b # ts /\ t # b
        BY <1>6, <1>9, <3>1
      <4>. QED  BY <1>4, <1>6, <4>1 DEF road
    <3>2. \A t \in Seen(h) : t <= b
      BY <1>6, <3>1
    <3>. QED  BY <1>6, <1>9, <3>2 DEF Latest
  <2>2. Span(ts, b) = <<a, b>>
    BY <1>6, <1>9 DEF Span
  <2> HIDE DEF days
  <2>3. DaysOf(<<a, b>>) \intersect (days \union Charged(second)) # {}
    BY <1>6, <1>7, <2>1, <2>2, TurnCovers
  <2>. QED  BY <1>3, <2>3
<1>. QED  BY <1>5, <1>8, <1>9

(* Unless two later observations of the road are there, an observation     *)
(* leaves no speeding pair with its neighbours without a ticket on a day   *)
(* of the pair: neither turn of the loop hides what the other one finds.   *)
THEOREM NeighboursCovered == Spec => NewPairsCovered
<1>1. IInv /\ [Next]_vars =>
        [\A camera \in Camera, car \in Car, ts \in Timestamp :
           /\ \A t, u \in Seen(history[car][camera.road]) : t > ts /\ u > ts => t = u
           /\ Observe(camera, car, ts)
           => Covered(camera, car, ts)']_vars
  BY ObservationCovers
<1>. QED  BY <1>1, InvCorrect, PTL DEF Spec, NewPairsCovered
=============================================================================
