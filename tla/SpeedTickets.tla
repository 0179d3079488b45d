---------------------------- MODULE SpeedTickets ----------------------------
(***************************************************************************)
(* Problem 6, the speed limit server (src/src/p6_speed.rs): what it keeps  *)
(* of every car, and which tickets an observation produces.                *)
(*                                                                         *)
(* A Plate message is handled with the state locked, so RunningCar's       *)
(* new_entry is one action.  Tickets are kept here in one sequence, in the *)
(* order in which they were created; TicketDispatch says what happens to   *)
(* them.  The speed a ticket shows is left out.                            *)
(***************************************************************************)
EXTENDS Integers, Sequences

CONSTANTS
  Car,        \* plates
  Camera,     \* cameras: records of a road, a mile and the limit they declared
  Timestamp,  \* when cars are seen, in seconds
  RoundsUp    \* <<miles, seconds, limit>> exactly at the limit that f64 puts above

ASSUME CameraAssumption ==
  \A c \in Camera : c.mile \in Nat /\ c.limit \in Nat
ASSUME TimestampAssumption == Timestamp \subseteq Nat
ASSUME RoundsUpAssumption ==
  \A x \in RoundsUp : x[1] * 3600 = x[3] * x[2]

VARIABLES
  history,       \* RunningCar.history, per car and road
  days_charged,  \* RunningCar.days_charged, per car
  tickets        \* every ticket ever created

vars == <<history, days_charged, tickets>>

Road == {c.road : c \in Camera}
Mile == {c.mile : c \in Camera}

NotSeen == -1

Day(t) == t \div (3600 * 24)

(* The days from the first observation to the second, both included. *)
DaysOf(span) == Day(span[1])..Day(span[2])
DaysOn(ticket) == DaysOf(<<ticket.timestamp1, ticket.timestamp2>>)

Ticket == [plate : Car, road : Road, mile1 : Mile, timestamp1 : Timestamp,
           mile2 : Mile, timestamp2 : Timestamp]

TypeOK ==
  /\ history \in [Car -> [Road -> [Timestamp -> Mile \union {NotSeen}]]]
  /\ days_charged \in [Car -> SUBSET Nat]
  /\ tickets \in Seq(Ticket)
  /\ \A i \in DOMAIN tickets : tickets[i].timestamp1 < tickets[i].timestamp2

Init ==
  /\ history = [car \in Car |-> [road \in Road |-> [t \in Timestamp |-> NotSeen]]]
  /\ days_charged = [car \in Car |-> {}]
  /\ tickets = << >>

-----------------------------------------------------------------------------
Seen(h) == {t \in Timestamp : h[t] # NotSeen}

(* range(..ts).next_back(), as a set with at most one member. *)
Previous(h, ts) == {t \in Seen(h) : t < ts /\ \A u \in Seen(h) : u < ts => u <= t}

(* range((Excluded(ts), Unbounded)).next_back(): the latest observation of *)
(* all, not the next one.                                                  *)
Latest(h, ts) == {t \in Seen(h) : t > ts /\ \A u \in Seen(h) : u <= t}

Span(ts, other) == IF ts > other THEN <<other, ts>> ELSE <<ts, other>>

AbsDiff(a, b) == IF a < b THEN b - a ELSE a - b

(* avg_speed > road_limit, in f64.  The two divisions round, and exactly   *)
(* at the limit the result may land above it.                              *)
Exceeds(miles, seconds, limit) ==
  \/ miles * 3600 > limit * seconds
  \/ <<miles, seconds, limit>> \in RoundsUp

(* Mutant: only the first day is looked up. *)
SpeedingFirstDay(h, days, limit, span) ==
  /\ Day(span[1]) \notin days
  /\ Exceeds(AbsDiff(h[span[1]], h[span[2]]), span[2] - span[1], limit)

(* One turn of the loop: none of the days is charged yet, and the average  *)
(* speed between the two observations is above the limit.                  *)
Speeding(h, days, limit, span) ==
  /\ DaysOf(span) \intersect days = {}
  /\ Exceeds(AbsDiff(h[span[1]], h[span[2]]), span[2] - span[1], limit)

(* The spans ticketed in the turn that compares ts with others (at most    *)
(* one), the days they charge and the tickets themselves.                  *)
Ticketed(h, days, limit, ts, others) ==
  {span \in {Span(ts, other) : other \in others} : Speeding(h, days, limit, span)}

Charged(spans) == UNION {DaysOf(span) : span \in spans}

TicketsFor(car, road, h, spans) ==
  IF spans = {} THEN << >>
  ELSE LET span == CHOOSE s \in spans : TRUE IN
       <<[plate |-> car, road |-> road,
          mile1 |-> h[span[1]], timestamp1 |-> span[1],
          mile2 |-> h[span[2]], timestamp2 |-> span[2]]>>

(* Mutant: a ticketed day ends the loop. *)
ObserveBreak(camera, car, ts) ==
  LET road == camera.road
      h == [history[car][road] EXCEPT ![ts] = camera.mile]
      blocked == \E t \in Previous(h, ts) :
                   DaysOf(Span(ts, t)) \intersect days_charged[car] # {}
      first == Ticketed(h, days_charged[car], camera.limit, ts, Previous(h, ts))
      days == days_charged[car] \union Charged(first)
      second == IF blocked THEN {} ELSE Ticketed(h, days, camera.limit, ts, Latest(h, ts))
  IN
  /\ history' = [history EXCEPT ![car][road] = h]
  /\ days_charged' = [days_charged EXCEPT ![car] = days \union Charged(second)]
  /\ tickets' = tickets \o TicketsFor(car, road, h, first) \o TicketsFor(car, road, h, second)

(* Mutant: the days are charged before the speed is compared. *)
ObserveChargesFirst(camera, car, ts) ==
  LET road == camera.road
      h == [history[car][road] EXCEPT ![ts] = camera.mile]
      first == Ticketed(h, days_charged[car], camera.limit, ts, Previous(h, ts))
      days == days_charged[car] \union Charged({Span(ts, t) : t \in Previous(h, ts)})
      second == Ticketed(h, days, camera.limit, ts, Latest(h, ts))
  IN
  /\ history' = [history EXCEPT ![car][road] = h]
  /\ days_charged' = [days_charged EXCEPT ![car] = days \union Charged(second)]
  /\ tickets' = tickets \o TicketsFor(car, road, h, first) \o TicketsFor(car, road, h, second)

(* A camera reports a car: State::new_entry and RunningCar::new_entry.  An *)
(* earlier report for the same second is overwritten.                      *)
Observe(camera, car, ts) ==
  LET road == camera.road
      h == [history[car][road] EXCEPT ![ts] = camera.mile]
      first == Ticketed(h, days_charged[car], camera.limit, ts, Previous(h, ts))
      days == days_charged[car] \union Charged(first)
      second == Ticketed(h, days, camera.limit, ts, Latest(h, ts))
  IN
  /\ history' = [history EXCEPT ![car][road] = h]
  /\ days_charged' = [days_charged EXCEPT ![car] = days \union Charged(second)]
  /\ tickets' = tickets \o TicketsFor(car, road, h, first) \o TicketsFor(car, road, h, second)

Next == \E camera \in Camera, car \in Car, ts \in Timestamp : Observe(camera, car, ts)

Spec == Init /\ [][Next]_vars

-----------------------------------------------------------------------------
(* No car has two tickets that share a day, whatever the roads, and        *)
(* however late observations arrive.                                       *)
OnePerDay ==
  \A i, j \in DOMAIN tickets :
    i # j /\ tickets[i].plate = tickets[j].plate
      => DaysOn(tickets[i]) \intersect DaysOn(tickets[j]) = {}

(* A day is charged only together with a ticket that covers it, so that no *)
(* day is used up without one.                                             *)
DaysExplained ==
  \A car \in Car :
    days_charged[car] = UNION {DaysOn(tickets[i]) : i \in {k \in DOMAIN tickets : tickets[k].plate = car}}

(* Of the neighbours on the road at which the car was too fast, those that *)
(* ts is one of share a day with a ticket.                                 *)
Neighbours(h, a, b) ==
  a < b /\ {a, b} \subseteq Seen(h) /\ \A t \in Seen(h) : t <= a \/ b <= t

Covered(camera, car, ts) ==
  LET h == history[car][camera.road] IN
  \A a, b \in Timestamp :
    /\ ts \in {a, b} /\ Neighbours(h, a, b)
    /\ AbsDiff(h[a], h[b]) * 3600 > camera.limit * (b - a)
    => DaysOf(<<a, b>>) \intersect days_charged[car] # {}

(* An observation that at most one later observation of the road awaits    *)
(* leaves no speeding pair next to it without a ticket on one of its days. *)
NewPairsCovered ==
  [][\A camera \in Camera, car \in Car, ts \in Timestamp :
       /\ \A t, u \in Seen(history[car][camera.road]) : t > ts /\ u > ts => t = u
       /\ Observe(camera, car, ts)
       => Covered(camera, car, ts)']_vars

(* What the comment in new_entry says, "See immediate previous `ts`, and   *)
(* immediate next `ts`": the same for every observation.  The code compares*)
(* with the latest observation instead of the next.                        *)
AllPairsCovered ==
  [][\A camera \in Camera, car \in Car, ts \in Timestamp :
       Observe(camera, car, ts) => Covered(camera, car, ts)']_vars
=============================================================================
