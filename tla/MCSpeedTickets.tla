--------------------------- MODULE MCSpeedTickets ---------------------------
(* SpeedTickets on two roads.  Four hundred miles are too fast in any of   *)
(* the times below.  Eleven miles in 2640 seconds are exactly at the limit *)
(* of 15; f64 makes 11 / (2640 / 3600) a little more than 15.              *)
EXTENDS SpeedTickets

CONSTANTS A, B

OnRoad(road, miles) == {[road |-> road, mile |-> m, limit |-> 15] : m \in miles}

TwoRoads == OnRoad(A, {0, 11}) \union OnRoad(B, {0, 400})
OneRoad == OnRoad(A, {0, 11, 400})
Rounding == {<<11, 2640, 15>>}

FourTimes == {0, 2640, 86400, 89040}
=============================================================================
