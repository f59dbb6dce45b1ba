------------------------------ MODULE MCOnCall ------------------------------
EXTENDS OnCall, TLC

CONSTANTS u1, u2

Always == [type |-> "always", windows |-> <<>>]
Weekdays == [type |-> "weekdays", windows |-> <<>>]
Weekends == [type |-> "weekends", windows |-> <<>>]
Custom(windows) == [type |-> "custom", windows |-> windows]

Shift(startDay, startTime, endDay, endTime) ==
  [startDay |-> startDay, startTime |-> startTime, endDay |-> endDay, endTime |-> endTime]

Layer(order, restriction, users) ==
  [order |-> order, restriction |-> restriction, members |-> users]

(* A daily rotation: a window across Sunday midnight goes first although   *)
(* it is listed third, an empty layer is passed over, a layer without an   *)
(* order fills what is left.                                               *)
Nights ==
  [type |-> "layered", start |-> 3, interval |-> 2,
   layers |-> <<Layer(0, Weekends, <<u2>>),
                Layer(2, Weekdays, <<u1, u2>>),
                Layer(1, Custom(<<Shift("friday", 1, "monday", 1)>>), <<u2, u1, u1>>),
                Layer(1, Always, <<>>)>>]

(* No valid start, the default interval, no orders, an unknown day, 24:00  *)
(* and a window that is empty.                                             *)
Loose ==
  [type |-> "layered", start |-> NoStart, interval |-> 0,
   layers |-> <<Layer(-1, Custom(<<Shift("someday", 1, "wednesday", 2),
                                   Shift("sunday", 1, "sunday", 1),
                                   Shift("sunday", 2, "monday", 1)>>), <<u1, u2>>),
                Layer(0, Custom(<<Shift("saturday", 1, "sunday", 2)>>), <<u2>>)>>]

Empty == [type |-> "layered", start |-> 0, interval |-> 14, layers |-> <<>>]

Weekly ==
  [type |-> "weekly",
   rotation |-> <<[day |-> "monday", user |-> u1], [day |-> "tuesday", user |-> u2],
                  [day |-> "monday", user |-> u2], [day |-> "sunday", user |-> u1]>>]

AllConfigs == {Nights, Loose, Empty, Weekly}

Settings == {[config |-> Nights, enabled |-> TRUE], [config |-> Weekly, enabled |-> FALSE]}

(* Overlapping, with different noons; the last is refused. *)
Spans == {<<1, 4>>, <<3, 6>>, <<4, 4>>}

Policies ==
  {<<[schedule |-> 1, user |-> NoUser], [schedule |-> 0, user |-> u1]>>}

Symmetry == Permutations(Request)
=============================================================================
