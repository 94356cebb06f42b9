--------------------------- MODULE MCGuessIface ---------------------------
(* GuessIface for TLC: interfaces of every number of points, one more for *)
(* those in Wlan.                                                        *)
EXTENDS GuessIface

Up == [present |-> TRUE, address |-> TRUE, up |-> TRUE,
       broadcast |-> TRUE, loopback |-> FALSE, private |-> FALSE]

Loopback == [Up EXCEPT !.broadcast = FALSE, !.loopback = TRUE]

MCKinds ==
    { Up,                              \* 2 points
      [Up EXCEPT !.private = TRUE],    \* 3
      [Up EXCEPT !.up = FALSE],        \* 1
      Loopback,                        \* 0
      [Loopback EXCEPT !.up = FALSE],  \* -1
      [Up EXCEPT !.address = FALSE],
      [Up EXCEPT !.present = FALSE, !.address = FALSE] }
=============================================================================
