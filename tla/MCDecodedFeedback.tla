-------------------------- MODULE MCDecodedFeedback --------------------------
(***************************************************************************)
(* Small configurations for model-checking the decoder.                    *)
(***************************************************************************)
EXTENDS DecodedFeedbackProperties

Stable(input, level, hold) ==
  [kind |-> "StableLevel", input |-> input, level |-> level, hold |-> hold]

Periodic(input, min, max, edges, window, gap) ==
  [kind |-> "PeriodicEdges", input |-> input, min |-> min, max |-> max,
   edges |-> edges, window |-> window, gap |-> gap]

Rule(id, kind, value, groups) ==
  [id |-> id, enabled |-> TRUE, kind |-> kind, value |-> value, groups |-> groups,
   entry |-> 0, loss |-> 0, age |-> 0, expiry |-> "None"]

Lasting(rule, entry, loss, age, expiry) ==
  [rule EXCEPT !.entry = entry, !.loss = loss, !.age = age, !.expiry = expiry]

\* A lamp: on at the opened end, off at the closed end, flashing in between.
Lamp ==
  [inputs |-> <<"lamp">>,
   rules  |-> << Rule(1, "Position", "Opened", << <<Stable("lamp", TRUE, 3)>> >>),
                 Rule(2, "Position", "Closed", << <<Stable("lamp", FALSE, 2)>> >>),
                 Lasting(Rule(3, "Movement", "Opening",
                              << <<Periodic("lamp", 1, 2, 2, 2, 2)>> >>),
                         1, 1, 3, "UnknownAndObstructed") >>]

\* A motor relay whose two levels are two movements, without confirmations.
Motor ==
  [inputs |-> <<"motor">>,
   rules  |-> << Lasting(Rule(1, "Movement", "Closing", << <<Stable("motor", TRUE, 1)>> >>),
                         0, 2, 3, "Obstructed"),
                 Lasting(Rule(2, "Movement", "Opening",
                              << <<Stable("motor", FALSE, 1)>>, <<Periodic("motor", 1, 1, 3, 3, 2)>> >>),
                         1, 0, 0, "None") >>]

\* Two end switches and a fault when both are off for long.
Switches ==
  [inputs |-> <<"opened", "closed">>,
   rules  |-> << Rule(1, "Position", "Opened", << <<Stable("opened", TRUE, 1)>> >>),
                 Rule(2, "Position", "Closed", << <<Stable("closed", TRUE, 1)>> >>),
                 Rule(3, "Fault", "Obstructed",
                      << <<Stable("opened", FALSE, 2), Stable("closed", FALSE, 2)>> >>) >>]

\* Refused: the longest history cannot show enough edges.
Refused == [Lamp EXCEPT !.rules[3].groups[1][1].edges = EdgeCapacity + 1]

ModelConfigs == {Lamp, Motor, Switches, Refused}

ModelHorizon == [c \in ModelConfigs |-> CASE c = Switches -> 5 [] c = Lamp -> 9 [] OTHER -> 8]
=============================================================================
