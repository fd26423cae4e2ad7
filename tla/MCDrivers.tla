------------------------------- MODULE MCDrivers -------------------------------
EXTENDS Drivers

Driver(type) ==
  [type |-> type, every |-> 1, offset |-> 0, divide |-> 1, interval |-> 3, cadence |-> "none"]

Lane(id, driver, modifiers, low, high, randomValue, attack, hold, release) ==
  [id |-> id, driver |-> driver, modifiers |-> modifiers, low |-> low, high |-> high,
   randomValue |-> randomValue,
   times |-> [attack |-> attack, hold |-> hold, release |-> release]]

Group(id, lanes, mode, static, isDefault) ==
  [id |-> id, lanes |-> lanes, mode |-> mode, static |-> static, isDefault |-> isDefault]

Jittered == [Driver("random") EXCEPT !.cadence = "downbeat"]
SecondHalf == [Driver("beat") EXCEPT !.every = 2, !.offset = 1]
Quarter == [Driver("beat") EXCEPT !.divide = 4]

(* The default group; a group whose one lane is edited from pulse to level and
   to another subdivision; one that randomises, and one that overrides.     *)
MCGroups ==
  [base  |-> Group("base", <<Lane("a", SecondHalf, <<>>, 1, 3, FALSE, 0, 0, 0)>>, "add", <<2>>, TRUE),
   level |-> Group("edit", <<Lane("b", Driver("energy"), <<>>, 0, 2, FALSE, 3, 1, 0)>>,
                   "strongest", <<>>, FALSE),
   pulse |-> Group("edit", <<Lane("b", Quarter, <<Driver("energy")>>, 0, 2, FALSE, 0, 3, 3)>>,
                   "common", <<>>, FALSE),
   roll  |-> Group("roll", <<Lane("c", Jittered, <<>>, 0, 3, TRUE, 3, 0, 3)>>, "unset", <<>>, FALSE),
   rare  |-> Group("rare", <<Lane("d", Driver("timer"), <<>>, 0, 1, TRUE, 0, 1, 3),
                             Lane("e", [Driver("timer") EXCEPT !.interval = 3], <<>>, 1, 3, FALSE, 0, 0, 3)>>,
                   "common", <<>>, FALSE),
   song  |-> Group("song", <<Lane("f", Driver("song"), <<>>, 1, 2, FALSE, 0, 0, 0)>>,
                   "override", <<1>>, FALSE)]

Levels == <<"base", "level">>
Pulses == <<"base", "pulse">>

MCIdLists == {Levels, Pulses, <<"roll">>, <<"rare">>, <<"base", "song">>, <<"gone">>}

MCEdits == {<<Levels, Pulses>>, <<Pulses, Levels>>, <<<<"gone">>, <<"base", "song">>>>}

(* The instance is one the drivers' theorems are about.                     *)
ASSUME InstanceAssumption == LanesOwned /\ LanesApart
===============================================================================
