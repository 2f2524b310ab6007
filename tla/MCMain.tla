-------------------------------- MODULE MCMain --------------------------------
(* Directories of up to two files with up to two entries about two services.  *)
(* A second has 4 "nanoseconds" and the largest number is 1023, so that the   *)
(* defaults of 100 s and 200 s fit and 300 s does not.                        *)
EXTENDS Main

CONSTANTS a, b, unknown

MCNames  == {a, b, unknown}
MCUnitNs == [us |-> 1, ms |-> 2, s |-> 4, min |-> 240]

FiveSeconds == [quantity |-> 5, unit |-> "s", spaced |-> FALSE]
Overflowing == [quantity |-> 300, unit |-> "s", spaced |-> FALSE]
Plain       == [quantity |-> 7, unit |-> "", spaced |-> FALSE]
Spaced      == [quantity |-> 5, unit |-> "s", spaced |-> TRUE]
NoNumber    == [quantity |-> 0 - 1, unit |-> "s", spaced |-> FALSE]
Zero        == [quantity |-> 0, unit |-> "s", spaced |-> FALSE]
Unknown     == [quantity |-> 5, unit |-> "?", spaced |-> FALSE]
TooLong     == [quantity |-> 1024, unit |-> "us", spaced |-> FALSE]

MCDurationTexts ==
  {FiveSeconds, Overflowing, Plain, Spaced, NoNumber, Zero, Unknown, TooLong}

MCIntValue == [minusOne |-> 0 - 1, zero |-> 0, one |-> 1]

Named(n) == [name |-> n, argv |-> <<"program">>]

\* What may be present, or malformed, beside the name and argv of a service.
Extras ==
  {[type |-> "basic"], [type |-> "notify"], [type |-> "forking"],
   [type |-> "notify", startTimeout |-> FiveSeconds],
   [startTimeout |-> FiveSeconds], [startTimeout |-> Spaced]}
  \cup {[stopTimeout |-> t] : t \in MCDurationTexts}
  \cup {[heartbeat |-> [interval |-> t, failureThreshold |-> "one"]] :
          t \in {FiveSeconds, Overflowing, Zero}}
  \cup {[heartbeat |-> [interval |-> FiveSeconds, failureThreshold |-> x]] :
          x \in {"minusOne", "zero", "many"}}
  \cup {[heartbeat |-> [interval |-> FiveSeconds]]}
  \cup {[addEnv |-> <<{"name", "value"}>>], [addEnv |-> <<{"name"}>>],
        [failAction |-> "reboot_container", standOut |-> "stand", standErr |-> "syslog"]}
  \cup {[startAfter |-> l] : l \in {<<a>>, <<b>>, <<b, b>>, <<unknown>>, <<b, unknown>>}}

Trees(n) == {Named(n)} \cup {Named(n) @@ x : x \in Extras}
Broken   == {[name |-> a], [argv |-> <<"program">>], [name |-> a, argv |-> << >>]}

ServiceEntries == {[key |-> "processService", tree |-> t] : t \in Trees(a) \cup Trees(b) \cup Broken}
OtherEntries   == {[key |-> "logger", tree |-> [logLevel |-> "one"]],
                   [key |-> "logger", tree |-> [deviceName |-> "/dev/log"]],
                   [key |-> "comment", tree |-> [logLevel |-> "one"]]}

Json(l) == [json |-> TRUE, readable |-> TRUE, entries |-> l]

MCDirectories ==
  {<<Json(<<e>>), Json(<<f>>)>> : e \in ServiceEntries, f \in ServiceEntries}
    \cup {<<Json(<<e, f>>)>> : e \in ServiceEntries, f \in OtherEntries}
    \cup {<<Json(<<f>>), Json(<<e>>), x>> : e \in {[key |-> "processService", tree |-> Named(a)]},
            f \in OtherEntries,
            x \in {[json |-> FALSE, readable |-> TRUE, entries |-> << >>],
                   [json |-> TRUE, readable |-> FALSE, entries |-> << >>]}}
    \cup {<< >>}
=============================================================================
