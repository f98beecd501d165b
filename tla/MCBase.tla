-------------------------------- MODULE MCBase --------------------------------
(* Instances of the parts of the muduo library that no thread shares: the     *)
(* calendar, logging and the two Pollers.                                     *)
EXTENDS Calendar, LogFile, Pollers

LocalType(off, dst) == [gmtOffset |-> off, isDst |-> dst]
\* Fixed, two years of summer time east and west, and a change of the offset
\* forward, and back without summer time.
MCZones ==
    LET std == LocalType(3600, FALSE)
        dst == LocalType(7200, TRUE)
        west == LocalType(-18000, FALSE)
        summer == LocalType(-14400, TRUE)
        year == <<[at |-> 200000, type |-> 2], [at |-> 400000, type |-> 1],
                  [at |-> 600000, type |-> 2], [at |-> 800000, type |-> 1]>>
    IN  <<[types |-> <<LocalType(28800, FALSE)>>, trans |-> <<>>],
          [types |-> <<std, dst>>, trans |-> year],
          [types |-> <<west, summer>>, trans |-> year],
          [types |-> <<std, LocalType(5400, FALSE)>>, trans |-> <<[at |-> 200000, type |-> 2]>>],
          [types |-> <<LocalType(14400, FALSE), LocalType(10800, FALSE)>>,
           trans |-> <<[at |-> 200000, type |-> 2]>>]>>
MCInstants ==
    {t + h * 3600 + d : t \in {200000, 400000, 600000, 800000}, h \in -9 .. 9, d \in {-1, 0, 1, 1800}}
    \cup {0, -1, -90000}

\* The edges of a signed byte and of its numbers of digits.
MCNumbers == {-128, -127, -101, -100, -99, -11, -10, -9, -1, 0, 1, 9, 10, 11, 99, 100, 120, 127}

-----------------------------------------------------------------------------
CalIdle == instant = NoInstant /\ day.walked = 0 /\ day.ymd.year = 1970

\* The parts side by side, one of them at a time.
Init == CalInit /\ LogInit /\ PollInit
Next ==
    \/ LogInit /\ PollInit /\ CalNext /\ UNCHANGED <<logVars, pollerVars>>
    \/ CalIdle /\ PollInit /\ LogNext /\ UNCHANGED <<calVars, pollerVars>>
    \/ CalIdle /\ LogInit /\ PollNext /\ UNCHANGED <<calVars, logVars>>
=============================================================================
