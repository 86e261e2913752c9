---------------------------- MODULE TrendBuckets ----------------------------
(***************************************************************************)
(* The buckets of the activity page's charts (buildBuckets of                *)
(* ActivityPage.tsx) and the dial that points at their hours (MoonDial).     *)
(* Time is counted in absolute hours; the browser's local time leaps by      *)
(* Leap hours at the hour LeapAt, as when daylight saving time begins (1) or *)
(* ends (-1).                                                                *)
(***************************************************************************)
EXTENDS Integers

CONSTANTS LeapHours,  \* hours at which the clocks may be changed
          Horizon,    \* bound: the last hour of the model
          ChartDays   \* days of the charts of days (7 and 30 in the code)

ASSUME ChartAssumption ==
  LeapHours \subseteq Int /\ Horizon \in Int /\ ChartDays \subseteq Nat \ {0}

VARIABLES clock,      \* now, an absolute hour
          leapAt, leap

trendVars == <<clock, leapAt, leap>>

\* getHours, getDate of an absolute hour: local hours since the epoch.
Local(t) == IF t < leapAt THEN t ELSE t + leap

\* setHours, setDate: the absolute hour of a local one.  A local hour that the
\* clocks skip is read with the old offset, one that they repeat is the first.
Absolute(l) ==
  IF l < leapAt THEN l ELSE IF l - leap >= leapAt THEN l - leap ELSE l

Day(l) == l \div 24
Midnight(l) == 24 * Day(l)

\* buildBuckets for "24h": where the window starts, the bucket of a request of
\* hour t, and the hour that bucket i is labelled (and drawn) with.
HourStart == Absolute(Local(clock) - 23)
HourIndex(t) == t - HourStart
HourLabel(i) == Local(Absolute(Local(HourStart) + i)) % 24

\* buildBuckets for n days.
DayStart(n) == Absolute(24 * (Day(Local(clock)) - (n - 1)))

\* Faulty variant: whole days since the start, without going to midnight first.
DayIndex_ByHours(n, t) == (t - DayStart(n)) \div 24

DayIndex(n, t) == (Absolute(Midnight(Local(t))) - DayStart(n)) \div 24
DayLabel(n, i) == Day(Local(Absolute(Local(DayStart(n)) + 24 * i)))

TrendInit ==
  /\ clock = 96
  /\ leapAt \in LeapHours
  /\ leap \in {-1, 0, 1}

\* An hour passes; the charts are computed anew with every load.
HourPasses ==
  /\ clock < Horizon
  /\ clock' = clock + 1
  /\ UNCHANGED <<leapAt, leap>>

TrendNext == HourPasses
TrendSpec == TrendInit /\ [][TrendNext]_trendVars

-----------------------------------------------------------------------------
(* Properties *)

\* Every request of the last 24 hours is counted in the bucket with its own local
\* hour (the dial's line for 14:00 is about 14:00), unless the clocks were changed
\* inside the window.
HoursAreTrue ==
  (leap = 0 \/ leapAt \notin HourStart..clock) =>
    \A t \in clock - 23 .. clock :
      /\ HourIndex(t) \in 0..23
      /\ HourLabel(HourIndex(t)) = Local(t) % 24

\* Every request of the last days is counted on its own local day, even when the
\* clocks went back; after they went forward, the days since are one bucket early.
DaysAreTrue ==
  \A n \in ChartDays :
    \A t \in DayStart(n) .. clock :
      /\ DayIndex(n, t) \in 0..(n - 1)
      /\ (leap < 1 \/ leapAt < DayStart(n) \/ Absolute(Midnight(Local(t))) < leapAt)
           => DayLabel(n, DayIndex(n, t)) = Day(Local(t))

\* Requests are counted in the hour and on the day they were made, on days of 23
\* and 25 hours too.
BucketsAreTrue ==
  /\ HoursAreTrue
  /\ DaysAreTrue

=============================================================================
