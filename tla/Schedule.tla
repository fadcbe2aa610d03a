------------------------------ MODULE Schedule ------------------------------
(***************************************************************************)
(* The publication slots of scheduling/slots.py: calendar arithmetic on    *)
(* local times, of which one hour is skipped in spring and one comes twice *)
(* in autumn.  An instant is a number of time units, its wall clock shows  *)
(* Shift more between Forward and Back; a wall time that comes twice, or   *)
(* never, is resolved by the fold of the datetime, as zoneinfo does.       *)
(***************************************************************************)
EXTENDS Naturals, Sequences, FiniteSets, FiniteSetsExt

CONSTANTS
  DayLength,   \* time units of a day
  Shift,       \* of daylight saving time
  Forward,     \* the instant daylight saving time begins
  Back,        \* and ends
  Cadence,     \* cadence_days
  Horizon      \* bound: days

\* The last conjunct: the hour skipped in spring and the one after it are of one day,
\* as at 02:00 (01:00 UTC) in Europe, not the last of it.
ASSUME ScheduleAssumption ==
  /\ DayLength \in Nat /\ Horizon \in Nat \ {0}
  /\ Shift \in Nat /\ Shift < DayLength
  /\ Forward \in Nat /\ Back \in Nat /\ Forward + Shift < Back
  /\ Cadence \in Nat \ {0}
  /\ (Forward % DayLength) + 2 * Shift <= DayLength

VARIABLES
  hour,    \* publication_hour and publication_minute
  began,   \* the instant the schedule was set up
  now

slotVars == <<hour, began, now>>

SlotsInit ==
  /\ hour \in 0..(DayLength - 1)
  /\ began \in 0..(Horizon * DayLength)
  /\ now = began

TimePasses ==
  /\ now < Horizon * DayLength
  /\ now' = now + 1
  /\ UNCHANGED <<hour, began>>

SlotsSpec == SlotsInit /\ [][TimePasses]_slotVars

-----------------------------------------------------------------------------
(* zoneinfo.                                                               *)

Summer(instant) == Forward <= instant /\ instant < Back
Wall(instant) == IF Summer(instant) THEN instant + Shift ELSE instant
Fold(instant) == IF Back <= instant /\ instant < Back + Shift THEN 1 ELSE 0

Skipped(wall) == Forward <= wall /\ wall < Forward + Shift
Repeated(wall) == Back <= wall /\ wall < Back + Shift

Instant(wall, fold) ==
  CASE Skipped(wall) -> IF fold = 0 THEN wall ELSE wall - Shift
    [] Repeated(wall) -> IF fold = 0 THEN wall - Shift ELSE wall
    [] Forward + Shift <= wall /\ wall < Back -> wall - Shift
    [] OTHER -> wall

-----------------------------------------------------------------------------
\* Mutant: the days are counted in elapsed time.
NextSlotElapsed(slot) == slot + Cadence * DayLength

\* The same wall time Cadence days later; the fold goes with the time.
NextSlot(slot) == Instant(Wall(slot) + Cadence * DayLength, Fold(slot))

\* The two datetimes have one time zone: Python compares their wall times.
FirstSlotAtOrAfter(instant) ==
  LET today == (Wall(instant) \div DayLength) * DayLength + hour
  IN Instant(IF today < Wall(instant) THEN today + DayLength ELSE today, 0)

\* due_slots: the missed ones and then the latest, as one sequence.
DueSlots(next) ==
  LET Due[n \in Nat] ==
        IF n = 0 THEN <<next>>
        ELSE LET before == Due[n - 1]
                 candidate == NextSlot(before[Len(before)])
             IN IF candidate <= now /\ Len(before) = n THEN Append(before, candidate)
                ELSE before
  IN IF now < next THEN << >> ELSE Due[Horizon]

-----------------------------------------------------------------------------
\* The publication hour exists once on every day.
Regular == \A d \in 0..(2 * Horizon) : /\ ~Skipped(d * DayLength + hour)
                                       /\ ~Repeated(d * DayLength + hour)

\* The instants of the publication hour.
Published(d) == Instant(d * DayLength + hour, 0)

\* The slots are those of the calendar: the first is the first publication hour that
\* has not passed, and by now those of every Cadence-th day from then on are due,
\* across both changes of the clock.  Where the hour is skipped or repeated on some
\* day, the slots still fall on every Cadence-th day.
SlotsOfCalendar ==
  LET first == FirstSlotAtOrAfter(began)
      start == Wall(first) \div DayLength
      due == DueSlots(first)
  IN /\ \A i \in DOMAIN due : Wall(due[i]) \div DayLength = start + (i - 1) * Cadence
     /\ Regular =>
          /\ first = Min({Published(d) : d \in {d \in 0..(2 * Horizon) : Published(d) >= began}})
          /\ \A i \in DOMAIN due : due[i] = Published(start + (i - 1) * Cadence)
          /\ Len(due) = Cardinality({i \in 0..Horizon : Published(start + i * Cadence) <= now})
=============================================================================
