------------------------------- MODULE Schedule ------------------------------
(***************************************************************************)
(* When a scheduled rule is due: Schedule and Alarm of                     *)
(* crates/automation/src/rules/schedule.rs, and the thread that looks at   *)
(* the clock for it (alarm of rules/mod.rs).                               *)
(*                                                                         *)
(* The wall clock counts ticks from the start of a week; the machine may   *)
(* sleep, and the clock may be set back.                                   *)
(***************************************************************************)
EXTENDS Integers, FiniteSets, FiniteSetsExt

CONSTANTS
  Week,      \* days in a week
  DayTicks,  \* ticks in a day
  TimeLists, \* the sets of times of day a schedule may name
  DayLists,  \* the sets of days it may name
  Grace,     \* GRACE
  End,       \* bound: the clock's last tick
  Asleep,    \* bound: ticks slept at a time
  MaxBack    \* bound: times the clock is set back

ASSUME ScheduleAssumption ==
  /\ {Week, DayTicks} \subseteq Nat \ {0} /\ {Grace, End, Asleep, MaxBack} \subseteq Nat
  /\ DayTicks <= End + 1
  /\ \A times \in TimeLists : times # {} /\ times \subseteq 0 .. DayTicks - 1
  /\ \A days \in DayLists : days # {} /\ days \subseteq 0 .. Week - 1

VARIABLES
  times,   \* Schedule.times
  days,    \* Schedule.days
  clock,   \* the wall clock
  next,    \* Alarm.next
  rung,    \* history: the moments the alarm rang for
  steady,  \* history: since when the clock has neither slept nor gone back
  back     \* bound counter

scheduleVars == <<times, days, clock, next, rung, steady, back>>

ScheduleTypeOK ==
  /\ times \in TimeLists /\ days \in DayLists
  /\ clock \in 0 .. End /\ next \in Int /\ rung \subseteq 0 .. End
  /\ steady \in 0 .. End /\ back \in 0 .. MaxBack

-----------------------------------------------------------------------------
Names(t) == t % DayTicks \in times /\ (t \div DayTicks) % Week \in days

(* next_after: day by day for a week, the first time of that day still     *)
(* ahead.                                                                  *)
Later(day, now) == {day * DayTicks + at : at \in {a \in times : day * DayTicks + a > now}}

(* A plausible slip: a day that has begun is past.                         *)
NextDay(now) ==
  LET today == now \div DayTicks
      ahead == {k \in 1 .. Week : (today + k) % Week \in days}
  IN  Min(Later(today + Min(ahead), now))

NextAfter(now) ==
  LET today == now \div DayTicks
      ahead == {k \in 0 .. Week : (today + k) % Week \in days /\ Later(today + k, now) # {}}
  IN  Min(Later(today + Min(ahead), now))

ScheduleInit ==
  /\ times \in TimeLists /\ days \in DayLists
  /\ clock \in 0 .. DayTicks - 1
  /\ next = NextAfter(clock)
  /\ rung = {} /\ steady = clock /\ back = 0

-----------------------------------------------------------------------------
(* Alarm::ring, at a look at the clock: once for a time reached, and not   *)
(* at all for one passed by more than the grace.                           *)
Rings(now) == now >= next /\ now - next <= Grace

Look(now) ==
  /\ clock' = now
  /\ next' = IF now >= next THEN NextAfter(now) ELSE next
  /\ rung' = IF Rings(now) THEN rung \cup {next} ELSE rung

Awake ==
  /\ clock < End
  /\ Look(clock + 1)
  /\ UNCHANGED <<times, days, steady, back>>

(* The machine sleeps between two looks.                                   *)
Sleeps ==
  /\ \E asleep \in 2 .. Asleep :
       clock + asleep <= End /\ Look(clock + asleep)
  /\ steady' = clock'
  /\ UNCHANGED <<times, days, back>>

(* Somebody sets the clock back.                                           *)
SetBack ==
  /\ back < MaxBack /\ back' = back + 1
  /\ \E now \in 0 .. clock - 1 : Look(now)
  /\ steady' = clock'
  /\ UNCHANGED <<times, days>>

ScheduleNext == Awake \/ Sleeps \/ SetBack

ScheduleSpec == ScheduleInit /\ [][ScheduleNext]_scheduleVars

-----------------------------------------------------------------------------
(* The alarm waits for the first moment after a look, of all there are.    *)
WaitsForTheFirst ==
  /\ Names(next) /\ next > clock
  /\ back = 0 => \A t \in clock + 1 .. next - 1 : ~Names(t)

(* A time rings once, though the clock comes by it again.                  *)
RingsOnce == [][\A t \in rung : next' # next => next' > t]_scheduleVars

(* While the clock is looked at every tick, no time it names is missed,    *)
(* and what rings is a time the schedule names.                            *)
NoneMissed ==
  /\ \A t \in rung : Names(t)
  /\ back = 0 => \A t \in steady + 1 .. clock : Names(t) => t \in rung

(* A time slept through by more than the grace is skipped, not run late.   *)
SkippedNotLate == [][\A t \in rung' \ rung : t <= clock' /\ clock' - t <= Grace]_scheduleVars

(* A time noticed within the grace rings, the machine having slept or not. *)
(* It does not hold: of two times slept through, the first is judged.      *)
GraceIsHonoured ==
  [][\A t \in clock + 1 .. clock' : Names(t) /\ clock' - t <= Grace => t \in rung']_scheduleVars

(* Every time the schedule names rings once, in time, or was slept through.*)
RingsInTime == [](WaitsForTheFirst /\ NoneMissed) /\ RingsOnce /\ SkippedNotLate
=============================================================================
