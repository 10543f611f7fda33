----------------------------- MODULE Stopwatch -----------------------------
(***************************************************************************)
(* The Stopwatch class. Its clock is std::chrono::high_resolution_clock,   *)
(* which need not be steady: where it is the system clock, it may be set   *)
(* forwards or back while a watch runs.                                    *)
(***************************************************************************)
EXTENDS Integers

CONSTANTS MaxClock,  \* bound of the clock and of the time measured
          MaxSets    \* bound of the adjustments of the clock while a watch runs

VARIABLES
    clock,    \* Clock::now()
    running,  \* running_
    started,  \* start_time_
    sofar,    \* accumulated_duration_
    active,   \* history: the time since the last reset at which it was running
    adjusted  \* history: how often the clock was set while it ran since then

stopwatchVars == <<clock, running, started, sofar, active, adjusted>>

(* The constructor starts the watch.                                        *)
StopwatchInit == /\ clock = 0 /\ running = TRUE /\ started = 0 /\ sofar = 0
                 /\ active = 0 /\ adjusted = 0

\* Variant: a second start() begins anew.
StartAgain == /\ started' = clock /\ running' = TRUE
              /\ UNCHANGED <<clock, sofar, active, adjusted>>

(* start(): nothing when it is running.                                     *)
StartWatch == /\ ~running
              /\ started' = clock /\ running' = TRUE
              /\ UNCHANGED <<clock, sofar, active, adjusted>>

(* stop(): nothing when it is not running.                                  *)
StopWatch == /\ running
             /\ sofar' = sofar + (clock - started) /\ running' = FALSE
             /\ UNCHANGED <<clock, started, active, adjusted>>

(* reset() also stops it.                                                   *)
ResetWatch == /\ running' = FALSE /\ sofar' = 0 /\ active' = 0 /\ adjusted' = 0
              /\ UNCHANGED <<clock, started>>

(* Time passes.                                                             *)
ClockTick == /\ clock < MaxClock /\ active < MaxClock
             /\ clock' = clock + 1
             /\ active' = IF running THEN active + 1 ELSE active
             /\ UNCHANGED <<running, started, sofar, adjusted>>

(* The clock is set, and no time passes.                                    *)
ClockSet(now) == /\ running => adjusted < MaxSets
                 /\ clock' = now
                 /\ adjusted' = IF running THEN adjusted + 1 ELSE adjusted
                 /\ UNCHANGED <<running, started, sofar, active>>

StopwatchNext == \/ StartWatch \/ StopWatch \/ ResetWatch \/ ClockTick
                 \/ \E now \in 0..MaxClock : ClockSet(now)

StopwatchSpec == StopwatchInit /\ [][StopwatchNext]_stopwatchVars

(* elapsed_ns(), on which elapsed_us() and elapsed_ms() rest. It converts   *)
(* to an unsigned number, which matters after the clock was set back only.  *)
Elapsed == IF running THEN sofar + (clock - started) ELSE sofar

(* elapsed_ns() is the time during which the watch has been running since   *)
(* the last reset(), whatever calls of start() and stop() were repeated and *)
(* however the clock was set while the watch was stopped. Setting it while  *)
(* the watch runs falsifies the measurement until the next reset().         *)
ElapsedExact == adjusted = 0 => Elapsed = active

(* The inductive invariant.                                                 *)
StopwatchInv == /\ clock \in Int /\ running \in BOOLEAN /\ started \in Int
                /\ sofar \in Int /\ active \in Nat /\ adjusted \in Nat
                /\ ElapsedExact
=============================================================================
