------------------------------ MODULE TimeScale ------------------------------
(***************************************************************************)
(* The gameplay clock of source/reimpl/sys.c (41-89): process time         *)
(* multiplied by the chosen speed.  Every operation samples the process    *)
(* time first and takes time_scale_mutex after, so samples may be used in  *)
(* another order than they were taken.                                     *)
(***************************************************************************)
EXTENDS Integers

CONSTANTS
  Threads,  \* that read the clock; the main thread also changes the speed
  Main,
  Word,     \* arithmetic is modulo this (2^64)
  MaxReal,  \* bound: the last process time explored
  None

Speeds == {1, 2, 4, 8, 16}

\* The next speed poll_pad asks for (controls.c:168-171).
Faster(speed) == IF speed = 16 THEN 1 ELSE 2 * speed

ClockAssumption ==
  /\ Main \in Threads /\ None \notin Nat
  /\ MaxReal \in Nat \ {0} /\ Word \in Nat \ {0}

VARIABLES
  process,   \* the process time
  baseReal, baseScaled, scale, \* time_base_real, time_base_scaled, time_scale
  sample,    \* sample[t]: the local `real` of an operation in progress
  request,   \* the speed of the time_scale_set in progress, None for a reader
  last,      \* last[t]: when t last read the clock, and what it read
  overtaken  \* overtaken[t]: a speed change took effect out of order with the
             \* last or the present reading of t

vars == <<process, baseReal, baseScaled, scale, sample, request, last, overtaken>>

Times == 0..(Word - 1)

TypeOK ==
  /\ process \in 1..MaxReal
  /\ baseReal \in 0..MaxReal /\ baseScaled \in Times /\ scale \in Speeds
  /\ sample \in [Threads -> 1..MaxReal \cup {None}]
  /\ request \in [Threads -> Speeds \cup {None}]
  /\ last \in [Threads -> [at : 0..MaxReal, value : Times]]
  /\ overtaken \in [Threads -> BOOLEAN]

\* Some process time has passed before the loader runs.
Init ==
  /\ process = 1
  /\ baseReal = 0 /\ baseScaled = 0 /\ scale = 1
  /\ sample = [t \in Threads |-> None]
  /\ request = [t \in Threads |-> None]
  /\ last = [t \in Threads |-> [at |-> 0, value |-> 0]]
  /\ overtaken = [t \in Threads |-> FALSE]

Tick ==
  /\ process < MaxReal
  /\ process' = process + 1
  /\ UNCHANGED <<baseReal, baseScaled, scale, sample, request, last, overtaken>>

\* scaled_process_time up to the lock
StartRead(t) ==
  /\ sample[t] = None
  /\ sample' = [sample EXCEPT ![t] = process]
  /\ UNCHANGED <<process, baseReal, baseScaled, scale, request, last, overtaken>>

\* poll_pad's time_scale_set up to the lock; its whitelist passes every speed
\* of the cycle
StartSet ==
  /\ sample[Main] = None
  /\ sample' = [sample EXCEPT ![Main] = process]
  /\ request' = [request EXCEPT ![Main] = Faster(scale)]
  /\ UNCHANGED <<process, baseReal, baseScaled, scale, last, overtaken>>

\* The game time of process time `real`.
Scaled(real) == (baseScaled + (real - baseReal) * scale) % Word

FinishReadZeroBase(t) ==
  /\ sample[t] # None /\ request[t] = None
  /\ LET real == sample[t]
     IN  /\ baseReal' = IF baseReal = 0 THEN real ELSE baseReal
         /\ last' = [last EXCEPT ![t] =
              [at |-> real, value |-> IF baseReal = 0 THEN real % Word ELSE Scaled(real)]]
  /\ sample' = [sample EXCEPT ![t] = None]
  /\ overtaken' = [overtaken EXCEPT ![t] = FALSE]
  /\ UNCHANGED <<process, baseScaled, scale, request>>

\* Each critical section is one step: time_scale_mutex.
FinishRead(t) ==
  /\ sample[t] # None /\ request[t] = None
  /\ LET real == sample[t]
         first == baseReal = 0
         value == IF first THEN real % Word ELSE Scaled(real)
     IN  /\ baseReal' = IF first THEN real ELSE baseReal
         /\ baseScaled' = IF first THEN real % Word ELSE baseScaled
         /\ last' = [last EXCEPT ![t] = [at |-> real, value |-> value]]
  /\ sample' = [sample EXCEPT ![t] = None]
  /\ overtaken' = [overtaken EXCEPT ![t] = FALSE]
  /\ UNCHANGED <<process, scale, request>>

FinishSet ==
  /\ request[Main] # None
  /\ LET real == sample[Main]
     IN  /\ baseReal' = real
         /\ baseScaled' = IF baseReal = 0 THEN real % Word ELSE Scaled(real)
  /\ scale' = request[Main]
  /\ overtaken' = [t \in Threads |->
       \/ overtaken[t]
       \/ t # Main /\ sample[t] # None       \* sampled before, used after
       \/ last[t].at > sample[Main]]         \* sampled after, used before
  /\ sample' = [sample EXCEPT ![Main] = None]
  /\ request' = [request EXCEPT ![Main] = None]
  /\ UNCHANGED <<process, last>>

Next ==
  \/ Tick
  \/ \E t \in Threads : StartRead(t) \/ FinishRead(t)
  \/ StartSet
  \/ FinishSet

Spec == Init /\ [][Next]_vars

-----------------------------------------------------------------------------
\* From one reading of t to its next, game time advances at least as much as
\* process time did and at most sixteen times as much.
Forward(t) ==
  last[t].at # 0 /\ last'[t] # last[t] =>
    LET elapsed == last'[t].at - last[t].at
    IN  (last'[t].value - last[t].value) % Word \in elapsed..(16 * elapsed)

\* The thread that changes the speed, the game's own, never sees its clock run
\* backwards, stop or jump, whatever other threads read meanwhile; another thread
\* sees that only of two readings around which a speed change overtook a sample or
\* was overtaken by one (sys.c:46-89).
ForwardUnlessOvertaken ==
  [][\A t \in Threads : t = Main \/ ~overtaken[t] => Forward(t)]_vars
=============================================================================
