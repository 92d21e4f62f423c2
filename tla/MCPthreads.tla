------------------------------ MODULE MCPthreads ------------------------------
(* The four parts of pthr.c share no state but the table of known objects,    *)
(* which has a slot for each: a behaviour exercises one part, and one run      *)
(* covers them all.                                                            *)
EXTENDS MCPthread

CONSTANTS MaxItems, StaticOutside, Permits, Frames, FreedAttr

ASSUME ShimAssumption ==
  /\ IsFiniteSet(Threads) /\ Permits \in Nat
  /\ Nothing \notin {"init", "wait", "timedwait", "signal", "broadcast"}

VARIABLES
  cond, slots, made, asleep, items, owner, outside, condLife, at, doing,
  sema, place, waiting, deadline,
  magic, embedded, attrAsked, inUse, born, control, once, ran,
  part

condVars == <<cond, slots, made, asleep, items, owner, outside, condLife, at, doing>>
semVars == <<sema, place, waiting, deadline>>
threadVars == <<magic, embedded, attrAsked, inUse, born, control, once, ran>>

Cond == INSTANCE PthreadCond
Sem == INSTANCE Semaphore
Thr == INSTANCE PthreadThreads WITH asked <- attrAsked

ShimInit ==
  /\ part \in {"mutex", "cond", "semaphore", "thread"}
  /\ IF part = "mutex" THEN Init
     ELSE Init /\ asked = [m \in Mutexes |-> "normal"]
  /\ IF part = "cond" THEN Cond!Init
     ELSE Cond!Init /\ ~outside /\ condLife = "raw"
  /\ Sem!Init /\ Thr!Init

ShimNext ==
  \/ part = "mutex" /\ Next /\ UNCHANGED <<part, condVars, semVars, threadVars>>
  \/ part = "cond" /\ Cond!Next /\ UNCHANGED <<part, vars, semVars, threadVars>>
  \/ part = "semaphore" /\ Sem!Next /\ UNCHANGED <<part, vars, condVars, threadVars>>
  \/ part = "thread" /\ Thr!Next /\ UNCHANGED <<part, vars, condVars, semVars>>

ShimSpec == ShimInit /\ [][ShimNext]_<<part, vars, condVars, semVars, threadVars>>

\* Every sleeper is reached by the signal of the item it waits for
\* (pthr.c:147-168, 262-317).
NoLostWakeup == Cond!NoLostWakeup

\* Who is inside holds a permit, the rest are the kernel's (pthr.c:409-463).
PermitsConserved == Sem!PermitsConserved

\* Threads have the detach state the game wants (pthr.c:100-108, 319-344).
ThreadAsAsked == Thr!ThreadAsAsked

\* init_routine runs once (pthr.c:383-389).
OnceRoutineOnce == Thr!OnceRoutineOnce
=============================================================================
