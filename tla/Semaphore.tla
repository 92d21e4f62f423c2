------------------------------ MODULE Semaphore ------------------------------
(* The semaphores of source/reimpl/pthr.c, over the kernel's.  The game lets *)
(* at most Permits threads into a section: it enters when a call of the wait *)
(* family answers 0, leaves with sem_post, and makes the semaphore anew when *)
(* nobody uses it.                                                           *)
EXTENDS Integers, FiniteSets

CONSTANTS Threads, Permits

Waits == {"wait", "trywait", "timedwait"}

\* abstime of a timed wait: absent, in the future, in the past
Deadlines == {"none", "ahead", "passed"}

VARIABLES
  sema,     \* the kernel's count; -1 without a semaphore
  place,    \* place[t]: outside, in a first or a second sceKernelWaitSema, inside
  waiting,  \* waiting[t]: which call t is in
  deadline

semVars == <<sema, place, waiting, deadline>>

SemTypeOK ==
  /\ sema \in -1..Permits
  /\ place \in [Threads -> {"outside", "first", "second", "inside"}]
  /\ waiting \in [Threads -> Waits]
  /\ deadline \in [Threads -> Deadlines]

Init ==
  /\ sema = -1
  /\ place = [t \in Threads |-> "outside"]
  /\ waiting = [t \in Threads |-> "wait"]
  /\ deadline = [t \in Threads |-> "none"]

Goto(t, where) == place' = [place EXCEPT ![t] = where]

Unused == \A t \in Threads : place[t] = "outside"

\* sem_init_soloader
SemInit ==
  /\ sema = -1 /\ sema' = Permits
  /\ UNCHANGED <<place, waiting, deadline>>

\* sem_destroy_soloader
SemDestroy ==
  /\ sema # -1 /\ Unused /\ sema' = -1
  /\ UNCHANGED <<place, waiting, deadline>>

\* sem_post_soloader, when the thread leaves
SemPost(t) ==
  /\ place[t] = "inside" /\ Goto(t, "outside") /\ sema' = sema + 1
  /\ UNCHANGED <<waiting, deadline>>

\* sem_wait_soloader, sem_trywait_soloader, sem_timedwait_soloader
Call(t, op, abstime) ==
  /\ sema # -1 /\ place[t] = "outside" /\ Goto(t, "first")
  /\ op # "timedwait" => abstime = "none"
  /\ waiting' = [waiting EXCEPT ![t] = op]
  /\ deadline' = [deadline EXCEPT ![t] = abstime]
  /\ UNCHANGED sema

\* sceKernelWaitSema takes a permit: the call answers 0 ...
Granted(t) ==
  /\ place[t] \in {"first", "second"} /\ sema > 0
  /\ sema' = sema - 1 /\ Goto(t, "inside")
  /\ UNCHANGED <<waiting, deadline>>

\* A timed wait whose second sceKernelWaitSema's answer is taken the wrong way
SemTimedOutInverted(t) ==
  /\ place[t] \in {"first", "second"} /\ sema = 0 /\ waiting[t] # "wait"
  /\ Goto(t, IF place[t] = "second" THEN "inside"
             ELSE IF deadline[t] = "passed" THEN "second" ELSE "outside")
  /\ UNCHANGED <<sema, waiting, deadline>>

\* ... or its time is up, 1 ms for trywait and for the first of a timed wait.
\* That one answers -1 while the deadline lies ahead, and with the deadline
\* passed waits again, for the difference taken as unsigned (over an hour).
SemTimedOut(t) ==
  /\ place[t] \in {"first", "second"} /\ sema = 0 /\ waiting[t] # "wait"
  /\ Goto(t, IF place[t] = "first" /\ deadline[t] = "passed" THEN "second" ELSE "outside")
  /\ UNCHANGED <<sema, waiting, deadline>>

TimePasses(t) ==
  /\ deadline[t] = "ahead" /\ deadline' = [deadline EXCEPT ![t] = "passed"]
  /\ UNCHANGED <<sema, place, waiting>>

Next ==
  \/ SemInit \/ SemDestroy
  \/ \E t \in Threads :
       \/ \E op \in Waits, abstime \in Deadlines : Call(t, op, abstime)
       \/ SemPost(t) \/ Granted(t) \/ SemTimedOut(t) \/ TimePasses(t)

Spec == Init /\ [][Next]_semVars

-----------------------------------------------------------------------------
\* Whatever mix of waits, time-outs and second waits, permits are neither made
\* nor lost: who is inside holds one, and the rest are the kernel's
\* (pthr.c:409-463).
PermitsConserved ==
  sema # -1 => sema + Cardinality({t \in Threads : place[t] = "inside"}) = Permits
=============================================================================
