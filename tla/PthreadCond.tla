----------------------------- MODULE PthreadCond -----------------------------
(***************************************************************************)
(* The condition variables of source/reimpl/pthr.c.  Like a mutex, Bionic's *)
(* condition is one word that is to hold a pointer to a newlib condition,   *)
(* made on first use and remembered in the table of known objects.          *)
(*                                                                         *)
(* The game is a queue of items under one mutex (the mutex itself is        *)
(* Pthread's; here it has an owner): consumers wait for an item, producers  *)
(* put one and signal, under the mutex or after releasing it.               *)
(***************************************************************************)
EXTENDS Integers, FiniteSets

CONSTANTS
  Threads,
  Handles,       \* newlib conditions malloc can return
  MaxItems,      \* the length of the game's queue
  StaticOutside, \* may a condition with a static initializer be signalled by a
                 \* thread that does not hold the mutex?
  Nothing

VARIABLES
  cond,      \* the condition's word: Nothing (0) or its real_ptr
  slots,     \* how many slots of initializedObjects hold its address
  made,      \* handles pthread_cond_init made a condition at
  asleep,    \* asleep[h]: the threads that wait on the condition at h
  items,
  owner,     \* of the game's mutex
  outside,   \* does the game signal after it released the mutex?
  condLife,  \* what the game did with the condition so far
  at, doing  \* each thread's place, and the call it is in

condVars == <<cond, slots, made, asleep, items, owner, outside, condLife,
              at, doing>>

CondTypeOK ==
  /\ cond \in Handles \cup {Nothing} /\ slots \in 0..Cardinality(Threads)
  /\ made \in SUBSET Handles /\ asleep \in [Handles -> SUBSET Threads]
  /\ items \in 0..MaxItems
  /\ owner \in Threads \cup {Nothing} /\ outside \in BOOLEAN
  /\ condLife \in {"raw", "static", "live"}
  /\ at \in [Threads -> {"game", "consume", "produce", "check", "alloc", "make",
                         "remember", "call", "sleep", "reacquire"}]
  /\ doing \in [Threads -> {Nothing, "init", "wait", "timedwait", "signal", "broadcast"}]

Init ==
  /\ cond = Nothing /\ slots = 0 /\ made = {}
  /\ asleep = [h \in Handles |-> {}]
  /\ items = 0 /\ owner = Nothing
  /\ outside \in BOOLEAN
  /\ condLife \in {"raw", "static"}
  /\ outside /\ condLife = "static" => StaticOutside
  /\ at = [t \in Threads |-> "game"]
  /\ doing = [t \in Threads |-> Nothing]

Goto(t, place) == at' = [at EXCEPT ![t] = place]

Begin(t, op) == Goto(t, "check") /\ doing' = [doing EXCEPT ![t] = op]

Return(t, place) == Goto(t, place) /\ doing' = [doing EXCEPT ![t] = Nothing]

-----------------------------------------------------------------------------
(* The game. *)

Consuming(t) == at[t] = "consume" \/ doing[t] \in {"wait", "timedwait"}

\* It uses a condition it initialised, or one with a static initializer, and
\* takes the mutex to look at the queue.  One thread is left to produce.
Lock(t, why) ==
  /\ at[t] = "game" /\ owner = Nothing /\ condLife # "raw"
  /\ IF why = "produce" THEN items < MaxItems
     ELSE \E u \in Threads \ {t} : ~Consuming(u)
  /\ owner' = t /\ Goto(t, why)
  /\ UNCHANGED <<cond, slots, made, asleep, items, outside, condLife, doing>>

Put(t, op) ==
  /\ at[t] = "produce"
  /\ items' = items + 1
  /\ owner' = IF outside THEN Nothing ELSE t
  /\ Begin(t, op)
  /\ UNCHANGED <<cond, slots, made, asleep, outside, condLife>>

Take(t) ==
  /\ at[t] = "consume" /\ items > 0
  /\ items' = items - 1 /\ owner' = Nothing /\ Goto(t, "game")
  /\ UNCHANGED <<cond, slots, made, asleep, outside, condLife, doing>>

AwaitItem(t, op) ==
  /\ at[t] = "consume" /\ items = 0 /\ Begin(t, op)
  /\ UNCHANGED <<cond, slots, made, asleep, items, owner, outside, condLife>>

CallInit(t) ==
  /\ condLife = "raw" /\ \A u \in Threads : at[u] = "game"
  /\ Begin(t, "init")
  /\ UNCHANGED <<cond, slots, made, asleep, items, owner, outside, condLife>>

-----------------------------------------------------------------------------
(* The shim. *)

IsInitialized == slots > 0

\* pthread_cond_destroy_soloader, of a condition nobody uses: forget it, free
\* the newlib condition, clear the word.
Destroy(t) ==
  /\ condLife = "live" /\ \A u \in Threads : at[u] = "game"
  /\ condLife' = "raw"
  /\ slots' = IF IsInitialized THEN slots - 1 ELSE slots
  /\ made' = made \ {cond} /\ cond' = Nothing
  /\ UNCHANGED <<asleep, items, owner, outside, at, doing>>

\* _cond_t_static_init: what is left of the call once the condition is known.
Known(t) ==
  IF doing[t] = "init"
  THEN Return(t, "game") /\ condLife' = "live"
  ELSE Goto(t, "call") /\ UNCHANGED <<doing, condLife>>

Check(t) ==
  /\ at[t] = "check"
  /\ IF IsInitialized THEN Known(t)
     ELSE Goto(t, "alloc") /\ UNCHANGED <<doing, condLife>>
  /\ UNCHANGED <<cond, slots, made, asleep, items, owner, outside>>

Alloc(t) ==
  /\ at[t] = "alloc" /\ Goto(t, "make")
  /\ \E h \in Handles : /\ h \notin made /\ h # cond /\ asleep[h] = {}
                        /\ cond' = h
  /\ UNCHANGED <<slots, made, asleep, items, owner, outside, condLife, doing>>

Make(t) ==
  /\ at[t] = "make" /\ Goto(t, "remember")
  /\ made' = made \cup {cond}
  /\ UNCHANGED <<cond, slots, asleep, items, owner, outside, condLife, doing>>

RememberFails(t) ==
  /\ at[t] = "remember" /\ slots' = slots /\ Known(t)
  /\ UNCHANGED <<cond, made, asleep, items, owner, outside>>

Remember(t) ==
  /\ at[t] = "remember" /\ slots' = slots + 1 /\ Known(t)
  /\ UNCHANGED <<cond, made, asleep, items, owner, outside>>

\* pthread_cond_wait and pthread_cond_timedwait release the mutex and sleep.  The
\* caller holds it, so that _mutex_t_static_init (pthr.c:294, 305) finds it known.
Wait(t) ==
  /\ at[t] = "call" /\ doing[t] \in {"wait", "timedwait"}
  /\ Goto(t, "sleep") /\ owner' = Nothing
  /\ asleep' = [asleep EXCEPT ![cond] = @ \cup {t}]
  /\ UNCHANGED <<cond, slots, made, items, outside, condLife, doing>>

\* Which sleepers a call on the condition at h wakes.
Woken(op, h) ==
  IF op = "broadcast" \/ asleep[h] = {} THEN {asleep[h]} ELSE {{u} : u \in asleep[h]}

Signal(t) ==
  /\ at[t] = "call" /\ doing[t] \in {"signal", "broadcast"}
  /\ \E woken \in Woken(doing[t], cond) :
       /\ asleep' = [asleep EXCEPT ![cond] = @ \ woken]
       /\ at' = [u \in Threads |-> IF u = t THEN "game"
                                   ELSE IF u \in woken THEN "reacquire" ELSE at[u]]
  /\ doing' = [doing EXCEPT ![t] = Nothing]
  /\ owner' = IF owner = t THEN Nothing ELSE owner
  /\ condLife' = "live"
  /\ UNCHANGED <<cond, slots, made, items, outside>>

Timeout(t) ==
  /\ at[t] = "sleep" /\ doing[t] = "timedwait" /\ Goto(t, "reacquire")
  /\ asleep' = [h \in Handles |-> asleep[h] \ {t}]
  /\ UNCHANGED <<cond, slots, made, items, owner, outside, condLife, doing>>

\* The wait returns once it has the mutex; the game looks again.
Reacquire(t) ==
  /\ at[t] = "reacquire" /\ owner = Nothing
  /\ owner' = t /\ Return(t, "consume") /\ condLife' = "live"
  /\ UNCHANGED <<cond, slots, made, asleep, items, outside>>

Next ==
  \E t \in Threads :
    \/ \E why \in {"consume", "produce"} : Lock(t, why)
    \/ \E op \in {"signal", "broadcast"} : Put(t, op)
    \/ \E op \in {"wait", "timedwait"} : AwaitItem(t, op)
    \/ Take(t) \/ CallInit(t) \/ Destroy(t)
    \/ Check(t) \/ Alloc(t) \/ Make(t) \/ Remember(t)
    \/ Wait(t) \/ Signal(t) \/ Timeout(t) \/ Reacquire(t)

Spec == Init /\ [][Next]_condVars

-----------------------------------------------------------------------------
\* No wakeup is lost: once every call has returned or sleeps, nobody sleeps
\* beside a queue that has an item (the threads of _cond_t_static_init all use
\* one newlib condition, pthr.c:147-168).
NoLostWakeup ==
  (\A t \in Threads : at[t] \in {"game", "sleep"}) /\ items > 0
    => \A h \in Handles : asleep[h] = {}
=============================================================================
