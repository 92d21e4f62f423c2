----------------------------- MODULE ShimProofs -----------------------------
(***************************************************************************)
(* Proofs about the other parts of pthr.c as MCPthreads runs them, for any *)
(* finite set of threads: condition variables lose no wakeup, semaphores   *)
(* keep their permits, threads get the detach state asked for, and         *)
(* pthread_once runs its routine once.                                     *)
(***************************************************************************)
EXTENDS MCPthreads, FiniteSetTheorems, TLAPS

shimVars == <<part, vars, condVars, semVars, threadVars>>

\* Each part counts with the Cardinality of FiniteSets.
LEMMA SameCardinality == \A S : Sem!Cardinality(S) = Cardinality(S) /\ Thr!Cardinality(S) = Cardinality(S)
BY DEF Sem!Cardinality, Thr!Cardinality, Cardinality

-----------------------------------------------------------------------------
(* Semaphores *)

Inside == {t \in Threads : place[t] = "inside"}

SemInv ==
  /\ sema \in Nat \cup {-1}
  /\ place \in [Threads -> {"outside", "first", "second", "inside"}]
  /\ sema = -1 => \A t \in Threads : place[t] = "outside"
  /\ sema # -1 => sema + Cardinality(Inside) = Permits

LEMMA SemInitInv == Sem!Init => SemInv
BY DEF Sem!Init, SemInv

\* A thread that moves between places outside the section leaves it as it was.
LEMMA SemMoves ==
  ASSUME SemInv, NEW t \in Threads, place[t] # "inside", sema # -1, sema' = sema,
         NEW where \in {"outside", "first", "second"},
         place' = [place EXCEPT ![t] = where]
  PROVE  SemInv'
<1>1. Inside' = Inside
  BY DEF Inside, SemInv
<1> QED BY <1>1 DEF SemInv

LEMMA SemStepInv == SemInv /\ [Sem!Next]_semVars => SemInv'
<1> SUFFICES ASSUME SemInv, [Sem!Next]_semVars PROVE SemInv'
  OBVIOUS
<1> USE ShimAssumption
<1>0. IsFiniteSet(Inside) /\ Cardinality(Inside) \in Nat
  BY FS_Subset, FS_CardinalityType DEF Inside
<1>1. CASE Sem!SemInit
  <2>1. Inside' = {}
    BY <1>1 DEF SemInv, Inside, Sem!SemInit
  <2> QED BY <1>1, <2>1, FS_EmptySet DEF SemInv, Sem!SemInit
<1>2. CASE Sem!SemDestroy
  BY <1>2 DEF SemInv, Sem!SemDestroy, Sem!Unused
<1>3. ASSUME NEW t \in Threads, NEW op \in Sem!Waits, NEW abstime \in Sem!Deadlines,
             Sem!Call(t, op, abstime)
      PROVE  SemInv'
  BY <1>3, SemMoves DEF Sem!Call, Sem!Goto
<1>4. ASSUME NEW t \in Threads, Sem!SemPost(t) PROVE SemInv'
  <2>1. t \in Inside /\ Inside' = Inside \ {t}
    BY <1>4 DEF SemInv, Inside, Sem!SemPost, Sem!Goto
  <2>2. Cardinality(Inside') = Cardinality(Inside) - 1
    BY <1>0, <2>1, FS_RemoveElement
  <2> QED BY <1>0, <1>4, <2>2 DEF SemInv, Sem!SemPost, Sem!Goto
<1>5. ASSUME NEW t \in Threads, Sem!Granted(t) PROVE SemInv'
  <2>1. t \notin Inside /\ Inside' = Inside \cup {t}
    BY <1>5 DEF SemInv, Inside, Sem!Granted, Sem!Goto
  <2>2. Cardinality(Inside') = Cardinality(Inside) + 1
    BY <1>0, <2>1, FS_AddElement
  <2> QED BY <1>0, <1>5, <2>2 DEF SemInv, Sem!Granted, Sem!Goto
<1>6. ASSUME NEW t \in Threads, Sem!SemTimedOut(t) PROVE SemInv'
  <2>1. place[t] # "inside" /\ sema # -1 /\ sema' = sema
    BY <1>6 DEF Sem!SemTimedOut
  <2>2. PICK where \in {"outside", "second"} : place' = [place EXCEPT ![t] = where]
    BY <1>6 DEF Sem!SemTimedOut, Sem!Goto
  <2> QED BY <2>1, <2>2, SemMoves
<1>7. CASE UNCHANGED <<sema, place>>
  BY <1>7 DEF SemInv, Inside
<1> QED
  BY <1>1, <1>2, <1>3, <1>4, <1>5, <1>6, <1>7 DEF Sem!Next, Sem!TimePasses, semVars

\* Whatever mix of waits, time-outs and posts: who is inside holds a permit, and
\* the rest are the kernel's (pthr.c:409-463).
THEOREM PermitsKept == ShimSpec => []PermitsConserved
<1>1. ShimInit => SemInv
  BY SemInitInv DEF ShimInit
<1>2. SemInv /\ [ShimNext]_shimVars => SemInv'
  <2>1. UNCHANGED semVars => [Sem!Next]_semVars
    OBVIOUS
  <2> QED BY SemStepInv, <2>1 DEF ShimNext, shimVars
<1>3. SemInv => PermitsConserved
  BY SameCardinality DEF SemInv, Inside, PermitsConserved, Sem!PermitsConserved
<1> QED BY <1>1, <1>2, <1>3, PTL DEF ShimSpec, shimVars

-----------------------------------------------------------------------------
(* Thread attributes and pthread_once *)

\* A slot in use holds the magic number and the swapped state, a slot out of
\* use is not taken for an attribute.
ThreadsInv ==
  /\ magic \in [Frames -> BOOLEAN] /\ inUse \in [Frames -> BOOLEAN]
  /\ attrAsked \in [Frames -> Thr!States] /\ embedded \in [Frames -> Thr!States \cup {FreedAttr}]
  /\ \A f \in Frames : magic[f] <=> inUse[f]
  /\ \A f \in Frames : inUse[f] => embedded[f] = 1 - attrAsked[f]
  /\ born.given = 1 - born.wanted

LEMMA ThreadsInitInv == Thr!Init => ThreadsInv
BY DEF Thr!Init, ThreadsInv, Thr!States, Thr!Joinable, Thr!Detached, Thr!EmbeddedJoinable

LEMMA ThreadsStepInv == ThreadsInv /\ [Thr!Next]_threadVars => ThreadsInv'
<1> SUFFICES ASSUME ThreadsInv, [Thr!Next]_threadVars PROVE ThreadsInv'
  OBVIOUS
<1> USE DEF ThreadsInv, Thr!States, Thr!Joinable, Thr!Detached, Thr!EmbeddedJoinable, Thr!RealAttr
<1>1. ASSUME NEW f \in Frames, Thr!AttrInit(f) PROVE ThreadsInv'
  BY <1>1 DEF Thr!AttrInit
<1>2. ASSUME NEW f \in Frames, Thr!AttrDestroy(f) PROVE ThreadsInv'
  BY <1>2 DEF Thr!AttrDestroy
<1>3. ASSUME NEW f \in Frames, Thr!SetStackSize(f) PROVE ThreadsInv'
  BY <1>3 DEF Thr!SetStackSize
<1>4. ASSUME NEW f \in Frames, Thr!Create(f) PROVE ThreadsInv'
  BY <1>4 DEF Thr!Create
<1>5. ASSUME NEW f \in Frames, NEW state \in Thr!States, Thr!SetDetachState(f, state) PROVE ThreadsInv'
  BY <1>5 DEF Thr!SetDetachState
<1>6. CASE Thr!CreateDefault
  BY <1>6 DEF Thr!CreateDefault
<1>7. CASE UNCHANGED <<magic, embedded, inUse, attrAsked, born>>
  BY <1>7
<1>8. ASSUME NEW t \in Threads, Thr!OnceCall(t) \/ Thr!OnceTest(t) \/ Thr!OnceReturn(t)
      PROVE  UNCHANGED <<magic, embedded, inUse, attrAsked, born>>
  BY <1>8 DEF Thr!OnceCall, Thr!OnceTest, Thr!OnceReturn
<1> QED
  BY <1>1, <1>2, <1>3, <1>4, <1>5, <1>6, <1>7, <1>8 DEF Thr!Next, threadVars

\* A thread is joinable or detached as the game wants it, whatever the stack slot
\* of its attribute was used for before (pthr.c:100-108, 319-344).
THEOREM DetachStateKept == ShimSpec => []ThreadAsAsked
<1>1. ShimInit => ThreadsInv
  BY ThreadsInitInv DEF ShimInit
<1>2. ThreadsInv /\ [ShimNext]_shimVars => ThreadsInv'
  <2>1. UNCHANGED threadVars => [Thr!Next]_threadVars
    OBVIOUS
  <2> QED BY ThreadsStepInv, <2>1 DEF ShimNext, shimVars
<1>3. ThreadsInv => ThreadAsAsked
  BY DEF ThreadsInv, ThreadAsAsked, Thr!ThreadAsAsked
<1> QED BY <1>1, <1>2, <1>3, PTL DEF ShimSpec, shimVars

\* Once a thread ran the routine the word says so, before anyone else tests it.
OnceInv ==
  /\ control \in {0, 1}
  /\ control = 0 => ran = {}
  /\ \A t, u \in ran : t = u

\* However many threads race to pthread_once, one runs init_routine
\* (pthr.c:383-389).
THEOREM OnceOnly == ShimSpec => []OnceRoutineOnce
<1>1. ShimInit => OnceInv
  BY DEF ShimInit, Thr!Init, OnceInv
<1>2. OnceInv /\ [ShimNext]_shimVars => OnceInv'
  <2>1. OnceInv /\ [Thr!Next]_threadVars => OnceInv'
    BY DEF OnceInv, Thr!Next, threadVars, Thr!AttrInit, Thr!AttrDestroy, Thr!SetStackSize,
         Thr!Create, Thr!SetDetachState, Thr!CreateDefault, Thr!OnceCall, Thr!OnceTest,
         Thr!OnceReturn
  <2>2. UNCHANGED threadVars => [Thr!Next]_threadVars
    OBVIOUS
  <2> QED BY <2>1, <2>2 DEF ShimNext, shimVars
<1>3. OnceInv => OnceRoutineOnce
  <2> SUFFICES ASSUME OnceInv PROVE Cardinality(ran) <= 1
    BY SameCardinality DEF OnceRoutineOnce, Thr!OnceRoutineOnce
  <2>1. CASE ran = {}
    BY <2>1, FS_EmptySet
  <2>2. ASSUME NEW t \in ran PROVE Cardinality(ran) <= 1
    <3>1. ran = {t}
      BY DEF OnceInv
    <3>2. Cardinality({t}) = 1
      BY FS_Singleton
    <3>3. Cardinality(ran) = 1
      BY <3>1, <3>2, Zenon
    <3> QED BY <3>3
  <2> QED BY <2>1, <2>2
<1> QED BY <1>1, <1>2, <1>3, PTL DEF ShimSpec, shimVars

-----------------------------------------------------------------------------
(* Condition variables *)

Places == {"game", "consume", "produce", "check", "alloc", "make", "remember", "call",
           "sleep", "reacquire"}
InShim == {"check", "alloc", "make", "remember", "call"}

Signalling(t) == doing[t] \in {"signal", "broadcast"}
Waiting(t) == doing[t] \in {"wait", "timedwait"}

Asleep == {t \in Threads : at[t] = "sleep"}

\* Who will look at the queue, or wake one that will.
Attentive == {t \in Threads : at[t] \in {"consume", "reacquire"} \/ Signalling(t)}

CondTypes ==
  /\ cond \in Handles \cup {Nothing} /\ slots \in {0, 1} /\ items \in Nat
  /\ owner \in Threads \cup {Nothing} /\ condLife \in {"raw", "static", "live"}
  /\ at \in [Threads -> Places]
  /\ doing \in [Threads -> {Nothing, "init", "wait", "timedwait", "signal", "broadcast"}]

\* There is one newlib condition, made once; every sleeper sleeps there.
OneCond ==
  /\ slots = 1 => cond \in Handles
  /\ asleep = [h \in Handles |-> IF h = cond THEN Asleep ELSE {}]
  /\ slots = 0 => \A t, u \in Threads : at[t] # "game" /\ at[u] # "game" => t = u
  /\ condLife = "live" => slots = 1
  /\ condLife = "raw" => owner = Nothing /\ slots = 0
  /\ condLife = "static" => ~outside

\* Who waits for an item holds the mutex from its look at the queue to its sleep.
Placed(t) ==
  /\ at[t] = "game" => doing[t] = Nothing /\ owner # t
  /\ at[t] \in {"consume", "produce"} => doing[t] = Nothing /\ owner = t
  /\ at[t] \in {"sleep", "reacquire"} => Waiting(t) /\ owner # t
  /\ at[t] \in {"sleep", "reacquire", "call"} => slots = 1
  /\ at[t] \in {"alloc", "make", "remember"} => slots = 0
  /\ at[t] \in {"make", "remember"} => cond \in Handles
  /\ doing[t] = "init" => condLife = "raw" /\ at[t] # "call"
  /\ at[t] # "game" /\ condLife = "raw" => doing[t] = "init"
  /\ at[t] \in InShim /\ Waiting(t) => items = 0 /\ owner = t
  /\ at[t] # "game" /\ slots = 0 /\ condLife = "static" => owner = t

\* As long as anyone sleeps, someone attends to each item in the queue.
Attended == Asleep # {} => items <= Cardinality(Attentive)

CondInv == CondTypes /\ OneCond /\ (\A t \in Threads : Placed(t)) /\ Attended

LEMMA CondInitInv ==
  ASSUME Cond!Init, ~StaticOutside
  PROVE  CondInv
<1> USE MutexAssumption, ShimAssumption DEF Cond!Init
<1>1. CondTypes
  BY DEF CondTypes, Places
<1>2. OneCond
  BY DEF OneCond, Asleep
<1>3. \A t \in Threads : Placed(t)
  BY DEF Placed, InShim, Waiting
<1>4. Attended
  BY DEF Attended, Asleep
<1> QED BY <1>1, <1>2, <1>3, <1>4 DEF CondInv

\* Nothing is lost while nobody goes to sleep, nothing is put, and nobody turns away.
LEMMA StaysAttended ==
  ASSUME Attended, items' = items, Asleep' \subseteq Asleep, Attentive \subseteq Attentive',
         items \in Nat
  PROVE  Attended'
<1>1. IsFiniteSet(Attentive') /\ IsFiniteSet(Attentive)
  BY ShimAssumption, FS_Subset DEF Attentive
<1>2. Cardinality(Attentive) <= Cardinality(Attentive')
  BY <1>1, FS_Subset
<1>3. Cardinality(Attentive) \in Nat /\ Cardinality(Attentive') \in Nat
  BY <1>1, FS_CardinalityType
<1> QED BY <1>2, <1>3 DEF Attended

LEMMA LockInv ==
  ASSUME CondInv, NEW t \in Threads, NEW why \in {"consume", "produce"}, Cond!Lock(t, why)
  PROVE  CondInv'
<1> USE MutexAssumption, ShimAssumption DEF Cond!Lock, Cond!Goto, CondInv, CondTypes
<1>1. CondTypes' /\ Asleep' = Asleep
  BY DEF Places, Asleep
<1>2. slots = 0 => \A u \in Threads : at[u] = "game"
  BY DEF OneCond, Placed
<1>3. OneCond'
  BY <1>1, <1>2 DEF OneCond
<1>4. \A u \in Threads : Placed(u)'
  BY <1>2 DEF Placed, InShim, Waiting, OneCond
<1>5. Attentive \subseteq Attentive'
  BY DEF Attentive, Signalling
<1> QED BY <1>1, <1>3, <1>4, <1>5, StaysAttended

LEMMA PutInv ==
  ASSUME CondInv, NEW t \in Threads, NEW op \in {"signal", "broadcast"}, Cond!Put(t, op)
  PROVE  CondInv'
<1> USE MutexAssumption, ShimAssumption
    DEF Cond!Put, Cond!Begin, Cond!Goto, CondInv, CondTypes
<1>1. CondTypes' /\ Asleep' = Asleep
  BY DEF Places, Asleep
<1>2. OneCond'
  BY <1>1 DEF OneCond, Placed
<1>3. \A u \in Threads : Placed(u)'
  BY DEF Placed, InShim, Waiting, OneCond
<1>4. t \notin Attentive /\ Attentive' = Attentive \cup {t}
  BY DEF Attentive, Signalling, Placed
<1>5. IsFiniteSet(Attentive) /\ Cardinality(Attentive) \in Nat
  BY FS_Subset, FS_CardinalityType DEF Attentive
<1>6. Cardinality(Attentive') = Cardinality(Attentive) + 1
  BY <1>4, <1>5, FS_AddElement
<1>7. Attended'
  BY <1>1, <1>5, <1>6 DEF Attended
<1> QED BY <1>1, <1>2, <1>3, <1>7

LEMMA TakeInv ==
  ASSUME CondInv, NEW t \in Threads, Cond!Take(t)
  PROVE  CondInv'
<1> USE MutexAssumption, ShimAssumption DEF Cond!Take, Cond!Goto, CondInv, CondTypes
<1>1. CondTypes' /\ Asleep' = Asleep
  BY DEF Places, Asleep
<1>2. OneCond'
  BY <1>1 DEF OneCond
<1>3. \A u \in Threads : Placed(u)'
  BY DEF Placed, InShim, Waiting
<1>4. t \in Attentive /\ Attentive' = Attentive \ {t}
  BY DEF Attentive, Signalling, Placed
<1>5. IsFiniteSet(Attentive) /\ Cardinality(Attentive) \in Nat
  BY FS_Subset, FS_CardinalityType DEF Attentive
<1>6. Cardinality(Attentive') = Cardinality(Attentive) - 1
  BY <1>4, <1>5, FS_RemoveElement
<1>7. Attended'
  BY <1>1, <1>5, <1>6 DEF Attended
<1> QED BY <1>1, <1>2, <1>3, <1>7

LEMMA AwaitItemInv ==
  ASSUME CondInv, NEW t \in Threads, NEW op \in {"wait", "timedwait"}, Cond!AwaitItem(t, op)
  PROVE  CondInv'
<1> USE MutexAssumption, ShimAssumption
    DEF Cond!AwaitItem, Cond!Begin, Cond!Goto, CondInv, CondTypes
<1>1. CondTypes' /\ Asleep' = Asleep
  BY DEF Places, Asleep
<1>2. OneCond'
  BY <1>1 DEF OneCond
<1>3. \A u \in Threads : Placed(u)'
  BY DEF Placed, InShim, Waiting
<1>4. Cardinality(Attentive') \in Nat
  BY FS_Subset, FS_CardinalityType DEF Attentive
<1>5. Attended'
  BY <1>4 DEF Attended
<1> QED BY <1>1, <1>2, <1>3, <1>5

LEMMA CondCallInitInv ==
  ASSUME CondInv, NEW t \in Threads, Cond!CallInit(t)
  PROVE  CondInv'
<1> USE MutexAssumption, ShimAssumption
    DEF Cond!CallInit, Cond!Begin, Cond!Goto, CondInv, CondTypes
<1>1. CondTypes' /\ Asleep' = Asleep
  BY DEF Places, Asleep
<1>2. OneCond'
  BY <1>1 DEF OneCond
<1>3. \A u \in Threads : Placed(u)'
  BY DEF Placed, InShim, Waiting
<1>4. Attended'
  BY <1>1 DEF Attended, Asleep
<1> QED BY <1>1, <1>2, <1>3, <1>4

LEMMA CondDestroyInv ==
  ASSUME CondInv, NEW t \in Threads, Cond!Destroy(t)
  PROVE  CondInv'
<1> USE MutexAssumption, ShimAssumption
    DEF Cond!Destroy, Cond!IsInitialized, CondInv, CondTypes
<1>1. Asleep = {} /\ Asleep' = {}
  BY DEF Asleep
<1>2. slots' = 0 /\ owner = Nothing
  BY DEF OneCond, Placed
<1>3. CondTypes'
  BY <1>2
<1>4. OneCond'
  BY <1>1, <1>2 DEF OneCond
<1>5. \A u \in Threads : Placed(u)'
  BY DEF Placed, InShim, Waiting
<1>6. Attended'
  BY <1>1 DEF Attended
<1> QED BY <1>3, <1>4, <1>5, <1>6

\* Leaving _cond_t_static_init with the condition known.
LEMMA KnownInv ==
  ASSUME CondInv, NEW t \in Threads, at[t] \in {"check", "remember"}, Cond!Known(t),
         cond \in Handles, slots' = 1,
         slots = 1 \/ \A u \in Threads : at[u] # "game" => u = t,
         UNCHANGED <<cond, asleep, items, owner, outside>>
  PROVE  CondInv'
<1> USE MutexAssumption, ShimAssumption
    DEF Cond!Known, Cond!Return, Cond!Goto, CondInv, CondTypes
<1>1. CondTypes' /\ Asleep' = Asleep
  BY DEF Places, Asleep
<1>2. OneCond'
  BY <1>1 DEF OneCond, Placed
<1>3. \A u \in Threads : Placed(u)'
  BY DEF Placed, InShim, Waiting, OneCond
<1>4. Attentive \subseteq Attentive'
  BY DEF Attentive, Signalling
<1> QED BY <1>1, <1>2, <1>3, <1>4, StaysAttended

LEMMA CondCheckInv ==
  ASSUME CondInv, NEW t \in Threads, Cond!Check(t)
  PROVE  CondInv'
<1>1. CASE slots = 1
  BY <1>1, KnownInv DEF Cond!Check, Cond!IsInitialized, CondInv, OneCond
<1>2. CASE slots = 0
  <2> USE <1>2, MutexAssumption, ShimAssumption
      DEF Cond!Check, Cond!IsInitialized, Cond!Goto, CondInv, CondTypes
  <2>1. CondTypes' /\ Asleep' = Asleep
    BY DEF Places, Asleep
  <2>2. OneCond'
    BY <2>1 DEF OneCond
  <2>3. \A u \in Threads : Placed(u)'
    BY DEF Placed, InShim, Waiting
  <2>4. Attentive \subseteq Attentive'
    BY DEF Attentive, Signalling
  <2> QED BY <2>1, <2>2, <2>3, <2>4, StaysAttended
<1> QED BY <1>1, <1>2 DEF CondInv, CondTypes

LEMMA MakesInv ==
  ASSUME CondInv, NEW t \in Threads, Cond!Alloc(t) \/ Cond!Make(t)
  PROVE  CondInv'
<1> USE MutexAssumption, ShimAssumption
    DEF Cond!Alloc, Cond!Make, Cond!Goto, CondInv, CondTypes
<1>1. slots = 0 /\ \A u \in Threads : at[u] # "game" => u = t
  BY DEF Placed, OneCond
<1>2. Asleep = {} /\ Asleep' = {}
  BY <1>1 DEF Asleep
<1>3. CondTypes'
  BY DEF Places
<1>4. OneCond'
  BY <1>1, <1>2 DEF OneCond
<1>5. \A u \in Threads : Placed(u)'
  BY <1>1 DEF Placed, InShim, Waiting
<1>6. Attended'
  BY <1>2 DEF Attended
<1> QED BY <1>3, <1>4, <1>5, <1>6

LEMMA CondRememberInv ==
  ASSUME CondInv, NEW t \in Threads, Cond!Remember(t)
  PROVE  CondInv'
<1>1. at[t] = "remember" /\ slots = 0 /\ cond \in Handles /\ slots' = 1 /\ Cond!Known(t)
      /\ UNCHANGED <<cond, asleep, items, owner, outside>>
  BY DEF Cond!Remember, CondInv, Placed
<1>2. \A u \in Threads : at[u] # "game" => u = t
  BY <1>1 DEF CondInv, OneCond
<1> QED BY <1>1, <1>2, KnownInv

LEMMA WaitInv ==
  ASSUME CondInv, NEW t \in Threads, Cond!Wait(t)
  PROVE  CondInv'
<1> USE MutexAssumption, ShimAssumption DEF Cond!Wait, Cond!Goto, CondInv, CondTypes
<1>1. CondTypes' /\ Asleep' = Asleep \cup {t} /\ cond \in Handles /\ slots = 1
      /\ items = 0 /\ owner = t
  BY DEF Places, Asleep, Placed, OneCond, InShim, Waiting
<1>2. OneCond'
  BY <1>1 DEF OneCond
<1>3. \A u \in Threads : Placed(u)'
  BY <1>1 DEF Placed, InShim, Waiting
<1>4. Cardinality(Attentive') \in Nat
  BY FS_Subset, FS_CardinalityType DEF Attentive
<1>5. Attended'
  BY <1>1, <1>4 DEF Attended
<1> QED BY <1>1, <1>2, <1>3, <1>5

LEMMA SignalInv ==
  ASSUME CondInv, NEW t \in Threads, Cond!Signal(t)
  PROVE  CondInv'
<1>1. /\ at[t] = "call" /\ Signalling(t) /\ slots = 1 /\ cond \in Handles
      /\ asleep[cond] = Asleep /\ condLife # "raw"
  BY ShimAssumption DEF Cond!Signal, CondInv, CondTypes, OneCond, Placed, Signalling
<1>2. PICK woken \in Cond!Woken(doing[t], cond) :
        /\ asleep' = [asleep EXCEPT ![cond] = @ \ woken]
        /\ at' = [u \in Threads |-> IF u = t THEN "game"
                                    ELSE IF u \in woken THEN "reacquire" ELSE at[u]]
  BY DEF Cond!Signal
<1>3. woken = Asleep \/ \E u \in Asleep : woken = {u}
  BY <1>1, <1>2 DEF Cond!Woken
<1>4. woken \subseteq Asleep /\ t \notin Asleep /\ Asleep' = Asleep \ woken
  BY <1>1, <1>2, <1>3 DEF Asleep
<1>5. /\ doing' = [doing EXCEPT ![t] = Nothing] /\ condLife' = "live"
      /\ owner' = (IF owner = t THEN Nothing ELSE owner)
      /\ UNCHANGED <<cond, slots, made, items, outside>>
  BY DEF Cond!Signal
<1> USE MutexAssumption, ShimAssumption DEF CondInv, CondTypes
<1>6. CondTypes'
  BY <1>2, <1>5 DEF Places
<1>7. OneCond'
  <2>1. asleep' = [h \in Handles |-> IF h = cond' THEN Asleep' ELSE {}]
    <3>1. asleep = [h \in Handles |-> IF h = cond THEN Asleep ELSE {}]
      BY DEF OneCond
    <3>2. asleep' = [asleep EXCEPT ![cond] = Asleep \ woken]
      BY <1>1, <1>2
    <3> HIDE DEF CondInv, CondTypes
    <3> QED BY <1>4, <1>5, <3>1, <3>2
  <2> QED BY <1>1, <1>5, <2>1 DEF OneCond
<1>8. \A u \in woken : at[u] = "sleep" /\ at'[u] = "reacquire" /\ u # t /\ u \in Threads
  BY <1>2, <1>4 DEF Asleep
<1>9. \A u \in Threads : u \notin woken /\ u # t => at'[u] = at[u]
  BY <1>2
<1>10. ASSUME NEW u \in Threads PROVE Placed(u)'
  BY <1>1, <1>2, <1>5, <1>8, <1>9 DEF Placed, InShim, Waiting
<1>11. Attended'
  <2>1. CASE woken = Asleep
    BY <1>4, <2>1 DEF Attended
  <2>2. ASSUME NEW u \in Asleep, woken = {u} PROVE Attended'
    <3>1. u \notin Attentive /\ t \in Attentive
      BY <1>1 DEF Asleep, Attentive, Signalling, Placed, Waiting
    <3>2. Attentive' = (Attentive \ {t}) \cup {u}
      BY <1>1, <1>2, <1>4, <1>5, <2>2 DEF Asleep, Attentive, Signalling
    <3>3. IsFiniteSet(Attentive) /\ IsFiniteSet(Attentive \ {t})
          /\ Cardinality(Attentive) \in Nat /\ Cardinality(Attentive \ {t}) \in Nat
      BY FS_Subset, FS_CardinalityType DEF Attentive
    <3>4. Cardinality(Attentive \ {t}) = Cardinality(Attentive) - 1
      BY <3>1, <3>3, FS_RemoveElement
    <3>5. Cardinality(Attentive') = Cardinality(Attentive \ {t}) + 1
      BY <3>1, <3>2, <3>3, FS_AddElement
    <3> QED BY <1>5, <2>2, <3>3, <3>4, <3>5 DEF Attended
  <2> QED BY <1>3, <2>1, <2>2
<1> QED BY <1>6, <1>7, <1>10, <1>11

LEMMA TimeoutInv ==
  ASSUME CondInv, NEW t \in Threads, Cond!Timeout(t)
  PROVE  CondInv'
<1> USE MutexAssumption, ShimAssumption DEF Cond!Timeout, Cond!Goto, CondInv, CondTypes
<1>1. CondTypes' /\ Asleep' = Asleep \ {t}
  BY DEF Places, Asleep
<1>2. OneCond'
  BY <1>1 DEF OneCond
<1>3. \A u \in Threads : Placed(u)'
  BY DEF Placed, InShim, Waiting
<1>4. Attentive \subseteq Attentive'
  BY DEF Attentive, Signalling
<1> QED BY <1>1, <1>2, <1>3, <1>4, StaysAttended

LEMMA ReacquireInv ==
  ASSUME CondInv, NEW t \in Threads, Cond!Reacquire(t)
  PROVE  CondInv'
<1> USE MutexAssumption, ShimAssumption
    DEF Cond!Reacquire, Cond!Return, Cond!Goto, CondInv, CondTypes
<1>1. CondTypes' /\ Asleep' = Asleep /\ slots = 1 /\ condLife # "raw"
  BY DEF Places, Asleep, Placed, OneCond
<1>2. OneCond'
  BY <1>1 DEF OneCond
<1>3. \A u \in Threads : Placed(u)'
  BY <1>1 DEF Placed, InShim, Waiting
<1>4. Attentive \subseteq Attentive'
  BY DEF Attentive, Signalling
<1> QED BY <1>1, <1>2, <1>3, <1>4, StaysAttended

LEMMA CondStutterInv == CondInv /\ UNCHANGED condVars => CondInv'
<1> SUFFICES ASSUME CondInv, UNCHANGED condVars PROVE CondInv'
  OBVIOUS
<1>1. Asleep' = Asleep /\ Attentive' = Attentive
  BY DEF condVars, Asleep, Attentive, Signalling
<1>2. CondTypes' /\ OneCond' /\ Attended'
  BY <1>1 DEF condVars, CondInv, CondTypes, OneCond, Attended
<1>3. \A u \in Threads : Placed(u)'
  BY DEF condVars, CondInv, Placed, InShim, Waiting
<1> QED BY <1>2, <1>3 DEF CondInv

LEMMA CondStepInv == CondInv /\ [Cond!Next]_condVars => CondInv'
BY LockInv, PutInv, TakeInv, AwaitItemInv, CondCallInitInv, CondDestroyInv, CondCheckInv,
   MakesInv, CondRememberInv, WaitInv, SignalInv, TimeoutInv, ReacquireInv, CondStutterInv
   DEF Cond!Next

\* No wakeup is lost: once every call has returned or sleeps, nobody sleeps beside
\* a queue that has an item.  A condition with a static initializer must be
\* signalled under the mutex, or its first wait and its first signal may each make
\* a newlib condition (pthr.c:147-168, 262-317).
THEOREM WakeupsReach ==
  ASSUME ~StaticOutside
  PROVE  ShimSpec => []NoLostWakeup
<1>1. ShimInit => CondInv
  BY CondInitInv DEF ShimInit
<1>2. CondInv /\ [ShimNext]_shimVars => CondInv'
  <2>1. UNCHANGED condVars => [Cond!Next]_condVars
    OBVIOUS
  <2> QED BY CondStepInv, <2>1 DEF ShimNext, shimVars
<1>3. CondInv => NoLostWakeup
  <2> SUFFICES ASSUME CondInv, \A t \in Threads : at[t] \in {"game", "sleep"}, items > 0,
                      NEW h \in Handles
               PROVE  asleep[h] = {}
    BY DEF NoLostWakeup, Cond!NoLostWakeup
  <2>1. Attentive = {}
    BY ShimAssumption DEF Attentive, CondInv, Placed, Signalling, Waiting
  <2>2. Cardinality(Attentive) = 0
    BY <2>1, FS_EmptySet
  <2>3. Asleep = {}
    BY <2>2 DEF CondInv, CondTypes, Attended
  <2> QED BY <2>3 DEF CondInv, OneCond
<1> QED BY <1>1, <1>2, <1>3, PTL DEF ShimSpec, shimVars
=============================================================================
