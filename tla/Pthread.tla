------------------------------- MODULE Pthread -------------------------------
(***************************************************************************)
(* The mutexes of source/reimpl/pthr.c.  Bionic's mutex is one word; the   *)
(* shim keeps in it a pointer to a malloc'ed newlib mutex, made on first   *)
(* use, and remembers which words already hold a pointer in a table of     *)
(* PTHR_MAX_OBJECTS slots.  Only the table is guarded by a lock; the steps *)
(* of a call between two uses of it interleave with other threads.         *)
(* The game's own conduct (who calls what when) is external.               *)
(***************************************************************************)
EXTENDS Integers, FiniteSets

CONSTANTS
  Threads,
  Mutexes,   \* addresses of the game's mutex words
  Static,    \* those that start with a static initializer
  Handles,   \* newlib mutexes malloc can return
  Slots,     \* of the table, 1..PTHR_MAX_OBJECTS
  MaxDepth,  \* how deep the game nests a recursive mutex
  FirstUseAlone, \* does the game's first call on a static mutex return before
                 \* another thread uses that mutex?
  Nothing

Kinds == {"normal", "recursive", "errorcheck"}

RealMutexes == [kind : Kinds, owner : Threads \cup {Nothing}, depth : 0..MaxDepth]

ASSUME MutexAssumption ==
  /\ Static \subseteq Mutexes
  /\ Slots \subseteq Nat /\ MaxDepth \in Nat \ {0}
  /\ FirstUseAlone \in BOOLEAN
  /\ Nothing \notin Threads \cup Mutexes \cup Handles \cup Kinds \cup RealMutexes
  /\ Handles \cap Kinds = {}

VARIABLES
  word,    \* word[m]: the initializer's kind ("normal" is 0), later real_ptr
  table,   \* initializedObjects
  real,    \* real[h]: the newlib mutex at h, Nothing when h is not one
  used,    \* the handles malloc gave out
  pc, call, \* each thread's place in the shim and its call's locals
  life,    \* life[m]: what the game did with m so far
  asked,   \* asked[m]: the kind it asked for
  inside   \* inside[t][m]: lock calls of t on m that succeeded, less unlocks

vars == <<word, table, real, used, pc, call, life, asked, inside>>

Calls == [op : {"init", "lock", "trylock", "destroy"}, mutex : Mutexes,
          kind : Kinds \cup {Nothing}, handle : Handles \cup {Nothing}]

TypeOK ==
  /\ word \in [Mutexes -> Kinds \cup Handles]
  /\ table \in [Slots -> Mutexes \cup {Nothing}]
  /\ real \in [Handles -> RealMutexes \cup {Nothing}]
  /\ used \in SUBSET Handles
  /\ pc \in [Threads -> {"game", "check", "alloc", "make", "remember", "enter",
                         "wait", "release"}]
  /\ call \in [Threads -> Calls \cup {Nothing}]
  /\ life \in [Mutexes -> {"raw", "static", "busy", "live"}]
  /\ asked \in [Mutexes -> Kinds]
  /\ inside \in [Threads -> [Mutexes -> 0..MaxDepth]]

Init ==
  /\ asked \in [Mutexes -> Kinds]
  /\ word = asked
  /\ table = [s \in Slots |-> Nothing]
  /\ real = [h \in Handles |-> Nothing]
  /\ used = {}
  /\ pc = [t \in Threads |-> "game"]
  /\ call = [t \in Threads |-> Nothing]
  /\ life = [m \in Mutexes |-> IF m \in Static THEN "static" ELSE "raw"]
  /\ inside = [t \in Threads |-> [m \in Mutexes |-> 0]]

SearchedShort(m) == \E s \in Slots : table[s] = m /\ s + 1 \in Slots

IsObjectInitialized(m) == \E s \in Slots : table[s] = m

FirstSlot(content) ==
  CHOOSE s \in Slots : table[s] = content /\ \A r \in Slots : table[r] = content => s <= r

RememberNothing(m) == table' = table

\* rememberObject: what a full table leaves out is not reported.
RememberObject(m) ==
  table' = IF IsObjectInitialized(Nothing)
           THEN [table EXCEPT ![FirstSlot(Nothing)] = m]
           ELSE table

ForgetObject(m) ==
  table' = IF IsObjectInitialized(m)
           THEN [table EXCEPT ![FirstSlot(m)] = Nothing]
           ELSE table

At(t, place, op) == pc[t] = place /\ call[t].op \in op

Goto(t, place) == pc' = [pc EXCEPT ![t] = place]

Return(t) ==
  /\ Goto(t, "game")
  /\ call' = [call EXCEPT ![t] = Nothing]

Begin(t, place, op, m, kind) ==
  /\ pc[t] = "game" /\ Goto(t, place)
  /\ call' = [call EXCEPT ![t] =
                [op |-> op, mutex |-> m, kind |-> kind, handle |-> Nothing]]

-----------------------------------------------------------------------------
(* The game.  It initialises a mutex before sharing it, unless the mutex is *)
(* static; it holds one mutex at a time, nests only recursive ones, and     *)
(* destroys a mutex nobody uses.                                            *)

Idle(m) == \A t \in Threads : inside[t][m] = 0 /\ (pc[t] # "game" => call[t].mutex # m)

\* pthread_mutex_init, with an attribute or (Nothing) without: then the shim
\* reads the kind from the word.
CallInit(t, m, kind) ==
  /\ life[m] = "raw" /\ life' = [life EXCEPT ![m] = "busy"]
  /\ asked' = [asked EXCEPT ![m] = IF kind = Nothing THEN word[m] ELSE kind]
  /\ Begin(t, "check", "init", m, kind)
  /\ UNCHANGED <<word, table, real, used, inside>>

CallLock(t, m, op) ==
  /\ \/ \A n \in Mutexes : inside[t][n] = 0
     \/ asked[m] = "recursive" /\ inside[t][m] \in 1..(MaxDepth - 1)
  /\ \/ life[m] = "live" /\ UNCHANGED life
     \/ /\ life[m] = "static"
        /\ life' = [life EXCEPT ![m] = IF FirstUseAlone THEN "busy" ELSE "live"]
  /\ Begin(t, "check", op, m, Nothing)
  /\ UNCHANGED <<word, table, real, used, asked, inside>>

CallDestroy(t, m) ==
  /\ life[m] = "live" /\ Idle(m)
  /\ life' = [life EXCEPT ![m] = "busy"]
  /\ pc[t] = "game" /\ Goto(t, "release")
  /\ call' = [call EXCEPT ![t] =
       [op |-> "destroy", mutex |-> m, kind |-> Nothing, handle |-> Nothing]]
  /\ ForgetObject(m)
  /\ UNCHANGED <<word, real, used, asked, inside>>

\* pthread_mutex_unlock_soloader: a newlib mutex of the normal kind does not
\* check who unlocks it.
Unlock(t, m) ==
  /\ pc[t] = "game" /\ inside[t][m] > 0
  /\ inside' = [inside EXCEPT ![t][m] = @ - 1]
  /\ LET h == word[m]
         mayUnlock == h \in Handles /\ real[h] # Nothing /\ real[h].depth > 0
                        /\ (real[h].owner = t \/ real[h].kind = "normal")
     IN  real' = IF mayUnlock
                 THEN [real EXCEPT ![h] =
                         [kind |-> @.kind, depth |-> @.depth - 1,
                          owner |-> IF @.depth = 1 THEN Nothing ELSE @.owner]]
                 ELSE real
  /\ UNCHANGED <<word, table, used, pc, call, life, asked>>

-----------------------------------------------------------------------------
(* The shim: _mutex_t_static_init, then the call itself. *)

\* What follows _mutex_t_static_init.
Initialized(t) ==
  IF call[t].op = "init" THEN Return(t) ELSE Goto(t, "enter") /\ UNCHANGED call

\* The game may use the mutex from other threads once its first call returned.
Settled(t) == life' = [life EXCEPT ![call[t].mutex] = "live"]

Check(t) ==
  /\ At(t, "check", {"init", "lock", "trylock"})
  /\ IF IsObjectInitialized(call[t].mutex)
     THEN /\ Initialized(t)
          /\ IF call[t].op = "init" THEN Settled(t) ELSE UNCHANGED life
     ELSE Goto(t, "alloc") /\ UNCHANGED <<call, life>>
  /\ UNCHANGED <<word, table, real, used, asked, inside>>

\* The kind is read from the word, then the word is overwritten.
Alloc(t) ==
  /\ pc[t] = "alloc" /\ Goto(t, "make")
  /\ LET m == call[t].mutex
         read == IF word[m] \in Kinds THEN word[m] ELSE "normal"
     IN  \E h \in Handles \ used :
           /\ used' = used \cup {h}
           /\ word' = [word EXCEPT ![m] = h]
           /\ call' = [call EXCEPT ![t].kind = IF @ = Nothing THEN read ELSE @]
  /\ UNCHANGED <<table, real, life, asked, inside>>

\* pthread_mutex_init on whatever real_ptr the word holds by now.
Make(t) ==
  /\ pc[t] = "make" /\ Goto(t, "remember")
  /\ real' = [real EXCEPT ![word[call[t].mutex]] =
                [kind |-> call[t].kind, owner |-> Nothing, depth |-> 0]]
  /\ UNCHANGED <<word, table, used, call, life, asked, inside>>

Remember(t) ==
  /\ pc[t] = "remember" /\ Initialized(t)
  /\ RememberObject(call[t].mutex)
  /\ IF call[t].op = "init" THEN Settled(t) ELSE UNCHANGED life
  /\ UNCHANGED <<word, real, used, asked, inside>>

\* real_ptr is read for the newlib call ...
Enter(t) ==
  /\ pc[t] = "enter" /\ Goto(t, "wait")
  /\ call' = [call EXCEPT ![t].handle = word[call[t].mutex]]
  /\ UNCHANGED <<word, table, real, used, life, asked, inside>>

\* ... which gets the lock, at once or after a wait (a call on memory that no
\* pthread_mutex_init has reached yet is left hanging here) ...
Acquire(t) ==
  /\ pc[t] = "wait" /\ Return(t)
  /\ LET m == call[t].mutex
         h == call[t].handle
     IN  /\ real[h] # Nothing
         /\ \/ real[h].depth = 0
            \/ real[h].owner = t /\ real[h].kind = "recursive" /\ real[h].depth < MaxDepth
         /\ real' = [real EXCEPT ![h] = [kind |-> @.kind, owner |-> t, depth |-> @.depth + 1]]
         /\ inside' = [inside EXCEPT ![t][m] = @ + 1]
  /\ Settled(t)
  /\ UNCHANGED <<word, table, used, asked>>

\* ... or, for trylock, does not.
Refuse(t) ==
  /\ At(t, "wait", {"trylock"}) /\ Return(t)
  /\ LET h == call[t].handle
     IN  /\ real[h] # Nothing /\ real[h].depth > 0
         /\ ~(real[h].owner = t /\ real[h].kind = "recursive")
  /\ Settled(t)
  /\ UNCHANGED <<word, table, real, used, asked, inside>>

\* The rest of pthread_mutex_destroy_soloader: destroy, free, clear the word.
Release(t) ==
  /\ pc[t] = "release" /\ Return(t)
  /\ LET m == call[t].mutex
         h == word[m]
     IN  /\ word' = [word EXCEPT ![m] = "normal"]
         /\ life' = [life EXCEPT ![m] = "raw"]
         /\ IF h \in Handles
            THEN real' = [real EXCEPT ![h] = Nothing] /\ used' = used \ {h}
            ELSE UNCHANGED <<real, used>>
  /\ UNCHANGED <<table, asked, inside>>

Next ==
  \E t \in Threads :
    \/ \E m \in Mutexes :
         \/ \E kind \in Kinds \cup {Nothing} : CallInit(t, m, kind)
         \/ \E op \in {"lock", "trylock"} : CallLock(t, m, op)
         \/ CallDestroy(t, m)
         \/ Unlock(t, m)
    \/ Check(t) \/ Alloc(t) \/ Make(t) \/ Remember(t)
    \/ Enter(t) \/ Acquire(t) \/ Refuse(t) \/ Release(t)

Spec == Init /\ [][Next]_vars

-----------------------------------------------------------------------------
\* What the mutexes are for: two threads are never inside one together.
MutualExclusion ==
  \A m \in Mutexes : \A t, u \in Threads :
    inside[t][m] > 0 /\ inside[u][m] > 0 => t = u

\* The lock a thread was granted is the one its unlock and every later lock
\* reach, of the kind the game asked for: no live mutex is re-made, freed, shares
\* its newlib mutex or lost the kind its static initializer named
\* (pthr.c:111-144, 208-243).
SameLock ==
  \A m \in Mutexes : \A t \in Threads :
    inside[t][m] > 0 =>
      /\ word[m] \in used /\ real[word[m]] # Nothing
      /\ real[word[m]].owner = t /\ real[word[m]].depth = inside[t][m]
      /\ real[word[m]].kind = asked[m]
      /\ \A n \in Mutexes \ {m} : word[n] # word[m]
=============================================================================
