-------------------------------- MODULE Logger --------------------------------
(***************************************************************************)
(* The log of source/utils/logger.c, and of lib/falso_jni's copy of it:    *)
(* every line goes through two shared buffers under a mutex that the first *)
(* caller makes.                                                           *)
(***************************************************************************)
CONSTANTS
  Threads, Lines,
  Nothing,
  FirstUseAlone  \* main logs (main.c:156) before any other thread exists

VARIABLES
  ready,     \* _log_mutex_ready
  owner,     \* the thread that holds _log_mutex, or Nothing
  bufferA, bufferB,
  at,        \* at[t]: where t stands in _log_print
  line,      \* line[t]: what t has to say; Nothing for a type no case names
  printed    \* printed[t]: what went to the console on t's behalf

vars == <<ready, owner, bufferA, bufferB, at, line, printed>>

Init ==
  /\ ready = FALSE /\ owner = Nothing
  /\ bufferA = Nothing /\ bufferB = Nothing
  /\ at = [t \in Threads |-> "idle"]
  /\ line = [t \in Threads |-> Nothing]
  /\ printed = [t \in Threads |-> Nothing]

Goto(t, place) == at' = [at EXCEPT ![t] = place]

\* _log_print, l_debug .. and __android_log_* up to the look at _log_mutex_ready
LogPrint(t, l) ==
  /\ at[t] = "idle"
  /\ (~ready /\ FirstUseAlone) => \A u \in Threads : at[u] = "idle"
  /\ line' = [line EXCEPT ![t] = l]
  /\ printed' = [printed EXCEPT ![t] = Nothing]
  /\ Goto(t, IF ready THEN "lock" ELSE "create")
  /\ UNCHANGED <<ready, owner, bufferA, bufferB>>

\* sceKernelCreateLwMutex: a new, free mutex in the same memory
CreateMutex(t) ==
  /\ at[t] = "create"
  /\ owner' = Nothing
  /\ Goto(t, "publish")
  /\ UNCHANGED <<ready, bufferA, bufferB, line, printed>>

CreateFails(t) ==
  /\ at[t] = "create"
  /\ Goto(t, "idle")
  /\ UNCHANGED <<ready, owner, bufferA, bufferB, line, printed>>

Publish(t) ==
  /\ at[t] = "publish"
  /\ ready' = TRUE
  /\ Goto(t, "lock")
  /\ UNCHANGED <<owner, bufferA, bufferB, line, printed>>

Lock(t) ==
  /\ at[t] = "lock" /\ owner = Nothing
  /\ owner' = t
  /\ Goto(t, "prefix")
  /\ UNCHANGED <<ready, bufferA, bufferB, line, printed>>

\* the type's prefix is put before the format
Prefix(t) ==
  /\ at[t] = "prefix" /\ line[t] # Nothing
  /\ bufferA' = line[t]
  /\ Goto(t, "format")
  /\ UNCHANGED <<ready, owner, bufferB, line, printed>>

UnknownType(t) ==
  /\ at[t] = "prefix" /\ line[t] = Nothing
  /\ owner' = Nothing
  /\ Goto(t, "idle")
  /\ UNCHANGED <<ready, bufferA, bufferB, line, printed>>

\* the mutex let go once the line is formatted, before it is printed
FormatUnlocked(t) ==
  /\ at[t] = "format"
  /\ bufferB' = bufferA
  /\ owner' = Nothing
  /\ Goto(t, "print")
  /\ UNCHANGED <<ready, bufferA, line, printed>>

Format(t) ==
  /\ at[t] = "format"
  /\ bufferB' = bufferA
  /\ Goto(t, "print")
  /\ UNCHANGED <<ready, owner, bufferA, line, printed>>

ConsolePrint(t) ==
  /\ at[t] = "print"
  /\ printed' = [printed EXCEPT ![t] = bufferB]
  /\ Goto(t, "unlock")
  /\ UNCHANGED <<ready, owner, bufferA, bufferB, line>>

Unlock(t) ==
  /\ at[t] = "unlock"
  /\ owner' = IF ready THEN Nothing ELSE owner
  /\ Goto(t, "idle")
  /\ UNCHANGED <<ready, bufferA, bufferB, line, printed>>

Next ==
  \E t \in Threads :
    \/ \E l \in Lines \cup {Nothing} : LogPrint(t, l)
    \/ CreateMutex(t) \/ CreateFails(t) \/ Publish(t) \/ Lock(t)
    \/ Prefix(t) \/ UnknownType(t) \/ Format(t) \/ ConsolePrint(t) \/ Unlock(t)

\* What reaches the console for a caller is its own line, whoever logs meanwhile
\* (logger.c:33-82).
LinesWhole == \A t \in Threads : printed[t] \in {line[t], Nothing}
=============================================================================
