--------------------------- MODULE PthreadThreads ----------------------------
(***************************************************************************)
(* Thread creation, thread attributes and pthread_once in                  *)
(* source/reimpl/pthr.c.  A Bionic attribute lives in the caller's stack    *)
(* frame: the shim tells one it has met by a magic number in it, and a      *)
(* frame's next user finds what the last one left.                         *)
(***************************************************************************)
EXTENDS Integers, FiniteSets

CONSTANTS
  Threads,
  Frames,     \* stack slots the game keeps attributes in
  FreedAttr   \* what is read through the pointer to a freed newlib attribute

\* Bionic's PTHREAD_CREATE_JOINABLE and _DETACHED; pthread-embedded has them swapped.
Joinable == 0
Detached == 1
EmbeddedJoinable == 1

VARIABLES
  magic,    \* magic[f]: does the slot hold 0x42424242?
  embedded, \* embedded[f]: detach state of the newlib attribute real_ptr leads to
  asked,    \* asked[f]: the state the game wants of its attribute, Joinable by default
  inUse,    \* inUse[f]: does the game have an attribute there?
  born,     \* the detach states asked for and given, of the thread made last
  control,  \* the word of a pthread_once
  once,     \* once[t]: where t is in pthread_once
  ran       \* threads that ran init_routine

threadVars == <<magic, embedded, asked, inUse, born, control, once, ran>>

States == {Joinable, Detached}

ThreadsTypeOK ==
  /\ magic \in [Frames -> BOOLEAN] /\ inUse \in [Frames -> BOOLEAN]
  /\ embedded \in [Frames -> States \cup {FreedAttr}] /\ asked \in [Frames -> States]
  /\ born \in [wanted : States, given : States \cup {FreedAttr}]
  /\ control \in {0, 1}
  /\ once \in [Threads -> {"before", "called", "running", "returned"}]
  /\ ran \in SUBSET Threads

Init ==
  /\ magic = [f \in Frames |-> FALSE] /\ inUse = [f \in Frames |-> FALSE]
  /\ embedded = [f \in Frames |-> FreedAttr]
  /\ asked = [f \in Frames |-> Joinable]
  /\ born = [wanted |-> Joinable, given |-> EmbeddedJoinable]
  /\ control = 0 /\ once = [t \in Threads |-> "before"] /\ ran = {}

-----------------------------------------------------------------------------
\* _attr_t_static_init, what the newlib attribute says afterwards
RealAttr(f) == IF magic[f] THEN embedded[f] ELSE EmbeddedJoinable

AttrInit(f) ==
  /\ ~inUse[f] /\ inUse' = [inUse EXCEPT ![f] = TRUE]
  /\ magic' = [magic EXCEPT ![f] = TRUE]
  /\ embedded' = [embedded EXCEPT ![f] = RealAttr(f)]
  /\ asked' = [asked EXCEPT ![f] = Joinable]
  /\ UNCHANGED <<born, control, once, ran>>

AttrDestroyKeepsMagic(f) ==
  /\ inUse[f] /\ inUse' = [inUse EXCEPT ![f] = FALSE]
  /\ embedded' = [embedded EXCEPT ![f] = IF magic[f] THEN FreedAttr ELSE @]
  /\ UNCHANGED <<magic, asked, born, control, once, ran>>

\* pthread_attr_destroy_soloader frees the newlib attribute and clears the magic.
AttrDestroy(f) ==
  /\ inUse[f] /\ inUse' = [inUse EXCEPT ![f] = FALSE]
  /\ magic' = [magic EXCEPT ![f] = FALSE]
  /\ embedded' = [embedded EXCEPT ![f] = IF magic[f] THEN FreedAttr ELSE @]
  /\ UNCHANGED <<asked, born, control, once, ran>>

\* pthread_attr_setdetachstate_soloader, with its inversion
SetDetachState(f, state) ==
  /\ inUse[f]
  /\ asked' = [asked EXCEPT ![f] = state]
  /\ magic' = [magic EXCEPT ![f] = TRUE]
  /\ embedded' = [embedded EXCEPT ![f] = 1 - state]
  /\ UNCHANGED <<inUse, born, control, once, ran>>

\* pthread_attr_setstacksize_soloader
SetStackSize(f) ==
  /\ inUse[f]
  /\ magic' = [magic EXCEPT ![f] = TRUE]
  /\ embedded' = [embedded EXCEPT ![f] = RealAttr(f)]
  /\ UNCHANGED <<inUse, asked, born, control, once, ran>>

\* pthread_create_soloader, with an attribute ...
Create(f) ==
  /\ inUse[f]
  /\ magic' = [magic EXCEPT ![f] = TRUE]
  /\ embedded' = [embedded EXCEPT ![f] = RealAttr(f)]
  /\ born' = [wanted |-> asked[f], given |-> RealAttr(f)]
  /\ UNCHANGED <<inUse, asked, control, once, ran>>

\* ... or without
CreateDefault ==
  /\ born' = [wanted |-> Joinable, given |-> EmbeddedJoinable]
  /\ UNCHANGED <<magic, embedded, inUse, asked, control, once, ran>>

\* pthread_once_soloader
OnceCall(t) ==
  /\ once[t] = "before" /\ once' = [once EXCEPT ![t] = "called"]
  /\ UNCHANGED <<magic, embedded, inUse, asked, born, control, ran>>

\* Without the atomic exchange: the word is set when init_routine returns.
OnceTestOnly(t) ==
  /\ once[t] = "called" /\ UNCHANGED control
  /\ once' = [once EXCEPT ![t] = IF control = 0 THEN "running" ELSE "returned"]
  /\ ran' = IF control = 0 THEN ran \cup {t} ELSE ran
  /\ UNCHANGED <<magic, embedded, inUse, asked, born>>

OnceTest(t) ==
  /\ once[t] = "called" /\ control' = 1
  /\ once' = [once EXCEPT ![t] = IF control = 0 THEN "running" ELSE "returned"]
  /\ ran' = IF control = 0 THEN ran \cup {t} ELSE ran
  /\ UNCHANGED <<magic, embedded, inUse, asked, born>>

OnceReturn(t) ==
  /\ once[t] = "running" /\ once' = [once EXCEPT ![t] = "returned"]
  /\ control' = 1
  /\ UNCHANGED <<magic, embedded, inUse, asked, born, ran>>

Next ==
  \/ \E f \in Frames : \/ AttrInit(f) \/ AttrDestroy(f) \/ SetStackSize(f) \/ Create(f)
                       \/ \E state \in States : SetDetachState(f, state)
  \/ CreateDefault
  \/ \E t \in Threads : OnceCall(t) \/ OnceTest(t) \/ OnceReturn(t)

Spec == Init /\ [][Next]_threadVars

-----------------------------------------------------------------------------
\* A thread is joinable or detached as the game wants it, whatever the stack
\* slot of its attribute was used for before (pthr.c:100-108, 319-344): one
\* made joinable by mistake leaks, one detached by mistake cannot be joined.
ThreadAsAsked == born.given = 1 - born.wanted

\* However many threads race to pthread_once, one runs the routine
\* (pthr.c:383-389).
OnceRoutineOnce == Cardinality(ran) <= 1
=============================================================================
