---------------------------- MODULE DurableStore ----------------------------
(***************************************************************************)
(* What the preference store promises the game (preferences.c:1-5, "a      *)
(* small durable key/value store"): every read sees the latest write, and  *)
(* when the process dies the store falls back to one complete version that *)
(* was current at some earlier moment, never to a mixture.  It is the      *)
(* latest one persisted, as long as the environment lets the store back it *)
(* up and read it; failed says when it did not.                            *)
(***************************************************************************)
CONSTANTS
  Keys,       \* preference names
  Vals,       \* preference values
  Absent,     \* "this key has no value", and the answer of a failed read
  Suppress    \* [Vals -> Vals]: a value with the gold-ad hint acknowledged

VARIABLES
  current,    \* the version every call of this process sees
  durable,    \* the version the next process will start from
  spare,      \* the version kept beside it
  phase,      \* "fresh" until the process has looked at the store, then "open",
              \*   or "replacing" the durable version by the current one
  answer,     \* what the last read returned, Absent before the first one
  failed      \* the environment: which of "read" and "backup" have failed

vars == <<current, durable, spare, phase, answer>>

Versions == [Keys -> Vals \cup {Absent}]
Nothing == [k \in Keys |-> Absent]

Init ==
  /\ durable \in Versions /\ spare \in Versions
  /\ current = durable
  /\ phase = "fresh"
  /\ answer = Absent

Becomes(from, to) == phase = from /\ phase' = to

\* The process takes up the durable version, or what it could read.
Start ==
  /\ Becomes("fresh", "open")
  /\ \/ current' = durable
     \/ "read" \in failed' /\ current' \in {spare, Nothing}
  /\ UNCHANGED <<durable, spare, answer>>

Put(k, v) ==
  /\ Becomes("open", "open")
  /\ current' = [current EXCEPT ![k] = Suppress[v]]
  /\ UNCHANGED <<durable, spare, answer>>

Delete(k) ==
  /\ Becomes("open", "open")
  /\ current' = [current EXCEPT ![k] = Absent]
  /\ UNCHANGED <<durable, spare, answer>>

Read(k, default) ==
  /\ Becomes("open", "open")
  /\ answer' = Suppress[IF current[k] = Absent THEN default ELSE current[k]]
  /\ UNCHANGED <<current, durable, spare>>

\* A read that fails says so.
Unanswered ==
  /\ Becomes("open", "open")
  /\ answer' = Absent
  /\ UNCHANGED <<current, durable, spare>>

\* The spare version is replaced by the durable one, not in one step.
BackUp ==
  /\ Becomes("open", "open")
  /\ spare' \in {Nothing, durable}
  /\ UNCHANGED <<current, durable, answer>>

\* The durable version is given up, the spare one stands in for it: the same
\* version, if it could be backed up.
Replace ==
  /\ Becomes("open", "replacing")
  /\ spare = durable \/ "backup" \in failed
  /\ durable' = spare
  /\ UNCHANGED <<current, spare, answer>>

\* The current version becomes durable as a whole, in one step.
Persist ==
  /\ Becomes("replacing", "open")
  /\ durable' = current
  /\ UNCHANGED <<current, spare, answer>>

\* The process dies: writes after the last Persist are forgotten.
Die ==
  /\ phase' = "fresh"
  /\ current' = durable
  /\ answer' = Absent
  /\ UNCHANGED <<durable, spare>>

Next ==
  \/ Start
  \/ \E k \in Keys, v \in Vals : Put(k, v) \/ Read(k, v)
  \/ \E k \in Keys : Delete(k)
  \/ Unanswered \/ BackUp \/ Replace \/ Persist
  \/ Die

Spec == Init /\ [][Next]_vars
=============================================================================
