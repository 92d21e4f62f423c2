---------------------------- MODULE MCPreferences ----------------------------
(* Instances of Preferences for TLC. *)
EXTENDS Preferences

\* One value still carries the gold-ad hint, the other is its acknowledged
\* form; removing a key gives versions a third entry to differ in.
MCVals == {"hinted", "acknowledged"}
MCSuppress == [v \in MCVals |-> "acknowledged"]
\* Where the text of a value does not matter, one value and its absence.
MCOneVal == {"acknowledged"}
MCAsIs == [v \in MCOneVal |-> v]
=============================================================================
