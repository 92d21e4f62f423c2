------------------------------- MODULE MCJavaVm -------------------------------
(* JavaStrings, JavaRegistry and JavaHeap share no state: a behaviour          *)
(* exercises one of them, and one run covers all three.                        *)
EXTENDS MCJavaStrings

CONSTANTS Keys, Words, Ints, Hashes, Absent            \* of the registry
CONSTANTS Addresses, Held, MaxLength, MaxObjects, Values, Unset, NullRef, Careful

VARIABLES
  prefs, saved, fields, last, java, javaSaved, \* of the registry
  heap, objects, refs, read,                   \* of the heap
  part                                         \* which one is exercised

Registry == INSTANCE JavaRegistry
Heap == INSTANCE JavaHeap WITH java <- objects

ASSUME VmAssumption == Heap!HeapAssumption /\ Registry!RegistryAssumption

VmInit ==
  /\ Init /\ Registry!Init /\ Heap!Init
  /\ part \in {"strings", "registry", "heap"}

VmNext ==
  \/ /\ part = "strings" /\ Next
     /\ UNCHANGED <<part, prefs, saved, fields, last, java, javaSaved,
                   heap, objects, refs, read>>
  \/ /\ part = "registry" /\ Registry!Next
     /\ UNCHANGED <<part, utf8, utf16, chars, text, heap, objects, refs, read>>
  \/ /\ part = "heap" /\ Heap!Next
     /\ UNCHANGED <<part, utf8, utf16, chars, text, prefs, saved, fields, last,
                   java, javaSaved>>

VmSpec ==
  VmInit /\ [][VmNext]_<<part, utf8, utf16, chars, text, prefs, saved, fields, last,
                        java, javaSaved, heap, objects, refs, read>>

\* The values of MCJavaRegistry
VmWords == {"true", "26f"}
VmInts == {-1, 7}
VmHashes == {140, 32768 + 141, 142, 153}

\* Typed preferences read back as they do on Android (java.c:232-285).
PreferencesLikeJava == Registry!PreferencesLikeJava

\* Methods nobody registered do nothing (java.c:8).
UnknownMethodsHarmless == Registry!UnknownMethodsHarmless

\* References and elements pointers lead to what they were made for
\* (FalsoJNI.c:187-217, 1521-1615).
HeldObjectsAlive == Heap!HeldObjectsAlive

\* Arrays answer what Java's would (FalsoJNI.c:1401-1432, 1628-1690).
ReadsLikeJava == Heap!ReadsLikeJava
=============================================================================
