------------------------------- MODULE JavaHeap -------------------------------
(***************************************************************************)
(* Java references and arrays of the fake JNI (lib/falso_jni/FalsoJNI.c):  *)
(* every reference, local or global, is the address of the object    *)
(* itself, no collector runs, and DeleteGlobalRef frees.  The eight array  *)
(* families differ in the width of their cells only and are one here, the  *)
(* object arrays are a second; what a cell holds is kept as it is.         *)
(*                                                                         *)
(* A reference the game holds carries, as a ghost, the object it was made  *)
(* for, and java says what Android's objects would hold.                   *)
(***************************************************************************)
EXTENDS Integers, Sequences, FiniteSets

CONSTANTS
  Addresses,   \* what malloc hands out, and hands out again
  Held,        \* where the game keeps its references
  MaxLength,   \* longest array of this model
  MaxObjects,  \* objects made in one behaviour of this model
  Values,      \* what a primitive cell holds
  Unset,       \* a cell nobody wrote; the model claims nothing of it
  NullRef,     \* the NULL reference
  Careful      \* TRUE: the game deletes a global reference last

HeapAssumption ==
  /\ MaxLength \in Nat
  /\ NullRef \notin Addresses \cup Nat
  /\ NullRef \notin [id : Nat, cells : Seq(Values \cup Addresses \cup {NullRef})]
  /\ NullRef \notin [scope : {"local", "global", "elements"}, address : Addresses, id : Nat]

VARIABLES
  heap,   \* address -> the object there, or NullRef
  java,   \* ghost: object -> what Android's would be
  refs,   \* place -> the reference held there, or NullRef
  read    \* ghost: whether all reads answered what Android's would have

heapVars == <<heap, java, refs, read>>

Objects == DOMAIN java

Denotes(address, id) == heap[address] # NullRef /\ heap[address].id = id

HeldRefs == {refs[h] : h \in Held} \ {NullRef}
\* The places whose reference is of this scope
Scoped(scope) == {h \in Held : refs[h] # NullRef /\ refs[h].scope = scope}

\* What Android keeps: what these references lead to, directly or through an
\* object array.
Reachable(held) ==
  LET rooted == {r.id : r \in held} IN
  rooted \cup
    UNION {{java[o].cells[i] : i \in DOMAIN java[o].cells} \ {NullRef} :
           o \in {p \in rooted : java[p].kind = "objects"}}

\* The places that hold an array of this kind; elements pointers are not arrays.
Arrays(kind) ==
  {h \in Held : /\ refs[h] # NullRef /\ refs[h].scope # "elements"
                /\ java[refs[h].id].kind = kind
                /\ Denotes(refs[h].address, refs[h].id)}

Init ==
  /\ heap = [a \in Addresses |-> NullRef]
  /\ java = <<>>
  /\ refs = [h \in Held |-> NullRef]
  /\ read = TRUE

-----------------------------------------------------------------------------
(* Making objects *)

Hold(place, scope, address, id) ==
  refs' = [refs EXCEPT ![place] = [scope |-> scope, address |-> address, id |-> id]]

\* An object at a free address, its cells as Android starts them and as they
\* are; when malloc fails the game gets NULL.
Make(place, kind, cells, javaCells) ==
  /\ Len(java) < MaxObjects /\ refs[place] = NullRef
  /\ \/ /\ \A a \in Addresses : heap[a] # NullRef
        /\ UNCHANGED <<heap, java, refs>>
     \/ \E a \in {b \in Addresses : heap[b] = NullRef} :
          /\ heap' = [heap EXCEPT ![a] = [id |-> Len(java) + 1, cells |-> cells]]
          /\ java' = Append(java, [kind |-> kind, cells |-> javaCells])
          /\ Hold(place, "local", a, Len(java) + 1)
  /\ UNCHANGED read

\* The cells are not cleared.
NewArray(place, length) ==
  \E stray \in [1..length -> Values] :
    Make(place, "values", stray, [i \in 1..length |-> Unset])

\* initialElement in every cell
NewObjectArray(place, length, initial) ==
  Make(place, "objects",
       [i \in 1..length |-> IF initial = NullRef THEN NullRef ELSE initial.address],
       [i \in 1..length |-> IF initial = NullRef THEN NullRef ELSE initial.id])

\* allocate and allocateDirect: a buffer is a byte array.
ByteBufferAllocate(place, capacity) == NewArray(place, capacity)

NewString(place) == Make(place, "string", <<>>, <<>>)

-----------------------------------------------------------------------------
(* References *)

\* NewGlobalRef and NewLocalRef answer the address they got.
NewRef(from, to, scope) ==
  /\ refs[from] # NullRef /\ refs[from].scope # "elements" /\ refs[to] = NullRef
  /\ Hold(to, scope, refs[from].address, refs[from].id)
  /\ UNCHANGED <<heap, java, read>>

\* wrap answers the array it got.
ByteBufferWrap(from, to) == NewRef(from, to, "local")

Drop(place) == refs' = [refs EXCEPT ![place] = NullRef]

\* jda_free of an array, free of anything else.
DeleteGlobalRef(place) ==
  /\ Careful => refs[place].id \notin
                  Reachable({refs[h] : h \in Held \ {place}} \ {NullRef})
  /\ heap' = [heap EXCEPT ![refs[place].address] = NullRef]
  /\ Drop(place)
  /\ UNCHANGED <<java, read>>

FreeingLocalRef(place) ==
  /\ heap' = [heap EXCEPT ![refs[place].address] = NullRef]
  /\ Drop(place)
  /\ UNCHANGED <<java, read>>

\* Ignored, as is Release<Type>ArrayElements; the game uses what it gave up no more.
DeleteLocalRef(place) ==
  /\ Drop(place)
  /\ UNCHANGED <<heap, java, read>>

\* The references of the frame are gone for the game; the result is NULL.
PopLocalFrame ==
  /\ refs' = [h \in Held |-> IF h \in Scoped("local") THEN NullRef ELSE refs[h]]
  /\ UNCHANGED <<heap, java, read>>

-----------------------------------------------------------------------------
(* Arrays *)

Cells(place) == heap[refs[place].address].cells
JavaCells(place) == java[refs[place].id].cells

\* Android's answer is known where the game wrote before it read.
Agree(got, want) ==
  /\ Len(got) = Len(want)
  /\ \A i \in DOMAIN want : want[i] \in {Unset, got[i]}

Reads(got, want) ==
  /\ read' = (read /\ Agree(got, want))
  /\ UNCHANGED <<heap, java, refs>>

IsSameObject(one, other) ==
  Reads(<<refs[one].address = refs[other].address>>, <<refs[one].id = refs[other].id>>)

GetArrayLength(place) == Reads(<<Len(Cells(place))>>, <<Len(JavaCells(place))>>)

\* The check both region families share.
Refused(array, start, length) == start < 0 \/ length > Len(array)

Region(array, start, length) == SubSeq(array, start + 1, start + length)

GetArrayRegion(place, start, length) ==
  IF Refused(Cells(place), start, length)
    THEN UNCHANGED heapVars
    ELSE Reads(Region(Cells(place), start, length), Region(JavaCells(place), start, length))

OverFromFirst(array, start, values) ==
  [i \in DOMAIN array |-> IF i <= Len(values) THEN values[i] ELSE array[i]]

Over(array, start, values) ==
  [i \in DOMAIN array |-> IF i - start \in DOMAIN values THEN values[i - start] ELSE array[i]]

Write(place, cells, javaCells) ==
  /\ heap' = [heap EXCEPT ![refs[place].address].cells = cells]
  /\ java' = [java EXCEPT ![refs[place].id].cells = javaCells]
  /\ UNCHANGED <<refs, read>>

SetArrayRegion(place, start, values) ==
  IF Refused(Cells(place), start, Len(values))
    THEN UNCHANGED heapVars
    ELSE Write(place, Over(Cells(place), start, values),
               [i \in DOMAIN JavaCells(place) |->
                  IF i \in (start + 1)..(start + Len(values))
                    THEN values[i - start] ELSE JavaCells(place)[i]])

\* System.arraycopy, a memmove that checks no range.
ArrayCopy(from, srcPos, to, dstPos, length) ==
  Write(to, Over(Cells(to), dstPos, Region(Cells(from), srcPos, length)),
        [i \in DOMAIN JavaCells(to) |->
           IF i \in (dstPos + 1)..(dstPos + length)
             THEN JavaCells(from)[i - dstPos + srcPos] ELSE JavaCells(to)[i]])

\* Get<Type>ArrayElements and GetPrimitiveArrayCritical answer the array itself.
GetArrayElements(from, to) ==
  /\ refs[to] = NullRef
  /\ Hold(to, "elements", refs[from].address, refs[from].id)
  /\ UNCHANGED <<heap, java, read>>

\* The game writes through what GetArrayElements answered.
WriteElement(place, i, value) ==
  Write(place, [Cells(place) EXCEPT ![i] = value], [JavaCells(place) EXCEPT ![i] = value])

\* An index out of bounds yields NULL.
GetObjectArrayElement(from, index, to) ==
  LET inside == 0 <= index /\ index < Len(Cells(from))
      cell == IF inside THEN Cells(from)[index + 1] ELSE NullRef
      want == IF index \in 0..(Len(JavaCells(from)) - 1) THEN JavaCells(from)[index + 1]
                                                         ELSE NullRef
  IN  /\ refs[to] = NullRef
      /\ IF want = NullRef THEN UNCHANGED refs ELSE Hold(to, "local", cell, want)
      /\ read' = (read /\ (cell = NullRef) = (want = NullRef))
      /\ UNCHANGED <<heap, java>>

\* An index out of bounds is ignored.
SetObjectArrayElement(place, index, element) ==
  IF 0 <= index /\ index < Len(Cells(place))
    THEN Write(place, [Cells(place) EXCEPT ![index + 1] = element.address],
                      [JavaCells(place) EXCEPT ![index + 1] = element.id])
    ELSE UNCHANGED heapVars

-----------------------------------------------------------------------------
\* Elements of object arrays are strings or arrays of values in this model.
Elements == {r \in HeldRefs : r.scope # "elements" /\ java[r.id].kind # "objects"}

\* The game's regions fit; a region the check refuses is one Android refuses.
Regions(array) ==
  {r \in (-1..MaxLength) \X (0..(MaxLength + 1)) :
     Refused(array, r[1], r[2]) \/ r[1] + r[2] <= Len(array)}

\* The game's copies fit.
Copies(from, to) ==
  {c \in (0..MaxLength) \X (0..MaxLength) \X (1..MaxLength) :
     c[1] + c[3] <= Len(from) /\ c[2] + c[3] <= Len(to)}

Next ==
  \/ \E h \in Held, n \in 0..MaxLength :
       \/ NewArray(h, n)
       \/ ByteBufferAllocate(h, n)
       \/ \E e \in Elements \cup {NullRef} : NewObjectArray(h, n, e)
  \/ \E h \in Held : NewString(h)
  \/ \E h, g \in Held, scope \in {"local", "global"} : NewRef(h, g, scope)
  \/ \E h \in Arrays("values"), g \in Held : ByteBufferWrap(h, g)
  \/ \E h \in Scoped("global") : DeleteGlobalRef(h)
  \/ \E h \in Scoped("local") \cup Scoped("elements") : DeleteLocalRef(h)
  \/ PopLocalFrame
  \/ \E h \in Arrays("values") :
       \/ GetArrayLength(h)
       \/ \E r \in Regions(Cells(h)) :
            \/ GetArrayRegion(h, r[1], r[2])
            \/ \E v \in Values : SetArrayRegion(h, r[1], [i \in 1..r[2] |-> v])
       \/ \E g \in Held : GetArrayElements(h, g)
       \/ \E g \in Arrays("values") : \E c \in Copies(Cells(h), Cells(g)) :
            ArrayCopy(h, c[1], g, c[2], c[3])
  \/ \E h \in Scoped("elements"), v \in Values : \E i \in DOMAIN Cells(h) : WriteElement(h, i, v)
  \/ \E h, g \in Scoped("local") \cup Scoped("global") : IsSameObject(h, g)
  \/ \E h \in Arrays("objects"), index \in -1..MaxLength :
       \/ \E g \in Held : GetObjectArrayElement(h, index, g)
       \/ \E e \in Elements : SetObjectArrayElement(h, index, e)

Spec == Init /\ [][Next]_heapVars

-----------------------------------------------------------------------------
\* As long as the game holds a reference or an elements pointer, it leads to the
\* object it was made for, however often addresses are reused in between, and so
\* does every element of an object array (FalsoJNI.c:190-192, "it should be safe
\* to just return `obj` back").
HeldObjectsAlive ==
  /\ \A r \in HeldRefs : Denotes(r.address, r.id)
  /\ \A h \in Arrays("objects") : \A i \in DOMAIN Cells(h) :
       JavaCells(h)[i] # NullRef => Denotes(Cells(h)[i], JavaCells(h)[i])

\* What regions, lengths and elements answer is what Android answers, wherever
\* the game wrote before it read.
ReadsLikeJava == read
=============================================================================
