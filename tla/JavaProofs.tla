----------------------------- MODULE JavaProofs -----------------------------
(***************************************************************************)
(* Proofs about the fake Java machine's heap and registry, for every value *)
(* of their constants.                                                     *)
(***************************************************************************)
EXTENDS MCJavaVm, TLAPS

vmVars ==
  <<part, utf8, utf16, chars, text, prefs, saved, fields, last, java, javaSaved,
    heap, objects, refs, read>>

-----------------------------------------------------------------------------
(* Arrays as sequences *)

LEMMA FunctionSeq ==
  ASSUME NEW S, NEW n \in Nat, NEW f \in [1..n -> S]
  PROVE  f \in Seq(S) /\ Len(f) = n /\ DOMAIN f = 1..n
OBVIOUS

LEMMA SeqDomain ==
  ASSUME NEW S, NEW s \in Seq(S)
  PROVE  Len(s) \in Nat /\ DOMAIN s = 1..Len(s) /\ \A i \in DOMAIN s : s[i] \in S
OBVIOUS

LEMMA SameLength ==
  ASSUME NEW S, NEW T, NEW s \in Seq(S), NEW t \in Seq(T), DOMAIN s = DOMAIN t
  PROVE  Len(s) = Len(t)
<1>1. PICK m \in Nat, n \in Nat : m = Len(s) /\ n = Len(t)
  OBVIOUS
<1>2. 1..m = 1..n
  BY <1>1
<1>3. m = n
  BY <1>2
<1> QED BY <1>1, <1>3

\* What replaces every cell by some other value is an array of that length.
LEMMA Rewritten ==
  ASSUME NEW S, NEW T, NEW s \in Seq(S), NEW t, t = [i \in DOMAIN s |-> t[i]],
         \A i \in DOMAIN s : t[i] \in T
  PROVE  t \in Seq(T) /\ DOMAIN t = DOMAIN s /\ Len(t) = Len(s)
<1>1. PICK n \in Nat : n = Len(s)
  OBVIOUS
<1>2. DOMAIN s = 1..n
  BY <1>1
<1>3. t \in [1..n -> T]
  BY <1>2
<1> QED BY <1>1, <1>2, <1>3, FunctionSeq

LEMMA Part ==
  ASSUME NEW S, NEW s \in Seq(S), NEW start \in Nat, NEW length \in Nat,
         start + length <= Len(s)
  PROVE  /\ Heap!Region(s, start, length) \in Seq(S)
         /\ DOMAIN Heap!Region(s, start, length) = 1..length
         /\ \A i \in 1..length : Heap!Region(s, start, length)[i] = s[start + i]
<1>1. PICK n \in Nat : n = Len(s)
  OBVIOUS
<1>2. \A i \in 1..length : start + i \in 1..n
  BY <1>1
<1> DEFINE r == SubSeq(s, start + 1, start + length)
<1>3. r \in Seq(S) /\ Len(r) = length
  BY <1>1, <1>2
<1>4. \A i \in 1..length : r[i] = s[start + i]
  BY <1>1, <1>2
<1>5. DOMAIN r = 1..length
  <2> HIDE DEF r
  <2> QED BY <1>3
<1> QED BY <1>3, <1>4, <1>5 DEF Heap!Region

-----------------------------------------------------------------------------
(* References and arrays *)

Kinds == {"values", "objects", "string"}
Scopes == {"local", "global", "elements"}
HeapCells == Values \cup Addresses \cup {NullRef}
AndroidCells == {Unset, NullRef} \cup Values \cup Nat
AndroidObjects == [kind : Kinds, cells : Seq(AndroidCells)]
There == [id : Nat, cells : Seq(HeapCells)]
References == [scope : Scopes, address : Addresses, id : Nat]

HeapTypes ==
  /\ objects \in Seq(AndroidObjects)
  /\ heap \in [Addresses -> There \cup {NullRef}]
  /\ refs \in [Held -> References \cup {NullRef}]

\* Cells that are like those of Android's array
Alike(kind, cells, wanted) ==
  /\ DOMAIN cells = DOMAIN wanted
  /\ kind = "values" => \A i \in DOMAIN wanted : wanted[i] \in {Unset, cells[i]}
  /\ kind = "objects" =>
       \A i \in DOMAIN wanted :
         \/ wanted[i] = NullRef /\ cells[i] = NullRef
         \/ /\ wanted[i] \in DOMAIN objects /\ objects[wanted[i]].kind # "objects"
            /\ cells[i] \in Addresses

\* Every object of an object array is still there.
Alive(cells, wanted) ==
  \A i \in DOMAIN wanted : wanted[i] # NullRef => Heap!Denotes(cells[i], wanted[i])

Leads(r) ==
  /\ Heap!Denotes(r.address, r.id)
  /\ r.scope = "elements" => objects[r.id].kind = "values"
  /\ objects[r.id].kind = "objects" => Alive(heap[r.address].cells, objects[r.id].cells)

HeapInv ==
  /\ HeapTypes
  /\ \A a \in Addresses : heap[a] # NullRef =>
       /\ heap[a].id \in DOMAIN objects
       /\ Alike(objects[heap[a].id].kind, heap[a].cells, objects[heap[a].id].cells)
  /\ \A a, b \in Addresses :
       heap[a] # NullRef /\ heap[b] # NullRef /\ heap[a].id = heap[b].id => a = b
  /\ \A h \in Held : refs[h] # NullRef => Leads(refs[h])
  /\ read = TRUE

LEMMA Sentinels ==
  MaxLength \in Nat /\ NullRef \notin Addresses \cup Nat /\ NullRef \notin There
    /\ NullRef \notin References
BY VmAssumption DEF Heap!HeapAssumption, There, References, HeapCells, Scopes

\* Steps that touch the references alone
LEMMA OnlyRefs ==
  ASSUME HeapInv, UNCHANGED <<heap, objects>>, read' = TRUE,
         refs' \in [Held -> References \cup {NullRef}],
         \A h \in Held : refs'[h] # NullRef => Leads(refs'[h])
  PROVE  HeapInv'
<1>1. HeapTypes'
  BY DEF HeapInv, HeapTypes
<1>2. \A h \in Held : refs'[h] # NullRef => Leads(refs[h])'
  BY DEF Leads, Alive, Heap!Denotes
<1> QED BY <1>1, <1>2 DEF HeapInv, Alike

LEMMA HoldKeeps ==
  ASSUME HeapInv, NEW place \in Held, NEW scope \in Scopes, NEW address \in Addresses,
         NEW id \in Nat, Leads([scope |-> scope, address |-> address, id |-> id]),
         Heap!Hold(place, scope, address, id), UNCHANGED <<heap, objects>>, read' = TRUE
  PROVE  HeapInv'
<1> DEFINE r == [scope |-> scope, address |-> address, id |-> id]
<1>1. r \in References
  BY DEF References
<1>2. refs' = [refs EXCEPT ![place] = r] /\ Leads(r)
  BY DEF Heap!Hold
<1> HIDE DEF r
<1>3. refs' \in [Held -> References \cup {NullRef}]
  BY <1>1, <1>2 DEF HeapInv, HeapTypes
<1>4. \A h \in Held : refs'[h] # NullRef => Leads(refs'[h])
  BY <1>2 DEF HeapInv, HeapTypes
<1> QED BY <1>3, <1>4, OnlyRefs

\* Fewer references, and nothing else
LEMMA DropKeeps ==
  ASSUME HeapInv, NEW dropped \in SUBSET Held,
         refs' = [h \in Held |-> IF h \in dropped THEN NullRef ELSE refs[h]],
         UNCHANGED <<heap, objects>>, read' = TRUE
  PROVE  HeapInv'
<1>1. refs' \in [Held -> References \cup {NullRef}]
  BY DEF HeapInv, HeapTypes
<1>2. \A h \in Held : refs'[h] # NullRef => Leads(refs'[h])
  BY DEF HeapInv
<1> QED BY <1>1, <1>2, OnlyRefs

LEMMA MakeKeeps ==
  ASSUME HeapInv, NEW place \in Held, NEW kind \in Kinds,
         NEW cells \in Seq(HeapCells), NEW wanted \in Seq(AndroidCells),
         Alike(kind, cells, wanted), kind = "objects" => Alive(cells, wanted),
         Heap!Make(place, kind, cells, wanted)
  PROVE  HeapInv'
<1>1. CASE UNCHANGED <<heap, objects, refs>>
  BY <1>1, OnlyRefs DEF HeapInv, HeapTypes, Heap!Make
<1>2. ASSUME NEW a \in Addresses, heap[a] = NullRef,
             heap' = [heap EXCEPT ![a] = [id |-> Len(objects) + 1, cells |-> cells]],
             objects' = Append(objects, [kind |-> kind, cells |-> wanted]),
             Heap!Hold(place, "local", a, Len(objects) + 1), UNCHANGED read
      PROVE  HeapInv'
  <2>1. PICK n \in Nat : n = Len(objects)
    BY DEF HeapInv, HeapTypes
  <2> DEFINE new == [kind |-> kind, cells |-> wanted]
             there == [id |-> n + 1, cells |-> cells]
             r == [scope |-> "local", address |-> a, id |-> n + 1]
  <2>2. new \in AndroidObjects /\ new.kind = kind /\ new.cells = wanted
    BY DEF AndroidObjects
  <2>3. there \in There /\ there.id = n + 1 /\ there.cells = cells
    BY DEF There
  <2>4. r \in References /\ r.scope = "local" /\ r.address = a /\ r.id = n + 1
    BY DEF References, Scopes
  <2>5. heap' = [heap EXCEPT ![a] = there] /\ refs' = [refs EXCEPT ![place] = r]
        /\ objects' = Append(objects, new)
    BY <1>2, <2>1 DEF Heap!Hold
  <2> HIDE DEF new, there, r
  <2>6. objects' \in Seq(AndroidObjects)
    BY <2>2, <2>5 DEF HeapInv, HeapTypes
  <2>7. DOMAIN objects = 1..n /\ DOMAIN objects' = 1..(n + 1)
    BY <2>1, <2>2, <2>5 DEF HeapInv, HeapTypes
  <2>8. objects'[n + 1] = new /\ \A i \in 1..n : objects'[i] = objects[i]
    BY <2>1, <2>2, <2>5 DEF HeapInv, HeapTypes
  <2>9. HeapTypes'
    BY <2>3, <2>4, <2>5, <2>6 DEF HeapInv, HeapTypes
  <2>10. heap'[a] = there /\ \A b \in Addresses \ {a} : heap'[b] = heap[b]
    BY <2>5 DEF HeapInv, HeapTypes
  <2>11. there # NullRef /\ r # NullRef
    BY <2>3, <2>4, Sentinels
  <2>12. \A b \in Addresses : heap[b] # NullRef =>
           b # a /\ heap[b].id \in 1..n /\ heap'[b] = heap[b]
    BY <1>2, <2>7, <2>10 DEF HeapInv
  <2>13. \A b, id : b \in Addresses /\ Heap!Denotes(b, id) => Heap!Denotes(b, id)'
    BY <2>12 DEF Heap!Denotes
  <2>14. ASSUME NEW b \in Addresses, heap'[b] # NullRef
         PROVE  /\ heap'[b].id \in DOMAIN objects'
                /\ Alike(objects[heap[b].id].kind, heap[b].cells, objects[heap[b].id].cells)'
    <3>1. CASE b = a
      BY <3>1, <2>2, <2>3, <2>7, <2>8, <2>10 DEF Alike
    <3>2. CASE b # a
      <4>1. heap[b] # NullRef /\ heap'[b] = heap[b]
        BY <3>2, <2>10, <2>14
      <4>2. heap[b].id \in 1..n
        BY <4>1, <2>12
      <4>3. Alike(objects[heap[b].id].kind, heap[b].cells, objects[heap[b].id].cells)
        BY <4>1 DEF HeapInv
      <4>4. objects'[heap[b].id] = objects[heap[b].id]
        BY <4>2, <2>8
      <4>5. Alike(objects[heap[b].id].kind, heap[b].cells, objects[heap[b].id].cells)'
        <5>1. \A o \in DOMAIN objects : o \in DOMAIN objects' /\ objects'[o].kind = objects[o].kind
          BY <2>7, <2>8
        <5> QED BY <4>1, <4>3, <4>4, <5>1 DEF Alike
      <4>6. heap'[b].id \in DOMAIN objects'
        BY <4>1, <4>2, <2>7
      <4> QED BY <4>5, <4>6
    <3> QED BY <3>1, <3>2
  <2>15. \A b, c \in Addresses :
           heap'[b] # NullRef /\ heap'[c] # NullRef /\ heap'[b].id = heap'[c].id => b = c
    BY <2>3, <2>10, <2>12 DEF HeapInv
  <2>16. ASSUME NEW h \in Held, refs'[h] # NullRef PROVE Leads(refs[h])'
    <3>1. CASE h = place
      <4>1. refs'[h] = r
        BY <3>1, <2>5 DEF HeapInv, HeapTypes
      <4>2. Heap!Denotes(a, n + 1)'
        BY <2>3, <2>10, <2>11 DEF Heap!Denotes
      <4>3. kind = "objects" => \A i \in DOMAIN wanted : wanted[i] # NullRef =>
              cells[i] \in Addresses /\ Heap!Denotes(cells[i], wanted[i])
        BY DEF Alike, Alive
      <4> QED BY <4>1, <4>2, <4>3, <2>2, <2>3, <2>4, <2>8, <2>10, <2>13 DEF Leads, Alive
    <3>2. CASE h # place
      <4>1. refs'[h] = refs[h] /\ refs[h] \in References /\ Leads(refs[h])
        BY <3>2, <2>5, <2>16 DEF HeapInv, HeapTypes
      <4> DEFINE address == refs[h].address
                 id == refs[h].id
      <4>2. address \in Addresses /\ heap[address] # NullRef /\ heap[address].id = id
        BY <4>1 DEF Leads, Heap!Denotes, References
      <4>3. heap'[address] = heap[address] /\ id \in 1..n /\ objects'[id] = objects[id]
        BY <4>2, <2>8, <2>12
      <4>4. objects[id].kind = "objects" =>
              \A i \in DOMAIN objects[id].cells : objects[id].cells[i] # NullRef =>
                heap[address].cells[i] \in Addresses
        BY <4>2 DEF HeapInv, Alike
      <4> QED BY <4>1, <4>2, <4>3, <4>4, <2>13 DEF Leads, Alive
    <3> QED BY <3>1, <3>2
  <2> QED BY <2>9, <2>14, <2>15, <2>16, <1>2 DEF HeapInv
<1> QED BY <1>1, <1>2 DEF Heap!Make

\* What a reference leads to, in terms of what HeapInv says of it
LEMMA Led ==
  ASSUME HeapInv, NEW h \in Held, refs[h] # NullRef
  PROVE  LET r == refs[h] IN
         /\ r \in References /\ r.address \in Addresses /\ r.id \in DOMAIN objects
         /\ heap[r.address] # NullRef /\ heap[r.address] \in There /\ heap[r.address].id = r.id
         /\ heap[r.address].cells \in Seq(HeapCells)
         /\ objects[r.id] \in AndroidObjects
         /\ Alike(objects[r.id].kind, heap[r.address].cells, objects[r.id].cells)
         /\ Leads(r)
<1> DEFINE r == refs[h]
<1>1. r \in References /\ Leads(r)
  BY DEF HeapInv, HeapTypes
<1>2. r.address \in Addresses /\ heap[r.address] # NullRef /\ heap[r.address].id = r.id
  BY <1>1 DEF References, Leads, Heap!Denotes
<1>3. heap[r.address] \in There
  BY <1>2 DEF HeapInv, HeapTypes
<1>4. r.id \in DOMAIN objects
        /\ Alike(objects[r.id].kind, heap[r.address].cells, objects[r.id].cells)
  BY <1>2 DEF HeapInv
<1>5. heap[r.address].cells \in Seq(HeapCells)
  BY <1>3 DEF There
<1>6. objects[r.id] \in AndroidObjects
  BY <1>4, SeqDomain DEF HeapInv, HeapTypes
<1> HIDE DEF r
<1>7. /\ r \in References /\ r.address \in Addresses /\ r.id \in DOMAIN objects
      /\ heap[r.address] # NullRef /\ heap[r.address] \in There /\ heap[r.address].id = r.id
      /\ heap[r.address].cells \in Seq(HeapCells)
      /\ objects[r.id] \in AndroidObjects
      /\ Alike(objects[r.id].kind, heap[r.address].cells, objects[r.id].cells)
      /\ Leads(r)
  BY <1>1, <1>2, <1>3, <1>4, <1>5, <1>6
<1> QED BY <1>7 DEF r

\* The last reference to an object goes, and the object with it.
LEMMA DeleteKeeps ==
  ASSUME HeapInv, Careful, NEW place \in Held, refs[place] # NullRef,
         Heap!DeleteGlobalRef(place)
  PROVE  HeapInv'
<1> DEFINE a == refs[place].address
           gone == refs[place].id
<1>1. a \in Addresses /\ heap[a] # NullRef /\ heap[a].id = gone
  BY Led
<1>2. heap' = [heap EXCEPT ![a] = NullRef] /\ refs' = [refs EXCEPT ![place] = NullRef]
      /\ objects' = objects /\ read' = read
  BY DEF Heap!DeleteGlobalRef, Heap!Drop
<1>3. gone \notin Heap!Reachable({refs[h] : h \in Held \ {place}} \ {NullRef})
  BY DEF Heap!DeleteGlobalRef
<1> DEFINE held == {refs[h] : h \in Held \ {place}} \ {NullRef}
<1>4. \A r \in held : r.id # gone
  BY <1>3 DEF Heap!Reachable
<1>5. \A r \in held : objects[r.id].kind = "objects" =>
        \A i \in DOMAIN objects[r.id].cells :
          objects[r.id].cells[i] # NullRef => objects[r.id].cells[i] # gone
  <2>1. SUFFICES ASSUME NEW r \in held, objects[r.id].kind = "objects",
                        NEW i \in DOMAIN objects[r.id].cells,
                        objects[r.id].cells[i] # NullRef
                 PROVE  objects[r.id].cells[i] \in Heap!Reachable(held)
    BY <1>3
  <2> DEFINE rooted == {q.id : q \in held}
             o == r.id
             cell == objects[o].cells[i]
             of(p) == {objects[p].cells[j] : j \in DOMAIN objects[p].cells} \ {NullRef}
  <2>2. o \in {p \in rooted : objects[p].kind = "objects"}
    BY <2>1
  <2>3. cell \in of(o)
    BY <2>1
  <2>4. cell \in UNION {of(p) : p \in {q \in rooted : objects[q].kind = "objects"}}
    BY <2>2, <2>3
  <2> QED BY <2>4 DEF Heap!Reachable
<1> HIDE DEF a, gone
<1>6. heap'[a] = NullRef /\ \A b \in Addresses \ {a} : heap'[b] = heap[b]
  BY <1>1, <1>2 DEF HeapInv, HeapTypes
<1>7. HeapTypes'
  BY <1>1, <1>2 DEF HeapInv, HeapTypes
<1>8. \A b \in Addresses : \A id : Heap!Denotes(b, id) /\ id # gone => Heap!Denotes(b, id)'
  BY <1>1, <1>6 DEF Heap!Denotes
<1>9. \A b \in Addresses : heap'[b] # NullRef => heap[b] # NullRef /\ heap'[b] = heap[b]
  BY <1>6
<1>10. \A b \in Addresses : heap'[b] # NullRef =>
         /\ heap'[b].id \in DOMAIN objects'
         /\ Alike(objects[heap[b].id].kind, heap[b].cells, objects[heap[b].id].cells)'
  <2> SUFFICES ASSUME NEW b \in Addresses, heap'[b] # NullRef
               PROVE  /\ heap'[b].id \in DOMAIN objects'
                      /\ Alike(objects[heap[b].id].kind, heap[b].cells, objects[heap[b].id].cells)'
    OBVIOUS
  <2>1. heap[b] # NullRef /\ heap'[b] = heap[b]
    BY <1>9
  <2>2. /\ heap[b].id \in DOMAIN objects
        /\ Alike(objects[heap[b].id].kind, heap[b].cells, objects[heap[b].id].cells)
    BY <2>1 DEF HeapInv
  <2>3. objects' = objects
    BY <1>2
  <2> QED BY <2>1, <2>2, <2>3 DEF Alike
<1>11. \A b, c \in Addresses :
         heap'[b] # NullRef /\ heap'[c] # NullRef /\ heap'[b].id = heap'[c].id => b = c
  BY <1>9 DEF HeapInv
<1>12. ASSUME NEW h \in Held, refs'[h] # NullRef PROVE Leads(refs[h])'
  <2>1. h # place /\ refs'[h] = refs[h] /\ refs[h] \in held
    BY <1>2, <1>12 DEF HeapInv, HeapTypes
  <2> HIDE DEF held
  <2> PICK b \in Addresses, id \in DOMAIN objects : b = refs[h].address /\ id = refs[h].id
    BY <2>1, <1>12, Led
  <2>2. /\ b \in Addresses /\ Leads(refs[h]) /\ id # gone /\ heap[b].id = id
        /\ heap[b] # NullRef /\ Alike(objects[id].kind, heap[b].cells, objects[id].cells)
    BY <2>1, <1>4, <1>12, Led
  <2>3. Heap!Denotes(b, id)'
    BY <1>8, <2>2 DEF Leads
  <2>4. heap'[b] = heap[b]
    BY <1>9, <2>2, <2>3 DEF Heap!Denotes
  <2>5. objects[id].kind = "objects" =>
          \A i \in DOMAIN objects[id].cells : objects[id].cells[i] # NullRef =>
            /\ heap[b].cells[i] \in Addresses
            /\ Heap!Denotes(heap[b].cells[i], objects[id].cells[i])
            /\ objects[id].cells[i] # gone
    BY <1>5, <2>1, <2>2 DEF Leads, Alive, Alike
  <2>6. objects[id].kind = "objects" => Alive(heap[b].cells, objects[id].cells)'
    BY <1>2, <1>8, <2>4, <2>5 DEF Alive
  <2>7. refs[h].scope = "elements" => objects[id].kind = "values"
    BY <2>2 DEF Leads
  <2> QED BY <1>2, <2>1, <2>3, <2>6, <2>7 DEF Leads
<1> QED BY <1>2, <1>7, <1>10, <1>11, <1>12 DEF HeapInv

\* Cells are rewritten on both sides.
LEMMA WriteKeeps ==
  ASSUME HeapInv, NEW place \in Held, refs[place] # NullRef,
         NEW cells \in Seq(HeapCells), NEW wanted \in Seq(AndroidCells),
         Alike(objects[refs[place].id].kind, cells, wanted),
         objects[refs[place].id].kind = "objects" => Alive(cells, wanted),
         Heap!Write(place, cells, wanted)
  PROVE  HeapInv'
<1> DEFINE a == refs[place].address
           o == refs[place].id
           there == [heap[a] EXCEPT !.cells = cells]
           new == [objects[o] EXCEPT !.cells = wanted]
<1>1. /\ a \in Addresses /\ heap[a] # NullRef /\ heap[a] \in There /\ heap[a].id = o
      /\ o \in DOMAIN objects /\ objects[o] \in AndroidObjects
  BY Led
<1>2. there \in There /\ there.id = o /\ there.cells = cells /\ there # NullRef
  BY <1>1, Sentinels DEF There
<1>3. /\ new \in AndroidObjects
      /\ new.kind = objects[o].kind /\ new.cells = wanted
  BY <1>1 DEF AndroidObjects
<1>4. heap' = [heap EXCEPT ![a] = there] /\ objects' = [objects EXCEPT ![o] = new]
      /\ refs' = refs /\ read' = read
  BY DEF Heap!Write
<1>5. Alike(objects[o].kind, cells, wanted) /\ (objects[o].kind = "objects" => Alive(cells, wanted))
  OBVIOUS
<1> HIDE DEF a, o, there, new
<1>6. objects' \in Seq(AndroidObjects)
  BY <1>1, <1>3, <1>4 DEF HeapInv, HeapTypes
<1>7. HeapTypes'
  BY <1>1, <1>2, <1>4, <1>6 DEF HeapInv, HeapTypes
<1>8. DOMAIN objects' = DOMAIN objects /\ objects'[o] = new
      /\ \A i \in DOMAIN objects \ {o} : objects'[i] = objects[i]
  BY <1>1, <1>4
<1>9. \A i \in DOMAIN objects : objects'[i].kind = objects[i].kind
  BY <1>3, <1>8
<1>10. heap'[a] = there /\ \A b \in Addresses \ {a} : heap'[b] = heap[b]
  BY <1>1, <1>4 DEF HeapInv, HeapTypes
<1>11. \A b \in Addresses :
         /\ heap'[b] # NullRef <=> heap[b] # NullRef
         /\ heap[b] # NullRef => heap'[b].id = heap[b].id
  BY <1>1, <1>2, <1>10
<1>12. \A b \in Addresses : \A id : Heap!Denotes(b, id) => Heap!Denotes(b, id)'
  BY <1>11 DEF Heap!Denotes
<1>13. ASSUME NEW b \in Addresses, heap'[b] # NullRef
       PROVE  /\ heap'[b].id \in DOMAIN objects'
              /\ Alike(objects[heap[b].id].kind, heap[b].cells, objects[heap[b].id].cells)'
  <2>1. CASE b = a
    BY <2>1, <1>1, <1>2, <1>3, <1>5, <1>8, <1>9, <1>10 DEF Alike
  <2>2. CASE b # a
    <3>1. heap[b] # NullRef /\ heap'[b] = heap[b] /\ heap[b].id # o
      BY <2>2, <1>1, <1>10, <1>13 DEF HeapInv
    <3>2. heap[b].id \in DOMAIN objects
          /\ Alike(objects[heap[b].id].kind, heap[b].cells, objects[heap[b].id].cells)
      BY <3>1 DEF HeapInv
    <3>3. objects'[heap[b].id] = objects[heap[b].id]
      BY <3>1, <3>2, <1>8
    <3> QED BY <3>1, <3>2, <3>3, <1>8, <1>9 DEF Alike
  <2> QED BY <2>1, <2>2
<1>14. \A b, c \in Addresses :
         heap'[b] # NullRef /\ heap'[c] # NullRef /\ heap'[b].id = heap'[c].id => b = c
  BY <1>11 DEF HeapInv
<1>15. ASSUME NEW h \in Held, refs'[h] # NullRef PROVE Leads(refs[h])'
  <2> PICK b \in Addresses, id \in DOMAIN objects : b = refs[h].address /\ id = refs[h].id
    BY <1>4, <1>15, Led
  <2>1. /\ b \in Addresses /\ Leads(refs[h]) /\ heap[b].id = id /\ id \in DOMAIN objects
        /\ heap[b] # NullRef /\ Alike(objects[id].kind, heap[b].cells, objects[id].cells)
    BY <1>4, <1>15, Led
  <2>2. Heap!Denotes(b, id)'
    BY <1>12, <2>1 DEF Leads
  <2>3. refs[h].scope = "elements" => objects[id].kind = "values"
    BY <2>1 DEF Leads
  <2>4. objects[id].kind = "objects" => Alive(heap[b].cells, objects[id].cells)
    BY <2>1 DEF Leads
  <2>5. objects[id].kind = "objects" => Alive(heap[b].cells, objects[id].cells)'
    <3>1. SUFFICES ASSUME objects[id].kind = "objects"
                   PROVE  Alive(heap[b].cells, objects[id].cells)'
      OBVIOUS
    <3>2. CASE b = a
      <4>1. id = o /\ heap'[b].cells = cells /\ objects'[id].cells = wanted
        BY <3>2, <2>1, <1>1, <1>2, <1>3, <1>8, <1>10
      <4>2. \A i \in DOMAIN wanted : wanted[i] # NullRef =>
              cells[i] \in Addresses /\ Heap!Denotes(cells[i], wanted[i])
        BY <3>1, <4>1, <1>5 DEF Alive, Alike
      <4> QED BY <4>1, <4>2, <1>12 DEF Alive
    <3>3. CASE b # a
      <4>1. heap'[b] = heap[b] /\ id # o /\ objects'[id] = objects[id]
        BY <3>3, <2>1, <1>1, <1>8, <1>10 DEF HeapInv
      <4>2. \A i \in DOMAIN objects[id].cells : objects[id].cells[i] # NullRef =>
              heap[b].cells[i] \in Addresses
              /\ Heap!Denotes(heap[b].cells[i], objects[id].cells[i])
        BY <3>1, <2>1, <2>4 DEF Alive, Alike
      <4> QED BY <4>1, <4>2, <1>12 DEF Alive
    <3> QED BY <3>2, <3>3
  <2> QED BY <1>4, <1>9, <2>1, <2>2, <2>3, <2>5 DEF Leads
<1> QED BY <1>4, <1>7, <1>13, <1>14, <1>15 DEF HeapInv

-----------------------------------------------------------------------------
(* The operations, one by one *)

LEMMA NewArrayKeeps ==
  ASSUME HeapInv, NEW place \in Held, NEW length \in Nat, Heap!NewArray(place, length)
  PROVE  HeapInv'
<1>1. PICK stray \in [1..length -> Values] :
        Heap!Make(place, "values", stray, [i \in 1..length |-> Unset])
  BY DEF Heap!NewArray
<1> DEFINE wanted == [i \in 1..length |-> Unset]
<1>2. wanted \in [1..length -> AndroidCells] /\ \A i \in 1..length : wanted[i] = Unset
  BY DEF AndroidCells
<1>3. stray \in [1..length -> HeapCells]
  BY DEF HeapCells
<1> HIDE DEF wanted
<1>4. stray \in Seq(HeapCells) /\ DOMAIN stray = 1..length
  BY <1>3, FunctionSeq
<1>5. wanted \in Seq(AndroidCells) /\ DOMAIN wanted = 1..length
  BY <1>2, FunctionSeq
<1>6. Alike("values", stray, wanted)
  BY <1>2, <1>4, <1>5 DEF Alike
<1>7. Heap!Make(place, "values", stray, wanted)
  BY <1>1 DEF wanted
<1> QED BY <1>4, <1>5, <1>6, <1>7, MakeKeeps DEF Kinds

\* What may be put into an object array
LEMMA Element ==
  ASSUME HeapInv, NEW e \in Heap!Elements
  PROVE  /\ e # NullRef /\ e.address \in Addresses /\ e.id \in DOMAIN objects /\ e.id \in Nat
         /\ objects[e.id].kind # "objects" /\ Heap!Denotes(e.address, e.id)
<1>1. PICK h \in Held : e = refs[h] /\ refs[h] # NullRef
  BY DEF Heap!Elements, Heap!HeldRefs
<1>2. e.id \in Nat
  BY <1>1 DEF HeapInv, HeapTypes, References
<1> QED BY <1>1, <1>2, Led DEF Heap!Elements, Leads

LEMMA NewObjectArrayKeeps ==
  ASSUME HeapInv, NEW place \in Held, NEW length \in Nat,
         NEW e \in Heap!Elements \cup {NullRef}, Heap!NewObjectArray(place, length, e)
  PROVE  HeapInv'
<1> DEFINE cell == IF e = NullRef THEN NullRef ELSE e.address
           want == IF e = NullRef THEN NullRef ELSE e.id
           cells == [i \in 1..length |-> cell]
           wanted == [i \in 1..length |-> want]
<1>1. /\ cell \in HeapCells /\ want \in AndroidCells
      /\ \/ want = NullRef /\ cell = NullRef
         \/ /\ want \in DOMAIN objects /\ objects[want].kind # "objects"
            /\ cell \in Addresses /\ Heap!Denotes(cell, want)
  BY Element DEF HeapCells, AndroidCells
<1>2. Heap!Make(place, "objects", cells, wanted)
  BY DEF Heap!NewObjectArray
<1> HIDE DEF cell, want
<1>3. cells \in [1..length -> HeapCells] /\ wanted \in [1..length -> AndroidCells]
  BY <1>1
<1>4. \A i \in 1..length : cells[i] = cell /\ wanted[i] = want
  OBVIOUS
<1> HIDE DEF cells, wanted
<1>5. /\ cells \in Seq(HeapCells) /\ DOMAIN cells = 1..length
      /\ wanted \in Seq(AndroidCells) /\ DOMAIN wanted = 1..length
  BY <1>3, FunctionSeq
<1>6. Alike("objects", cells, wanted) /\ Alive(cells, wanted)
  BY <1>1, <1>4, <1>5 DEF Alike, Alive
<1> QED BY <1>2, <1>5, <1>6, MakeKeeps DEF Kinds

LEMMA NewStringKeeps ==
  ASSUME HeapInv, NEW place \in Held, Heap!NewString(place)
  PROVE  HeapInv'
<1>1. <<>> \in Seq(HeapCells) /\ <<>> \in Seq(AndroidCells)
  OBVIOUS
<1>2. Alike("string", <<>>, <<>>)
  BY DEF Alike
<1> QED BY <1>1, <1>2, MakeKeeps DEF Heap!NewString, Kinds

LEMMA NewRefKeeps ==
  ASSUME HeapInv, NEW from \in Held, NEW to \in Held, NEW scope \in {"local", "global"},
         Heap!NewRef(from, to, scope)
  PROVE  HeapInv'
<1>1. refs[from] # NullRef /\ Heap!Hold(to, scope, refs[from].address, refs[from].id)
      /\ UNCHANGED <<heap, objects, read>>
  BY DEF Heap!NewRef
<1>2. PICK a \in Addresses, id \in Nat : a = refs[from].address /\ id = refs[from].id
  BY <1>1, Led DEF References
<1>3. Leads([scope |-> scope, address |-> a, id |-> id])
  BY <1>1, <1>2, Led DEF Leads
<1> QED BY <1>1, <1>2, <1>3, HoldKeeps DEF HeapInv, Scopes

\* The arrays of a kind
LEMMA AnArray ==
  ASSUME HeapInv, NEW kind, NEW h \in Heap!Arrays(kind)
  PROVE  /\ h \in Held /\ refs[h] # NullRef /\ objects[refs[h].id].kind = kind
         /\ Heap!Cells(h) \in Seq(HeapCells) /\ Heap!JavaCells(h) \in Seq(AndroidCells)
         /\ Alike(kind, Heap!Cells(h), Heap!JavaCells(h))
         /\ Len(Heap!Cells(h)) = Len(Heap!JavaCells(h))
         /\ Leads(refs[h])
<1>1. h \in Held /\ refs[h] # NullRef /\ objects[refs[h].id].kind = kind
  BY DEF Heap!Arrays
<1>2. heap[refs[h].address].cells \in Seq(HeapCells) /\ Leads(refs[h])
      /\ objects[refs[h].id] \in AndroidObjects
      /\ Alike(objects[refs[h].id].kind, heap[refs[h].address].cells, objects[refs[h].id].cells)
  BY <1>1, Led
<1>3. objects[refs[h].id].cells \in Seq(AndroidCells)
  BY <1>2 DEF AndroidObjects
<1>4. Alike(kind, Heap!Cells(h), Heap!JavaCells(h))
  BY <1>1, <1>2 DEF Heap!Cells, Heap!JavaCells
<1>5. Heap!Cells(h) \in Seq(HeapCells) /\ Heap!JavaCells(h) \in Seq(AndroidCells)
  BY <1>2, <1>3 DEF Heap!Cells, Heap!JavaCells
<1>6. Len(Heap!Cells(h)) = Len(Heap!JavaCells(h))
  BY <1>4, <1>5, SameLength DEF Alike
<1> QED BY <1>1, <1>2, <1>4, <1>5, <1>6

LEMMA GetArrayElementsKeeps ==
  ASSUME HeapInv, NEW from \in Heap!Arrays("values"), NEW to \in Held,
         Heap!GetArrayElements(from, to)
  PROVE  HeapInv'
<1>1. from \in Held /\ refs[from] # NullRef /\ objects[refs[from].id].kind = "values"
      /\ Leads(refs[from])
  BY AnArray
<1>2. Heap!Hold(to, "elements", refs[from].address, refs[from].id)
      /\ UNCHANGED <<heap, objects, read>>
  BY DEF Heap!GetArrayElements
<1>3. PICK a \in Addresses, id \in Nat : a = refs[from].address /\ id = refs[from].id
  BY <1>1, Led DEF References
<1>4. Leads([scope |-> "elements", address |-> a, id |-> id])
  BY <1>1, <1>3 DEF Leads
<1> QED BY <1>2, <1>3, <1>4, HoldKeeps DEF HeapInv, Scopes

-----------------------------------------------------------------------------
(* Reading *)

LEMMA ReadKeeps ==
  ASSUME HeapInv, NEW got, NEW want, Heap!Reads(got, want), Heap!Agree(got, want)
  PROVE  HeapInv'
<1>1. read' = TRUE /\ UNCHANGED <<heap, objects, refs>>
  BY DEF Heap!Reads, HeapInv
<1> QED BY <1>1, OnlyRefs DEF HeapInv, HeapTypes

LEMMA AgreeOnOne ==
  ASSUME NEW x, NEW y, x = y PROVE Heap!Agree(<<x>>, <<y>>)
BY DEF Heap!Agree

LEMMA GetArrayLengthKeeps ==
  ASSUME HeapInv, NEW h \in Heap!Arrays("values"), Heap!GetArrayLength(h)
  PROVE  HeapInv'
BY AnArray, AgreeOnOne, ReadKeeps DEF Heap!GetArrayLength

\* Two references have one address just when they have one object.
LEMMA IsSameObjectKeeps ==
  ASSUME HeapInv, NEW one \in Held, NEW other \in Held, refs[one] # NullRef,
         refs[other] # NullRef, Heap!IsSameObject(one, other)
  PROVE  HeapInv'
<1>1. refs[one].address = refs[other].address <=> refs[one].id = refs[other].id
  BY Led DEF HeapInv
<1>2. (refs[one].address = refs[other].address) = (refs[one].id = refs[other].id)
  BY <1>1
<1>3. Heap!Agree(<<refs[one].address = refs[other].address>>, <<refs[one].id = refs[other].id>>)
  BY <1>2, AgreeOnOne
<1> QED BY <1>3, ReadKeeps DEF Heap!IsSameObject

\* A region the check lets pass lies within the array.
LEMMA RegionFits ==
  ASSUME NEW S, NEW array \in Seq(S), NEW r \in Heap!Regions(array),
         ~Heap!Refused(array, r[1], r[2])
  PROVE  r[1] \in Nat /\ r[2] \in Nat /\ r[1] + r[2] <= Len(array)
BY Sentinels DEF Heap!Regions, Heap!Refused

LEMMA RegionsAgree ==
  ASSUME NEW cells \in Seq(HeapCells), NEW wanted \in Seq(AndroidCells),
         Alike("values", cells, wanted), Len(cells) = Len(wanted),
         NEW start \in Nat, NEW length \in Nat, start + length <= Len(cells)
  PROVE  Heap!Agree(Heap!Region(cells, start, length), Heap!Region(wanted, start, length))
<1> DEFINE got == Heap!Region(cells, start, length)
           want == Heap!Region(wanted, start, length)
<1>1. /\ got \in Seq(HeapCells) /\ DOMAIN got = 1..length
      /\ \A i \in 1..length : got[i] = cells[start + i]
  BY Part
<1>2. /\ want \in Seq(AndroidCells) /\ DOMAIN want = 1..length
      /\ \A i \in 1..length : want[i] = wanted[start + i]
  <2>1. wanted \in Seq(AndroidCells) /\ start + length <= Len(wanted)
    OBVIOUS
  <2>2. want \in Seq(AndroidCells)
    BY <2>1, Part
  <2>3. DOMAIN want = 1..length
    BY <2>1, Part
  <2>4. ASSUME NEW i \in 1..length PROVE want[i] = wanted[start + i]
    BY <2>1, Part
  <2> QED BY <2>2, <2>3, <2>4
<1>3. \A i \in 1..length : start + i \in DOMAIN wanted
  BY SeqDomain
<1>4. \A i \in DOMAIN want : want[i] \in {Unset, got[i]}
  BY <1>1, <1>2, <1>3 DEF Alike
<1>5. Len(got) = Len(want)
  BY <1>1, <1>2, SameLength
<1> QED BY <1>4, <1>5 DEF Heap!Agree

LEMMA GetArrayRegionKeeps ==
  ASSUME HeapInv, NEW h \in Heap!Arrays("values"), NEW r \in Heap!Regions(Heap!Cells(h)),
         Heap!GetArrayRegion(h, r[1], r[2])
  PROVE  HeapInv'
<1>1. CASE Heap!Refused(Heap!Cells(h), r[1], r[2])
  <2>1. UNCHANGED <<heap, objects, refs, read>>
    BY <1>1 DEF Heap!GetArrayRegion, Heap!heapVars
  <2> QED BY <2>1, OnlyRefs DEF HeapInv, HeapTypes
<1>2. CASE ~Heap!Refused(Heap!Cells(h), r[1], r[2])
  <2>1. /\ Heap!Cells(h) \in Seq(HeapCells) /\ Heap!JavaCells(h) \in Seq(AndroidCells)
        /\ Alike("values", Heap!Cells(h), Heap!JavaCells(h))
        /\ Len(Heap!Cells(h)) = Len(Heap!JavaCells(h))
    BY AnArray
  <2>2. r[1] \in Nat /\ r[2] \in Nat /\ r[1] + r[2] <= Len(Heap!Cells(h))
    BY <1>2, <2>1, RegionFits
  <2>3. Heap!Agree(Heap!Region(Heap!Cells(h), r[1], r[2]),
                   Heap!Region(Heap!JavaCells(h), r[1], r[2]))
    BY <2>1, <2>2, RegionsAgree
  <2>4. Heap!Reads(Heap!Region(Heap!Cells(h), r[1], r[2]),
                   Heap!Region(Heap!JavaCells(h), r[1], r[2]))
    BY <1>2 DEF Heap!GetArrayRegion
  <2> QED BY <2>3, <2>4, ReadKeeps
<1> QED BY <1>1, <1>2

LEMMA GetObjectArrayElementKeeps ==
  ASSUME HeapInv, NEW from \in Heap!Arrays("objects"), NEW index \in Int, NEW to \in Held,
         Heap!GetObjectArrayElement(from, index, to)
  PROVE  HeapInv'
<1> DEFINE cells == Heap!Cells(from)
           wanted == Heap!JavaCells(from)
           inside == 0 <= index /\ index < Len(cells)
           cell == IF inside THEN cells[index + 1] ELSE NullRef
           want == IF index \in 0..(Len(wanted) - 1) THEN wanted[index + 1] ELSE NullRef
<1>1. /\ from \in Held /\ refs[from] # NullRef /\ objects[refs[from].id].kind = "objects"
      /\ cells \in Seq(HeapCells) /\ wanted \in Seq(AndroidCells)
      /\ Alike("objects", cells, wanted) /\ Len(cells) = Len(wanted) /\ Leads(refs[from])
  BY AnArray
<1>2. Alive(cells, wanted)
  BY <1>1 DEF Leads, Heap!Cells, Heap!JavaCells
<1>3. /\ IF want = NullRef THEN UNCHANGED refs ELSE Heap!Hold(to, "local", cell, want)
      /\ read' = (read /\ (cell = NullRef) = (want = NullRef))
      /\ UNCHANGED <<heap, objects>>
  BY DEF Heap!GetObjectArrayElement
<1> HIDE DEF cells, wanted
<1>4. inside <=> index \in 0..(Len(wanted) - 1)
  <2>1. PICK n \in Nat : n = Len(cells)
    BY <1>1
  <2> QED BY <1>1, <2>1
<1>5. inside => index + 1 \in DOMAIN wanted
  BY <1>1, SeqDomain
<1>6. \/ want = NullRef /\ cell = NullRef
      \/ /\ want # NullRef /\ cell # NullRef
         /\ want \in DOMAIN objects /\ objects[want].kind # "objects"
         /\ cell \in Addresses /\ Heap!Denotes(cell, want)
  <2>1. CASE ~inside
    BY <2>1, <1>4
  <2>2. CASE inside
    <3>1. cell = cells[index + 1] /\ want = wanted[index + 1]
      BY <2>2, <1>4
    <3>2. CASE want = NullRef /\ cell = NullRef
      BY <3>2
    <3>3. CASE want \in DOMAIN objects /\ objects[want].kind # "objects" /\ cell \in Addresses
      <4>1. DOMAIN objects \subseteq Nat
        BY SeqDomain DEF HeapInv, HeapTypes
      <4>2. want # NullRef /\ cell # NullRef
        BY <3>3, <4>1, Sentinels
      <4> QED BY <3>1, <3>3, <4>2, <1>2, <1>5, <2>2 DEF Alive
    <3> HIDE DEF cell, want
    <3> QED BY <3>1, <3>2, <3>3, <2>2, <1>1, <1>5 DEF Alike
  <2> QED BY <2>1, <2>2
<1> HIDE DEF cell, want
<1>7. read' = TRUE
  <2>1. (cell = NullRef) <=> (want = NullRef)
    BY <1>6
  <2> QED BY <2>1, <1>3 DEF HeapInv
<1>8. CASE want = NullRef
  <2>1. UNCHANGED <<heap, objects, refs>>
    BY <1>3, <1>8
  <2> QED BY <2>1, <1>7, OnlyRefs DEF HeapInv, HeapTypes
<1>9. CASE want # NullRef
  <2>1. Heap!Hold(to, "local", cell, want) /\ cell \in Addresses /\ want \in DOMAIN objects
    BY <1>3, <1>6, <1>9
  <2>2. want \in Nat
    BY <2>1, SeqDomain DEF HeapInv, HeapTypes
  <2>3. Leads([scope |-> "local", address |-> cell, id |-> want])
    BY <1>6, <1>9 DEF Leads
  <2> QED BY <2>1, <2>2, <2>3, <1>3, <1>7, HoldKeeps DEF Scopes
<1> QED BY <1>8, <1>9

-----------------------------------------------------------------------------
(* Writing *)

\* Both sides of an array of values after the same write
LEMMA ValuesKeep ==
  ASSUME HeapInv, NEW place \in Held, refs[place] # NullRef,
         objects[refs[place].id].kind = "values",
         NEW cells \in Seq(HeapCells), NEW wanted \in Seq(AndroidCells),
         DOMAIN cells = DOMAIN wanted,
         \A i \in DOMAIN wanted : wanted[i] \in {Unset, cells[i]},
         Heap!Write(place, cells, wanted)
  PROVE  HeapInv'
<1>1. Alike("values", cells, wanted)
  BY DEF Alike
<1> QED BY <1>1, WriteKeeps

\* The cells a write of values leaves, from where it starts
OverwrittenIn(new, s, start, n, written) ==
  /\ DOMAIN new = DOMAIN s
  /\ \A i \in DOMAIN s :
       new[i] = IF i \in (start + 1)..(start + n) THEN written[i - start] ELSE s[i]

LEMMA Overwritten ==
  ASSUME NEW S, NEW s \in Seq(S), NEW start \in Nat, NEW n \in Nat,
         NEW written \in [1..n -> S], NEW new, new = Heap!Over(s, start, written)
  PROVE  /\ new \in Seq(S)
         /\ OverwrittenIn(new, s, start, n, written)
<1>1. new = [i \in DOMAIN s |-> new[i]] /\ DOMAIN new = DOMAIN s
  BY DEF Heap!Over
<1>2. \A i \in DOMAIN s :
        new[i] = IF i \in (start + 1)..(start + n) THEN written[i - start] ELSE s[i]
  <2>1. \A i \in DOMAIN s : i \in Nat
    OBVIOUS
  <2>2. \A i \in Nat : i - start \in DOMAIN written <=> i \in (start + 1)..(start + n)
    OBVIOUS
  <2> QED BY <2>1, <2>2 DEF Heap!Over
<1>3. \A i \in DOMAIN s : new[i] \in S
  <2>1. \A i \in (start + 1)..(start + n) : i - start \in 1..n
    OBVIOUS
  <2> QED BY <1>2, <2>1, SeqDomain
<1>4. new \in Seq(S)
  <2>1. PICK m \in Nat : DOMAIN s = 1..m
    BY SeqDomain
  <2>2. new \in [1..m -> S]
    BY <1>1, <1>3, <2>1
  <2> QED BY <2>2, FunctionSeq
<1> QED BY <1>1, <1>2, <1>4 DEF OverwrittenIn

LEMMA SetArrayRegionKeeps ==
  ASSUME HeapInv, NEW h \in Heap!Arrays("values"), NEW start \in Int, NEW n \in Nat,
         NEW v \in Values, ~Heap!Refused(Heap!Cells(h), start, n) => start \in Nat,
         Heap!SetArrayRegion(h, start, [i \in 1..n |-> v])
  PROVE  HeapInv'
<1> DEFINE written == [i \in 1..n |-> v]
           cells == Heap!Over(Heap!Cells(h), start, written)
           wanted == [i \in DOMAIN Heap!JavaCells(h) |->
                        IF i \in (start + 1)..(start + n)
                          THEN written[i - start] ELSE Heap!JavaCells(h)[i]]
<1>1. written \in [1..n -> HeapCells] /\ Len(written) = n /\ \A i \in 1..n : written[i] = v
  BY DEF HeapCells
<1>2. CASE Heap!Refused(Heap!Cells(h), start, n)
  <2>1. UNCHANGED <<heap, objects, refs, read>>
    BY <1>1, <1>2 DEF Heap!SetArrayRegion, Heap!heapVars
  <2> QED BY <2>1, OnlyRefs DEF HeapInv, HeapTypes
<1>3. CASE ~Heap!Refused(Heap!Cells(h), start, n)
  <2>1. Heap!Write(h, cells, wanted)
    BY <1>1, <1>3 DEF Heap!SetArrayRegion
  <2>2. start \in Nat
    BY <1>3
  <2> HIDE DEF written
  <2>3. /\ h \in Held /\ refs[h] # NullRef /\ objects[refs[h].id].kind = "values"
        /\ Heap!Cells(h) \in Seq(HeapCells) /\ Heap!JavaCells(h) \in Seq(AndroidCells)
        /\ Alike("values", Heap!Cells(h), Heap!JavaCells(h))
    BY AnArray
  <2>4. /\ cells \in Seq(HeapCells) /\ DOMAIN cells = DOMAIN Heap!Cells(h)
        /\ \A i \in DOMAIN Heap!Cells(h) :
             cells[i] = IF i \in (start + 1)..(start + n)
                          THEN written[i - start] ELSE Heap!Cells(h)[i]
    <3>0. start \in Nat /\ Heap!Cells(h) \in Seq(HeapCells) /\ written \in [1..n -> HeapCells]
      BY <1>1, <2>2, <2>3
    <3>1. cells \in Seq(HeapCells)
      BY <3>0, Overwritten
    <3>2. OverwrittenIn(cells, Heap!Cells(h), start, n, written)
      BY <3>0, Overwritten
    <3> HIDE DEF cells
    <3> QED BY <3>1, <3>2 DEF OverwrittenIn
  <2>5. \A i \in (start + 1)..(start + n) : i - start \in 1..n
    BY <2>2
  <2>6. \A i \in DOMAIN wanted : wanted[i] \in AndroidCells
    <3>1. v \in AndroidCells
      BY DEF AndroidCells
    <3> QED BY <1>1, <2>3, <2>5, <3>1, SeqDomain
  <2>7. wanted \in Seq(AndroidCells) /\ DOMAIN wanted = DOMAIN Heap!JavaCells(h)
    <3>1. wanted = [i \in DOMAIN Heap!JavaCells(h) |-> wanted[i]]
      OBVIOUS
    <3>2. DOMAIN wanted = DOMAIN Heap!JavaCells(h)
      OBVIOUS
    <3> HIDE DEF wanted
    <3> QED BY <2>3, <2>6, <3>1, <3>2, Rewritten
  <2>8. \A i \in DOMAIN wanted : wanted[i] \in {Unset, cells[i]}
    <3>1. \A i \in DOMAIN wanted :
            wanted[i] = IF i \in (start + 1)..(start + n)
                          THEN written[i - start] ELSE Heap!JavaCells(h)[i]
      OBVIOUS
    <3> HIDE DEF wanted, cells
    <3> QED BY <2>3, <2>4, <2>7, <3>1 DEF Alike
  <2>9. DOMAIN cells = DOMAIN wanted
    BY <2>3, <2>4, <2>7 DEF Alike
  <2> HIDE DEF cells, wanted
  <2> QED BY <2>1, <2>3, <2>4, <2>7, <2>8, <2>9, ValuesKeep
<1> QED BY <1>2, <1>3

LEMMA ArrayCopyKeeps ==
  ASSUME HeapInv, NEW from \in Heap!Arrays("values"), NEW to \in Heap!Arrays("values"),
         NEW srcPos \in Nat, NEW dstPos \in Nat, NEW length \in Nat,
         srcPos + length <= Len(Heap!Cells(from)),
         Heap!ArrayCopy(from, srcPos, to, dstPos, length)
  PROVE  HeapInv'
<1> DEFINE part1 == Heap!Region(Heap!Cells(from), srcPos, length)
           cells == Heap!Over(Heap!Cells(to), dstPos, part1)
           wanted == [i \in DOMAIN Heap!JavaCells(to) |->
                        IF i \in (dstPos + 1)..(dstPos + length)
                          THEN Heap!JavaCells(from)[i - dstPos + srcPos]
                          ELSE Heap!JavaCells(to)[i]]
<1>1. Heap!Write(to, cells, wanted)
  BY DEF Heap!ArrayCopy
<1>2. /\ to \in Held /\ refs[to] # NullRef /\ objects[refs[to].id].kind = "values"
      /\ Heap!Cells(to) \in Seq(HeapCells) /\ Heap!JavaCells(to) \in Seq(AndroidCells)
      /\ Alike("values", Heap!Cells(to), Heap!JavaCells(to))
  BY AnArray
<1>3. /\ Heap!Cells(from) \in Seq(HeapCells) /\ Heap!JavaCells(from) \in Seq(AndroidCells)
      /\ Alike("values", Heap!Cells(from), Heap!JavaCells(from))
  BY AnArray
<1>4. /\ part1 \in Seq(HeapCells) /\ DOMAIN part1 = 1..length
      /\ \A i \in 1..length : part1[i] = Heap!Cells(from)[srcPos + i]
  BY <1>3, Part
<1> HIDE DEF part1
<1>5. part1 \in [1..length -> HeapCells]
  BY <1>4, SeqDomain
<1>6. /\ cells \in Seq(HeapCells) /\ DOMAIN cells = DOMAIN Heap!Cells(to)
      /\ \A i \in DOMAIN Heap!Cells(to) :
           cells[i] = IF i \in (dstPos + 1)..(dstPos + length)
                        THEN part1[i - dstPos] ELSE Heap!Cells(to)[i]
  <2>0. Heap!Cells(to) \in Seq(HeapCells)
    BY <1>2
  <2>1. cells \in Seq(HeapCells)
    BY <2>0, <1>5, Overwritten
  <2>2. OverwrittenIn(cells, Heap!Cells(to), dstPos, length, part1)
    BY <2>0, <1>5, Overwritten
  <2> HIDE DEF cells
  <2> QED BY <2>1, <2>2 DEF OverwrittenIn
<1>7. \A i \in (dstPos + 1)..(dstPos + length) :
        /\ i - dstPos \in 1..length /\ srcPos + (i - dstPos) = i - dstPos + srcPos
        /\ i - dstPos + srcPos \in DOMAIN Heap!JavaCells(from)
  <2>1. PICK n \in Nat : n = Len(Heap!Cells(from))
    BY <1>3
  <2>2. DOMAIN Heap!JavaCells(from) = 1..n
    BY <1>3, <2>1, SeqDomain DEF Alike
  <2>3. srcPos + length <= n
    BY <2>1
  <2> QED BY <2>2, <2>3
<1>8. \A i \in DOMAIN wanted : wanted[i] \in AndroidCells
  BY <1>2, <1>3, <1>7, SeqDomain
<1>9. wanted \in Seq(AndroidCells) /\ DOMAIN wanted = DOMAIN Heap!JavaCells(to)
  <2>1. wanted = [i \in DOMAIN Heap!JavaCells(to) |-> wanted[i]]
    OBVIOUS
  <2>2. DOMAIN wanted = DOMAIN Heap!JavaCells(to)
    OBVIOUS
  <2> HIDE DEF wanted
  <2> QED BY <1>2, <1>8, <2>1, <2>2, Rewritten
<1>10. \A i \in DOMAIN wanted : wanted[i] \in {Unset, cells[i]}
  <2>1. \A i \in DOMAIN wanted :
          wanted[i] = IF i \in (dstPos + 1)..(dstPos + length)
                        THEN Heap!JavaCells(from)[i - dstPos + srcPos]
                        ELSE Heap!JavaCells(to)[i]
    OBVIOUS
  <2> HIDE DEF wanted, cells
  <2>2. \A i \in (dstPos + 1)..(dstPos + length) :
          /\ part1[i - dstPos] = Heap!Cells(from)[i - dstPos + srcPos]
          /\ Heap!JavaCells(from)[i - dstPos + srcPos]
               \in {Unset, Heap!Cells(from)[i - dstPos + srcPos]}
    BY <1>3, <1>4, <1>7 DEF Alike
  <2> QED BY <1>2, <1>6, <1>9, <2>1, <2>2 DEF Alike
<1>11. DOMAIN cells = DOMAIN wanted
  BY <1>2, <1>6, <1>9 DEF Alike
<1> HIDE DEF cells, wanted
<1> QED BY <1>1, <1>2, <1>6, <1>9, <1>10, <1>11, ValuesKeep

LEMMA WriteElementKeeps ==
  ASSUME HeapInv, NEW h \in Heap!Scoped("elements"), NEW v \in Values,
         NEW i \in DOMAIN Heap!Cells(h), Heap!WriteElement(h, i, v)
  PROVE  HeapInv'
<1> DEFINE cells == [Heap!Cells(h) EXCEPT ![i] = v]
           wanted == [Heap!JavaCells(h) EXCEPT ![i] = v]
<1>1. h \in Held /\ refs[h] # NullRef /\ refs[h].scope = "elements"
  BY DEF Heap!Scoped
<1>2. /\ objects[refs[h].id].kind = "values"
      /\ Heap!Cells(h) \in Seq(HeapCells) /\ objects[refs[h].id] \in AndroidObjects
      /\ Alike("values", Heap!Cells(h), Heap!JavaCells(h))
  BY <1>1, Led DEF Leads, Heap!Cells, Heap!JavaCells
<1>3. Heap!JavaCells(h) \in Seq(AndroidCells)
  BY <1>2 DEF AndroidObjects, Heap!JavaCells
<1>4. v \in HeapCells /\ v \in AndroidCells
  BY DEF HeapCells, AndroidCells
<1>5. i \in DOMAIN Heap!JavaCells(h)
  BY <1>2 DEF Alike
<1>6. cells \in Seq(HeapCells) /\ DOMAIN cells = DOMAIN Heap!Cells(h)
      /\ \A j \in DOMAIN Heap!Cells(h) : cells[j] = IF j = i THEN v ELSE Heap!Cells(h)[j]
  BY <1>2, <1>4
<1>7. wanted \in Seq(AndroidCells) /\ DOMAIN wanted = DOMAIN Heap!JavaCells(h)
      /\ \A j \in DOMAIN Heap!JavaCells(h) :
           wanted[j] = IF j = i THEN v ELSE Heap!JavaCells(h)[j]
  BY <1>3, <1>4, <1>5
<1>8. Heap!Write(h, cells, wanted)
  BY DEF Heap!WriteElement
<1> HIDE DEF cells, wanted
<1>9. DOMAIN cells = DOMAIN wanted /\ \A j \in DOMAIN wanted : wanted[j] \in {Unset, cells[j]}
  BY <1>2, <1>6, <1>7 DEF Alike
<1> QED BY <1>1, <1>2, <1>6, <1>7, <1>8, <1>9, ValuesKeep

LEMMA SetObjectArrayElementKeeps ==
  ASSUME HeapInv, NEW h \in Heap!Arrays("objects"), NEW index \in Int,
         NEW e \in Heap!Elements, Heap!SetObjectArrayElement(h, index, e)
  PROVE  HeapInv'
<1>1. CASE ~(0 <= index /\ index < Len(Heap!Cells(h)))
  <2>1. UNCHANGED <<heap, objects, refs, read>>
    BY <1>1 DEF Heap!SetObjectArrayElement, Heap!heapVars
  <2> QED BY <2>1, OnlyRefs DEF HeapInv, HeapTypes
<1>2. CASE 0 <= index /\ index < Len(Heap!Cells(h))
  <2> DEFINE i == index + 1
             cells == [Heap!Cells(h) EXCEPT ![i] = e.address]
             wanted == [Heap!JavaCells(h) EXCEPT ![i] = e.id]
  <2>1. /\ h \in Held /\ refs[h] # NullRef /\ objects[refs[h].id].kind = "objects"
        /\ Heap!Cells(h) \in Seq(HeapCells) /\ Heap!JavaCells(h) \in Seq(AndroidCells)
        /\ Alike("objects", Heap!Cells(h), Heap!JavaCells(h)) /\ Leads(refs[h])
    BY AnArray
  <2>2. Alive(Heap!Cells(h), Heap!JavaCells(h))
    BY <2>1 DEF Leads, Heap!Cells, Heap!JavaCells
  <2>3. /\ e.address \in Addresses /\ e.id \in DOMAIN objects /\ e.id \in Nat
        /\ objects[e.id].kind # "objects" /\ Heap!Denotes(e.address, e.id)
    BY Element
  <2>4. e.address \in HeapCells /\ e.id \in AndroidCells
    BY <2>3 DEF HeapCells, AndroidCells
  <2>5. i \in DOMAIN Heap!Cells(h) /\ i \in DOMAIN Heap!JavaCells(h)
    <3>1. PICK n \in Nat : n = Len(Heap!Cells(h))
      BY <2>1
    <3>2. DOMAIN Heap!Cells(h) = 1..n
      BY <2>1, <3>1
    <3> QED BY <1>2, <2>1, <3>1, <3>2 DEF Alike
  <2>6. Heap!Write(h, cells, wanted)
    BY <1>2 DEF Heap!SetObjectArrayElement
  <2> HIDE DEF i
  <2>7. cells \in Seq(HeapCells) /\ DOMAIN cells = DOMAIN Heap!Cells(h)
        /\ \A j \in DOMAIN Heap!Cells(h) : cells[j] = IF j = i THEN e.address ELSE Heap!Cells(h)[j]
    BY <2>1, <2>4, <2>5
  <2>8. wanted \in Seq(AndroidCells) /\ DOMAIN wanted = DOMAIN Heap!JavaCells(h)
        /\ \A j \in DOMAIN Heap!JavaCells(h) :
             wanted[j] = IF j = i THEN e.id ELSE Heap!JavaCells(h)[j]
    BY <2>1, <2>4, <2>5
  <2> HIDE DEF cells, wanted
  <2>9. Alike("objects", cells, wanted)
    BY <2>1, <2>3, <2>7, <2>8 DEF Alike
  <2>10. Alive(cells, wanted)
    <3>1. DOMAIN cells = DOMAIN wanted /\ DOMAIN wanted = DOMAIN Heap!Cells(h)
      BY <2>1, <2>7, <2>8 DEF Alike
    <3> QED BY <2>2, <2>3, <2>7, <2>8, <3>1 DEF Alive
  <2> QED BY <2>1, <2>6, <2>7, <2>8, <2>9, <2>10, WriteKeeps
<1> QED BY <1>1, <1>2

-----------------------------------------------------------------------------
(* All of them *)

LEMMA PopLocalFrameKeeps ==
  ASSUME HeapInv, Heap!PopLocalFrame
  PROVE  HeapInv'
<1>1. Heap!Scoped("local") \in SUBSET Held
  BY DEF Heap!Scoped
<1>2. refs' = [h \in Held |-> IF h \in Heap!Scoped("local") THEN NullRef ELSE refs[h]]
      /\ UNCHANGED <<heap, objects, read>>
  BY DEF Heap!PopLocalFrame
<1>3. PICK dropped \in SUBSET Held : dropped = Heap!Scoped("local")
  BY <1>1
<1>4. refs' = [h \in Held |-> IF h \in dropped THEN NullRef ELSE refs[h]]
  BY <1>2, <1>3
<1> QED BY <1>2, <1>4, DropKeeps DEF HeapInv

LEMMA DeleteLocalRefKeeps ==
  ASSUME HeapInv, NEW place \in Held, Heap!DeleteLocalRef(place)
  PROVE  HeapInv'
<1>1. refs' = [refs EXCEPT ![place] = NullRef] /\ UNCHANGED <<heap, objects, read>>
  BY DEF Heap!DeleteLocalRef, Heap!Drop
<1>2. refs' = [h \in Held |-> IF h \in {place} THEN NullRef ELSE refs[h]]
  BY <1>1 DEF HeapInv, HeapTypes
<1> QED BY <1>1, <1>2, DropKeeps DEF HeapInv

\* What the game does with one array of values
ArrayStep(h) ==
  \/ Heap!GetArrayLength(h)
  \/ \E r \in Heap!Regions(Heap!Cells(h)) :
       \/ Heap!GetArrayRegion(h, r[1], r[2])
       \/ \E v \in Values : Heap!SetArrayRegion(h, r[1], [i \in 1..r[2] |-> v])
  \/ \E g \in Held : Heap!GetArrayElements(h, g)
  \/ \E g \in Heap!Arrays("values") : \E c \in Heap!Copies(Heap!Cells(h), Heap!Cells(g)) :
       Heap!ArrayCopy(h, c[1], g, c[2], c[3])

LEMMA ArrayStepKeeps ==
  ASSUME HeapInv, NEW h \in Heap!Arrays("values"), ArrayStep(h)
  PROVE  HeapInv'
<1>1. CASE Heap!GetArrayLength(h)
  BY <1>1, GetArrayLengthKeeps
<1>2. ASSUME NEW r \in Heap!Regions(Heap!Cells(h)), Heap!GetArrayRegion(h, r[1], r[2])
      PROVE  HeapInv'
  BY <1>2, GetArrayRegionKeeps
<1>3. ASSUME NEW r \in Heap!Regions(Heap!Cells(h)), NEW v \in Values,
             Heap!SetArrayRegion(h, r[1], [i \in 1..r[2] |-> v])
      PROVE  HeapInv'
  <2>1. Heap!Cells(h) \in Seq(HeapCells)
    BY AnArray
  <2>2. ~Heap!Refused(Heap!Cells(h), r[1], r[2]) => r[1] \in Nat
    BY <1>3, <2>1, RegionFits
  <2>3. r[1] \in Int /\ r[2] \in Nat
    BY <1>3, Sentinels DEF Heap!Regions
  <2> QED BY <1>3, <2>2, <2>3, SetArrayRegionKeeps
<1>4. ASSUME NEW g \in Held, Heap!GetArrayElements(h, g) PROVE HeapInv'
  BY <1>4, GetArrayElementsKeeps
<1>5. ASSUME NEW g \in Heap!Arrays("values"),
             NEW c \in Heap!Copies(Heap!Cells(h), Heap!Cells(g)),
             Heap!ArrayCopy(h, c[1], g, c[2], c[3])
      PROVE  HeapInv'
  <2>1. /\ c[1] \in Nat /\ c[2] \in Nat /\ c[3] \in Nat
        /\ c[1] + c[3] <= Len(Heap!Cells(h))
    BY <1>5, Sentinels DEF Heap!Copies
  <2> QED BY <1>5, <2>1, ArrayCopyKeeps
<1> QED BY <1>1, <1>2, <1>3, <1>4, <1>5 DEF ArrayStep

LEMMA HeapStepInv ==
  ASSUME HeapInv, Careful, [Heap!Next]_(Heap!heapVars)
  PROVE  HeapInv'
<1>1. ASSUME NEW h \in Held, NEW n \in 0..MaxLength,
             Heap!NewArray(h, n) \/ Heap!ByteBufferAllocate(h, n)
      PROVE  HeapInv'
  BY <1>1, Sentinels, NewArrayKeeps DEF Heap!ByteBufferAllocate
<1>2. ASSUME NEW h \in Held, NEW n \in 0..MaxLength, NEW e \in Heap!Elements \cup {NullRef},
             Heap!NewObjectArray(h, n, e)
      PROVE  HeapInv'
  BY <1>2, Sentinels, NewObjectArrayKeeps
<1>3. ASSUME NEW h \in Held, Heap!NewString(h) PROVE HeapInv'
  BY <1>3, NewStringKeeps
<1>4. ASSUME NEW h \in Held, NEW g \in Held, NEW scope \in {"local", "global"},
             Heap!NewRef(h, g, scope)
      PROVE  HeapInv'
  BY <1>4, NewRefKeeps
<1>5. ASSUME NEW h \in Heap!Arrays("values"), NEW g \in Held, Heap!ByteBufferWrap(h, g)
      PROVE  HeapInv'
  BY <1>5, NewRefKeeps, AnArray DEF Heap!ByteBufferWrap
<1>6. ASSUME NEW h \in Heap!Scoped("global"), Heap!DeleteGlobalRef(h) PROVE HeapInv'
  BY <1>6, DeleteKeeps DEF Heap!Scoped
<1>7. ASSUME NEW h \in Heap!Scoped("local") \cup Heap!Scoped("elements"),
             Heap!DeleteLocalRef(h)
      PROVE  HeapInv'
  BY <1>7, DeleteLocalRefKeeps DEF Heap!Scoped
<1>8. CASE Heap!PopLocalFrame
  BY <1>8, PopLocalFrameKeeps
<1>9. ASSUME NEW h \in Heap!Arrays("values"), ArrayStep(h) PROVE HeapInv'
  BY <1>9, ArrayStepKeeps
<1>10. ASSUME NEW h \in Heap!Scoped("elements"), NEW v \in Values,
              NEW i \in DOMAIN Heap!Cells(h), Heap!WriteElement(h, i, v)
       PROVE  HeapInv'
  BY <1>10, WriteElementKeeps
<1>11. ASSUME NEW h \in Heap!Scoped("local") \cup Heap!Scoped("global"),
              NEW g \in Heap!Scoped("local") \cup Heap!Scoped("global"),
              Heap!IsSameObject(h, g)
       PROVE  HeapInv'
  BY <1>11, IsSameObjectKeeps DEF Heap!Scoped
<1>12. ASSUME NEW h \in Heap!Arrays("objects"), NEW index \in -1..MaxLength, NEW g \in Held,
              Heap!GetObjectArrayElement(h, index, g)
       PROVE  HeapInv'
  BY <1>12, Sentinels, GetObjectArrayElementKeeps
<1>13. ASSUME NEW h \in Heap!Arrays("objects"), NEW index \in -1..MaxLength,
              NEW e \in Heap!Elements, Heap!SetObjectArrayElement(h, index, e)
       PROVE  HeapInv'
  BY <1>13, Sentinels, SetObjectArrayElementKeeps
<1>14. CASE UNCHANGED Heap!heapVars
  BY <1>14, OnlyRefs DEF Heap!heapVars, HeapInv, HeapTypes
<1> QED BY <1>1, <1>2, <1>3, <1>4, <1>5, <1>6, <1>7, <1>8, <1>9, <1>10, <1>11, <1>12, <1>13,
           <1>14 DEF Heap!Next, ArrayStep

LEMMA HeapAlways == ASSUME Careful PROVE VmSpec => []HeapInv
<1>1. VmInit => HeapInv
  <2> SUFFICES ASSUME VmInit PROVE HeapInv
    OBVIOUS
  <2>1. /\ heap = [a \in Addresses |-> NullRef] /\ objects = <<>>
        /\ refs = [h \in Held |-> NullRef] /\ read = TRUE
    BY DEF VmInit, Heap!Init
  <2>2. objects \in Seq(AndroidObjects)
    BY <2>1
  <2> QED BY <2>1, <2>2 DEF HeapInv, HeapTypes
<1>2. HeapInv /\ [VmNext]_vmVars => HeapInv'
  BY HeapStepInv DEF VmNext, vmVars, Heap!heapVars
<1> QED BY <1>1, <1>2, PTL DEF VmSpec, vmVars

\* As long as the game deletes a global reference last, every reference and
\* elements pointer it holds leads to the object it was made for, and so does
\* every element of an object array (FalsoJNI.c:187-217, 1521-1615).
THEOREM ReferencesLead == ASSUME Careful PROVE VmSpec => []HeldObjectsAlive
<1>1. HeapInv => HeldObjectsAlive
  <2> SUFFICES ASSUME HeapInv PROVE Heap!HeldObjectsAlive
    BY DEF HeldObjectsAlive
  <2>1. \A r \in Heap!HeldRefs : Heap!Denotes(r.address, r.id)
    BY DEF HeapInv, Leads, Heap!HeldRefs
  <2>2. ASSUME NEW h \in Heap!Arrays("objects"), NEW i \in DOMAIN Heap!Cells(h),
               Heap!JavaCells(h)[i] # NullRef
        PROVE  Heap!Denotes(Heap!Cells(h)[i], Heap!JavaCells(h)[i])
    <3>1. Alive(Heap!Cells(h), Heap!JavaCells(h)) /\ i \in DOMAIN Heap!JavaCells(h)
      BY AnArray DEF Leads, Alike, Heap!Cells, Heap!JavaCells
    <3> QED BY <2>2, <3>1 DEF Alive
  <2> QED BY <2>1, <2>2 DEF Heap!HeldObjectsAlive
<1> QED BY <1>1, HeapAlways, PTL

\* Then lengths, regions, elements and comparisons answer what Android would,
\* wherever the game wrote before it read (FalsoJNI.c:1401-1432, 1628-1690).
THEOREM ArraysRead == ASSUME Careful PROVE VmSpec => []ReadsLikeJava
<1>1. HeapInv => ReadsLikeJava
  BY DEF HeapInv, ReadsLikeJava, Heap!ReadsLikeJava
<1> QED BY <1>1, HeapAlways, PTL

-----------------------------------------------------------------------------
(* The registry: names and handlers *)

\* getMethodIdByName answers the first entry.
LEMMA FirstNamed ==
  ASSUME NEW i \in 1..20, NEW name, NEW hash, Registry!nameToMethodId[i][2] = name,
         \A j \in 1..20 : Registry!nameToMethodId[j][2] = name => i <= j
  PROVE  Registry!MethodId(name, hash) = Registry!nameToMethodId[i][1]
<1>1. DOMAIN Registry!nameToMethodId = 1..20
  BY DEF Registry!nameToMethodId
<1> DEFINE named == {j \in 1..20 : Registry!nameToMethodId[j][2] = name}
           first == CHOOSE j \in named : \A k \in named : j <= k
<1>2. i \in named /\ \A k \in named : i <= k
  OBVIOUS
<1>3. first \in named /\ \A k \in named : first <= k
  BY <1>2
<1>4. first = i
  <2> HIDE DEF first
  <2>1. first \in 1..20 /\ first <= i /\ i <= first
    BY <1>2, <1>3
  <2> QED BY <2>1
<1> QED BY <1>1, <1>2, <1>4 DEF Registry!MethodId

Named(name, id) == \A hash : Registry!MethodId(name, hash) = id

LEMMA GetterIds ==
  /\ Named("getString", 140) /\ Named("getInt", 141) /\ Named("getBoolean", 142)
  /\ Named("getStringForKey", 146) /\ Named("getIntForKey", 147)
  /\ Named("getUserPreference", 151)
<1> DEFINE At(i, name, id) ==
      /\ Registry!nameToMethodId[i][2] = name /\ Registry!nameToMethodId[i][1] = id
      /\ \A j \in 1..20 : Registry!nameToMethodId[j][2] = name => i <= j
<1>1. /\ At(3, "getString", 140) /\ At(4, "getInt", 141) /\ At(5, "getBoolean", 142)
      /\ At(9, "getStringForKey", 146) /\ At(10, "getIntForKey", 147)
      /\ At(14, "getUserPreference", 151)
  BY DEF Registry!nameToMethodId
<1>2. \A i \in 1..20 : \A name, id : At(i, name, id) => Named(name, id)
  BY FirstNamed DEF Named
<1> HIDE DEF At
<1> QED BY <1>1, <1>2

LEMMA PutterIds ==
  /\ Named("putString", 143) /\ Named("putInt", 144) /\ Named("putBoolean", 145)
  /\ Named("setStringForKey", 148) /\ Named("setIntForKey", 149)
  /\ Named("setUserPreference", 152) /\ Named("clearUserPreference", 153)
  /\ Named("flush", 134) /\ Named("initialize", 1610) /\ Named("unlock", 1630)
<1> DEFINE At(i, name, id) ==
      /\ Registry!nameToMethodId[i][2] = name /\ Registry!nameToMethodId[i][1] = id
      /\ \A j \in 1..20 : Registry!nameToMethodId[j][2] = name => i <= j
<1>1. /\ At(6, "putString", 143) /\ At(7, "putInt", 144) /\ At(8, "putBoolean", 145)
      /\ At(11, "setStringForKey", 148) /\ At(12, "setIntForKey", 149)
      /\ At(15, "setUserPreference", 152) /\ At(16, "clearUserPreference", 153)
      /\ At(2, "flush", 134) /\ At(18, "initialize", 1610) /\ At(19, "unlock", 1630)
  BY DEF Registry!nameToMethodId
<1>2. \A i \in 1..20 : \A name, id : At(i, name, id) => Named(name, id)
  BY FirstNamed DEF Named
<1> HIDE DEF At
<1> QED BY <1>1, <1>2

\* The id of a name nobody registered is in no table.
LEMMA SinkUnknown ==
  ASSUME NEW hash \in Int
  PROVE  /\ Registry!MethodId("unknown", hash) = Registry!SinkId(hash)
         /\ Registry!SinkId(hash) >= 65536
<1>1. DOMAIN Registry!nameToMethodId = 1..20
      /\ \A j \in 1..20 : Registry!nameToMethodId[j][2] # "unknown"
  BY DEF Registry!nameToMethodId
<1> QED BY <1>1 DEF Registry!MethodId, Registry!SinkId

LEMMA TableIds ==
  ASSUME NEW type \in Registry!Types, NEW id \in DOMAIN Registry!Handlers(type)
  PROVE  id \in 128..1637
BY DEF Registry!Types, Registry!Handlers, Registry!methodsObject, Registry!methodsInt,
   Registry!methodsBoolean, Registry!methodsVoid

\* Handlers that answer a value change nothing.
LEMMA AnswersOnly ==
  ASSUME NEW type \in {"object", "int", "boolean"}, NEW id \in DOMAIN Registry!Handlers(type)
  PROVE  Registry!Handlers(type)[id] \in
           {"createAudioTrack", "prefsGetString", "stringInitDefault", "createOptionalService",
            "optionalServiceEmptyString", "prefsGetInt", "prefsGetBool", "optionalServiceFalse"}
BY DEF Registry!Handlers, Registry!methodsObject, Registry!methodsInt, Registry!methodsBoolean

-----------------------------------------------------------------------------
(* Preferences and what Android would have *)

\* A stored text says what was put, and is one suppress_gold_ad_hint leaves alone.
Stands(stored, put) ==
  /\ put.type = "none" => stored = Absent
  /\ put.type # "none" => stored # Absent
  /\ put.type = "object" => put.value = stored /\ Registry!Suppress(stored) = stored
  /\ put.type = "int" => put.value \in Ints /\ stored = Registry!Decimal(put.value)
  /\ put.type = "boolean" =>
       put.value \in BOOLEAN /\ stored = IF put.value THEN "1" ELSE "0"

Standing ==
  /\ DOMAIN prefs = Keys /\ DOMAIN java = Keys
  /\ DOMAIN saved = Keys /\ DOMAIN javaSaved = Keys
  /\ \A k \in Keys : Stands(prefs[k], java[k]) /\ Stands(saved[k], javaSaved[k])

RegistryInv == Standing /\ PreferencesLikeJava

LEMMA StandsSaved ==
  ASSUME Standing, DOMAIN prefs' = Keys, DOMAIN java' = Keys,
         \A k \in Keys : Stands(prefs'[k], java'[k]),
         saved' = prefs' \/ saved' = saved,
         javaSaved' = IF saved' = prefs' THEN java' ELSE javaSaved
  PROVE  Standing'
<1>1. CASE saved' = prefs'
  BY <1>1 DEF Standing, Stands
<1>2. CASE saved' # prefs'
  BY <1>2 DEF Standing, Stands
<1> QED BY <1>1, <1>2

\* A call that changes nothing
LEMMA NothingStored ==
  ASSUME Standing, NEW c, Registry!Dispatch(c), UNCHANGED <<prefs, saved, java>>
  PROVE  Standing'
<1>1. javaSaved' = IF saved' = prefs' THEN java' ELSE javaSaved
  BY DEF Registry!Dispatch
<1> QED BY <1>1, StandsSaved DEF Standing

\* What a call of an accessor is
LEMMA ItsTypes ==
  /\ \A name \in DOMAIN Registry!Gets :
       Registry!Gets[name] \in {"object", "int", "boolean"} /\ name # "<init>"
  /\ \A name \in DOMAIN Registry!Puts :
       /\ Registry!Puts[name] \in {"object", "int", "boolean"} /\ name # "<init>"
       /\ name \notin DOMAIN Registry!Gets
BY DEF Registry!Gets, Registry!Puts

LEMMA Stored ==
  ASSUME Standing, NEW key, NEW default
  PROVE  /\ key \in Keys /\ java[key].type # "none" =>
              Registry!PreferencesGet(key, default) = Registry!Suppress(prefs[key])
         /\ key \notin Keys \/ java[key].type = "none" =>
              Registry!PreferencesGet(key, default) = Registry!Suppress(default)
BY DEF Standing, Stands, Registry!PreferencesGet, Registry!Stored

LEMMA Numbers ==
  ASSUME NEW n \in Ints
  PROVE  /\ Registry!Suppress(Registry!Decimal(n)) = Registry!Decimal(n)
         /\ Registry!Strtol(Registry!Decimal(n)) = n
<1> USE VmAssumption DEF Registry!RegistryAssumption
<1>1. Registry!Suppress(Registry!Decimal(n)) = Registry!Decimal(n)
  BY DEF Registry!Suppress
<1> DEFINE m == CHOOSE k \in Ints : Registry!Decimal(n) = Registry!Decimal(k)
<1>2. m \in Ints /\ Registry!Decimal(n) = Registry!Decimal(m)
  OBVIOUS
<1>3. m = n
  BY <1>2
<1>4. Registry!Strtol(Registry!Decimal(n)) = m
  BY DEF Registry!Strtol
<1> QED BY <1>1, <1>3, <1>4

\* What a get answers
Answered(c) == IF c.key \in Keys THEN java[c.key] ELSE Registry!NeverPut

\* what Android would
Right(c, answer) ==
  /\ Answered(c).type = c.type => answer = Answered(c).value
  /\ Answered(c) = Registry!NeverPut =>
       answer = IF c.name \in Registry!NoDefault THEN ""
                ELSE Registry!Seen(c.type, c.arg).value

LEMMA ObjectAnswer ==
  ASSUME Standing, NEW c, c.name \in {"getString", "getStringForKey", "getUserPreference"},
         NEW id, id = 140 <=> c.name = "getString",
         c.type = "object", NEW answer, answer = Registry!PrefsGetString(c.key, c.arg, id)
  PROVE  Right(c, answer)
<1> DEFINE held == Answered(c)
           default == IF id = 140 THEN c.arg ELSE ""
<1>1. answer = Registry!PreferencesGet(c.key, default)
  BY DEF Registry!PrefsGetString
<1>2. ASSUME held.type = "object" PROVE answer = held.value
  <2>1. c.key \in Keys /\ held = java[c.key]
    BY <1>2 DEF Answered, Registry!NeverPut
  <2>4. java[c.key].type # "none"
    BY <1>2, <2>1
  <2>2. Registry!PreferencesGet(c.key, default) = Registry!Suppress(prefs[c.key])
    <3> HIDE DEF default, held
    <3> QED BY <2>1, <2>4, Stored
  <2>3. Registry!Suppress(prefs[c.key]) = held.value
    BY <1>2, <2>1 DEF Standing, Stands
  <2> HIDE DEF held
  <2> QED BY <1>1, <2>2, <2>3
<1>3. ASSUME held = Registry!NeverPut
      PROVE  answer = IF c.name \in Registry!NoDefault THEN ""
                      ELSE Registry!Seen("object", c.arg).value
  <2>1. c.key \notin Keys \/ java[c.key].type = "none"
    BY <1>3 DEF Answered, Registry!NeverPut
  <2> HIDE DEF default
  <2>2. Registry!PreferencesGet(c.key, default) = Registry!Suppress(default)
    BY <2>1, Stored
  <2>3. answer = Registry!Suppress(default)
    BY <1>1, <2>2
  <2> HIDE DEF held
  <2> QED BY <2>3 DEF default, Registry!NoDefault, Registry!Seen, Registry!Suppress
<1> QED BY <1>2, <1>3 DEF Right

LEMMA IntAnswer ==
  ASSUME Standing, NEW c, c.name \in {"getInt", "getIntForKey"}, c.arg \in Ints,
         c.type = "int", NEW answer, answer = Registry!PrefsGetInt(c.key, c.arg)
  PROVE  Right(c, answer)
<1> DEFINE held == Answered(c)
           default == Registry!Decimal(c.arg)
<1>1. answer = Registry!Strtol(Registry!PreferencesGet(c.key, default))
  BY DEF Registry!PrefsGetInt
<1>2. ASSUME held.type = "int" PROVE answer = held.value
  <2>1. c.key \in Keys /\ held = java[c.key]
    BY <1>2 DEF Answered, Registry!NeverPut
  <2>2. Registry!PreferencesGet(c.key, default) = Registry!Suppress(prefs[c.key])
    BY <1>2, <2>1, Stored
  <2>3. held.value \in Ints /\ prefs[c.key] = Registry!Decimal(held.value)
    BY <1>2, <2>1 DEF Standing, Stands
  <2> HIDE DEF held
  <2> QED BY <1>1, <2>2, <2>3, Numbers
<1>3. ASSUME held = Registry!NeverPut
      PROVE  answer = IF c.name \in Registry!NoDefault THEN ""
                      ELSE Registry!Seen("int", c.arg).value
  <2>1. c.key \notin Keys \/ java[c.key].type = "none"
    BY <1>3 DEF Answered, Registry!NeverPut
  <2>2. Registry!PreferencesGet(c.key, default) = Registry!Suppress(default)
    BY <2>1, Stored
  <2>3. answer = c.arg
    BY <1>1, <2>2, Numbers
  <2> QED BY <2>3 DEF Registry!NoDefault, Registry!Seen
<1> QED BY <1>2, <1>3 DEF Right

LEMMA BoolAnswer ==
  ASSUME Standing, NEW c, c.name = "getBoolean", c.arg \in BOOLEAN,
         c.type = "boolean", NEW answer, answer = Registry!PrefsGetBool(c.key, c.arg)
  PROVE  Right(c, answer)
<1> DEFINE held == Answered(c)
           default == IF c.arg THEN "1" ELSE "0"
           text1 == Registry!PreferencesGet(c.key, default)
<1>1. /\ text1 = "1" => answer = TRUE
      /\ text1 = "0" => answer = FALSE
  <2> DEFINE yes == text1 \in {"1", "true", "TRUE"}
  <2>1. answer = yes
    BY DEF Registry!PrefsGetBool
  <2>2. text1 = "1" => (yes = TRUE)
    OBVIOUS
  <2>3. text1 = "0" => (yes = FALSE)
    OBVIOUS
  <2> HIDE DEF yes, text1
  <2> QED BY <2>1, <2>2, <2>3
<1>2. ASSUME held.type = "boolean" PROVE answer = held.value
  <2>1. c.key \in Keys /\ held = java[c.key]
    BY <1>2 DEF Answered, Registry!NeverPut
  <2>2. text1 = Registry!Suppress(prefs[c.key])
    BY <1>2, <2>1, Stored
  <2>3. held.value \in BOOLEAN /\ prefs[c.key] = IF held.value THEN "1" ELSE "0"
    BY <1>2, <2>1 DEF Standing, Stands
  <2>4. CASE held.value = TRUE
    <3>1. text1 = "1"
      BY <2>2, <2>3, <2>4 DEF Registry!Suppress
    <3> QED BY <1>1, <2>4, <3>1
  <2>5. CASE held.value = FALSE
    <3>1. text1 = "0"
      BY <2>2, <2>3, <2>5 DEF Registry!Suppress
    <3> QED BY <1>1, <2>5, <3>1
  <2>6. held.value = TRUE \/ held.value = FALSE
    BY <2>3
  <2> QED BY <2>4, <2>5, <2>6
<1>3. ASSUME held = Registry!NeverPut
      PROVE  answer = IF c.name \in Registry!NoDefault THEN ""
                      ELSE Registry!Seen("boolean", c.arg).value
  <2>1. c.key \notin Keys \/ java[c.key].type = "none"
    BY <1>3 DEF Answered, Registry!NeverPut
  <2>2. text1 = Registry!Suppress(default)
    BY <2>1, Stored
  <2>3. CASE c.arg = TRUE
    <3>1. text1 = "1"
      BY <2>2, <2>3 DEF Registry!Suppress
    <3> QED BY <1>1, <2>3, <3>1 DEF Registry!NoDefault, Registry!Seen
  <2>4. CASE c.arg = FALSE
    <3>1. text1 = "0"
      BY <2>2, <2>4 DEF Registry!Suppress
    <3> QED BY <1>1, <2>4, <3>1 DEF Registry!NoDefault, Registry!Seen
  <2> QED BY <2>3, <2>4
<1> QED BY <1>2, <1>3 DEF Right

-----------------------------------------------------------------------------
(* Calls *)

LEMMA Dispatched ==
  ASSUME NEW c, c.name # "<init>", NEW id, Named(c.name, id),
         id \in DOMAIN Registry!Handlers(c.type), NEW handler,
         handler = Registry!Handlers(c.type)[id], Registry!Dispatch(c)
  PROVE  /\ Registry!Effect(handler, c)
         /\ last' = Registry!Noted(c, Registry!Answer(handler, c, id))
         /\ java' = Registry!OnAndroid(c)
<1>1. Registry!MethodId(Registry!LookedUp(c.class, c.name), c.hash) = id
  BY DEF Registry!LookedUp, Named
<1> QED BY <1>1 DEF Registry!Dispatch

LEMMA ValueHandlers ==
  ASSUME NEW type \in {"object", "int", "boolean"}, NEW id \in DOMAIN Registry!Handlers(type),
         NEW c, Registry!Effect(Registry!Handlers(type)[id], c)
  PROVE  UNCHANGED <<prefs, saved>>
BY AnswersOnly DEF Registry!Effect, Registry!store

LEMMA AccessorIds ==
  /\ {140, 146, 151} \subseteq DOMAIN Registry!Handlers("object")
  /\ \A id \in {140, 146, 151} : Registry!Handlers("object")[id] = "prefsGetString"
  /\ {141, 147} \subseteq DOMAIN Registry!Handlers("int")
  /\ \A id \in {141, 147} : Registry!Handlers("int")[id] = "prefsGetInt"
  /\ 142 \in DOMAIN Registry!Handlers("boolean")
  /\ Registry!Handlers("boolean")[142] = "prefsGetBool"
BY DEF Registry!Handlers, Registry!methodsObject, Registry!methodsInt, Registry!methodsBoolean

\* A get of an accessor, as the game makes it
Getter(c) ==
  /\ c.class = "Preferences" /\ c.name \in DOMAIN Registry!Gets
  /\ c.type = Registry!Gets[c.name]
  /\ c.type = "int" => c.arg \in Ints
  /\ c.type = "boolean" => c.arg \in BOOLEAN

LEMMA NotedGet ==
  ASSUME Standing, NEW c, Getter(c), NEW answer, last' = Registry!Noted(c, answer),
         UNCHANGED java, Right(c, answer)
  PROVE  PreferencesLikeJava'
<1>1. c.type # "void" /\ c.class = "Preferences" /\ c.type = Registry!Gets[c.name]
  BY ItsTypes DEF Getter
<1> DEFINE call == [class |-> c.class, name |-> c.name, type |-> c.type, works |-> c.works,
                    answer |-> answer, key |-> c.key, arg |-> c.arg]
<1>2. last' = call
  BY <1>1 DEF Registry!Noted
<1>3. call.name = c.name /\ call.answer = answer /\ call.key = c.key /\ call.arg = c.arg
  OBVIOUS
<1> HIDE DEF call
<1>4. (IF last.key \in Keys THEN java[last.key] ELSE Registry!NeverPut)' = Answered(c)
  BY <1>2, <1>3 DEF Answered
<1> QED BY <1>1, <1>2, <1>3, <1>4 DEF PreferencesLikeJava, Registry!PreferencesLikeJava,
       Right

LEMMA GetterStep ==
  ASSUME Standing, NEW c, Getter(c), Registry!Dispatch(c)
  PROVE  RegistryInv'
<1>1. c.name \in DOMAIN Registry!Gets /\ c.name \notin DOMAIN Registry!Puts
      /\ c.name # "clearUserPreference" /\ c.name # "<init>"
  BY DEF Getter, Registry!Gets, Registry!Puts
<1>2. Registry!OnAndroid(c) = java
  BY <1>1 DEF Registry!OnAndroid
<1>3. ASSUME UNCHANGED <<prefs, saved, java>> PROVE Standing'
  BY <1>3, NothingStored
<1>4. CASE c.name \in {"getString", "getStringForKey", "getUserPreference"}
  <2>1. c.type = "object"
    BY <1>4 DEF Getter, Registry!Gets
  <2>2. PICK id \in {140, 146, 151} : Named(c.name, id) /\ (id = 140 <=> c.name = "getString")
    BY <1>4, GetterIds
  <2>3. /\ Registry!Effect("prefsGetString", c) /\ java' = Registry!OnAndroid(c)
        /\ last' = Registry!Noted(c, Registry!Answer("prefsGetString", c, id))
    BY <1>1, <2>1, <2>2, AccessorIds, Dispatched
  <2>4. UNCHANGED <<prefs, saved>>
    BY <2>3 DEF Registry!Effect, Registry!store
  <2> PICK answer : answer = Registry!Answer("prefsGetString", c, id)
    OBVIOUS
  <2>a. answer = Registry!PrefsGetString(c.key, c.arg, id)
    BY DEF Registry!Answer, Registry!Peers
  <2>5. last' = Registry!Noted(c, answer)
    BY <2>3
  <2>6. Right(c, answer)
    BY <2>1, <2>a, <1>4, <2>2, ObjectAnswer
  <2>7. UNCHANGED java
    BY <1>2, <2>3
  <2> QED BY <1>3, <2>1, <2>4, <2>5, <2>6, <2>7, NotedGet DEF RegistryInv
<1>5. CASE c.name \in {"getInt", "getIntForKey"}
  <2>1. c.type = "int" /\ c.arg \in Ints
    BY <1>5 DEF Getter, Registry!Gets
  <2>2. PICK id \in {141, 147} : Named(c.name, id)
    BY <1>5, GetterIds
  <2>3. /\ Registry!Effect("prefsGetInt", c) /\ java' = Registry!OnAndroid(c)
        /\ last' = Registry!Noted(c, Registry!Answer("prefsGetInt", c, id))
    BY <1>1, <2>1, <2>2, AccessorIds, Dispatched
  <2>4. UNCHANGED <<prefs, saved>>
    BY <2>3 DEF Registry!Effect, Registry!store
  <2> PICK answer : answer = Registry!Answer("prefsGetInt", c, id)
    OBVIOUS
  <2>a. answer = Registry!PrefsGetInt(c.key, c.arg)
    BY DEF Registry!Answer, Registry!Peers
  <2>5. last' = Registry!Noted(c, answer)
    BY <2>3
  <2>6. Right(c, answer)
    BY <2>1, <2>a, <1>5, <2>1, IntAnswer
  <2>7. UNCHANGED java
    BY <1>2, <2>3
  <2> QED BY <1>3, <2>1, <2>4, <2>5, <2>6, <2>7, NotedGet DEF RegistryInv
<1>6. CASE c.name = "getBoolean"
  <2>1. c.type = "boolean" /\ c.arg \in BOOLEAN
    BY <1>6 DEF Getter, Registry!Gets
  <2>2. Named(c.name, 142)
    BY <1>6, GetterIds
  <2>3. /\ Registry!Effect("prefsGetBool", c) /\ java' = Registry!OnAndroid(c)
        /\ last' = Registry!Noted(c, Registry!Answer("prefsGetBool", c, 142))
    BY <1>1, <2>1, <2>2, AccessorIds, Dispatched
  <2>4. UNCHANGED <<prefs, saved>>
    BY <2>3 DEF Registry!Effect, Registry!store
  <2> PICK answer : answer = Registry!Answer("prefsGetBool", c, 142)
    OBVIOUS
  <2>a. answer = Registry!PrefsGetBool(c.key, c.arg)
    BY DEF Registry!Answer, Registry!Peers
  <2>5. last' = Registry!Noted(c, answer)
    BY <2>3
  <2>6. Right(c, answer)
    BY <2>1, <2>a, <1>6, <2>1, BoolAnswer
  <2>7. UNCHANGED java
    BY <1>2, <2>3
  <2> QED BY <1>3, <2>1, <2>4, <2>5, <2>6, <2>7, NotedGet DEF RegistryInv
<1>7. c.name \in {"getString", "getStringForKey", "getUserPreference", "getInt",
                  "getIntForKey", "getBoolean"}
  BY <1>1 DEF Registry!Gets
<1> QED BY <1>4, <1>5, <1>6, <1>7

LEMMA VoidIds ==
  /\ {134, 143, 144, 145, 148, 149, 152, 153, 1610, 1630} \subseteq DOMAIN Registry!Handlers("void")
  /\ \A id \in {134, 1610, 1630} : Registry!Handlers("void")[id] = "audioNoop"
  /\ \A id \in {143, 148, 152} : Registry!Handlers("void")[id] = "prefsSetString"
  /\ \A id \in {144, 149} : Registry!Handlers("void")[id] = "prefsSetInt"
  /\ Registry!Handlers("void")[145] = "prefsSetBool"
  /\ Registry!Handlers("void")[153] = "prefsClear"
BY DEF Registry!Handlers, Registry!methodsVoid

\* Calls whose answer nobody compares with Android's
LEMMA Uncompared ==
  ASSUME NEW c, c.class # "Preferences" \/ c.name \notin DOMAIN Registry!Gets,
         Registry!Dispatch(c)
  PROVE  PreferencesLikeJava'
<1>1. PICK answer : last' = Registry!Noted(c, answer)
  BY DEF Registry!Dispatch
<1>2. last'.class = c.class /\ last'.name = c.name
  BY <1>1 DEF Registry!Noted
<1> QED BY <1>2 DEF PreferencesLikeJava, Registry!PreferencesLikeJava

\* A put or clear: the store takes what Android takes.
LEMMA Taken ==
  ASSUME Standing, NEW c, Registry!Dispatch(c), NEW key \in Keys, NEW stored, NEW put,
         Stands(stored, put), Registry!Store([prefs EXCEPT ![key] = stored], c.works),
         java' = [java EXCEPT ![key] = put]
  PROVE  Standing'
<1>1. prefs' = [prefs EXCEPT ![key] = stored] /\ (saved' = prefs' \/ saved' = saved)
  BY DEF Registry!Store
<1>2. DOMAIN prefs' = Keys /\ DOMAIN java' = Keys
  BY <1>1 DEF Standing
<1>3. \A k \in Keys : Stands(prefs'[k], java'[k])
  <2>1. \A k \in Keys : prefs'[k] = (IF k = key THEN stored ELSE prefs[k])
                        /\ java'[k] = (IF k = key THEN put ELSE java[k])
    BY <1>1 DEF Standing
  <2>2. \A k \in Keys : Stands(prefs[k], java[k])
    BY DEF Standing
  <2> TAKE k \in Keys
  <2>3. CASE k = key
    BY <2>1, <2>3
  <2>4. CASE k # key
    BY <2>1, <2>2, <2>4
  <2> QED BY <2>3, <2>4
<1>4. javaSaved' = IF saved' = prefs' THEN java' ELSE javaSaved
  BY DEF Registry!Dispatch
<1> QED BY <1>1, <1>2, <1>3, <1>4, StandsSaved

\* A put of an accessor, as the game makes it
Putter(c) ==
  /\ c.class = "Preferences" /\ c.name \in DOMAIN Registry!Puts /\ c.type = "void"
  /\ Registry!Puts[c.name] = "object" => c.arg \in Words
  /\ Registry!Puts[c.name] = "int" => c.arg \in Ints
  /\ Registry!Puts[c.name] = "boolean" => c.arg \in BOOLEAN

LEMMA PutStands ==
  /\ \A t \in Words : Stands(Registry!Suppress(t), Registry!Seen("object", t))
  /\ \A n \in Ints :
       Stands(Registry!Suppress(Registry!Decimal(n)), Registry!Seen("int", n))
  /\ \A b \in BOOLEAN :
       Stands(Registry!Suppress(IF b THEN "1" ELSE "0"), Registry!Seen("boolean", b))
<1> USE VmAssumption DEF Registry!RegistryAssumption, Registry!StoredTexts
<1>1. ASSUME NEW t \in Words
      PROVE  Stands(Registry!Suppress(t), Registry!Seen("object", t))
  BY DEF Stands, Registry!Seen, Registry!Suppress
<1>2. ASSUME NEW n \in Ints
      PROVE  Stands(Registry!Suppress(Registry!Decimal(n)), Registry!Seen("int", n))
  <2>1. Registry!Suppress(Registry!Decimal(n)) = Registry!Decimal(n)
    BY Numbers
  <2>2. Registry!Decimal(n) # Absent
    OBVIOUS
  <2>3. Stands(Registry!Decimal(n), Registry!Seen("int", n))
    BY <2>2 DEF Stands, Registry!Seen
  <2> QED BY <2>1, <2>3
<1>3. ASSUME NEW b \in BOOLEAN
      PROVE  Stands(Registry!Suppress(IF b THEN "1" ELSE "0"), Registry!Seen("boolean", b))
  <2>1. CASE b = TRUE
    <3>1. Registry!Seen("boolean", b).type = "boolean" /\ Registry!Seen("boolean", b).value = TRUE
      BY <2>1 DEF Registry!Seen
    <3>2. Registry!Suppress(IF b THEN "1" ELSE "0") = "1"
      BY <2>1 DEF Registry!Suppress
    <3> QED BY <3>1, <3>2 DEF Stands
  <2>2. CASE b = FALSE
    <3>1. Registry!Seen("boolean", b).type = "boolean" /\ Registry!Seen("boolean", b).value = FALSE
      BY <2>2 DEF Registry!Seen
    <3>2. Registry!Suppress(IF b THEN "1" ELSE "0") = "0"
      BY <2>2 DEF Registry!Suppress
    <3> QED BY <3>1, <3>2 DEF Stands
  <2> QED BY <2>1, <2>2
<1> QED BY <1>1, <1>2, <1>3

LEMMA PutterStep ==
  ASSUME Standing, NEW c, Putter(c), Registry!Dispatch(c)
  PROVE  RegistryInv'
<1>1. c.name \notin DOMAIN Registry!Gets /\ c.name # "<init>"
  BY ItsTypes DEF Putter
<1>2. PreferencesLikeJava'
  BY <1>1, Uncompared
<1> DEFINE put == Registry!Seen(Registry!Puts[c.name], c.arg)
<1>3. \/ c.key \notin Keys /\ java' = java
      \/ c.key \in Keys /\ java' = [java EXCEPT ![c.key] = put]
  BY DEF Putter, Registry!Dispatch, Registry!OnAndroid
<1>4. ASSUME NEW stored, Registry!PreferencesSet(c.key, stored, c.works),
             Stands(Registry!Suppress(stored), put)
      PROVE  Standing'
  <2> HIDE DEF put
  <2>1. CASE c.key \notin Keys
    BY <1>3, <1>4, <2>1, NothingStored DEF Registry!PreferencesSet, Registry!store
  <2>2. CASE c.key \in Keys
    <3>1. Registry!Store([prefs EXCEPT ![c.key] = Registry!Suppress(stored)], c.works)
      BY <1>4, <2>2 DEF Registry!PreferencesSet
    <3>2. java' = [java EXCEPT ![c.key] = put]
      BY <1>3, <2>2
    <3> QED BY <1>4, <2>2, <3>1, <3>2, Taken
  <2> QED BY <2>1, <2>2
<1>5. CASE c.name \in {"putString", "setStringForKey", "setUserPreference"}
  <2>1. c.type = "void" /\ Registry!Puts[c.name] = "object" /\ c.arg \in Words
    BY <1>5 DEF Putter, Registry!Puts
  <2>2. PICK id \in {143, 148, 152} : Named(c.name, id)
    BY <1>5, PutterIds
  <2>3. Registry!Effect("prefsSetString", c)
    BY <1>1, <2>1, <2>2, VoidIds, Dispatched
  <2>4. Registry!PreferencesSet(c.key, c.arg, c.works)
    BY <2>3 DEF Registry!Effect
  <2>5. Stands(Registry!Suppress(c.arg), put)
    BY <2>1, PutStands
  <2> QED BY <1>2, <1>4, <2>4, <2>5 DEF RegistryInv
<1>6. CASE c.name \in {"putInt", "setIntForKey"}
  <2>1. c.type = "void" /\ Registry!Puts[c.name] = "int" /\ c.arg \in Ints
    BY <1>6 DEF Putter, Registry!Puts
  <2>2. PICK id \in {144, 149} : Named(c.name, id)
    BY <1>6, PutterIds
  <2>3. Registry!Effect("prefsSetInt", c)
    BY <1>1, <2>1, <2>2, VoidIds, Dispatched
  <2>4. Registry!PreferencesSet(c.key, Registry!Decimal(c.arg), c.works)
    BY <2>3 DEF Registry!Effect
  <2>5. Stands(Registry!Suppress(Registry!Decimal(c.arg)), put)
    BY <2>1, PutStands
  <2> QED BY <1>2, <1>4, <2>4, <2>5 DEF RegistryInv
<1>7. CASE c.name = "putBoolean"
  <2>1. c.type = "void" /\ Registry!Puts[c.name] = "boolean" /\ c.arg \in BOOLEAN
    BY <1>7 DEF Putter, Registry!Puts
  <2>2. Named(c.name, 145)
    BY <1>7, PutterIds
  <2>3. Registry!Effect("prefsSetBool", c)
    BY <1>1, <2>1, <2>2, VoidIds, Dispatched
  <2>4. Registry!PreferencesSet(c.key, IF c.arg THEN "1" ELSE "0", c.works)
    BY <2>3 DEF Registry!Effect
  <2>5. Stands(Registry!Suppress(IF c.arg THEN "1" ELSE "0"), put)
    BY <2>1, PutStands
  <2> QED BY <1>2, <1>4, <2>4, <2>5 DEF RegistryInv
<1>8. c.name \in {"putString", "setStringForKey", "setUserPreference", "putInt",
                  "setIntForKey", "putBoolean"}
  BY DEF Putter, Registry!Puts
<1> QED BY <1>5, <1>6, <1>7, <1>8

LEMMA ClearStep ==
  ASSUME Standing, NEW c, c.class = "Preferences", c.name = "clearUserPreference",
         c.type = "void", c.key \in Keys, Registry!Dispatch(c)
  PROVE  RegistryInv'
<1>1. c.name \notin DOMAIN Registry!Gets /\ c.name \notin DOMAIN Registry!Puts
  BY DEF Registry!Gets, Registry!Puts
<1>2. Registry!Effect("prefsClear", c) /\ java' = Registry!OnAndroid(c)
  BY PutterIds, VoidIds, Dispatched
<1>3. Registry!PrefsClear(c.key, c.works)
  BY <1>2 DEF Registry!Effect
<1>4. java' = [java EXCEPT ![c.key] = Registry!NeverPut]
  BY <1>1, <1>2 DEF Registry!OnAndroid
<1>5. Stands(Absent, Registry!NeverPut)
  BY DEF Stands, Registry!NeverPut
<1>6. ASSUME Registry!Store([prefs EXCEPT ![c.key] = Absent], c.works) PROVE Standing'
  BY <1>4, <1>5, <1>6, Taken
<1>7. ASSUME UNCHANGED <<prefs, saved>>, prefs[c.key] = Absent PROVE Standing'
  <2>1. \A k \in Keys : Stands(prefs'[k], java'[k])
    BY <1>4, <1>5, <1>7 DEF Standing
  <2>2. DOMAIN prefs' = Keys /\ DOMAIN java' = Keys
    BY <1>4, <1>7 DEF Standing
  <2>3. javaSaved' = IF saved' = prefs' THEN java' ELSE javaSaved
    BY DEF Registry!Dispatch
  <2> QED BY <1>7, <2>1, <2>2, <2>3, StandsSaved
<1>8. Standing'
  BY <1>3, <1>6, <1>7 DEF Registry!PrefsClear, Registry!Stored, Registry!store
<1> QED BY <1>1, <1>8, Uncompared DEF RegistryInv

\* All other calls leave the store alone: those that answer a value, those of
\* audioNoop, and those of methods nobody registered.
LEMMA OtherStep ==
  ASSUME Standing, NEW c, c.type \in Registry!Types, Registry!Dispatch(c),
         c.class # "Preferences" \/ c.name = "flush",
         \/ c.type # "void"
         \/ c.name \in {"flush", "initialize", "unlock"}
         \/ c.name = "unknown" /\ c.hash \in Int
  PROVE  RegistryInv' /\ UNCHANGED <<prefs, saved>>
<1>1. "flush" \notin DOMAIN Registry!Gets /\ "flush" \notin DOMAIN Registry!Puts
  BY DEF Registry!Gets, Registry!Puts
<1>2. Registry!OnAndroid(c) = java
  BY <1>1 DEF Registry!OnAndroid
<1>3. java' = java
  BY <1>2 DEF Registry!Dispatch
<1>4. UNCHANGED <<prefs, saved>>
  <2>1. CASE c.type # "void"
    <3>1. c.type \in {"object", "int", "boolean"}
      BY <2>1 DEF Registry!Types
    <3> DEFINE id == Registry!MethodId(Registry!LookedUp(c.class, c.name), c.hash)
    <3>2. CASE id \in DOMAIN Registry!Handlers(c.type)
      <4>1. Registry!Effect(Registry!Handlers(c.type)[id], c)
        BY <3>2 DEF Registry!Dispatch
      <4> HIDE DEF id
      <4> QED BY <3>1, <3>2, <4>1, ValueHandlers
    <3>3. CASE id \notin DOMAIN Registry!Handlers(c.type)
      BY <3>3 DEF Registry!Dispatch, Registry!store
    <3> QED BY <3>2, <3>3
  <2>2. CASE c.type = "void" /\ c.name \in {"flush", "initialize", "unlock"}
    <3>1. PICK id \in {134, 1610, 1630} : Named(c.name, id)
      BY <2>2, PutterIds
    <3>2. Registry!Effect("audioNoop", c)
      BY <2>2, <3>1, VoidIds, Dispatched
    <3> QED BY <3>2 DEF Registry!Effect, Registry!store
  <2>3. CASE c.type = "void" /\ c.name = "unknown" /\ c.hash \in Int
    <3>1. Registry!LookedUp(c.class, c.name) = "unknown"
      BY <2>3 DEF Registry!LookedUp
    <3>2. Registry!MethodId("unknown", c.hash) \notin DOMAIN Registry!Handlers(c.type)
      BY <2>3, SinkUnknown, TableIds
    <3> QED BY <3>1, <3>2 DEF Registry!Dispatch, Registry!store
  <2> QED BY <2>1, <2>2, <2>3
<1>5. PreferencesLikeJava'
  BY <1>1, Uncompared
<1> QED BY <1>3, <1>4, <1>5, NothingStored DEF RegistryInv

\* What the game calls
LEMMA CallKinds ==
  /\ \A c \in Registry!PreferenceCalls :
       \/ Getter(c)
       \/ Putter(c)
       \/ /\ c.class = "Preferences" /\ c.name = "clearUserPreference"
          /\ c.type = "void" /\ c.key \in Keys
       \/ c.name = "flush" /\ c.type = "void"
  /\ \A c \in Registry!ServiceCalls :
       /\ c.class # "Preferences" /\ c.type \in Registry!Types
       /\ \/ c.type # "void"
          \/ c.name \in {"flush", "initialize", "unlock"}
          \/ c.name = "unknown" /\ c.hash \in Int
       /\ c.class = "Extension" => c.name = "unknown" /\ c.hash \in Int
  /\ \A c \in Registry!ConstructorCalls : c.class # "Preferences" /\ c.type = "object"
<1> USE DEF Registry!Call
<1>1. ASSUME NEW c \in Registry!PreferenceCalls
      PROVE  \/ Getter(c)
             \/ Putter(c)
             \/ /\ c.class = "Preferences" /\ c.name = "clearUserPreference"
                /\ c.type = "void" /\ c.key \in Keys
             \/ c.name = "flush" /\ c.type = "void"
  <2>1. ASSUME NEW n \in DOMAIN Registry!Gets, c \in Registry!GetCalls(n) PROVE Getter(c)
    <3> DEFINE Args == IF n \in Registry!NoDefault THEN {Registry!NotPassed}
                       ELSE Registry!ArgsOf(Registry!Gets[n])
    <3>1. PICK k \in Keys \cup {Null}, a \in Args :
                 c = Registry!Call("Preferences", n, Registry!Gets[n], k, a, TRUE)
      BY <2>1 DEF Registry!GetCalls
    <3> QED BY <2>1, <3>1 DEF Getter, Registry!Gets, Registry!NoDefault, Registry!ArgsOf
  <2>2. ASSUME NEW n \in DOMAIN Registry!Puts, c \in Registry!PutCalls(n) PROVE Putter(c)
    <3>1. PICK k \in Keys \cup {Null}, a \in Registry!ArgsOf(Registry!Puts[n]),
               w \in BOOLEAN : c = Registry!Call("Preferences", n, "void", k, a, w)
      BY <2>2 DEF Registry!PutCalls
    <3> QED BY <2>2, <3>1 DEF Putter, Registry!Puts, Registry!ArgsOf
  <2>3. c \in Registry!ClearCalls =>
          /\ c.class = "Preferences" /\ c.name = "clearUserPreference"
          /\ c.type = "void" /\ c.key \in Keys
    BY DEF Registry!ClearCalls
  <2>4. c \in Registry!FlushCalls => c.name = "flush" /\ c.type = "void"
    BY DEF Registry!FlushCalls
  <2> QED BY <1>1, <2>1, <2>2, <2>3, <2>4 DEF Registry!PreferenceCalls
<1>2. ASSUME NEW c \in Registry!ServiceCalls
      PROVE  /\ c.class # "Preferences" /\ c.type \in Registry!Types
             /\ \/ c.type # "void"
                \/ c.name \in {"flush", "initialize", "unlock"}
                \/ c.name = "unknown" /\ c.hash \in Int
             /\ c.class = "Extension" => c.name = "unknown" /\ c.hash \in Int
  <2>1. ASSUME c \in Registry!UnknownCalls
        PROVE  /\ c.class = "Extension" /\ c.type \in Registry!Types
               /\ c.name = "unknown" /\ c.hash \in Int
    <3>1. PICK type \in Registry!Types, h \in Hashes, k \in Keys :
                 c = [Registry!Call("Extension", "unknown", type, k, "0", TRUE)
                        EXCEPT !.hash = h]
      BY <2>1 DEF Registry!UnknownCalls
    <3>2. h \in Int
      BY VmAssumption DEF Registry!RegistryAssumption
    <3> QED BY <3>1, <3>2
  <2>2. ASSUME c \in Registry!OptionalCalls
        PROVE  /\ c.class = "Service" /\ c.type \in {"object", "void", "boolean"}
               /\ c.type # "void" \/ c.name \in {"initialize", "unlock"}
    BY <2>2 DEF Registry!OptionalCalls
  <2> QED BY <1>2, <2>1, <2>2 DEF Registry!ServiceCalls, Registry!Types
<1>3. \A c \in Registry!ConstructorCalls : c.class # "Preferences" /\ c.type = "object"
  BY DEF Registry!ConstructorCalls
<1> QED BY <1>1, <1>2, <1>3

LEMMA CallStep ==
  ASSUME Standing,
         NEW c \in Registry!PreferenceCalls \cup Registry!ServiceCalls
                     \cup Registry!ConstructorCalls,
         Registry!Dispatch(c)
  PROVE  RegistryInv'
<1>1. CASE c \in Registry!PreferenceCalls
  <2>1. CASE Getter(c)
    BY <2>1, GetterStep
  <2>2. CASE Putter(c)
    BY <2>2, PutterStep
  <2>3. CASE /\ c.class = "Preferences" /\ c.name = "clearUserPreference"
             /\ c.type = "void" /\ c.key \in Keys
    BY <2>3, ClearStep
  <2>4. CASE c.name = "flush" /\ c.type = "void"
    BY <2>4, OtherStep DEF Registry!Types
  <2> QED BY <1>1, <2>1, <2>2, <2>3, <2>4, CallKinds
<1>2. CASE c \in Registry!ServiceCalls
  BY <1>2, CallKinds, OtherStep
<1>3. CASE c \in Registry!ConstructorCalls
  BY <1>3, CallKinds, OtherStep DEF Registry!Types
<1> QED BY <1>1, <1>2, <1>3

LEMMA RegistryStep ==
  ASSUME RegistryInv, Registry!Next PROVE RegistryInv'
<1> USE DEF RegistryInv
<1>1. ASSUME NEW c \in Registry!PreferenceCalls \cup Registry!ServiceCalls
                     \cup Registry!ConstructorCalls,
             Registry!Dispatch(c)
      PROVE  RegistryInv'
  BY <1>1, CallStep
<1>2. ASSUME UNCHANGED <<prefs, saved, java, javaSaved>>, last'.class # "Preferences"
      PROVE  RegistryInv'
  BY <1>2 DEF Standing, Stands, PreferencesLikeJava, Registry!PreferencesLikeJava
<1>3. ASSUME NEW type, NEW name, Registry!GetField(type, name)
      PROVE  RegistryInv'
  BY <1>2, <1>3 DEF Registry!GetField, Registry!store
<1>4. ASSUME NEW type, NEW name, NEW value, Registry!SetField(type, name, value)
      PROVE  RegistryInv'
  BY <1>2, <1>4 DEF Registry!SetField, Registry!store, Registry!NoCall
<1>5. CASE Registry!Restart
  BY <1>5 DEF Registry!Restart, Registry!NoCall, Standing, Stands, PreferencesLikeJava,
     Registry!PreferencesLikeJava
<1> QED BY <1>1, <1>3, <1>4, <1>5
        DEF Registry!Next, Registry!CallMethod, Registry!CallNonvirtualMethod,
            Registry!CallStaticMethod, Registry!NewObject, Registry!GetStaticField,
            Registry!SetStaticField

LEMMA RegistryAlways == VmSpec => []RegistryInv
<1>1. VmInit => RegistryInv
  BY DEF VmInit, Registry!Init, Registry!NoCall, Registry!NeverPut, RegistryInv, Standing,
     Stands, PreferencesLikeJava, Registry!PreferencesLikeJava
<1>2. RegistryInv /\ [VmNext]_vmVars => RegistryInv'
  <2> SUFFICES ASSUME RegistryInv, [VmNext]_vmVars PROVE RegistryInv'
    OBVIOUS
  <2>1. CASE Registry!Next
    BY <2>1, RegistryStep
  <2>2. CASE UNCHANGED <<prefs, saved, last, java, javaSaved>>
    BY <2>2 DEF RegistryInv, Standing, Stands, PreferencesLikeJava,
       Registry!PreferencesLikeJava
  <2> QED BY <2>1, <2>2 DEF VmNext, vmVars
<1> QED BY <1>1, <1>2, PTL DEF VmSpec, vmVars

\* Preferences answer what Android's would: a get of the type a key was put with
\* the value that was put, whatever saves failed and restarts came in between, and
\* a get of a key without a value the default, or "" where the method has none
\* (java.c:232-285 over preferences.c).
THEOREM PreferencesAnswer == VmSpec => []PreferencesLikeJava
BY RegistryAlways, PTL DEF RegistryInv

\* A call of a method the tables do not have
LEMMA UnknownStep ==
  ASSUME NEW c \in Registry!UnknownCalls, Registry!Dispatch(c)
  PROVE  last'.answer = Registry!MethodDefault(last'.type) /\ UNCHANGED Registry!store
<1>1. PICK type \in Registry!Types, h \in Hashes, k \in Keys :
             c = [Registry!Call("Extension", "unknown", type, k, "0", TRUE) EXCEPT !.hash = h]
  BY DEF Registry!UnknownCalls, Registry!Call
<1>2. /\ c.class = "Extension" /\ c.name = "unknown" /\ c.type = type /\ c.hash = h
      /\ h \in Int
  BY <1>1, VmAssumption DEF Registry!Call, Registry!RegistryAssumption
<1>3. Registry!MethodId(Registry!LookedUp(c.class, c.name), c.hash)
        \notin DOMAIN Registry!Handlers(c.type)
  <2>1. Registry!LookedUp(c.class, c.name) = "unknown"
    BY <1>2 DEF Registry!LookedUp
  <2>2. Registry!MethodId("unknown", h) >= 65536 /\ Registry!MethodId("unknown", h) \in Int
    BY <1>2, SinkUnknown DEF Registry!SinkId
  <2> QED BY <1>2, <2>1, <2>2, TableIds
<1>4. last' = Registry!Noted(c, Registry!MethodDefault(c.type)) /\ UNCHANGED Registry!store
  BY <1>3 DEF Registry!Dispatch
<1> QED BY <1>2, <1>4 DEF Registry!Noted

LEMMA NamedCalls ==
  ASSUME NEW c \in Registry!PreferenceCalls \cup Registry!ServiceCalls
                     \cup Registry!ConstructorCalls,
         c.class = "Extension"
  PROVE  c \in Registry!UnknownCalls
<1> USE DEF Registry!Call
<1>1. \A n \in DOMAIN Registry!Gets : \A d \in Registry!GetCalls(n) : d.class # "Extension"
  BY DEF Registry!GetCalls
<1>2. \A n \in DOMAIN Registry!Puts : \A d \in Registry!PutCalls(n) : d.class # "Extension"
  BY DEF Registry!PutCalls
<1>3. \A d \in Registry!ClearCalls \cup Registry!FlushCalls : d.class # "Extension"
  BY DEF Registry!ClearCalls, Registry!FlushCalls
<1>4. \A d \in Registry!OptionalCalls \cup Registry!ConstructorCalls : d.class # "Extension"
  BY DEF Registry!OptionalCalls, Registry!ConstructorCalls
<1> QED BY <1>1, <1>2, <1>3, <1>4 DEF Registry!PreferenceCalls, Registry!ServiceCalls

\* Whatever the name of a method nobody registered hashes to, calling it answers
\* the default of its type and does not touch the preferences (java.c:8).
THEOREM UnknownHarmless == VmSpec => UnknownMethodsHarmless
<1> DEFINE
  Harmless == last'.class = "Extension" =>
    last'.answer = Registry!MethodDefault(last'.type) /\ UNCHANGED Registry!store
<1>1. [VmNext]_vmVars => [Harmless]_(Registry!vars)
  <2> SUFFICES ASSUME [VmNext]_vmVars PROVE Harmless \/ UNCHANGED Registry!vars
    OBVIOUS
  <2>1. ASSUME NEW c \in Registry!PreferenceCalls \cup Registry!ServiceCalls
                         \cup Registry!ConstructorCalls,
               Registry!Dispatch(c)
        PROVE  Harmless
    <3>1. last'.class = c.class
      BY <2>1 DEF Registry!Dispatch, Registry!Noted
    <3> QED BY <2>1, <3>1, NamedCalls, UnknownStep
  <2>2. ASSUME NEW type, NEW name, Registry!GetField(type, name) PROVE Harmless
    BY <2>2 DEF Registry!GetField
  <2>3. ASSUME NEW type, NEW name, NEW value, Registry!SetField(type, name, value)
        PROVE  Harmless
    BY <2>3 DEF Registry!SetField, Registry!NoCall
  <2>4. CASE Registry!Restart
    BY <2>4 DEF Registry!Restart, Registry!NoCall
  <2>5. CASE UNCHANGED <<prefs, saved, fields, last, java, javaSaved>>
    BY <2>5 DEF Registry!vars
  <2> QED BY <2>1, <2>2, <2>3, <2>4, <2>5
          DEF VmNext, vmVars, Registry!Next, Registry!CallMethod,
              Registry!CallNonvirtualMethod, Registry!CallStaticMethod, Registry!NewObject,
              Registry!GetStaticField, Registry!SetStaticField
<1> QED BY <1>1, PTL DEF VmSpec, vmVars, UnknownMethodsHarmless, Registry!UnknownMethodsHarmless
=============================================================================
