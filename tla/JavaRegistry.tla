----------------------------- MODULE JavaRegistry -----------------------------
(***************************************************************************)
(* The fake Java machine's registry: GetMethodID and GetFieldID look names *)
(* up in the tables of source/java.c, the Call<Type>Method and             *)
(* Get/Set<Type>Field families of lib/falso_jni dispatch on the id in the  *)
(* table of the type.  The entries here are the preference accessors, the  *)
(* audio method that shares a name with one of them, and one field of each *)
(* kind.  Stored values are texts, whatever the type they were put with.   *)
(*                                                                         *)
(* The store under the accessors is what Preferences implements: a current *)
(* and a saved version, with saves that may fail.                          *)
(***************************************************************************)
EXTENDS Integers, Sequences, TLC

CONSTANTS
  Keys,      \* preference names
  Words,     \* texts the game stores as strings
  Ints,      \* integers it stores
  Hashes,    \* what the hash of an unknown name may be
  Null,      \* a NULL string or object, other than every text and key
  Absent     \* the key has no entry

Decimal(n) == ToString(n)             \* snprintf "%d"
StoredTexts == Words \cup {Decimal(n) : n \in Ints} \cup {"", "0", "1", "26t"}

\* suppress_gold_ad_hint, which GoldAdHint models: "26f" stands for a text with
\* the hint, "26t" for the same with the hint acknowledged.
Suppress(t) == IF t = "26f" THEN "26t" ELSE t

\* Texts of different numbers differ, and none is a text with the hint.
RegistryAssumption ==
  /\ \A m, n \in Ints : Decimal(m) = Decimal(n) => m = n
  /\ \A n \in Ints : Decimal(n) # "26f"
  /\ Absent \notin StoredTexts
  /\ Hashes \subseteq Int

-----------------------------------------------------------------------------
(* The tables *)

nameToMethodId ==
  << <<128, "android/media/AudioTrack/<init>">>,
     <<134, "flush">>,                                  \* AudioTrack
     <<140, "getString">>, <<141, "getInt">>, <<142, "getBoolean">>,
     <<143, "putString">>, <<144, "putInt">>, <<145, "putBoolean">>,
     <<146, "getStringForKey">>, <<147, "getIntForKey">>,
     <<148, "setStringForKey">>, <<149, "setIntForKey">>,
     <<150, "flush">>,                                  \* preferences
     <<151, "getUserPreference">>, <<152, "setUserPreference">>,
     <<153, "clearUserPreference">>,
     <<300, "java.lang.String/<init>">>,
     <<1610, "initialize">>, <<1630, "unlock">>, <<1637, "getPlayerId">> >>

methodsObject ==
  [id \in {128, 140, 146, 151, 300, 1610, 1637} |->
     CASE id = 128 -> "createAudioTrack"
       [] id \in {140, 146, 151} -> "prefsGetString"
       [] id = 300 -> "stringInitDefault"
       [] id = 1610 -> "createOptionalService"
       [] id = 1637 -> "optionalServiceEmptyString"]
methodsInt == [id \in {141, 147} |-> "prefsGetInt"]
methodsBoolean ==
  [id \in {142, 1630} |-> IF id = 142 THEN "prefsGetBool" ELSE "optionalServiceFalse"]
methodsVoid ==
  [id \in {134, 143, 144, 145, 148, 149, 150, 152, 153, 1610, 1630} |->
     CASE id \in {134, 1610, 1630} -> "audioNoop"
       [] id \in {143, 148, 152} -> "prefsSetString"
       [] id \in {144, 149} -> "prefsSetInt"
       [] id = 145 -> "prefsSetBool"
       [] id = 150 -> "prefsFlush"
       [] id = 153 -> "prefsClear"]

\* One field of each size the game writes, with its type and first value, which
\* carries its type along; "peer" is 0x42424242, the object for want of a real one.
nameToFieldId ==
  [assetManager |-> [type |-> "object", value |-> <<"object", "peer">>],
   __haxeHandle |-> [type |-> "long",   value |-> <<"long", 0>>]]

Types == {"object", "int", "boolean", "void"}

Handlers(type) ==
  CASE type = "object"  -> methodsObject
    [] type = "int"     -> methodsInt
    [] type = "boolean" -> methodsBoolean
    [] type = "void"    -> methodsVoid

\* What a dispatcher answers for an id its table does not have.
MethodDefault(type) ==
  CASE type = "object"  -> Null
    [] type = "int"     -> -1
    [] type = "boolean" -> FALSE
    [] type = "void"    -> Null

FieldDefault(type) == IF type = "object" THEN <<"object", "peer">> ELSE <<"long", 1>>

SinkInTable(hash) == hash % 32768

\* falsojni_generate_method_id: 15 bits of the hash, above every id of the tables.
SinkId(hash) == 65536 + (hash % 32768)

\* GetMethodID and GetStaticMethodID name a constructor after its class, which
\* FindClass answered; no other name has its class in it.
LookedUp(class, name) == IF name = "<init>" THEN class \o "/<init>" ELSE name

\* getMethodIdByName: the first entry of that name; the class plays no part.
MethodId(name, hash) ==
  LET named == {i \in DOMAIN nameToMethodId : nameToMethodId[i][2] = name}
  IN  IF named = {} THEN SinkId(hash)
      ELSE nameToMethodId[CHOOSE i \in named : \A j \in named : i <= j][1]

-----------------------------------------------------------------------------
VARIABLES
  prefs,    \* the store's current version
  saved,    \* the version the next start finds
  fields,   \* the value of each field
  last,     \* the last call, its arguments and its answer
  java,     \* ghost: what Android's preferences would hold, typed
  javaSaved \* ghost: and would have on disk

store == <<prefs, saved>>
vars == <<prefs, saved, fields, last, java, javaSaved>>

Typed ==
  [type : {"object"}, value : StoredTexts] \cup [type : {"int"}, value : Ints]
    \cup [type : {"boolean"}, value : BOOLEAN]

NeverPut == [type |-> "none"]

TypeOK ==
  /\ prefs \in [Keys -> StoredTexts \cup {Absent}]
  /\ saved \in [Keys -> StoredTexts \cup {Absent}]
  /\ DOMAIN fields = DOMAIN nameToFieldId
  /\ java \in [Keys -> Typed \cup {NeverPut}]
  /\ javaSaved \in [Keys -> Typed \cup {NeverPut}]

NoCall == [class |-> "none"]

Init ==
  /\ prefs = [k \in Keys |-> Absent] /\ saved = prefs
  /\ fields = [f \in DOMAIN nameToFieldId |-> nameToFieldId[f].value]
  /\ last = NoCall
  /\ java = [k \in Keys |-> NeverPut] /\ javaSaved = java

-----------------------------------------------------------------------------
(* What a call is, and what the handlers answer and do *)

\* A call as the game makes it: class and name, the return type its signature
\* declares, what the name hashes to, a key, a second argument, and whether
\* storage works meanwhile.
Call(class, name, type, key, arg, works) ==
  [class |-> class, name |-> name, type |-> type, hash |-> 0,
   key |-> key, arg |-> arg, works |-> works]

\* A vararg the caller did not pass is whatever lies there.
NotPassed == "0"

Stored(key) == IF key \in Keys THEN prefs[key] ELSE Absent

PreferencesGet(key, default) ==
  Suppress(IF Stored(key) = Absent THEN default ELSE prefs[key])

\* strtol: the number a text starts with, 0 where it does not start with one.
Strtol(text) ==
  IF \E n \in Ints : text = Decimal(n) THEN CHOOSE n \in Ints : text = Decimal(n)
  ELSE IF text = "1" THEN 1 ELSE 0

PrefsGetStringAlways(key, arg, id) == PreferencesGet(key, arg)

\* Only getString has a default; the convenience methods answer "".
PrefsGetString(key, arg, id) == PreferencesGet(key, IF id = 140 THEN arg ELSE "")

PrefsGetInt(key, arg) == Strtol(PreferencesGet(key, Decimal(arg)))

PrefsGetBool(key, arg) ==
  PreferencesGet(key, IF arg THEN "1" ELSE "0") \in {"1", "true", "TRUE"}

\* Objects and answers of what the port does without: AudioTrack ("AUDI"), ads,
\* billing and game services ("SERV").
Peers ==
  [createAudioTrack |-> "AUDI", createOptionalService |-> "SERV",
   optionalServiceEmptyString |-> "", stringInitDefault |-> "",
   optionalServiceFalse |-> FALSE]

Answer(handler, c, id) ==
  CASE handler = "prefsGetString" -> PrefsGetString(c.key, c.arg, id)
    [] handler = "prefsGetInt"    -> PrefsGetInt(c.key, c.arg)
    [] handler = "prefsGetBool"   -> PrefsGetBool(c.key, c.arg)
    [] handler \in DOMAIN Peers   -> Peers[handler]
    [] OTHER                      -> Null

\* Every change is followed by a save, which replaces the saved version or fails.
Store(new, works) ==
  /\ prefs' = new
  /\ saved' = IF works THEN new ELSE saved

PreferencesSet(key, text, works) ==
  IF key \in Keys
    THEN Store([prefs EXCEPT ![key] = Suppress(text)], works)
    ELSE UNCHANGED store

PrefsClear(key, works) ==
  IF Stored(key) # Absent
    THEN Store([prefs EXCEPT ![key] = Absent], works)
    ELSE UNCHANGED store

PrefsFlush(works) == Store(prefs, works)

Effect(handler, c) ==
  CASE handler = "prefsSetString" -> PreferencesSet(c.key, c.arg, c.works)
    [] handler = "prefsSetInt"    -> PreferencesSet(c.key, Decimal(c.arg), c.works)
    [] handler = "prefsSetBool"   -> PreferencesSet(c.key, IF c.arg THEN "1" ELSE "0", c.works)
    [] handler = "prefsClear"     -> PrefsClear(c.key, c.works)
    [] handler = "prefsFlush"     -> PrefsFlush(c.works)
    [] OTHER                      -> UNCHANGED store

-----------------------------------------------------------------------------
(* What the same call does on Android *)

Puts ==
  [putString |-> "object", setStringForKey |-> "object", setUserPreference |-> "object",
   putInt |-> "int", setIntForKey |-> "int", putBoolean |-> "boolean"]
Gets ==
  [getString |-> "object", getStringForKey |-> "object", getUserPreference |-> "object",
   getInt |-> "int", getIntForKey |-> "int", getBoolean |-> "boolean"]
NoDefault == {"getStringForKey", "getUserPreference"}

Seen(type, value) ==
  [type |-> type, value |-> IF type = "object" THEN Suppress(value) ELSE value]

OnAndroid(c) ==
  IF c.class # "Preferences" \/ c.key \notin Keys THEN java
  ELSE IF c.name \in DOMAIN Puts THEN [java EXCEPT ![c.key] = Seen(Puts[c.name], c.arg)]
  ELSE IF c.name = "clearUserPreference" THEN [java EXCEPT ![c.key] = NeverPut]
  ELSE java

-----------------------------------------------------------------------------
(* Steps *)

\* What is noted of a call: all of it where the answer depends on it.
Noted(c, answer) ==
  IF c.class = "Preferences" /\ c.type # "void"
    THEN [class |-> c.class, name |-> c.name, type |-> c.type, works |-> c.works,
          answer |-> answer, key |-> c.key, arg |-> c.arg]
    ELSE [class |-> c.class, name |-> c.name, type |-> c.type, works |-> c.works,
          answer |-> answer]

\* What the dispatcher of a type does with the id that was looked up.
Dispatch(c) ==
  LET id == MethodId(LookedUp(c.class, c.name), c.hash)
      table == Handlers(c.type)
      found == id \in DOMAIN table
  IN  /\ IF found THEN Effect(table[id], c) ELSE UNCHANGED store
      /\ last' = Noted(c, IF found THEN Answer(table[id], c, id) ELSE MethodDefault(c.type))
      /\ java' = OnAndroid(c)
      /\ javaSaved' = IF saved' = prefs' THEN java' ELSE javaSaved
      /\ UNCHANGED fields

\* Call<Type>Method, CallNonvirtual<Type>Method, CallStatic<Type>Method and
\* NewObject, each with varargs, a va_list or an array.
CallMethod(c) == Dispatch(c)
CallNonvirtualMethod(c) == Dispatch(c)
CallStaticMethod(c) == Dispatch(c)
NewObject(c) == Dispatch(c)

\* The id is in the table of the accessor's type (otherwise a sink or a mismatch).
FieldOf(type, name) == name \in DOMAIN nameToFieldId /\ nameToFieldId[name].type = type

GetField(type, name) ==
  /\ last' = [class |-> "field", type |-> type,
              answer |-> IF FieldOf(type, name) THEN fields[name] ELSE FieldDefault(type)]
  /\ UNCHANGED <<store, fields, java, javaSaved>>

SetField(type, name, value) ==
  /\ fields' = IF FieldOf(type, name) THEN [fields EXCEPT ![name] = value] ELSE fields
  /\ last' = NoCall
  /\ UNCHANGED <<store, java, javaSaved>>

\* All values are kept by field: a static accessor is no other.
GetStaticField(type, name) == GetField(type, name)
SetStaticField(type, name, value) == SetField(type, name, value)

\* The process ends and starts again.
Restart ==
  /\ prefs' = saved /\ java' = javaSaved
  /\ fields' = [f \in DOMAIN nameToFieldId |-> nameToFieldId[f].value]
  /\ last' = NoCall
  /\ UNCHANGED <<saved, javaSaved>>

ArgsOf(type) ==
  CASE type = "object" -> Words [] type = "int" -> Ints [] type = "boolean" -> BOOLEAN

\* Member calls: the accessors with the arguments their signatures have, and both
\* methods called flush.
UserPreference == {"getUserPreference", "setUserPreference", "clearUserPreference"}

GetCalls(n) ==
  {Call("Preferences", n, Gets[n], k, a, TRUE) :
     k \in Keys \cup {Null}, a \in IF n \in NoDefault THEN {NotPassed} ELSE ArgsOf(Gets[n])}

PutCalls(n) ==
  {Call("Preferences", n, "void", k, a, w) :
     k \in Keys \cup {Null}, a \in ArgsOf(Puts[n]), w \in BOOLEAN}

ClearCalls ==
  {Call("Preferences", "clearUserPreference", "void", k, Null, w) : k \in Keys, w \in BOOLEAN}

FlushCalls ==
  {Call(class, "flush", "void", Null, Null, w) :
     class \in {"Preferences", "AudioTrack"}, w \in BOOLEAN}

PreferenceCalls ==
  (UNION {GetCalls(n) : n \in DOMAIN Gets}) \cup (UNION {PutCalls(n) : n \in DOMAIN Puts})
    \cup ClearCalls \cup FlushCalls

\* The optional services, and methods and constructors nobody registered.
OptionalCalls ==
  {Call("Service", "initialize", type, Null, Null, TRUE) : type \in {"object", "void"}}
    \cup {Call("Service", "unlock", type, Null, Null, TRUE) : type \in {"boolean", "void"}}
    \cup {Call("Service", "getPlayerId", "object", Null, Null, TRUE)}

UnknownCalls ==
  {[Call("Extension", "unknown", type, k, "0", TRUE) EXCEPT !.hash = h] :
     type \in Types, h \in Hashes, k \in Keys}

ServiceCalls == OptionalCalls \cup UnknownCalls

ConstructorCalls ==
  {Call(class, "<init>", "object", Null, Null, TRUE) :
     class \in {"android/media/AudioTrack", "java.lang.String", "java/lang/String"}}

FieldValues(type) ==
  {type} \X IF type = "object" THEN {"peer", "other"} ELSE {0, 1}

Next ==
  \/ \E c \in PreferenceCalls :
       \/ c.name \notin UserPreference /\ CallMethod(c)
       \/ c.name \in UserPreference /\ CallStaticMethod(c)
  \/ \E c \in ServiceCalls : CallStaticMethod(c) \/ CallNonvirtualMethod(c)
  \/ \E c \in ConstructorCalls : NewObject(c)
  \/ \E type \in {"object", "long"}, name \in {"assetManager", "__haxeHandle", "unknown"} :
       \/ GetField(type, name) \/ GetStaticField(type, name)
       \/ \E value \in FieldValues(type) :
            SetField(type, name, value) \/ SetStaticField(type, name, value)
  \/ Restart

Spec == Init /\ [][Next]_vars

-----------------------------------------------------------------------------
\* What was put with a type is what a get of that type answers, before and
\* after a restart; a key without a value answers the default, or "" where the
\* method has none (java.c:232-285 over preferences.c).
PreferencesLikeJava ==
  (last.class = "Preferences" /\ last.name \in DOMAIN Gets) =>
    LET held == IF last.key \in Keys THEN java[last.key] ELSE NeverPut IN
    /\ held.type = Gets[last.name] => last.answer = held.value
    /\ held = NeverPut =>
         last.answer = IF last.name \in NoDefault THEN ""
                       ELSE Seen(Gets[last.name], last.arg).value

\* A method nobody registered answers the default of its type and leaves the
\* store alone, whatever its name hashes to (java.c:8, "harmless defaults").
UnknownMethodsHarmless ==
  [][last'.class = "Extension" =>
       last'.answer = MethodDefault(last'.type) /\ UNCHANGED store]_vars

\* When the game flushes its preferences and storage works, everything it has
\* put is saved (java.c:6-7, 323, 1066).
FlushSaves ==
  [][(last'.class = "Preferences" /\ last'.name = "flush" /\ last'.works)
       => saved' = prefs']_vars
=============================================================================
