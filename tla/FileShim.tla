------------------------------- MODULE FileShim -------------------------------
(***************************************************************************)
(* The file calls of source/reimpl/io.c: Android paths and flags           *)
(* translated for the Vita.  fopen, stat and readdir answer through a      *)
(* static buffer each, that all threads share.                             *)
(***************************************************************************)
CONSTANTS
  Threads,
  Data,      \* names of files under /data/data/
  Entries,   \* names readdir finds
  Nothing

\* Paths of the game: a place and a name
Paths ==
  [place : {"/data/data/"}, name : Data]
    \cup [place : {"/proc/"}, name : {"cpuinfo", "meminfo"}]
    \cup [place : {"/dev/"}, name : {"urandom"}]

VARIABLES
  static,    \* the static buffers: real_filename of fopen and of stat, dirent_tmp
  call,      \* call[t]: the call t is in that works on static buffer `buffer`
  overtaken, \* overtaken[t]: another thread made the same call since t did
  got        \* the last call that returned: what was asked, and what it came to

vars == <<static, call, overtaken, got>>

Buffers == {"fopen", "stat", "dirent"}
NoCall == [op |-> "none"]

Init ==
  /\ static = [b \in Buffers |-> Nothing]
  /\ call = [t \in Threads |-> NoCall]
  /\ overtaken = [t \in Threads |-> FALSE]
  /\ got = NoCall

OnVita(place, p) == [place |-> place, name |-> p.name]

\* A call that shares nothing: one step
Alone(t, op, asked, was) ==
  /\ call[t] = NoCall
  /\ got' = [op |-> op, asked |-> asked, was |-> was, overtaken |-> FALSE]
  /\ UNCHANGED <<static, call, overtaken>>

\* One that fills static buffer b and goes on to use it
Shared(t, op, asked, b, value) ==
  /\ call[t] = NoCall
  /\ static' = [static EXCEPT ![b] = value]
  /\ call' = [call EXCEPT ![t] = [op |-> op, asked |-> asked, buffer |-> b]]
  /\ overtaken' = [u \in Threads |->
       u # t /\ (overtaken[u] \/ call[u].op = op)]
  /\ got' = NoCall

\* fopen_soloader up to the call it forwards to; it has no case for /dev/urandom
Fopen(t, p) ==
  CASE p.place = "/proc/" -> Alone(t, "fopen", p, OnVita("app0:/", p))
    [] p.place = "/data/data/" -> Shared(t, "fopen", p, "fopen", OnVita("ux0:/data/", p))
    [] OTHER -> Alone(t, "fopen", p, p)

\* stat_soloader; only /data/data/ is translated
StatInFopensBuffer(t, p) ==
  IF p.place = "/data/data/" THEN Shared(t, "stat", p, "fopen", OnVita("ux0:/data/", p))
  ELSE Alone(t, "stat", p, p)

Stat(t, p) ==
  IF p.place = "/data/data/" THEN Shared(t, "stat", p, "stat", OnVita("ux0:/data/", p))
  ELSE Alone(t, "stat", p, p)

\* bionic's flags.  O_TMPFILE holds the bit of O_DIRECTORY.
Flags == {"rdwr", "wronly", "nonblock", "append", "creat", "trunc", "excl", "directory", "tmpfile"}

FlagsToNewlib(flags) ==
  (CASE "rdwr" \in flags -> {"rdwr"}
     [] "rdwr" \notin flags /\ "wronly" \in flags -> {"wronly"}
     [] OTHER -> {"rdonly"})
  \cup (flags \cap {"nonblock", "append", "trunc", "excl"})
  \cup (IF flags \cap {"creat", "tmpfile", "directory"} # {} THEN {"creat"} ELSE {})

\* open_soloader; /data/data/ is not translated.  A mode is passed along with
\* O_CREAT, and with all of O_TMPFILE.
Open(t, p, flags) ==
  Alone(t, "open", [path |-> p, flags |-> flags],
    [path |-> IF p.place \in {"/proc/", "/dev/"} THEN OnVita("app0:/", p) ELSE p,
     flags |-> FlagsToNewlib(flags),
     mode |-> IF "creat" \in flags \/ {"tmpfile", "directory"} \subseteq flags
              THEN "caller's" ELSE "0666"])

\* readdir_soloader's answer lies in dirent_tmp until the game has read it
Readdir(t, e) == Shared(t, "readdir", e, "dirent", e)

\* readdir_r_soloader fills the caller's own entry
ReaddirR(t, e) == Alone(t, "readdir", e, e)

Finish(t) ==
  /\ call[t] # NoCall
  /\ got' = [op |-> call[t].op, asked |-> call[t].asked,
             was |-> static[call[t].buffer], overtaken |-> overtaken[t]]
  /\ call' = [call EXCEPT ![t] = NoCall]
  /\ UNCHANGED <<static, overtaken>>

\* Flags the game's libraries open files with
OpenFlags == {{}, {"wronly", "creat", "trunc"}, {"rdwr", "creat", "excl"},
              {"rdwr", "wronly", "append"}, {"directory", "tmpfile", "rdwr"}, {"directory"}}

\* It makes no file among the system's, for which no mode would be passed along.
Opens(p, flags) == p.place = "/data/data/" \/ flags \cap {"creat", "tmpfile"} = {}

Next ==
  \E t \in Threads :
    \/ \E p \in Paths : Fopen(t, p) \/ Stat(t, p)
    \/ \E p \in Paths, f \in OpenFlags : Opens(p, f) /\ Open(t, p, f)
    \/ \E e \in Entries : Readdir(t, e) \/ ReaddirR(t, e)
    \/ Finish(t)

-----------------------------------------------------------------------------
\* What a call came to is what its caller asked for, wherever it lies on the
\* Vita, unless another thread was in the same call; calls of different kinds do
\* not disturb each other.  A file is made only where one was asked for, with the
\* caller's mode; opening a directory is the exception
\* (io.c:33-98, 112-194, _struct_converters.c:27-56).
Right(op, asked, was) ==
  CASE op = "readdir" -> was = asked
    [] op \in {"fopen", "stat"} -> was.name = asked.name /\ was.place # "/data/data/"
    [] op = "open" ->
         /\ was.path.name = asked.path.name
         /\ asked.flags # {"directory"} =>
              /\ "creat" \in was.flags <=> asked.flags \cap {"creat", "tmpfile"} # {}
              /\ "creat" \in was.flags <=> was.mode = "caller's"
         /\ "rdonly" \in was.flags <=> asked.flags \cap {"rdwr", "wronly"} = {}
         /\ {"trunc", "excl"} \cap was.flags = {"trunc", "excl"} \cap asked.flags

OwnUnlessOvertaken ==
  got # NoCall /\ ~got.overtaken => Right(got.op, got.asked, got.was)
=============================================================================
