----------------------------- MODULE ClockProofs -----------------------------
(***************************************************************************)
(* The two clocks of the port.  The gameplay clock never runs backwards:   *)
(* proof for any number of threads and any run shorter than a sixteenth of *)
(* what a word counts.  The 64-bit calendar agrees with the one on the     *)
(* wall: proof for any date it starts from and any length of walk.         *)
(***************************************************************************)
EXTENDS MCServices, TLAPS

servicesVars ==
  <<part, linkVars, bootVars, hookVars, clockVars, assetVars, formatVars, hintVars, logVars,
    fileVars, drawVars, dateVars>>

-----------------------------------------------------------------------------
(* Arithmetic modulo a word *)

LEMMA Divides ==
  ASSUME NEW w \in Nat \ {0}, NEW x \in Int
  PROVE  /\ x % w \in 0..(w - 1)
         /\ \E q \in Int : x = w * q + (x % w)
<1>1. x % w \in 0..(w - 1)
  OBVIOUS
<1>2. x \div w \in Int
  OBVIOUS
<1>3. x = w * (x \div w) + (x % w)
  OBVIOUS
<1> QED BY <1>1, <1>2, <1>3

LEMMA Multiple ==
  ASSUME NEW w \in Nat \ {0}, NEW k \in Int, w * k < w, w * k > -w
  PROVE  k = 0
<1>1. CASE k >= 1
  BY <1>1
<1>2. CASE k <= -1
  BY <1>2
<1> QED BY <1>1, <1>2

LEMMA Distributes ==
  ASSUME NEW w \in Int, NEW p \in Int, NEW q \in Int, NEW r \in Int
  PROVE  w * (q - p + r) = w * q - w * p + w * r /\ w * p \in Int /\ w * q \in Int /\ w * r \in Int
OBVIOUS

\* Two numbers less than w apart are as far apart modulo w.
LEMMA Difference ==
  ASSUME NEW w \in Nat \ {0}, NEW x \in Int, NEW y \in Int, y - x \in 0..(w - 1)
  PROVE  ((y % w) - (x % w)) % w = y - x
<1>1. PICK xm \in 0..(w - 1), p \in Int : xm = x % w /\ x = w * p + xm
  BY Divides
<1>2. PICK ym \in 0..(w - 1), q \in Int : ym = y % w /\ y = w * q + ym
  BY Divides
<1>3. PICK d \in Int : d = ym - xm
  OBVIOUS
<1>4. PICK r \in Int : d = w * r + (d % w)
  BY Divides
<1>5. PICK e \in 0..(w - 1) : e = d % w
  BY Divides
<1>6. PICK k \in Int : k = q - p + r
  OBVIOUS
<1>7. PICK wp \in Int, wq \in Int, wr \in Int, wk \in Int :
        wp = w * p /\ wq = w * q /\ wr = w * r /\ wk = w * k
  OBVIOUS
<1>8. wk = wq - wp + wr
  BY <1>6, <1>7, Distributes
<1>9. x = wp + xm /\ y = wq + ym /\ d = wr + e
  BY <1>1, <1>2, <1>4, <1>5, <1>7
<1>10. y - x = wk + e
  BY <1>3, <1>8, <1>9
<1>11. k = 0
  <2>1. wk < w /\ wk > -w
    BY <1>10
  <2> QED BY <1>7, <2>1, Multiple
<1>12. wk = 0
  BY <1>7, <1>11
<1>13. y - x = e
  BY <1>10, <1>12
<1> QED BY <1>1, <1>2, <1>3, <1>5, <1>13
LEMMA Small == ASSUME NEW w \in Nat \ {0}, NEW x \in 0..(w - 1) PROVE x % w = x
OBVIOUS

\* A speed makes time pass at least as fast as process time and at most 16 times so.
LEMMA Speed ==
  ASSUME NEW speed \in Clock!Speeds, NEW d \in Nat
  PROVE  d * speed \in Nat /\ d <= d * speed /\ d * speed <= 16 * d
BY DEF Clock!Speeds

-----------------------------------------------------------------------------
\* The clock, read at process time mark, would have shown v, given what it shows
\* from baseReal on.
Follows(mark, v, base, scaled, speed) ==
  /\ mark <= base => base - mark <= scaled - v /\ scaled - v <= 16 * (base - mark)
  /\ mark > base  => v = scaled + (mark - base) * speed

\* No speed change has taken effect.
Unscaled ==
  /\ scale = 1 /\ baseScaled = baseReal
  /\ \A t \in Threads : last[t].value = last[t].at

\* A thread not overtaken samples after the last speed change, and its last reading
\* was right.
Trusted(t) ==
  /\ sample[t] # None => sample[t] >= baseReal
  /\ \E v \in Int : last[t].value = v % Word /\ Follows(last[t].at, v, baseReal, baseScaled, scale)

Rescaled ==
  /\ baseReal >= 1 /\ baseReal <= baseScaled /\ baseScaled <= 16 * baseReal
  /\ \A t \in Threads : ~overtaken[t] => Trusted(t)

ClockTypes ==
  /\ process \in 1..MaxReal /\ baseReal \in 0..process
  /\ baseScaled \in Int /\ scale \in Clock!Speeds
  /\ sample \in [Threads -> 1..process \cup {None}]
  /\ request \in [Threads -> Clock!Speeds \cup {None}]
  /\ last \in [Threads -> [at : 0..process, value : Int]]
  /\ overtaken \in [Threads -> BOOLEAN]
  /\ \A t \in Threads : sample[t] # None => last[t].at <= sample[t]
  /\ request[Main] # None => sample[Main] # None
  /\ ~overtaken[Main]

ClockInv == ClockTypes /\ (Unscaled \/ Rescaled)

\* Process times and what they are scaled to fit a word: a sixteenth of 2^64 microseconds is 36000
\* years.
LongRun == 16 * MaxReal < Word

\* From a right reading on, time scaled advances as it should.
LEMMA Advances ==
  ASSUME NEW mark \in Int, NEW v \in Int, NEW base \in Int, NEW scaled \in Int,
         NEW speed \in Clock!Speeds, NEW real \in Int, base <= real, mark <= real,
         Follows(mark, v, base, scaled, speed)
  PROVE  /\ real - mark <= scaled + (real - base) * speed - v
         /\ scaled + (real - base) * speed - v <= 16 * (real - mark)
<1>1. PICK p \in Nat : p = (real - base) * speed /\ real - base <= p /\ p <= 16 * (real - base)
  BY Speed
<1>2. CASE mark <= base
  BY <1>1, <1>2 DEF Follows
<1>3. CASE mark > base
  <2>1. PICK q \in Nat : q = (real - mark) * speed /\ real - mark <= q /\ q <= 16 * (real - mark)
    BY Speed
  <2>2. PICK r \in Nat : r = (mark - base) * speed
    BY <1>3, Speed
  <2>3. p - r = q
    <3>1. (real - base) * speed - (mark - base) * speed = (real - mark) * speed
      <4>1. speed \in {1, 2, 4, 8, 16}
        BY DEF Clock!Speeds
      <4> QED BY <4>1
    <3>2. p - r = (real - base) * speed - (mark - base) * speed
      BY <1>1, <2>2
    <3> QED BY <2>1, <3>1, <3>2
  <2>4. v = scaled + r
    BY <1>3, <2>2 DEF Follows
  <2> QED BY <1>1, <2>1, <2>3, <2>4
<1> QED BY <1>2, <1>3

\* A reading is right, also one that used an earlier sample than the speed change.
LEMMA ReadsRight ==
  ASSUME NEW mark \in Int, NEW base \in Int, NEW scaled \in Int, NEW speed \in Clock!Speeds
  PROVE  Follows(mark, scaled + (mark - base) * speed, base, scaled, speed)
<1>1. CASE mark <= base
  <2>1. PICK p \in Nat : p = (base - mark) * speed /\ base - mark <= p /\ p <= 16 * (base - mark)
    BY <1>1, Speed
  <2>2. (mark - base) * speed = 0 - p
    BY <2>1 DEF Clock!Speeds
  <2> QED BY <1>1, <2>1, <2>2 DEF Follows
<1>2. CASE mark > base
  BY <1>2 DEF Follows
<1> QED BY <1>1, <1>2

\* What a reading returns and leaves behind.
LEMMA Reading ==
  ASSUME LongRun, ClockInv, NEW t \in Threads, Clock!FinishRead(t)
  PROVE  \E real \in 1..process, y \in Int :
           /\ sample[t] = real /\ last[t].at <= real
           /\ last' = [last EXCEPT ![t] = [at |-> real, value |-> y % Word]]
           /\ Unscaled => y = real /\ y % Word = real /\ Unscaled' /\ baseReal' \in {real, baseReal}
           /\ ~Unscaled => y = baseScaled + (real - baseReal) * scale
                           /\ baseReal' = baseReal /\ baseScaled' = baseScaled
<1>1. PICK real \in 1..process : real = sample[t] /\ last[t].at <= real
  BY DEF Clock!FinishRead, ClockInv, ClockTypes
<1>2. Word \in Nat \ {0} /\ MaxReal \in Nat /\ process \in 1..MaxReal /\ real \in 0..(Word - 1)
  <2>1. Word \in Nat \ {0} /\ MaxReal \in Nat /\ process \in 1..MaxReal
    BY ServicesAssumption DEF Clock!ClockAssumption, ClockInv, ClockTypes
  <2> QED BY <1>1, <2>1 DEF LongRun
<1>3. real % Word = real
  BY <1>2, Small
<1>4. /\ baseReal \in Nat /\ baseScaled \in Int /\ scale \in Clock!Speeds
      /\ last \in [Threads -> [at : 0..process, value : Int]]
  BY DEF ClockInv, ClockTypes
<1>5. scale \in Nat
  BY <1>4 DEF Clock!Speeds
<1>6. CASE Unscaled
  <2>1. Clock!Scaled(real) = real
    <3>1. baseScaled + (real - baseReal) * scale = real
      BY <1>4, <1>6 DEF Unscaled
    <3> QED BY <1>3, <3>1 DEF Clock!Scaled
  <2>2. /\ baseReal' = (IF baseReal = 0 THEN real ELSE baseReal)
        /\ baseScaled' = (IF baseReal = 0 THEN real ELSE baseScaled)
        /\ last' = [last EXCEPT ![t] = [at |-> real, value |-> real]] /\ scale' = scale
    BY <1>1, <1>3, <2>1 DEF Clock!FinishRead
  <2>3. \A u \in Threads : last'[u].value = last'[u].at
    BY <1>4, <1>6, <2>2 DEF Unscaled
  <2>4. baseScaled' = baseReal' /\ scale' = 1
    BY <1>6, <2>2 DEF Unscaled
  <2>5. Unscaled'
    BY <2>3, <2>4 DEF Unscaled
  <2>6. real \in Int /\ last' = [last EXCEPT ![t] = [at |-> real, value |-> real % Word]]
    <3>1. real \in Int
      BY <1>2
    <3>2. last' = [last EXCEPT ![t] = [at |-> real, value |-> real % Word]]
      BY <1>3, <2>2
    <3> QED BY <3>1, <3>2
  <2>7. baseReal' \in {real, baseReal}
    BY <2>2
  <2> QED BY <1>1, <1>3, <1>6, <2>5, <2>6, <2>7
<1>7. CASE ~Unscaled
  <2>1. baseReal # 0
    BY <1>7 DEF ClockInv, Rescaled
  <2>2. /\ baseReal' = baseReal /\ baseScaled' = baseScaled
        /\ last' = [last EXCEPT ![t] = [at |-> real, value |-> Clock!Scaled(real)]]
    BY <1>1, <2>1 DEF Clock!FinishRead
  <2>3. baseScaled + (real - baseReal) * scale \in Int
    BY <1>4, <1>5
  <2> QED BY <1>1, <1>7, <2>2, <2>3 DEF Clock!Scaled
<1> QED BY <1>6, <1>7

LEMMA ReadInv ==
  ASSUME LongRun, ClockInv, NEW t \in Threads, Clock!FinishRead(t)
  PROVE  ClockInv'
<1>1. PICK real \in 1..process, y \in Int :
        /\ sample[t] = real /\ last[t].at <= real
        /\ last' = [last EXCEPT ![t] = [at |-> real, value |-> y % Word]]
        /\ Unscaled => y = real /\ y % Word = real /\ Unscaled' /\ baseReal' \in {real, baseReal}
        /\ ~Unscaled => y = baseScaled + (real - baseReal) * scale
                        /\ baseReal' = baseReal /\ baseScaled' = baseScaled
  BY Reading
<1>2. /\ sample' = [sample EXCEPT ![t] = None] /\ overtaken' = [overtaken EXCEPT ![t] = FALSE]
      /\ UNCHANGED <<process, scale, request>> /\ request[t] = None
  BY DEF Clock!FinishRead
<1>3. y % Word \in Int
  BY ServicesAssumption, Divides DEF Clock!ClockAssumption
<1>4. ClockTypes'
  <2>1. baseReal' \in 0..process /\ baseScaled' \in Int
    BY <1>1 DEF ClockInv, ClockTypes, Unscaled
  <2> HIDE DEF Unscaled
  <2>2. last' \in [Threads -> [at : 0..process, value : Int]]
    BY <1>1, <1>3 DEF ClockInv, ClockTypes
  <2> QED BY <1>1, <1>2, <2>1, <2>2 DEF ClockInv, ClockTypes
<1>5. CASE Unscaled
  BY <1>1, <1>4, <1>5 DEF ClockInv
<1>6. CASE ~Unscaled
  <2>1. /\ Rescaled /\ y = baseScaled + (real - baseReal) * scale
        /\ baseReal' = baseReal /\ baseScaled' = baseScaled
    BY <1>1, <1>6 DEF ClockInv
  <2>2. Follows(real, y, baseReal, baseScaled, scale)
    BY <2>1, ReadsRight DEF ClockInv, ClockTypes
  <2>3. Trusted(t)'
    <3>1. sample'[t] = None /\ last'[t].at = real /\ last'[t].value = y % Word
      BY <1>1, <1>2 DEF ClockInv, ClockTypes
    <3> QED BY <1>2, <2>1, <2>2, <3>1 DEF Trusted
  <2>4. ASSUME NEW u \in Threads, u # t, ~overtaken'[u] PROVE Trusted(u)'
    <3>1. sample'[u] = sample[u] /\ last'[u] = last[u] /\ overtaken'[u] = overtaken[u]
      BY <1>1, <1>2, <2>4 DEF ClockInv, ClockTypes
    <3>2. Trusted(u)
      BY <2>1, <2>4, <3>1 DEF Rescaled
    <3> QED BY <1>2, <2>1, <3>1, <3>2 DEF Trusted
  <2>5. Rescaled'
    BY <2>1, <2>3, <2>4 DEF Rescaled
  <2> QED BY <1>4, <2>5 DEF ClockInv
<1> QED BY <1>5, <1>6

LEMMA SetInv ==
  ASSUME LongRun, ClockInv, Clock!FinishSet
  PROVE  ClockInv'
<1>0. Main \in Threads /\ None \notin Nat /\ Word \in Nat \ {0} /\ MaxReal \in Nat
  BY ServicesAssumption DEF Clock!ClockAssumption
<1>1. PICK real \in 1..process : real = sample[Main] /\ last[Main].at <= real
  BY <1>0 DEF Clock!FinishSet, ClockInv, ClockTypes
<1>2. /\ baseReal' = real
      /\ baseScaled' = IF baseReal = 0 THEN real % Word ELSE Clock!Scaled(real)
      /\ scale' = request[Main] /\ scale' \in Clock!Speeds
      /\ overtaken' = [t \in Threads |->
           overtaken[t] \/ (t # Main /\ sample[t] # None) \/ last[t].at > sample[Main]]
      /\ sample' = [sample EXCEPT ![Main] = None] /\ request' = [request EXCEPT ![Main] = None]
      /\ process' = process /\ last' = last
  BY <1>0, <1>1 DEF Clock!FinishSet, ClockInv, ClockTypes
<1>3. process \in 1..MaxReal /\ real \in 0..(Word - 1) /\ 16 * real < Word
  BY <1>0, <1>1 DEF ClockInv, ClockTypes, LongRun
<1>4. /\ baseReal \in Nat /\ baseScaled \in Int /\ scale \in Clock!Speeds
      /\ last \in [Threads -> [at : 0..process, value : Int]] /\ ~overtaken[Main]
  BY DEF ClockInv, ClockTypes
<1>5. \A t \in Threads : last[t].at \in 0..process
  BY <1>4
<1>6. ~overtaken'[Main]
  <2>1. overtaken'[Main] =
          (overtaken[Main] \/ (Main # Main /\ sample[Main] # None) \/ last[Main].at > sample[Main])
    BY <1>0, <1>2
  <2>2. ~(last[Main].at > sample[Main])
    BY <1>0, <1>1, <1>3, <1>5
  <2> QED BY <1>4, <2>1, <2>2, Zenon
<1>7. ASSUME NEW t \in Threads, ~overtaken'[t]
      PROVE  ~overtaken[t] /\ sample'[t] = None /\ last[t].at <= real
  <2>1. overtaken'[t] = (overtaken[t] \/ (t # Main /\ sample[t] # None) \/ last[t].at > sample[Main])
    BY <1>2
  <2>2. ~overtaken[t] /\ (t = Main \/ sample[t] = None) /\ ~(last[t].at > sample[Main])
    BY <1>7, <2>1, Zenon
  <2>3. last[t].at <= real
    BY <1>1, <1>3, <1>5, <2>2
  <2>4. sample'[t] = None
    BY <1>2, <2>2 DEF ClockInv, ClockTypes
  <2> QED BY <2>2, <2>3, <2>4
<1>8. baseScaled' \in Int => ClockTypes'
  BY <1>0, <1>1, <1>2, <1>6 DEF ClockInv, ClockTypes
<1>9. CASE Unscaled
  <2>1. baseScaled' = real
    <3>1. real % Word = real
      BY <1>0, <1>3, Small
    <3>2. baseScaled + (real - baseReal) * scale = real
      BY <1>4, <1>9 DEF Unscaled
    <3> QED BY <1>2, <3>1, <3>2 DEF Clock!Scaled
  <2>2. ASSUME NEW t \in Threads, ~overtaken'[t] PROVE Trusted(t)'
    <3>1. PICK mark \in 0..process : mark = last[t].at /\ mark <= real /\ last[t].value = mark
      BY <1>5, <1>7, <1>9, <2>2 DEF Unscaled
    <3>2. mark % Word = mark
      <4>1. mark \in 0..(Word - 1)
        BY <1>0, <1>1, <1>3, <3>1
      <4> QED BY <1>0, <4>1, Small
    <3>3. Follows(mark, mark, real, real, scale')
      BY <1>1, <3>1 DEF Follows
    <3>4. sample'[t] = None
      BY <1>7, <2>2
    <3> QED BY <1>2, <2>1, <3>1, <3>2, <3>3, <3>4 DEF Trusted
  <2>3. Rescaled'
    BY <1>1, <1>2, <2>1, <2>2 DEF Rescaled
  <2> QED BY <1>8, <2>1, <2>3 DEF ClockInv
<1>10. CASE Rescaled
  <2>1. baseReal <= real
    BY <1>0, <1>1, <1>4, <1>10 DEF Rescaled, Trusted
  <2>2. PICK p \in Nat : /\ p = (real - baseReal) * scale
                         /\ real - baseReal <= p /\ p <= 16 * (real - baseReal)
    BY <1>4, <2>1, Speed
  <2>3. /\ baseReal >= 1 /\ baseReal <= baseScaled /\ baseScaled <= 16 * baseReal
        /\ \A t \in Threads : ~overtaken[t] => Trusted(t)
    BY <1>10 DEF Rescaled
  <2>4. real <= baseScaled + p /\ baseScaled + p <= 16 * real /\ baseScaled + p \in 0..(Word - 1)
    BY <1>0, <1>1, <1>3, <1>4, <2>1, <2>2, <2>3
  <2>5. baseScaled' = baseScaled + p
    <3>1. (baseScaled + p) % Word = baseScaled + p
      BY <1>0, <2>4, Small
    <3> QED BY <1>2, <2>2, <2>3, <3>1 DEF Clock!Scaled
  <2>6. ASSUME NEW t \in Threads, ~overtaken'[t] PROVE Trusted(t)'
    <3>1. ~overtaken[t] /\ sample'[t] = None /\ last[t].at <= real
      BY <1>7, <2>6
    <3>2. PICK mark \in 0..process : mark = last[t].at
      BY <1>5
    <3>3. PICK v \in Int : last[t].value = v % Word /\ Follows(mark, v, baseReal, baseScaled, scale)
      BY <2>3, <3>1, <3>2 DEF Trusted
    <3>4. real - mark <= baseScaled + p - v /\ baseScaled + p - v <= 16 * (real - mark)
      <4>1. mark \in Int /\ real \in Int /\ baseReal \in Int /\ mark <= real
        BY <1>3, <1>4, <3>1, <3>2
      <4>2. /\ real - mark <= baseScaled + (real - baseReal) * scale - v
            /\ baseScaled + (real - baseReal) * scale - v <= 16 * (real - mark)
        BY <1>4, <2>1, <3>3, <4>1, Advances
      <4> QED BY <2>2, <4>2
    <3>5. Follows(mark, v, real, baseScaled + p, scale')
      <4>1. mark \in Int /\ real \in Int /\ mark <= real
        BY <1>3, <3>1, <3>2
      <4>2. ~(mark > real)
        BY <4>1
      <4>3. real - mark <= (baseScaled + p) - v /\ (baseScaled + p) - v <= 16 * (real - mark)
        BY <1>4, <2>2, <3>4
      <4> QED BY <4>2, <4>3 DEF Follows
    <3> QED BY <1>2, <2>5, <3>1, <3>2, <3>3, <3>5 DEF Trusted
  <2>7. Rescaled'
    BY <1>1, <1>2, <2>4, <2>5, <2>6 DEF Rescaled
  <2> QED BY <1>8, <2>4, <2>5, <2>7 DEF ClockInv
<1> QED BY <1>9, <1>10 DEF ClockInv

LEMMA ClockStepInv == LongRun /\ ClockInv /\ [Clock!Next]_clockVars => ClockInv'
<1> SUFFICES ASSUME LongRun, ClockInv, [Clock!Next]_clockVars PROVE ClockInv'
  OBVIOUS
<1>0. Main \in Threads /\ None \notin Nat /\ MaxReal \in Nat
  BY ServicesAssumption DEF Clock!ClockAssumption
<1>1. CASE Clock!Tick
  <2>1. /\ process' \in 1..MaxReal /\ process <= process'
        /\ UNCHANGED <<baseReal, baseScaled, scale, sample, request, last, overtaken>>
    BY <1>0, <1>1 DEF Clock!Tick, ClockInv, ClockTypes
  <2>2. ClockTypes'
    <3>1. process \in Nat /\ process' \in Nat
      BY <1>0, <2>1 DEF ClockInv, ClockTypes
    <3>2. 0..process \subseteq 0..process' /\ 1..process \subseteq 1..process'
      BY <2>1, <3>1
    <3>3. sample \in [Threads -> 1..process' \cup {None}]
      BY <3>2 DEF ClockInv, ClockTypes
    <3>4. last \in [Threads -> [at : 0..process', value : Int]]
      BY <3>2 DEF ClockInv, ClockTypes
    <3> QED BY <2>1, <3>2, <3>3, <3>4 DEF ClockInv, ClockTypes
  <2> QED BY <2>1, <2>2 DEF ClockInv, Unscaled, Rescaled, Trusted
<1>2. ASSUME NEW t \in Threads, sample[t] = None, sample' = [sample EXCEPT ![t] = process],
             request' = request \/ (t = Main /\ request' = [request EXCEPT ![Main] = Clock!Faster(scale)]),
             UNCHANGED <<process, baseReal, baseScaled, scale, last, overtaken>>
      PROVE  ClockInv'
  <2>1. Clock!Faster(scale) \in Clock!Speeds
    BY DEF ClockInv, ClockTypes, Clock!Faster, Clock!Speeds
  <2>2. process \in 1..process /\ process # None /\ \A u \in Threads : last[u].at <= process
    BY <1>0 DEF ClockInv, ClockTypes
  <2>3. sample' \in [Threads -> 1..process \cup {None}]
        /\ sample'[t] = process /\ \A u \in Threads : u # t => sample'[u] = sample[u]
    BY <1>2, <2>2 DEF ClockInv, ClockTypes
  <2>4. ClockTypes'
    BY <1>0, <1>2, <2>1, <2>2, <2>3 DEF ClockInv, ClockTypes
  <2>5. \A u \in Threads : Trusted(u) => Trusted(u)'
    <3>1. process >= baseReal
      BY DEF ClockInv, ClockTypes
    <3> QED BY <1>2, <2>3, <3>1 DEF Trusted
  <2>6. CASE Unscaled
    BY <1>2, <2>4, <2>6 DEF ClockInv, Unscaled
  <2>7. CASE Rescaled
    <3>1. Rescaled'
      BY <1>2, <2>5, <2>7 DEF Rescaled
    <3> QED BY <2>4, <3>1 DEF ClockInv
  <2> QED BY <2>6, <2>7 DEF ClockInv
<1>3. ASSUME NEW t \in Threads, Clock!StartRead(t) PROVE ClockInv'
  BY <1>2, <1>3 DEF Clock!StartRead
<1>4. CASE Clock!StartSet
  BY <1>0, <1>2, <1>4 DEF Clock!StartSet
<1>5. CASE UNCHANGED clockVars
  BY <1>5 DEF clockVars, ClockInv, ClockTypes, Unscaled, Rescaled, Trusted
<1> QED BY <1>1, <1>3, <1>4, <1>5, ReadInv, SetInv DEF Clock!Next

\* Only a reading changes last, and a trusted thread's readings advance as they should.
LEMMA ReadsForward ==
  ASSUME LongRun, ClockInv, Clock!Next, NEW t \in Threads, t = Main \/ ~overtaken[t]
  PROVE  Clock!Forward(t)
<1> SUFFICES ASSUME last[t].at # 0, last'[t] # last[t]
             PROVE  LET elapsed == last'[t].at - last[t].at
                    IN  (last'[t].value - last[t].value) % Word \in elapsed..(16 * elapsed)
  BY DEF Clock!Forward
<1>0. /\ Word \in Nat \ {0} /\ MaxReal \in Nat /\ process \in 1..MaxReal
      /\ baseReal \in Nat /\ baseScaled \in Int /\ scale \in Clock!Speeds
      /\ last \in [Threads -> [at : 0..process, value : Int]]
  BY ServicesAssumption DEF Clock!ClockAssumption, ClockInv, ClockTypes
<1>1. PICK u \in Threads : Clock!FinishRead(u)
  BY DEF Clock!Next, Clock!Tick, Clock!StartRead, Clock!StartSet, Clock!FinishSet
<1>2. PICK real \in 1..process, y \in Int :
        /\ sample[u] = real /\ last[u].at <= real
        /\ last' = [last EXCEPT ![u] = [at |-> real, value |-> y % Word]]
        /\ Unscaled => y = real /\ y % Word = real /\ Unscaled' /\ baseReal' \in {real, baseReal}
        /\ ~Unscaled => y = baseScaled + (real - baseReal) * scale
                        /\ baseReal' = baseReal /\ baseScaled' = baseScaled
  BY <1>1, Reading
<1>3. u = t /\ last'[t].at = real /\ last'[t].value = y % Word
  BY <1>0, <1>2
<1>4. PICK mark \in 0..process : mark = last[t].at
  BY <1>0
<1>5. PICK elapsed \in 0..process : elapsed = real - mark /\ 16 * elapsed < Word
  BY <1>0, <1>2, <1>3, <1>4 DEF LongRun
<1>6. \E v \in Int : last[t].value = v % Word /\ elapsed <= y - v /\ y - v <= 16 * elapsed
  <2>1. CASE Unscaled
    <3>1. last[t].value = mark /\ y = real
      BY <1>2, <1>4, <2>1 DEF Unscaled
    <3>2. mark % Word = mark
      <4>1. mark \in 0..(Word - 1)
        BY <1>0, <1>4 DEF LongRun
      <4> QED BY <1>0, <4>1, Small
    <3>3. mark \in Int /\ elapsed <= y - mark /\ y - mark <= 16 * elapsed
      BY <1>0, <1>5, <3>1
    <3> QED BY <3>1, <3>2, <3>3
  <2>2. CASE ~Unscaled
    <3>1. Trusted(t)
      BY <2>2 DEF ClockInv, ClockTypes, Rescaled
    <3>2. PICK v \in Int : last[t].value = v % Word /\ Follows(mark, v, baseReal, baseScaled, scale)
      BY <1>4, <3>1 DEF Trusted
    <3>3. baseReal <= real
      BY <1>2, <1>3, <3>1, ServicesAssumption DEF Trusted, Clock!ClockAssumption
    <3>4. mark \in Int /\ real \in Int /\ baseReal \in Int /\ mark <= real
      BY <1>0, <1>2, <1>3, <1>4
    <3>5. real - mark <= y - v /\ y - v <= 16 * (real - mark)
      <4>1. y = baseScaled + (real - baseReal) * scale
        BY <1>2, <2>2
      <4>2. baseScaled \in Int /\ scale \in Clock!Speeds
        BY <1>0
      <4>3. /\ real - mark <= baseScaled + (real - baseReal) * scale - v
            /\ baseScaled + (real - baseReal) * scale - v <= 16 * (real - mark)
        BY <3>2, <3>3, <3>4, <4>2, Advances
      <4>4. PICK p \in Int : p = (real - baseReal) * scale
        BY <3>4, <4>2 DEF Clock!Speeds
      <4> QED BY <4>1, <4>2, <4>3, <4>4
    <3> QED BY <1>5, <3>2, <3>5
  <2> QED BY <2>1, <2>2
<1>7. PICK v \in Int : last[t].value = v % Word /\ elapsed <= y - v /\ y - v <= 16 * elapsed
  BY <1>6
<1>8. y - v \in 0..(Word - 1)
  BY <1>0, <1>5, <1>7
<1>9. (last'[t].value - last[t].value) % Word = y - v
  BY <1>0, <1>3, <1>7, <1>8, Difference
<1>10. y - v \in elapsed..(16 * elapsed)
  BY <1>0, <1>5, <1>7
<1> QED BY <1>3, <1>4, <1>5, <1>9, <1>10

\* The thread that changes the speed, and every other between whose readings no change
\* was overtaken, sees game time advance at least as fast as process time and at most
\* sixteen times as fast (sys.c:46-89).
THEOREM ClockForward ==
  ASSUME LongRun
  PROVE  ServicesSpec => ForwardUnlessOvertaken
<1>1. ServicesInit => ClockInv
  BY ServicesAssumption
     DEF ServicesInit, Clock!Init, Clock!ClockAssumption, ClockInv, ClockTypes, Unscaled, Clock!Speeds
<1>2. ClockInv /\ [ServicesNext]_servicesVars => ClockInv'
  BY ClockStepInv DEF ServicesNext, Others, servicesVars
<1>3. ClockInv /\ [ServicesNext]_servicesVars =>
        [\A t \in Threads : t = Main \/ ~overtaken[t] => Clock!Forward(t)]_Clock!vars
  <2> SUFFICES ASSUME ClockInv, [ServicesNext]_servicesVars, ~UNCHANGED Clock!vars
               PROVE  \A t \in Threads : t = Main \/ ~overtaken[t] => Clock!Forward(t)
    OBVIOUS
  <2>1. Clock!Next
    BY DEF ServicesNext, Others, servicesVars, Clock!vars, clockVars
  <2> QED BY <2>1, ReadsForward
<1> QED BY <1>1, <1>2, <1>3, PTL DEF ServicesSpec, servicesVars, ForwardUnlessOvertaken,
    Clock!ForwardUnlessOvertaken

-----------------------------------------------------------------------------
(* Counting the days of years *)

\* A year adds a leap day to those before the next one exactly when it is leap.
LEMMA LeapStep ==
  ASSUME NEW year \in Int
  PROVE  /\ Dates!LeapsBefore(year) \in Int
         /\ Dates!LeapsBefore(year + 1)
              = Dates!LeapsBefore(year) + IF Dates!IsLeap(year) THEN 1 ELSE 0
<1> PICK x \in Int : x = year + 1899
  OBVIOUS
<1> PICK q \in Int : q = x \div 400
  OBVIOUS
<1> PICK r \in 0..399 : r = x % 400
  OBVIOUS
<1>1. year + 1899 = 400 * q + r
  OBVIOUS
<1>2. /\ (year + 1899) \div 400 = q /\ (year + 1899) \div 100 = 4 * q + r \div 100
      /\ (year + 1899) \div 4 = 100 * q + r \div 4
  BY <1>1
<1>3. /\ (year + 1900) \div 400 = q + (r + 1) \div 400
      /\ (year + 1900) \div 100 = 4 * q + (r + 1) \div 100
      /\ (year + 1900) \div 4 = 100 * q + (r + 1) \div 4
  BY <1>1
<1>4. /\ (year + 1900) % 400 = (r + 1) % 400 /\ (year + 1900) % 100 = (r + 1) % 100
      /\ (year + 1900) % 4 = (r + 1) % 4
  BY <1>1
<1>5. (r + 1) \div 4 - (r + 1) \div 100 + (r + 1) \div 400
        = (r \div 4) - (r \div 100)
          + IF (r + 1) % 400 = 0 \/ ((r + 1) % 4 = 0 /\ (r + 1) % 100 # 0) THEN 1 ELSE 0
  OBVIOUS
<1>6. /\ year + 1 + 1899 = year + 1900
      /\ r \div 4 \in Int /\ r \div 100 \in Int
  OBVIOUS
<1> QED BY <1>2, <1>3, <1>4, <1>5, <1>6 DEF Dates!LeapsBefore, Dates!IsLeap

\* 400 years have 97 leap years, wherever they begin.
LEMMA CycleShift ==
  ASSUME NEW year \in Int, NEW k \in Int
  PROVE  /\ Dates!LeapsBefore(year + 400 * k) = Dates!LeapsBefore(year) + 97 * k
         /\ Dates!IsLeap(year + 400 * k) <=> Dates!IsLeap(year)
<1> PICK x \in Int : x = year + 1899
  OBVIOUS
<1> PICK q \in Int : q = x \div 400
  OBVIOUS
<1> PICK r \in 0..399 : r = x % 400
  OBVIOUS
<1>1. year + 1899 = 400 * q + r
  OBVIOUS
<1> PICK y \in Int : y = year + 1900
  OBVIOUS
<1> PICK p \in Int : p = y \div 400
  OBVIOUS
<1> PICK s \in 0..399 : s = y % 400
  OBVIOUS
<1>2. year + 1900 = 400 * p + s
  OBVIOUS
<1>3. /\ (year + 1899) \div 400 = q /\ (year + 1899) \div 100 = 4 * q + r \div 100
      /\ (year + 1899) \div 4 = 100 * q + r \div 4
  BY <1>1
<1>4. /\ (year + 400 * k + 1899) \div 400 = q + k
      /\ (year + 400 * k + 1899) \div 100 = 4 * (q + k) + r \div 100
      /\ (year + 400 * k + 1899) \div 4 = 100 * (q + k) + r \div 4
  BY <1>1
<1>5. /\ (year + 1900) % 400 = s /\ (year + 1900) % 100 = s % 100 /\ (year + 1900) % 4 = s % 4
  BY <1>2
<1>6. /\ (year + 400 * k + 1900) % 400 = s /\ (year + 400 * k + 1900) % 100 = s % 100
      /\ (year + 400 * k + 1900) % 4 = s % 4
  BY <1>2
<1>7. Dates!LeapsBefore(year + 400 * k) = Dates!LeapsBefore(year) + 97 * k
  BY <1>3, <1>4 DEF Dates!LeapsBefore
<1>8. Dates!IsLeap(year + 400 * k) <=> Dates!IsLeap(year)
  BY <1>5, <1>6 DEF Dates!IsLeap
<1> QED BY <1>7, <1>8

LEMMA DaysTyped ==
  ASSUME NEW origin \in Int, NEW year \in Int
  PROVE  Dates!DaysOfYears(origin, year) \in Int
<1>1. Dates!LeapsBefore(origin) \in Int /\ Dates!LeapsBefore(year) \in Int
  BY LeapStep
<1> QED BY <1>1 DEF Dates!DaysOfYears

LEMMA LengthTyped ==
  ASSUME NEW year
  PROVE  Dates!LengthOfYear(year) \in {365, 366}
BY DEF Dates!LengthOfYear

LEMMA Epoch ==
  ASSUME NEW year \in Int
  PROVE  Dates!DaysOfYears(70, year) \in Int
<1>1. 70 \in Int
  OBVIOUS
<1> QED BY <1>1, DaysTyped

LEMMA NextYear ==
  ASSUME NEW origin \in Int, NEW year \in Int
  PROVE  Dates!DaysOfYears(origin, year + 1)
           = Dates!DaysOfYears(origin, year) + Dates!LengthOfYear(year)
<1>1. Dates!LeapsBefore(origin) \in Int /\ Dates!LeapsBefore(year) \in Int
  BY LeapStep
<1> QED BY <1>1, LeapStep DEF Dates!DaysOfYears, Dates!LengthOfYear

\* 31 December of year x is before 1 January of any later year.
LEMMA YearsApart ==
  ASSUME NEW origin \in Int, NEW x \in Int, NEW y \in Int, x < y
  PROVE  Dates!DaysOfYears(origin, x) + Dates!LengthOfYear(x) <= Dates!DaysOfYears(origin, y)
<1>1. Dates!LeapsBefore(x + 1) \in Int /\ Dates!LeapsBefore(y) \in Int
      /\ Dates!LeapsBefore(x) \in Int /\ Dates!LeapsBefore(origin) \in Int
  BY LeapStep
<1>2. 365 * (y - (x + 1)) + Dates!LeapsBefore(y) - Dates!LeapsBefore(x + 1) >= 0
  <2>1. PICK a \in Int : a = x + 1 + 1899
    OBVIOUS
  <2>2. PICK b \in Int : b = y + 1899
    OBVIOUS
  <2>3. a <= b
    BY <2>1, <2>2
  <2>4. /\ a \div 4 \in Int /\ a \div 100 \in Int /\ a \div 400 \in Int
        /\ b \div 4 \in Int /\ b \div 100 \in Int /\ b \div 400 \in Int
    OBVIOUS
  <2>5. a \div 4 <= b \div 4
    BY <2>3
  <2>6. a \div 400 <= b \div 400
    BY <2>3
  <2>7. b \div 100 <= a \div 100 + (b - a)
    BY <2>3
  <2>8. /\ Dates!LeapsBefore(x + 1) = (a \div 4) - (a \div 100) + (a \div 400)
        /\ Dates!LeapsBefore(y) = (b \div 4) - (b \div 100) + (b \div 400)
    BY <2>1, <2>2 DEF Dates!LeapsBefore
  <2>9. PICK a4 \in Int, a100 \in Int, a400 \in Int :
          a4 = a \div 4 /\ a100 = a \div 100 /\ a400 = a \div 400
    BY <2>4
  <2>10. PICK b4 \in Int, b100 \in Int, b400 \in Int :
           b4 = b \div 4 /\ b100 = b \div 100 /\ b400 = b \div 400
    BY <2>4
  <2>11. /\ a4 <= b4 /\ a400 <= b400 /\ b100 <= a100 + (b - a)
         /\ Dates!LeapsBefore(x + 1) = a4 - a100 + a400
         /\ Dates!LeapsBefore(y) = b4 - b100 + b400
    BY <2>5, <2>6, <2>7, <2>8, <2>9, <2>10
  <2>12. y - (x + 1) = b - a
    BY <2>1, <2>2
  <2>13. 365 * (b - a) + (b4 - b100 + b400) - (a4 - a100 + a400) >= 0
    BY <2>3, <2>9, <2>10, <2>11
  <2> QED BY <2>11, <2>12, <2>13
<1>3. Dates!DaysOfYears(origin, x) + Dates!LengthOfYear(x) = Dates!DaysOfYears(origin, x + 1)
  BY NextYear
<1> QED BY <1>1, <1>2, <1>3 DEF Dates!DaysOfYears

LEMMA Through ==
  ASSUME NEW origin \in Int, NEW year \in Int, NEW to \in Int
  PROVE  Dates!DaysOfYears(origin, to)
           = Dates!DaysOfYears(origin, year) + Dates!DaysOfYears(year, to)
<1>1. /\ Dates!LeapsBefore(origin) \in Int /\ Dates!LeapsBefore(year) \in Int
      /\ Dates!LeapsBefore(to) \in Int
  BY LeapStep
<1> QED BY <1>1 DEF Dates!DaysOfYears

LEMMA Cycles ==
  ASSUME NEW origin \in Int, NEW year \in Int, NEW k \in Int
  PROVE  Dates!DaysOfYears(origin, year + 400 * k) = Dates!DaysOfYears(origin, year) + 146097 * k
<1>1. Dates!LeapsBefore(origin) \in Int /\ Dates!LeapsBefore(year) \in Int
  BY LeapStep
<1>2. Dates!LeapsBefore(year + 400 * k) = Dates!LeapsBefore(year) + 97 * k
  BY CycleShift
<1> QED BY <1>1, <1>2 DEF Dates!DaysOfYears

-----------------------------------------------------------------------------
(* Dates *)

\* A month begins where the one before it ends, and the twelfth ends the year.
LEMMA Months ==
  ASSUME NEW year
  PROVE  /\ Dates!JulianDays(year)[1] = 0
         /\ Dates!JulianDays(year)[13] = Dates!LengthOfYear(year)
         /\ \A mon \in 0..11 :
              /\ Dates!JulianDays(year)[mon + 1] \in Nat
              /\ Dates!DaysInMonth(year)[mon + 1] \in 28..31
              /\ Dates!JulianDays(year)[mon + 2]
                   = Dates!JulianDays(year)[mon + 1] + Dates!DaysInMonth(year)[mon + 1]
<1>1. CASE Dates!IsLeap(year)
  BY <1>1 DEF Dates!JulianDays, Dates!DaysInMonth, Dates!LengthOfYear
<1>2. CASE ~Dates!IsLeap(year)
  BY <1>2 DEF Dates!JulianDays, Dates!DaysInMonth, Dates!LengthOfYear
<1> QED BY <1>1, <1>2

LEMMA MonthsApart ==
  ASSUME NEW year, NEW a \in 0..11, NEW b \in 0..11, a < b
  PROVE  Dates!JulianDays(year)[a + 2] <= Dates!JulianDays(year)[b + 1]
<1>1. CASE Dates!IsLeap(year)
  BY <1>1 DEF Dates!JulianDays
<1>2. CASE ~Dates!IsLeap(year)
  BY <1>2 DEF Dates!JulianDays
<1> QED BY <1>1, <1>2

DateFields ==
  [year : Int, mon : 0..11, mday : Int, yday : Int, wday : Int, half : 0..1]

\* A date of the calendar, the day of the week aside
Dated(d) ==
  /\ d \in DateFields
  /\ 1 <= d.mday /\ d.mday <= Dates!DaysInMonth(d.year)[d.mon + 1]
  /\ d.yday = Dates!JulianDays(d.year)[d.mon + 1] + d.mday - 1

DayOf(d) == Dates!DaysOfYears(70, d.year) + d.yday

\* The date at half day t
Shows(d, t) ==
  Dated(d) /\ d.wday = (DayOf(d) + 4) % 7 /\ t = 2 * DayOf(d) + d.half

LEMMA DayOfYear ==
  ASSUME NEW d, Dated(d)
  PROVE  /\ d.year \in Int /\ d.mon \in 0..11 /\ d.mday \in Int /\ d.yday \in Int
         /\ d.wday \in Int /\ d.half \in 0..1
         /\ 0 <= d.yday /\ d.yday < Dates!LengthOfYear(d.year)
         /\ Dates!JulianDays(d.year)[d.mon + 1] <= d.yday
         /\ d.yday < Dates!JulianDays(d.year)[d.mon + 2]
         /\ DayOf(d) \in Int
<1>1. /\ d.year \in Int /\ d.mon \in 0..11 /\ d.mday \in Int /\ d.yday \in Int
      /\ d.wday \in Int /\ d.half \in 0..1
  BY DEF Dated, DateFields
<1>2. PICK j \in Nat : j = Dates!JulianDays(d.year)[d.mon + 1]
  BY <1>1, Months
<1>3. PICK n \in 28..31 : n = Dates!DaysInMonth(d.year)[d.mon + 1]
  BY <1>1, Months
<1>4. Dates!JulianDays(d.year)[d.mon + 2] = j + n
  BY <1>1, <1>2, <1>3, Months
<1>5. j + n <= Dates!LengthOfYear(d.year)
  <2>1. CASE d.mon = 11
    BY <1>4, <2>1, Months
  <2>2. CASE d.mon < 11
    <3>1. j + n <= Dates!JulianDays(d.year)[12]
      BY <1>1, <1>4, <2>2, MonthsApart
    <3>2. Dates!JulianDays(d.year)[12] <= Dates!JulianDays(d.year)[13]
      BY Months
    <3>3. Dates!JulianDays(d.year)[12] \in Nat
      BY Months
    <3> QED BY <3>1, <3>2, <3>3, Months
  <2> QED BY <1>1, <2>1, <2>2
<1>6. Dates!LengthOfYear(d.year) \in {365, 366}
  BY LengthTyped
<1>7. DayOf(d) \in Int
  BY <1>1, Epoch DEF DayOf
<1>8. d.yday = j + d.mday - 1 /\ 1 <= d.mday /\ d.mday <= n
  BY <1>2, <1>3 DEF Dated
<1> QED BY <1>1, <1>2, <1>4, <1>5, <1>6, <1>7, <1>8

LEMMA SameMonth ==
  ASSUME NEW d, NEW e, Dated(d), Dated(e), d.year = e.year, d.yday = e.yday
  PROVE  d.mon = e.mon /\ d.mday = e.mday
<1>1. /\ Dates!JulianDays(d.year)[d.mon + 1] <= d.yday
      /\ d.yday < Dates!JulianDays(d.year)[d.mon + 2] /\ d.mon \in 0..11
  BY DayOfYear
<1>2. /\ Dates!JulianDays(d.year)[e.mon + 1] <= d.yday
      /\ d.yday < Dates!JulianDays(d.year)[e.mon + 2] /\ e.mon \in 0..11
  BY DayOfYear
<1>3. d.yday \in Int /\ d.mday \in Int /\ e.mday \in Int
  BY DayOfYear
<1>4. \A k \in 0..11 : /\ Dates!JulianDays(d.year)[k + 1] \in Int
                      /\ Dates!JulianDays(d.year)[k + 2] \in Int
  <2>1. \A k \in 0..11 : /\ Dates!JulianDays(d.year)[k + 1] \in Nat
                        /\ Dates!DaysInMonth(d.year)[k + 1] \in 28..31
                        /\ Dates!JulianDays(d.year)[k + 2]
                   = Dates!JulianDays(d.year)[k + 1] + Dates!DaysInMonth(d.year)[k + 1]
    BY Months
  <2> QED BY <2>1
<1>5. ~(d.mon < e.mon)
  <2>1. d.mon < e.mon => Dates!JulianDays(d.year)[d.mon + 2] <= Dates!JulianDays(d.year)[e.mon + 1]
    BY <1>1, <1>2, MonthsApart
  <2> QED BY <1>1, <1>2, <1>3, <1>4, <2>1
<1>6. ~(e.mon < d.mon)
  <2>1. e.mon < d.mon => Dates!JulianDays(d.year)[e.mon + 2] <= Dates!JulianDays(d.year)[d.mon + 1]
    BY <1>1, <1>2, MonthsApart
  <2> QED BY <1>1, <1>2, <1>3, <1>4, <2>1
<1>7. d.mon = e.mon
  BY <1>1, <1>2, <1>5, <1>6
<1>8. /\ d.yday = Dates!JulianDays(d.year)[d.mon + 1] + d.mday - 1
      /\ d.yday = Dates!JulianDays(d.year)[d.mon + 1] + e.mday - 1
  BY <1>7 DEF Dated
<1>9. PICK j \in Int : j = Dates!JulianDays(d.year)[d.mon + 1]
  BY <1>1, <1>4
<1>10. d.yday = j + d.mday - 1 /\ d.yday = j + e.mday - 1
  BY <1>8, <1>9
<1> QED BY <1>3, <1>7, <1>10

LEMMA SameYear ==
  ASSUME NEW origin \in Int, NEW x \in Int, NEW y \in Int, NEW day \in Int,
         Dates!DaysOfYears(origin, x) <= day,
         day < Dates!DaysOfYears(origin, x) + Dates!LengthOfYear(x),
         Dates!DaysOfYears(origin, y) <= day,
         day < Dates!DaysOfYears(origin, y) + Dates!LengthOfYear(y)
  PROVE  x = y
<1>1. Dates!DaysOfYears(origin, x) \in Int /\ Dates!DaysOfYears(origin, y) \in Int
  BY DaysTyped
<1>2. ~(x < y)
  <2>1. x < y => Dates!DaysOfYears(origin, x) + Dates!LengthOfYear(x) <= Dates!DaysOfYears(origin, y)
    BY YearsApart
  <2> QED BY <1>1, <2>1, LengthTyped
<1>3. ~(y < x)
  <2>1. y < x => Dates!DaysOfYears(origin, y) + Dates!LengthOfYear(y) <= Dates!DaysOfYears(origin, x)
    BY YearsApart
  <2> QED BY <1>1, <2>1, LengthTyped
<1> QED BY <1>2, <1>3

\* There is one date at a time.
LEMMA OneDate ==
  ASSUME NEW d, NEW e, NEW t, Shows(d, t), Shows(e, t)
  PROVE  d = e
<1>1. /\ Dated(d) /\ DayOf(d) \in Int /\ d.half \in 0..1
      /\ Dated(e) /\ DayOf(e) \in Int /\ e.half \in 0..1
  <2>1. Dated(d) /\ Dated(e)
    BY DEF Shows
  <2> QED BY <2>1, DayOfYear
<1>2. 2 * DayOf(d) + d.half = 2 * DayOf(e) + e.half
  BY DEF Shows
<1>3. DayOf(d) = DayOf(e) /\ d.half = e.half
  <2>1. PICK x \in Int, y \in Int : x = DayOf(d) /\ y = DayOf(e)
    BY <1>1
  <2>2. PICK f \in 0..1, g \in 0..1 : f = d.half /\ g = e.half
    BY <1>1
  <2>3. x = y /\ f = g
    BY <1>2, <2>1, <2>2
  <2> QED BY <2>1, <2>2, <2>3
<1>4. /\ d.year \in Int /\ d.yday \in Int /\ 0 <= d.yday /\ d.yday < Dates!LengthOfYear(d.year)
      /\ e.year \in Int /\ e.yday \in Int /\ 0 <= e.yday /\ e.yday < Dates!LengthOfYear(e.year)
  BY <1>1, DayOfYear
<1>5. PICK day \in Int : /\ day = Dates!DaysOfYears(70, d.year) + d.yday
                         /\ day = Dates!DaysOfYears(70, e.year) + e.yday
  BY <1>1, <1>3 DEF DayOf
<1>6. Dates!DaysOfYears(70, d.year) \in Int /\ Dates!DaysOfYears(70, e.year) \in Int
  BY <1>4, Epoch
<1>7. d.year = e.year
  <2>1. /\ Dates!DaysOfYears(70, d.year) <= day
        /\ day < Dates!DaysOfYears(70, d.year) + Dates!LengthOfYear(d.year)
        /\ Dates!DaysOfYears(70, e.year) <= day
        /\ day < Dates!DaysOfYears(70, e.year) + Dates!LengthOfYear(e.year)
    <3>1. Dates!LengthOfYear(d.year) \in {365, 366} /\ Dates!LengthOfYear(e.year) \in {365, 366}
      BY LengthTyped
    <3> QED BY <1>4, <1>5, <1>6, <3>1
  <2>2. 70 \in Int
    OBVIOUS
  <2> QED BY <1>4, <2>1, <2>2, SameYear
<1>8. d.yday = e.yday
  BY <1>4, <1>5, <1>6, <1>7
<1>9. d.mon = e.mon /\ d.mday = e.mday
  BY <1>1, <1>7, <1>8, SameMonth
<1>10. d.wday = e.wday
  BY <1>3 DEF Shows
<1>11. d \in DateFields /\ e \in DateFields
  BY <1>1 DEF Dated
<1> QED BY <1>3, <1>7, <1>8, <1>9, <1>10, <1>11 DEF DateFields

\* The wall's next half day is the date half a day on.
LEMMA LaterShown ==
  ASSUME NEW d, NEW t \in Int, Shows(d, t)
  PROVE  Shows(Dates!Later(d), t + 1)
<1> DEFINE n == Dates!Later(d)
<1>1. /\ Dated(d) /\ d \in DateFields /\ d.wday = (DayOf(d) + 4) % 7
      /\ t = 2 * DayOf(d) + d.half
      /\ 1 <= d.mday /\ d.mday <= Dates!DaysInMonth(d.year)[d.mon + 1]
      /\ d.yday = Dates!JulianDays(d.year)[d.mon + 1] + d.mday - 1
  BY DEF Shows, Dated
<1>2. /\ d.year \in Int /\ d.mon \in 0..11 /\ d.mday \in Int /\ d.yday \in Int
      /\ d.wday \in Int /\ d.half \in 0..1
      /\ DayOf(d) \in Int
  BY <1>1, DayOfYear
<1>3. CASE d.half = 0
  <2>1. n = [d EXCEPT !.half = 1]
    BY <1>3 DEF Dates!Later
  <2>2. /\ n.year = d.year /\ n.mon = d.mon /\ n.mday = d.mday /\ n.yday = d.yday
        /\ n.wday = d.wday /\ n.half = 1 /\ n \in DateFields
    BY <1>1, <2>1 DEF DateFields
  <2>3. DayOf(n) = DayOf(d)
    BY <2>2 DEF DayOf
  <2> QED BY <1>1, <1>2, <1>3, <2>2, <2>3 DEF Shows, Dated
<1>4. CASE d.half = 1
  <2> DEFINE ends == d.mday = Dates!DaysInMonth(d.year)[d.mon + 1]
  <2>1. n = [year |-> IF ends /\ d.mon = 11 THEN d.year + 1 ELSE d.year,
             mon |-> IF ends /\ d.mon = 11 THEN 0 ELSE IF ends THEN d.mon + 1 ELSE d.mon,
             mday |-> IF ends THEN 1 ELSE d.mday + 1,
             yday |-> IF ends /\ d.mon = 11 THEN 0 ELSE d.yday + 1,
             wday |-> (d.wday + 1) % 7, half |-> 0]
    BY <1>4 DEF Dates!Later, Dates!Tomorrow
  <2>2. /\ Dates!DaysInMonth(d.year)[d.mon + 1] \in 28..31
        /\ Dates!JulianDays(d.year)[d.mon + 1] \in Nat
        /\ Dates!JulianDays(d.year)[d.mon + 2]
             = Dates!JulianDays(d.year)[d.mon + 1] + Dates!DaysInMonth(d.year)[d.mon + 1]
    BY <1>2, Months
  <2>3. Dated(n) /\ DayOf(n) = DayOf(d) + 1 /\ n.half = 0 /\ n.wday = (d.wday + 1) % 7
    <3>1. CASE ~ends
      <4>1. n = [year |-> d.year, mon |-> d.mon, mday |-> d.mday + 1, yday |-> d.yday + 1,
                 wday |-> (d.wday + 1) % 7, half |-> 0]
        BY <2>1, <3>1
      <4> HIDE DEF n
      <4>2. /\ n.year = d.year /\ n.mon = d.mon /\ n.mday = d.mday + 1 /\ n.yday = d.yday + 1
            /\ n.wday = (d.wday + 1) % 7 /\ n.half = 0
        BY <4>1
      <4>3. n \in DateFields
        BY <1>2, <4>1 DEF DateFields
      <4>4. d.mday + 1 <= Dates!DaysInMonth(d.year)[d.mon + 1] /\ 1 <= d.mday + 1
        BY <1>1, <1>2, <2>2, <3>1
      <4>5. d.yday + 1 = Dates!JulianDays(d.year)[d.mon + 1] + (d.mday + 1) - 1
        BY <1>1, <1>2, <2>2
      <4>6. Dated(n)
        BY <4>2, <4>3, <4>4, <4>5 DEF Dated
      <4>7. DayOf(n) = DayOf(d) + 1
        BY <1>2, <4>2, Epoch DEF DayOf
      <4> QED BY <4>2, <4>6, <4>7
    <3>2. CASE ends /\ d.mon # 11
      <4>1. n = [year |-> d.year, mon |-> d.mon + 1, mday |-> 1, yday |-> d.yday + 1,
                 wday |-> (d.wday + 1) % 7, half |-> 0]
        BY <2>1, <3>2
      <4> HIDE DEF n
      <4>2. /\ n.year = d.year /\ n.mon = d.mon + 1 /\ n.mday = 1 /\ n.yday = d.yday + 1
            /\ n.wday = (d.wday + 1) % 7 /\ n.half = 0
        BY <4>1
      <4>3. n \in DateFields
        BY <1>2, <3>2, <4>1 DEF DateFields
      <4>4. 1 <= Dates!DaysInMonth(d.year)[d.mon + 1 + 1]
        <5>1. d.mon + 1 \in 0..11
          BY <1>2, <3>2
        <5>2. Dates!DaysInMonth(d.year)[d.mon + 1 + 1] \in 28..31
          BY <5>1, Months
        <5> QED BY <5>2
      <4>5. d.yday + 1 = Dates!JulianDays(d.year)[d.mon + 1 + 1] + 1 - 1
        <5>1. d.mon + 1 + 1 = d.mon + 2
          BY <1>2
        <5> QED BY <1>1, <1>2, <2>2, <3>2, <5>1
      <4>6. Dated(n)
        BY <4>2, <4>3, <4>4, <4>5 DEF Dated
      <4>7. DayOf(n) = DayOf(d) + 1
        BY <1>2, <4>2, Epoch DEF DayOf
      <4> QED BY <4>2, <4>6, <4>7
    <3>3. CASE ends /\ d.mon = 11
      <4>1. n = [year |-> d.year + 1, mon |-> 0, mday |-> 1, yday |-> 0,
                 wday |-> (d.wday + 1) % 7, half |-> 0]
        BY <2>1, <3>3
      <4> HIDE DEF n
      <4>2. /\ n.year = d.year + 1 /\ n.mon = 0 /\ n.mday = 1 /\ n.yday = 0
            /\ n.wday = (d.wday + 1) % 7 /\ n.half = 0
        BY <4>1
      <4>3. n \in DateFields
        BY <1>2, <4>1 DEF DateFields
      <4>4. 1 <= Dates!DaysInMonth(d.year + 1)[0 + 1]
        <5>1. 0 \in 0..11
          OBVIOUS
        <5>2. Dates!DaysInMonth(d.year + 1)[0 + 1] \in 28..31
          BY <5>1, Months
        <5> QED BY <5>2
      <4>5. 0 = Dates!JulianDays(d.year + 1)[0 + 1] + 1 - 1
        BY Months
      <4>6. Dated(n)
        BY <4>2, <4>3, <4>4, <4>5 DEF Dated
      <4>7. DayOf(n) = DayOf(d) + 1
        <5>1. Dates!JulianDays(d.year)[13] = Dates!LengthOfYear(d.year)
          BY Months
        <5>2. d.yday + 1 = Dates!LengthOfYear(d.year)
          BY <1>1, <1>2, <2>2, <3>3, <5>1, LengthTyped
        <5>3. Dates!DaysOfYears(70, d.year + 1)
                = Dates!DaysOfYears(70, d.year) + Dates!LengthOfYear(d.year)
          <6>1. 70 \in Int
            OBVIOUS
          <6> QED BY <1>2, <6>1, NextYear
        <5>4. Dates!DaysOfYears(70, d.year) \in Int
          BY <1>2, Epoch
        <5> QED BY <1>2, <4>2, <5>2, <5>3, <5>4, LengthTyped DEF DayOf
      <4> QED BY <4>2, <4>6, <4>7
    <3> QED BY <3>1, <3>2, <3>3
  <2> HIDE DEF n
  <2>4. n.wday = (DayOf(n) + 4) % 7
    BY <1>1, <1>2, <2>3
  <2>5. t + 1 = 2 * DayOf(n) + n.half
    BY <1>1, <1>2, <1>4, <2>3
  <2> QED BY <2>3, <2>4, <2>5 DEF n, Shows
<1> QED BY <1>2, <1>3, <1>4

LEMMA SameLeap ==
  ASSUME NEW x, NEW y, Dates!IsLeap(x) <=> Dates!IsLeap(y)
  PROVE  /\ Dates!JulianDays(x) = Dates!JulianDays(y)
         /\ Dates!DaysInMonth(x) = Dates!DaysInMonth(y)
         /\ Dates!LengthOfYear(x) = Dates!LengthOfYear(y)
<1>1. CASE Dates!IsLeap(x)
  BY <1>1 DEF Dates!JulianDays, Dates!DaysInMonth, Dates!LengthOfYear
<1>2. CASE ~Dates!IsLeap(x)
  BY <1>2 DEF Dates!JulianDays, Dates!DaysInMonth, Dates!LengthOfYear
<1> QED BY <1>1, <1>2

\* The years Timegm takes off in cycles of 400 are the days it adds for them.
LEMMA TimegmCounts ==
  ASSUME NEW d, d.year \in Int, d.mon \in 0..11, d.mday \in Int, d.half \in Int
  PROVE  Dates!Timegm(d)
           = 2 * (Dates!DaysOfYears(70, d.year) + Dates!JulianDays(d.year)[d.mon + 1] + d.mday - 1)
             + d.half
<1> DEFINE c == IF d.year > 100 \/ d.year < -300 THEN Dates!Quotient(d.year - 100, 400) ELSE 0
<1>1. c \in Int
  BY DEF Dates!Quotient
<1>2. Dates!Timegm(d)
        = 2 * (c * 146097 + Dates!DaysOfYears(70, d.year - 400 * c)
               + Dates!JulianDays(d.year - 400 * c)[d.mon + 1] + d.mday - 1) + d.half
  BY DEF Dates!Timegm, Dates!GregorianCycle
<1> HIDE DEF c
<1>3. PICK k \in Int : k = -c
  BY <1>1
<1>4. d.year - 400 * c = d.year + 400 * k /\ c = -k
  BY <1>1, <1>3
<1>5. Dates!DaysOfYears(70, d.year + 400 * k) = Dates!DaysOfYears(70, d.year) + 146097 * k
  <2>1. 70 \in Int
    OBVIOUS
  <2> QED BY <2>1, Cycles
<1>6. Dates!JulianDays(d.year + 400 * k) = Dates!JulianDays(d.year)
  <2>1. Dates!IsLeap(d.year + 400 * k) <=> Dates!IsLeap(d.year)
    BY CycleShift
  <2> QED BY <2>1, SameLeap
<1>7. PICK n \in Int : n = Dates!DaysOfYears(70, d.year)
  BY Epoch
<1>8. PICK j \in Int : j = Dates!JulianDays(d.year)[d.mon + 1]
  <2>1. Dates!JulianDays(d.year)[d.mon + 1] \in Nat
    BY Months
  <2> QED BY <2>1
<1>9. Dates!Timegm(d) = 2 * (c * 146097 + (n + 146097 * k) + j + d.mday - 1) + d.half
  BY <1>2, <1>4, <1>5, <1>6, <1>7, <1>8
<1>10. 2 * (c * 146097 + (n + 146097 * k) + j + d.mday - 1) + d.half
         = 2 * (n + j + d.mday - 1) + d.half
  BY <1>1, <1>3
<1> QED BY <1>7, <1>8, <1>9, <1>10

\* The date gives its time back.
LEMMA TimegmShown ==
  ASSUME NEW d, NEW t \in Int, Shows(d, t)
  PROVE  Dates!Timegm(d) = t
<1>1. /\ Dated(d) /\ t = 2 * DayOf(d) + d.half
      /\ d.yday = Dates!JulianDays(d.year)[d.mon + 1] + d.mday - 1
  BY DEF Shows, Dated
<1>2. /\ d.year \in Int /\ d.mon \in 0..11 /\ d.mday \in Int /\ d.half \in Int
  BY <1>1, DayOfYear
<1>3. Dates!DaysOfYears(70, d.year) \in Int
  BY <1>2, Epoch
<1>4. Dates!JulianDays(d.year)[d.mon + 1] \in Nat
  BY <1>2, Months
<1>5. Dates!Timegm(d)
        = 2 * (Dates!DaysOfYears(70, d.year) + Dates!JulianDays(d.year)[d.mon + 1] + d.mday - 1)
          + d.half
  BY <1>2, TimegmCounts
<1> QED BY <1>1, <1>2, <1>3, <1>4, <1>5 DEF DayOf
-----------------------------------------------------------------------------
(* The date of a time *)

\* The year a count of days falls in, searched among years that enclose it.
LEMMA OneYear ==
  ASSUME NEW origin \in Int, NEW year \in Int, NEW yday \in Int, NEW y \in Int,
         0 <= yday, yday < Dates!LengthOfYear(year),
         Dates!DaysOfYears(origin, y) <= Dates!DaysOfYears(origin, year) + yday,
         Dates!DaysOfYears(origin, year) + yday < Dates!DaysOfYears(origin, y + 1)
  PROVE  y = year
<1>1. Dates!DaysOfYears(origin, y) \in Int /\ Dates!DaysOfYears(origin, year) \in Int
  BY DaysTyped
<1>2. Dates!LengthOfYear(year) \in {365, 366} /\ Dates!LengthOfYear(y) \in {365, 366}
  BY LengthTyped
<1>3. Dates!DaysOfYears(origin, y + 1) = Dates!DaysOfYears(origin, y) + Dates!LengthOfYear(y)
  BY NextYear
<1>4. PICK day \in Int : day = Dates!DaysOfYears(origin, year) + yday
  BY <1>1
<1>5. /\ Dates!DaysOfYears(origin, year) <= day
      /\ day < Dates!DaysOfYears(origin, year) + Dates!LengthOfYear(year)
      /\ Dates!DaysOfYears(origin, y) <= day
      /\ day < Dates!DaysOfYears(origin, y) + Dates!LengthOfYear(y)
  BY <1>1, <1>2, <1>3, <1>4
<1> QED BY <1>5, SameYear

\* What the search finds: some year that holds day m.
LEMMA YearsUpSearch ==
  ASSUME NEW origin \in Int, NEW m \in Int, NEW year \in Int,
         origin <= year, year <= origin + 400,
         Dates!DaysOfYears(origin, year) <= m, m < Dates!DaysOfYears(origin, year + 1)
  PROVE  \E c \in Int :
           /\ Dates!YearsUp(origin, m) = [year |-> c, yday |-> m - Dates!DaysOfYears(origin, c)]
           /\ Dates!DaysOfYears(origin, c) <= m /\ m < Dates!DaysOfYears(origin, c + 1)
<1> DEFINE P(y) == Dates!DaysOfYears(origin, y) <= m /\ m < Dates!DaysOfYears(origin, y + 1)
<1>1. \E y \in origin..(origin + 400) : P(y)
  OBVIOUS
<1> DEFINE c == CHOOSE y \in origin..(origin + 400) : P(y)
<1>2. c \in origin..(origin + 400) /\ P(c)
  <2> HIDE DEF P
  <2> QED BY <1>1, Zenon
<1>3. Dates!YearsUp(origin, m) = [year |-> c, yday |-> m - Dates!DaysOfYears(origin, c)]
  BY Zenon DEF Dates!YearsUp
<1> HIDE DEF c
<1>4. c \in Int
  BY <1>2
<1> QED BY <1>2, <1>3, <1>4

LEMMA YearsUpFinds ==
  ASSUME NEW origin \in Int, NEW year \in Int, NEW yday \in Int, NEW m \in Int, 0 <= m, m < 146097,
         0 <= yday, yday < Dates!LengthOfYear(year), m = Dates!DaysOfYears(origin, year) + yday
  PROVE  Dates!YearsUp(origin, m) = [year |-> year, yday |-> yday]
<1>1. Dates!DaysOfYears(origin, year) \in Int /\ Dates!LengthOfYear(year) \in {365, 366}
  BY DaysTyped, LengthTyped
<1>2. Dates!DaysOfYears(origin, year) <= m /\ m < Dates!DaysOfYears(origin, year + 1)
  <2>1. Dates!DaysOfYears(origin, year + 1)
          = Dates!DaysOfYears(origin, year) + Dates!LengthOfYear(year)
    BY NextYear
  <2> QED BY <1>1, <2>1
<1>3. year >= origin
  <2>1. Dates!DaysOfYears(origin, origin) = 0
    BY LeapStep DEF Dates!DaysOfYears
  <2>2. year < origin
          => Dates!DaysOfYears(origin, year) + Dates!LengthOfYear(year) <= Dates!DaysOfYears(origin, origin)
    BY YearsApart
  <2> QED BY <1>1, <2>1, <2>2
<1>4. year <= origin + 400
  <2>1. Dates!DaysOfYears(origin, origin + 400) = 146097
    <3>1. PICK k \in Int : k = 1
      OBVIOUS
    <3>2. Dates!DaysOfYears(origin, origin + 400 * k) = Dates!DaysOfYears(origin, origin) + 146097 * k
      BY Cycles
    <3>3. origin + 400 * k = origin + 400 /\ 146097 * k = 146097
      BY <3>1
    <3>4. Dates!DaysOfYears(origin, origin) = 0
      BY LeapStep DEF Dates!DaysOfYears
    <3> QED BY <3>2, <3>3, <3>4
  <2>2. year > origin + 400
          => Dates!DaysOfYears(origin, origin + 400) + Dates!LengthOfYear(origin + 400)
               <= Dates!DaysOfYears(origin, year)
    BY YearsApart
  <2>3. Dates!LengthOfYear(origin + 400) \in {365, 366}
    BY LengthTyped
  <2> QED BY <1>1, <2>1, <2>2, <2>3
<1>6. PICK c \in Int :
        /\ Dates!YearsUp(origin, m) = [year |-> c, yday |-> m - Dates!DaysOfYears(origin, c)]
        /\ Dates!DaysOfYears(origin, c) <= m /\ m < Dates!DaysOfYears(origin, c + 1)
  BY <1>2, <1>3, <1>4, YearsUpSearch
<1>7. c = year
  BY <1>6, OneYear
<1> QED BY <1>1, <1>6, <1>7

LEMMA Backwards ==
  ASSUME NEW x \in Int, NEW y \in Int
  PROVE  Dates!DaysOfYears(x, y) = -Dates!DaysOfYears(y, x)
<1>1. Dates!LeapsBefore(x) \in Int /\ Dates!LeapsBefore(y) \in Int
  BY LeapStep
<1> QED BY <1>1 DEF Dates!DaysOfYears

LEMMA YearsDownSearch ==
  ASSUME NEW origin \in Int, NEW m \in Int, NEW year \in Int,
         origin - 800 <= year, year <= origin,
         -Dates!DaysOfYears(year, origin + 1) <= m, m < -Dates!DaysOfYears(year + 1, origin + 1)
  PROVE  \E c \in Int :
           /\ Dates!YearsDown(origin, m) = [year |-> c, yday |-> m + Dates!DaysOfYears(c, origin + 1)]
           /\ -Dates!DaysOfYears(c, origin + 1) <= m /\ m < -Dates!DaysOfYears(c + 1, origin + 1)
<1> DEFINE P(y) == -Dates!DaysOfYears(y, origin + 1) <= m /\ m < -Dates!DaysOfYears(y + 1, origin + 1)
<1>1. \E y \in (origin - 800)..origin : P(y)
  OBVIOUS
<1> DEFINE c == CHOOSE y \in (origin - 800)..origin : P(y)
<1>2. c \in (origin - 800)..origin /\ P(c)
  <2> HIDE DEF P
  <2> QED BY <1>1, Zenon
<1>3. Dates!YearsDown(origin, m) = [year |-> c, yday |-> m + Dates!DaysOfYears(c, origin + 1)]
  BY Zenon DEF Dates!YearsDown
<1> HIDE DEF c
<1>4. c \in Int
  BY <1>2
<1> QED BY <1>2, <1>3, <1>4

LEMMA YearsDownFinds ==
  ASSUME NEW origin \in Int, NEW year \in Int, NEW yday \in Int, NEW m \in Int, -292194 < m, m < 0,
         0 <= yday, yday < Dates!LengthOfYear(year), m = Dates!DaysOfYears(origin + 1, year) + yday
  PROVE  Dates!YearsDown(origin, m) = [year |-> year, yday |-> yday]
<1>0. PICK after \in Int : after = origin + 1
  OBVIOUS
<1>1. Dates!DaysOfYears(after, year) \in Int /\ Dates!LengthOfYear(year) \in {365, 366}
  <2>1. Dates!DaysOfYears(after, year) \in Int
    BY DaysTyped
  <2> QED BY <2>1, LengthTyped
<1>2. \A y \in Int : /\ -Dates!DaysOfYears(y, origin + 1) = Dates!DaysOfYears(after, y)
                    /\ -Dates!DaysOfYears(y + 1, origin + 1) = Dates!DaysOfYears(after, y + 1)
  <2> SUFFICES ASSUME NEW y \in Int
               PROVE  /\ -Dates!DaysOfYears(y, origin + 1) = Dates!DaysOfYears(after, y)
                      /\ -Dates!DaysOfYears(y + 1, origin + 1) = Dates!DaysOfYears(after, y + 1)
    OBVIOUS
  <2>1. Dates!DaysOfYears(after, y) = -Dates!DaysOfYears(y, after)
    BY Backwards
  <2>2. Dates!DaysOfYears(after, y + 1) = -Dates!DaysOfYears(y + 1, after)
    BY Backwards
  <2> QED BY <1>0, <2>1, <2>2
<1>3. Dates!DaysOfYears(after, year) <= m /\ m < Dates!DaysOfYears(after, year + 1)
  <2>1. Dates!DaysOfYears(after, year + 1)
          = Dates!DaysOfYears(after, year) + Dates!LengthOfYear(year)
    BY NextYear
  <2> QED BY <1>0, <1>1, <2>1
<1>4. year <= origin
  <2>1. Dates!DaysOfYears(after, after) = 0
    BY LeapStep DEF Dates!DaysOfYears
  <2>2. after < year
          => Dates!DaysOfYears(after, after) + Dates!LengthOfYear(after) <= Dates!DaysOfYears(after, year)
    BY YearsApart
  <2>3. Dates!LengthOfYear(after) \in {365, 366}
    BY LengthTyped
  <2>4. m < 0 /\ m = Dates!DaysOfYears(after, year) + yday
    BY <1>0
  <2>5. year # after
    BY <2>1, <2>4
  <2> QED BY <1>0, <1>1, <2>1, <2>2, <2>3, <2>4, <2>5
<1>5. year >= origin - 800
  <2>0. PICK low \in Int : low = after - 800
    OBVIOUS
  <2>1. Dates!DaysOfYears(after, low) = -292194
    <3>1. PICK k \in Int : k = -2
      OBVIOUS
    <3>2. Dates!DaysOfYears(after, after + 400 * k) = Dates!DaysOfYears(after, after) + 146097 * k
      BY Cycles
    <3>3. after + 400 * k = low /\ 146097 * k = -292194
      BY <2>0, <3>1
    <3>4. Dates!DaysOfYears(after, after) = 0
      BY LeapStep DEF Dates!DaysOfYears
    <3> QED BY <3>2, <3>3, <3>4
  <2>2. year < low
          => Dates!DaysOfYears(after, year) + Dates!LengthOfYear(year) <= Dates!DaysOfYears(after, low)
    BY YearsApart
  <2>3. ~(year < low)
    BY <1>0, <1>1, <2>1, <2>2
  <2> QED BY <1>0, <2>0, <2>3
<1>7. PICK c \in Int :
        /\ Dates!YearsDown(origin, m) = [year |-> c, yday |-> m + Dates!DaysOfYears(c, origin + 1)]
        /\ -Dates!DaysOfYears(c, origin + 1) <= m /\ m < -Dates!DaysOfYears(c + 1, origin + 1)
  <2>1. -Dates!DaysOfYears(year, origin + 1) <= m /\ m < -Dates!DaysOfYears(year + 1, origin + 1)
    BY <1>2, <1>3
  <2> QED BY <1>4, <1>5, <2>1, YearsDownSearch
<1>8. c = year
  <2>1. Dates!DaysOfYears(after, c) <= m /\ m < Dates!DaysOfYears(after, c + 1)
    BY <1>2, <1>7
  <2>2. m = Dates!DaysOfYears(after, year) + yday
    BY <1>0
  <2> QED BY <2>1, <2>2, OneYear
<1>9. m + Dates!DaysOfYears(year, origin + 1) = yday
  <2>1. Dates!DaysOfYears(after, year) = -Dates!DaysOfYears(year, after)
    BY Backwards
  <2>2. Dates!DaysOfYears(year, after) \in Int
    BY DaysTyped
  <2> QED BY <1>0, <2>1, <2>2
<1> QED BY <1>7, <1>8, <1>9

\* The month found is the date's.
LEMMA MonthSearch ==
  ASSUME NEW d, Dated(d)
  PROVE  Dates!MonthOf([year |-> d.year, yday |-> d.yday]) = d.mon
<1> DEFINE P(k) == /\ Dates!JulianDays(d.year)[k + 1] <= d.yday
                   /\ d.yday < Dates!JulianDays(d.year)[k + 2]
<1>1. d.mon \in 0..11 /\ P(d.mon) /\ d.yday \in Int
  BY DayOfYear
<1>2. \A k \in 0..11 : P(k) => k = d.mon
  <2> SUFFICES ASSUME NEW k \in 0..11, P(k)
               PROVE  k = d.mon
    OBVIOUS
  <2>1. \A j \in 0..11 : /\ Dates!JulianDays(d.year)[j + 1] \in Nat
                        /\ Dates!DaysInMonth(d.year)[j + 1] \in 28..31
                        /\ Dates!JulianDays(d.year)[j + 2]
                   = Dates!JulianDays(d.year)[j + 1] + Dates!DaysInMonth(d.year)[j + 1]
    BY Months
  <2>2. \A j \in 0..11 : /\ Dates!JulianDays(d.year)[j + 1] \in Int
                        /\ Dates!JulianDays(d.year)[j + 2] \in Int
    BY <2>1
  <2>3. ~(k < d.mon)
    <3>1. k < d.mon => Dates!JulianDays(d.year)[k + 2] <= Dates!JulianDays(d.year)[d.mon + 1]
      BY <1>1, MonthsApart
    <3> QED BY <1>1, <2>2, <3>1
  <2>4. ~(d.mon < k)
    <3>1. d.mon < k => Dates!JulianDays(d.year)[d.mon + 2] <= Dates!JulianDays(d.year)[k + 1]
      BY <1>1, MonthsApart
    <3> QED BY <1>1, <2>2, <3>1
  <2> QED BY <1>1, <2>3, <2>4
<1>0. Dates!MonthOf([year |-> d.year, yday |-> d.yday]) = CHOOSE k \in 0..11 : P(k)
  BY DEF Dates!MonthOf
<1> HIDE DEF P
<1>3. (CHOOSE k \in 0..11 : P(k)) \in 0..11 /\ P(CHOOSE k \in 0..11 : P(k))
  BY <1>1, Zenon
<1>4. (CHOOSE k \in 0..11 : P(k)) = d.mon
  BY <1>2, <1>3, Zenon
<1> QED BY <1>0, <1>4

\* From a known first of January, the search finds the year and the day of it.
LEMMA YearSearch ==
  ASSUME NEW start \in Int, NEW year \in Int, NEW yday \in Int, NEW m \in Int, NEW c \in Int,
         0 <= yday, yday < Dates!LengthOfYear(year),
         m = Dates!DaysOfYears(start, year) + yday,
         c = IF m >= 0 THEN m \div 146097 ELSE Dates!Quotient(m, 146097) + 1
  PROVE  (IF m >= 0 THEN Dates!YearsUp(start + 400 * c, m - c * 146097)
                    ELSE Dates!YearsDown(start - 1 + 400 * c, m - c * 146097))
           = [year |-> year, yday |-> yday]
<1>1. PICK first \in Int : first = start + 400 * c
  OBVIOUS
<1>2. PICK rest \in Int : rest = m - c * 146097
  OBVIOUS
<1>3. Dates!DaysOfYears(first, year) + yday = rest
  <2>1. Dates!DaysOfYears(start, first) = Dates!DaysOfYears(start, start) + 146097 * c
    BY <1>1, Cycles
  <2>2. Dates!DaysOfYears(start, start) = 0
    BY LeapStep DEF Dates!DaysOfYears
  <2>3. Dates!DaysOfYears(start, year)
          = Dates!DaysOfYears(start, first) + Dates!DaysOfYears(first, year)
    BY Through
  <2>4. Dates!DaysOfYears(first, year) \in Int
    BY DaysTyped
  <2> QED BY <1>2, <2>1, <2>2, <2>3, <2>4
<1>4. CASE m >= 0
  <2>1. c = m \div 146097
    BY <1>4
  <2>2. 0 <= rest /\ rest < 146097
    BY <1>2, <1>4, <2>1
  <2>3. Dates!YearsUp(first, rest) = [year |-> year, yday |-> yday]
    BY <1>3, <2>2, YearsUpFinds
  <2> QED BY <1>1, <1>2, <1>4, <2>3
<1>5. CASE m < 0
  <2>1. c = -((-m) \div 146097) + 1
    BY <1>5 DEF Dates!Quotient
  <2>2. -292194 < rest /\ rest < 0
    BY <1>2, <1>5, <2>1
  <2>3. PICK before \in Int : before = start - 1 + 400 * c
    OBVIOUS
  <2>4. before + 1 = first
    BY <1>1, <2>3
  <2>5. Dates!YearsDown(before, rest) = [year |-> year, yday |-> yday]
    BY <1>3, <2>2, <2>4, YearsDownFinds
  <2> QED BY <1>2, <1>5, <2>3, <2>5
<1> QED BY <1>4, <1>5

\* The time gives the date back.
LEMMA GmtimeShown ==
  ASSUME NEW d, NEW t \in Int, Shows(d, t)
  PROVE  Dates!Gmtime(t) = d
<1>1. /\ Dated(d) /\ d.wday = (DayOf(d) + 4) % 7 /\ t = 2 * DayOf(d) + d.half
      /\ d \in DateFields /\ d.yday = Dates!JulianDays(d.year)[d.mon + 1] + d.mday - 1
  BY DEF Shows, Dated
<1>2. /\ d.year \in Int /\ d.mon \in 0..11 /\ d.mday \in Int /\ d.yday \in Int
      /\ d.half \in 0..1 /\ DayOf(d) \in Int
      /\ 0 <= d.yday /\ d.yday < Dates!LengthOfYear(d.year)
  BY <1>1, DayOfYear
<1>3. t \div 2 = DayOf(d) /\ t % 2 = d.half
  BY <1>1, <1>2
<1>4. PICK day \in Int : day = DayOf(d)
  BY <1>2
<1>5. PICK start \in Int : start = IF day >= 13879 THEN 108 ELSE 70
  OBVIOUS
<1>6. PICK m \in Int : m = IF day >= 13879 THEN day - 13879 ELSE day
  OBVIOUS
<1>7. PICK c \in Int : c = IF m >= 0 THEN m \div 146097 ELSE Dates!Quotient(m, 146097) + 1
  BY DEF Dates!Quotient
<1>8. m = Dates!DaysOfYears(start, d.year) + d.yday
  <2>1. Dates!DaysOfYears(70, d.year) \in Int
    BY <1>2, Epoch
  <2>2. CASE day >= 13879
    <3>1. Dates!DaysOfYears(70, 108) = 13879
      BY DEF Dates!DaysOfYears, Dates!LeapsBefore
    <3>2. Dates!DaysOfYears(70, d.year) = Dates!DaysOfYears(70, 108) + Dates!DaysOfYears(108, d.year)
      <4>1. 70 \in Int /\ 108 \in Int
        OBVIOUS
      <4> QED BY <1>2, <4>1, Through
    <3>3. Dates!DaysOfYears(108, d.year) \in Int
      <4>1. 108 \in Int
        OBVIOUS
      <4> QED BY <1>2, <4>1, DaysTyped
    <3> QED BY <1>2, <1>4, <1>5, <1>6, <2>2, <3>1, <3>2, <3>3 DEF DayOf
  <2>3. CASE ~(day >= 13879)
    BY <1>4, <1>5, <1>6, <2>3 DEF DayOf
  <2> QED BY <2>2, <2>3
<1>9. (IF m >= 0 THEN Dates!YearsUp(start + 400 * c, m - c * 146097)
       ELSE Dates!YearsDown(start - 1 + 400 * c, m - c * 146097))
        = [year |-> d.year, yday |-> d.yday]
  BY <1>2, <1>7, <1>8, YearSearch
<1>10. Dates!YearOf(day) = [year |-> d.year, yday |-> d.yday]
  <2>1. Dates!YearOf(day)
          = IF m >= 0 THEN Dates!YearsUp(start + 400 * c, m - c * 146097)
            ELSE Dates!YearsDown(start - 1 + 400 * c, m - c * 146097)
    BY <1>5, <1>6, <1>7 DEF Dates!YearOf, Dates!CheatDays, Dates!GregorianCycle
  <2> QED BY <1>9, <2>1
<1>11. Dates!Gmtime(t)
         = [year |-> d.year, mon |-> d.mon,
            mday |-> d.yday - Dates!JulianDays(d.year)[d.mon + 1] + 1,
            yday |-> d.yday, wday |-> (day + 4) % 7, half |-> d.half]
  <2> DEFINE f == [year |-> d.year, yday |-> d.yday]
  <2>1. Dates!Gmtime(t)
         = [year |-> f.year, mon |-> Dates!MonthOf(f),
            mday |-> f.yday - Dates!JulianDays(f.year)[Dates!MonthOf(f) + 1] + 1,
            yday |-> f.yday, wday |-> (day + 4) % 7, half |-> d.half]
    BY <1>3, <1>4, <1>10, Zenon DEF Dates!Gmtime
  <2>2. Dates!MonthOf(f) = d.mon
    BY <1>1, MonthSearch
  <2>3. f.year = d.year /\ f.yday = d.yday
    OBVIOUS
  <2> HIDE DEF f
  <2> QED BY <2>1, <2>2, <2>3, Zenon
<1>12. Dates!JulianDays(d.year)[d.mon + 1] \in Nat
  BY <1>2, Months
<1>13. d.yday - Dates!JulianDays(d.year)[d.mon + 1] + 1 = d.mday
  <2>1. PICK j \in Nat : j = Dates!JulianDays(d.year)[d.mon + 1]
    BY <1>12
  <2> QED BY <1>1, <1>2, <2>1
<1>14. Dates!Gmtime(t) = [year |-> d.year, mon |-> d.mon, mday |-> d.mday, yday |-> d.yday,
                          wday |-> d.wday, half |-> d.half]
  BY <1>1, <1>4, <1>11, <1>13
<1> QED BY <1>1, <1>14 DEF DateFields

-----------------------------------------------------------------------------
(* Safe years: those of the system's calendar that stand for the others *)

\* The year before is the e-th of the c-th century of the a-th cycle.
Parts(year, a, c, e) ==
  a \in Int /\ c \in 0..3 /\ e \in 0..99 /\ year = 400 * a + 100 * c + e + 1
\* A year the system's calendar shows
SafeOne(safe) == safe \in Int /\ 1971 <= safe /\ safe <= 2037

LEMMA YearParts ==
  ASSUME NEW year \in Int
  PROVE  \E a, c, e : Parts(year, a, c, e)
<1>1. PICK x \in Int : x = year - 1
  OBVIOUS
<1>2. PICK a \in Int : a = x \div 400
  OBVIOUS
<1>3. PICK r \in 0..399 : r = x % 400
  OBVIOUS
<1>4. PICK c \in 0..3 : c = r \div 100
  OBVIOUS
<1>5. PICK e \in 0..99 : e = r % 100
  OBVIOUS
<1>6. year = 400 * a + 100 * c + e + 1
  BY <1>1, <1>2, <1>3, <1>4, <1>5
<1>7. Parts(year, a, c, e)
  BY <1>6 DEF Parts
<1> QED BY <1>7

\* Leap years and exceptional centuries, read off the parts.
LEMMA PartsLeap ==
  ASSUME NEW year \in Int, NEW a, NEW c, NEW e, Parts(year, a, c, e)
  PROVE  /\ Dates!IsLeap(year - 1900) <=> (e % 4 = 3 /\ (e # 99 \/ c = 3))
         /\ Dates!IsLeap(year - 1901) <=> (e % 4 = 0 /\ (e # 0 \/ c = 0))
         /\ Dates!LeapsBefore(year - 1900) = 97 * a + 24 * c + e \div 4
         /\ Dates!IsExceptionCentury(year) <=> (e = 99 /\ c # 3)
         /\ Dates!IsExceptionCentury(year - 1) <=> (e = 0 /\ c # 0)
<1>0. a \in Int /\ c \in 0..3 /\ e \in 0..99 /\ year = 400 * a + 100 * c + e + 1
  BY DEF Parts
<1>1. PICK r \in 0..399 : r = 100 * c + e
  BY <1>0
<1>2. year = 400 * a + r + 1
  BY <1>0, <1>1
<1>3. /\ year % 400 = (r + 1) % 400 /\ year % 100 = (r + 1) % 100 /\ year % 4 = (r + 1) % 4
      /\ (year - 1) % 400 = r /\ (year - 1) % 100 = r % 100 /\ (year - 1) % 4 = r % 4
  BY <1>0, <1>2
<1>4. /\ (year - 1) \div 400 = a /\ (year - 1) \div 100 = 4 * a + r \div 100
      /\ (year - 1) \div 4 = 100 * a + r \div 4
  BY <1>0, <1>2
<1>5. /\ r % 100 = e /\ r % 4 = e % 4 /\ r \div 100 = c /\ r \div 4 = 25 * c + e \div 4
      /\ (r + 1) % 100 = (e + 1) % 100 /\ (r + 1) % 4 = (e + 1) % 4
      /\ e \div 4 \in Int
  BY <1>0, <1>1
<1>6. /\ (r + 1) % 400 = 0 <=> (c = 3 /\ e = 99)
      /\ r = 0 <=> (c = 0 /\ e = 0)
      /\ (e + 1) % 100 = 0 <=> e = 99
      /\ (e + 1) % 4 = 0 <=> e % 4 = 3
      /\ e = 99 => e % 4 = 3
      /\ e = 0 => e % 4 = 0
  BY <1>0, <1>1
<1>7. /\ year - 1900 + 1900 = year /\ year - 1901 + 1900 = year - 1
      /\ year - 1900 + 1899 = year - 1
  BY <1>0
<1>8. Dates!IsLeap(year - 1900) <=> (e % 4 = 3 /\ (e # 99 \/ c = 3))
  BY <1>0, <1>3, <1>5, <1>6, <1>7 DEF Dates!IsLeap
<1>9. Dates!IsLeap(year - 1901) <=> (e % 4 = 0 /\ (e # 0 \/ c = 0))
  BY <1>0, <1>3, <1>5, <1>6, <1>7 DEF Dates!IsLeap
<1>10. Dates!LeapsBefore(year - 1900) = 97 * a + 24 * c + e \div 4
  BY <1>0, <1>4, <1>5, <1>7 DEF Dates!LeapsBefore
<1>11. Dates!IsExceptionCentury(year) <=> (e = 99 /\ c # 3)
  BY <1>0, <1>3, <1>5, <1>6 DEF Dates!IsExceptionCentury
<1>12. Dates!IsExceptionCentury(year - 1) <=> (e = 0 /\ c # 0)
  BY <1>0, <1>3, <1>5, <1>6 DEF Dates!IsExceptionCentury
<1> QED BY <1>8, <1>9, <1>10, <1>11, <1>12

LEMMA SafeLeap ==
  ASSUME NEW safe, SafeOne(safe)
  PROVE  /\ Dates!IsLeap(safe - 1900) <=> safe % 4 = 0
         /\ Dates!IsLeap(safe - 1901) <=> safe % 4 = 1
         /\ Dates!LeapsBefore(safe - 1900) = (safe - 1) \div 4 - 15
<1>0. safe \in Int /\ 1971 <= safe /\ safe <= 2037
  BY DEF SafeOne
<1>1. /\ safe - 1900 + 1900 = safe /\ safe - 1901 + 1900 = safe - 1
      /\ safe - 1900 + 1899 = safe - 1
  BY <1>0
<1>2. /\ safe % 400 = 0 <=> safe = 2000
      /\ safe % 100 = 0 <=> safe = 2000
      /\ (safe - 1) % 400 = 0 <=> safe = 2001
      /\ (safe - 1) % 100 = 0 <=> safe = 2001
      /\ (safe - 1) % 4 = 0 <=> safe % 4 = 1
      /\ safe = 2000 => safe % 4 = 0
      /\ safe = 2001 => safe % 4 = 1
  BY <1>0
<1>3. (safe - 1) \div 100 = (IF safe >= 2001 THEN 20 ELSE 19)
      /\ (safe - 1) \div 400 = (IF safe >= 2001 THEN 5 ELSE 4)
  BY <1>0
<1>4. Dates!IsLeap(safe - 1900) <=> safe % 4 = 0
  BY <1>0, <1>1, <1>2 DEF Dates!IsLeap
<1>5. Dates!IsLeap(safe - 1901) <=> safe % 4 = 1
  BY <1>0, <1>1, <1>2 DEF Dates!IsLeap
<1>6. Dates!LeapsBefore(safe - 1900) = (safe - 1) \div 4 - 15
  BY <1>0, <1>1, <1>3 DEF Dates!LeapsBefore
<1> QED BY <1>4, <1>5, <1>6

\* The year's place in the cycle of 28 years, which the tables turn into a safe year
Place(year, cycle, p, k) ==
  /\ p \in Int /\ k \in Int /\ 0 <= p /\ p < 28 /\ cycle = 28 * k + p
  /\ Dates!SafeYearIn(year, cycle)
       = IF year < 1971 THEN IF p < 3 THEN 1996 + p ELSE 1968 + p
         ELSE IF p < 22 THEN 2016 + p ELSE 1988 + p

LEMMA SafeYearPlace ==
  ASSUME NEW year \in Int, NEW cycle \in Int
  PROVE  \E p, k : Place(year, cycle, p, k)
<1>1. PICK p \in Int : p = cycle % 28
  OBVIOUS
<1>2. PICK k \in Int : k = cycle \div 28
  OBVIOUS
<1>3. 0 <= p /\ p < 28 /\ cycle = 28 * k + p
  BY <1>1, <1>2
<1>4. PICK r \in Int : r = Dates!Remainder(cycle, 28)
  BY DEF Dates!Remainder, Dates!Quotient
<1>5. (IF r < 0 THEN 28 + r ELSE r) = p
  <2>1. CASE cycle >= 0
    BY <1>1, <1>4, <2>1 DEF Dates!Remainder, Dates!Quotient
  <2>2. CASE cycle < 0
    <3>1. PICK q \in Int : q = (-cycle) \div 28
      OBVIOUS
    <3>2. r = cycle + 28 * q
      BY <1>4, <2>2, <3>1 DEF Dates!Remainder, Dates!Quotient
    <3>3. 28 * q <= -cycle /\ -cycle < 28 * q + 28
      BY <3>1
    <3> QED BY <1>3, <3>2, <3>3
  <2> QED BY <2>1, <2>2
<1>6. Dates!SafeYearIn(year, cycle)
        = IF year < 1971 THEN IF p < 3 THEN 1996 + p ELSE 1968 + p
          ELSE IF p < 22 THEN 2016 + p ELSE 1988 + p
  BY <1>4, <1>5 DEF Dates!SafeYearIn, Dates!MinSafe
<1>7. Place(year, cycle, p, k)
  BY <1>3, <1>6 DEF Place
<1> QED BY <1>7

\* The same offset before and after 2000, though C rounds the two apart.
LEMMA CycleOffsetParts ==
  ASSUME NEW year \in Int, NEW a, NEW c, NEW e, Parts(year, a, c, e), year < 1971 \/ year > 2037
  PROVE  Dates!CycleOffset(year) = 48 * a + 16 * c - 240
<1>0. a \in Int /\ c \in 0..3 /\ e \in 0..99 /\ year = 400 * a + 100 * c + e + 1
  BY DEF Parts
<1>1. CASE year > 2037
  <2>1. (year - 2001) \div 100 = 4 * (a - 5) + c /\ (year - 2001) \div 400 = a - 5
    BY <1>0
  <2> QED BY <1>0, <1>1, <2>1 DEF Dates!CycleOffset, Dates!Quotient
<1>2. CASE year < 1971
  <2>1. (2000 - year) \div 100 = 4 * (4 - a) + 3 - c /\ (2000 - year) \div 400 = 4 - a
    BY <1>0
  <2>2. -(year - 2000) = 2000 - year /\ ~(year - 2000 >= 0) /\ ~(year > 2000)
    BY <1>2
  <2> QED BY <1>0, <2>1, <2>2 DEF Dates!CycleOffset, Dates!Quotient
<1> QED BY <1>1, <1>2

\* A year 28 years apart from the place in the cycle matches the year.
\* What a safe year must share with the year it stands for: its length, the day of the
\* week it begins on, and a year before it that is no shorter
Matches(safe, year) ==
  /\ Dates!IsLeap(safe - 1900) <=> Dates!IsLeap(year - 1900)
  /\ Dates!IsLeap(year - 1901) => Dates!IsLeap(safe - 1901)
  /\ \E w \in Int : Dates!DaysOfYears(safe - 1900, year - 1900) = 7 * w
\* What an exceptional century, and the year after one, moves the place by
Shift(c, e) == IF e = 99 /\ c # 3 THEN 11 ELSE IF e = 0 /\ c # 0 THEN 17 ELSE 0

LEMMA CongruentYear ==
  ASSUME NEW year \in Int, NEW safe, NEW a, NEW c, NEW e, NEW n \in Int,
         Parts(year, a, c, e), SafeOne(safe),
         safe = 28 * n + 4 * c + e + 13 + Shift(c, e)
  PROVE  Matches(safe, year)
<1>0. /\ a \in Int /\ c \in 0..3 /\ e \in 0..99 /\ year = 400 * a + 100 * c + e + 1
      /\ safe \in Int /\ 1971 <= safe /\ safe <= 2037
  BY DEF Parts, SafeOne
<1> PICK adj \in Int : adj = Shift(c, e)
  BY DEF Shift
<1>00. /\ adj = IF e = 99 /\ c # 3 THEN 11 ELSE IF e = 0 /\ c # 0 THEN 17 ELSE 0
       /\ safe = 28 * n + 4 * c + e + 13 + adj
  BY DEF Shift
<1>1. /\ Dates!IsLeap(year - 1900) <=> (e % 4 = 3 /\ (e # 99 \/ c = 3))
      /\ Dates!IsLeap(year - 1901) <=> (e % 4 = 0 /\ (e # 0 \/ c = 0))
      /\ Dates!LeapsBefore(year - 1900) = 97 * a + 24 * c + e \div 4
  BY PartsLeap
<1>2. /\ Dates!IsLeap(safe - 1900) <=> safe % 4 = 0
      /\ Dates!IsLeap(safe - 1901) <=> safe % 4 = 1
      /\ Dates!LeapsBefore(safe - 1900) = (safe - 1) \div 4 - 15
  BY SafeLeap
<1>3. PICK f \in Int : f = e + adj
  BY <1>0
<1>4. safe % 4 = (f + 1) % 4 /\ (safe - 1) \div 4 = 7 * n + c + 3 + f \div 4
  BY <1>0, <1>00, <1>3
<1>5. PICK g \in Int : g = f \div 4
  BY <1>3
<1>6. PICK h \in Int : h = e \div 4
  BY <1>0
<1>7. Dates!DaysOfYears(safe - 1900, year - 1900)
        = 365 * (year - safe) + (97 * a + 24 * c + h) - (7 * n + c + 3 + g - 15)
  BY <1>1, <1>2, <1>4, <1>5, <1>6, <1>0 DEF Dates!DaysOfYears
<1>8. CASE e = 99 /\ c # 3
  <2>1. adj = 11 /\ f = 110 /\ g = 27 /\ h = 24 /\ e % 4 = 3 /\ (f + 1) % 4 = 3
    BY <1>0, <1>00, <1>3, <1>5, <1>6, <1>8
  <2>2. PICK w \in Int : w = 20871 * a + 5009 * c - 1461 * n - 1198
    BY <1>0
  <2>3. Dates!DaysOfYears(safe - 1900, year - 1900) = 7 * w
    BY <1>0, <1>00, <1>7, <1>8, <2>1, <2>2
  <2>4. /\ Dates!IsLeap(safe - 1900) <=> Dates!IsLeap(year - 1900)
        /\ Dates!IsLeap(year - 1901) => Dates!IsLeap(safe - 1901)
    BY <1>0, <1>1, <1>2, <1>4, <1>8, <2>1
  <2> QED BY <2>2, <2>3, <2>4 DEF Matches
<1>9. CASE e = 0 /\ c # 0
  <2>1. adj = 17 /\ f = 17 /\ g = 4 /\ h = 0 /\ e % 4 = 0 /\ (f + 1) % 4 = 2
    BY <1>0, <1>00, <1>3, <1>5, <1>6, <1>9
  <2>2. PICK w \in Int : w = 20871 * a + 5009 * c - 1461 * n - 1511
    BY <1>0
  <2>3. Dates!DaysOfYears(safe - 1900, year - 1900) = 7 * w
    BY <1>0, <1>00, <1>7, <1>9, <2>1, <2>2
  <2>4. /\ Dates!IsLeap(safe - 1900) <=> Dates!IsLeap(year - 1900)
        /\ Dates!IsLeap(year - 1901) => Dates!IsLeap(safe - 1901)
    BY <1>0, <1>1, <1>2, <1>4, <1>9, <2>1
  <2> QED BY <2>2, <2>3, <2>4 DEF Matches
<1>10. CASE ~(e = 99 /\ c # 3) /\ ~(e = 0 /\ c # 0)
  <2>1. adj = 0 /\ f = e /\ g = h
    BY <1>0, <1>00, <1>3, <1>5, <1>6, <1>10
  <2>2. PICK w \in Int : w = 20871 * a + 5009 * c - 1461 * n - 624
    BY <1>0
  <2>3. Dates!DaysOfYears(safe - 1900, year - 1900) = 7 * w
    BY <1>0, <1>00, <1>7, <2>1, <2>2
  <2>4. (e + 1) % 4 = 0 <=> e % 4 = 3
    BY <1>0
  <2>5. (e + 1) % 4 = 1 <=> e % 4 = 0
    BY <1>0
  <2>6. /\ Dates!IsLeap(safe - 1900) <=> Dates!IsLeap(year - 1900)
        /\ Dates!IsLeap(year - 1901) => Dates!IsLeap(safe - 1901)
    BY <1>0, <1>1, <1>2, <1>4, <1>10, <2>1, <2>4, <2>5
  <2> QED BY <2>2, <2>3, <2>6 DEF Matches
<1> QED BY <1>8, <1>9, <1>10

\* The year the system's calendar shows instead begins on the same day of the
\* week and is as long, and the year before it is not shorter.
LEMMA SafeYearMatches ==
  ASSUME NEW year \in Int, year < 1971 \/ year > 2037
  PROVE  SafeOne(Dates!SafeYear(year)) /\ Matches(Dates!SafeYear(year), year)
<1>1. PICK a, c, e : Parts(year, a, c, e)
  BY YearParts
<1>3. a \in Int /\ c \in 0..3 /\ e \in 0..99 /\ year = 400 * a + 100 * c + e + 1
  BY <1>1 DEF Parts
<1> PICK adj \in Int : adj = Shift(c, e)
  BY DEF Shift
<1>4. adj = IF e = 99 /\ c # 3 THEN 11 ELSE IF e = 0 /\ c # 0 THEN 17 ELSE 0
  BY DEF Shift
<1>5. PICK low \in Int : low = IF year < 1971 THEN 8 ELSE 0
  OBVIOUS
<1>6. PICK cycle \in Int : cycle = 448 * a + 116 * c + e - 239 - low + adj
  BY <1>3
<1>7. Dates!SafeYear(year) = Dates!SafeYearIn(year, cycle)
  <2>1. Dates!CycleOffset(year) = 48 * a + 16 * c - 240
    BY <1>1, CycleOffsetParts
  <2>2. /\ Dates!IsExceptionCentury(year) <=> (e = 99 /\ c # 3)
        /\ Dates!IsExceptionCentury(year - 1) <=> (e = 0 /\ c # 0)
    BY <1>1, PartsLeap
  <2>3. PICK off \in Int : off = Dates!CycleOffset(year)
    BY <1>3, <2>1
  <2>4. PICK eleven \in Int : eleven = IF Dates!IsExceptionCentury(year) THEN 11 ELSE 0
    OBVIOUS
  <2>5. PICK seventeen \in Int :
          seventeen = IF Dates!IsExceptionCentury(year - 1) THEN 17 ELSE 0
    OBVIOUS
  <2>6. eleven + seventeen = adj
    BY <1>4, <2>2, <2>4, <2>5
  <2>7. year + off - low + eleven + seventeen = cycle
    BY <1>3, <1>6, <2>1, <2>3, <2>6
  <2>8. ~(year \in 1971..2037)
    OBVIOUS
  <2> QED BY <1>5, <2>3, <2>4, <2>5, <2>7, <2>8
          DEF Dates!SafeYear, Dates!MinSafe, Dates!MaxSafe
<1>8. PICK p, k : Place(year, cycle, p, k)
  BY SafeYearPlace
<1>9. /\ p \in Int /\ k \in Int /\ 0 <= p /\ p < 28 /\ cycle = 28 * k + p
      /\ Dates!SafeYearIn(year, cycle)
           = IF year < 1971 THEN IF p < 3 THEN 1996 + p ELSE 1968 + p
             ELSE IF p < 22 THEN 2016 + p ELSE 1988 + p
  BY <1>8 DEF Place
<1>10. PICK safe \in Int :
         safe = IF year < 1971 THEN IF p < 3 THEN 1996 + p ELSE 1968 + p
                ELSE IF p < 22 THEN 2016 + p ELSE 1988 + p
  BY <1>9
<1>11. Dates!SafeYear(year) = safe
  BY <1>7, <1>9, <1>10
<1>12. SafeOne(safe)
  BY <1>9, <1>10 DEF SafeOne
<1>13. PICK j \in Int : j = IF year < 1971 THEN IF p < 3 THEN 62 ELSE 61
                            ELSE IF p < 22 THEN 63 ELSE 62
  OBVIOUS
<1> PICK n \in Int : n = 16 * a + 4 * c - k + j
  BY <1>3, <1>9
<1>14. safe = 28 * n + 4 * c + e + 13 + adj
  <2>1. CASE year < 1971
    BY <1>3, <1>5, <1>6, <1>9, <1>10, <1>13, <2>1
  <2>2. CASE year > 2037
    BY <1>3, <1>5, <1>6, <1>9, <1>10, <1>13, <2>2
  <2> QED BY <2>1, <2>2
<1>15. Matches(safe, year)
  <2>1. safe = 28 * n + 4 * c + e + 13 + Shift(c, e)
    BY <1>14
  <2> QED BY <1>1, <1>12, <2>1, CongruentYear
<1> QED BY <1>11, <1>12, <1>15

\* The days between a year and its safe one, counted from either.
LEMMA BetweenYears ==
  ASSUME NEW year \in Int, NEW safe, SafeOne(safe), year < 1971 \/ year > 2037,
         Dates!IsLeap(safe - 1900) <=> Dates!IsLeap(year - 1900)
  PROVE  Dates!DaysBetweenYears(year, safe) = Dates!DaysOfYears(safe - 1900, year - 1900)
<1>1. safe \in Int /\ 1971 <= safe /\ safe <= 2037
  BY DEF SafeOne
<1>2. PICK x \in Int : x = year - 1900
  OBVIOUS
<1>3. PICK y \in Int : y = safe - 1900
  BY <1>1
<1>4. Dates!DaysOfYears(y, x) \in Int
  BY DaysTyped
<1>5. PICK c \in Int : c = IF year > 2400 THEN Dates!Quotient(year - 2400, 400)
                           ELSE IF year < 1600 THEN Dates!Quotient(year - 1600, 400) ELSE 0
  BY DEF Dates!Quotient
<1>6. CASE year > 2037
  <2>1. c >= 0 /\ year - 400 * c > 2037
    <3>1. CASE year > 2400
      <4>1. c = (year - 2400) \div 400
        BY <1>5, <3>1 DEF Dates!Quotient
      <4> QED BY <3>1, <4>1
    <3>2. CASE ~(year > 2400)
      BY <1>5, <1>6, <3>2
    <3> QED BY <3>1, <3>2
  <2>2. Dates!DaysBetweenYears(year, safe)
          = c * 146097 + Dates!DaysOfYears(safe - 1900, year - 400 * c - 1900)
    BY <1>1, <1>5, <1>6, <2>1 DEF Dates!DaysBetweenYears, Dates!GregorianCycle
  <2>3. PICK k \in Int : k = -c
    OBVIOUS
  <2>4. year - 400 * c - 1900 = x + 400 * k
    BY <1>2, <2>3
  <2>5. Dates!DaysOfYears(y, x + 400 * k) = Dates!DaysOfYears(y, x) + 146097 * k
    BY Cycles
  <2> QED BY <1>2, <1>3, <1>4, <2>2, <2>3, <2>4, <2>5
<1>7. CASE year < 1971
  <2>1. c <= 0 /\ year < safe /\ ~(year > 2400) /\ (year >= 1600 => c = 0)
    <3>1. CASE year < 1600
      <4>1. c = -((1600 - year) \div 400)
        <5>1. -(year - 1600) = 1600 - year
          OBVIOUS
        <5> QED BY <1>5, <3>1, <5>1 DEF Dates!Quotient
      <4> QED BY <1>1, <3>1, <4>1
    <3>2. CASE ~(year < 1600)
      BY <1>1, <1>5, <1>7, <3>2
    <3> QED BY <3>1, <3>2
  <2>2. PICK start \in Int : start = year + 400 * c
    OBVIOUS
  <2>3. start < safe
    BY <1>1, <2>1, <2>2
  <2>4. Dates!DaysBetweenYears(year, safe)
          = -(c * 146097 + Dates!DaysOfYears(start - 1899, safe - 1899))
    <3>1. (IF year < 1600 THEN year + 400 * c ELSE year - 400 * c) = start
      BY <2>1, <2>2
    <3> QED BY <1>1, <1>5, <2>1, <2>3, <3>1 DEF Dates!DaysBetweenYears, Dates!GregorianCycle
  <2>5. start - 1899 = (x + 1) + 400 * c /\ safe - 1899 = y + 1
    BY <1>1, <1>2, <1>3, <2>2
  <2>6. Dates!DaysOfYears(y + 1, (x + 1) + 400 * c)
          = Dates!DaysOfYears(y + 1, x + 1) + 146097 * c
    <3>1. PICK p \in Int, q \in Int : p = y + 1 /\ q = x + 1
      OBVIOUS
    <3> QED BY <3>1, Cycles
  <2>7. Dates!DaysOfYears((x + 1) + 400 * c, y + 1)
          = -Dates!DaysOfYears(y + 1, (x + 1) + 400 * c)
    <3>1. PICK p \in Int, q \in Int : p = y + 1 /\ q = (x + 1) + 400 * c
      OBVIOUS
    <3> QED BY <3>1, Backwards
  <2>8. Dates!DaysOfYears(y + 1, x + 1) = Dates!DaysOfYears(y, x)
    <3>1. Dates!DaysOfYears(y, x + 1) = Dates!DaysOfYears(y, x) + Dates!LengthOfYear(x)
      BY NextYear
    <3>2. Dates!DaysOfYears(y, x + 1)
            = Dates!DaysOfYears(y, y + 1) + Dates!DaysOfYears(y + 1, x + 1)
      <4>1. PICK p \in Int, q \in Int : p = y + 1 /\ q = x + 1
        OBVIOUS
      <4> QED BY <4>1, Through
    <3>3. Dates!DaysOfYears(y, y + 1) = Dates!DaysOfYears(y, y) + Dates!LengthOfYear(y)
      BY NextYear
    <3>4. Dates!DaysOfYears(y, y) = 0
      BY LeapStep DEF Dates!DaysOfYears
    <3>5. Dates!LengthOfYear(x) = Dates!LengthOfYear(y)
      <4>1. Dates!IsLeap(y) <=> Dates!IsLeap(x)
        BY <1>2, <1>3
      <4> QED BY <4>1, SameLeap
    <3>6. Dates!LengthOfYear(x) \in {365, 366}
      BY LengthTyped
    <3>7. Dates!DaysOfYears(y + 1, x + 1) \in Int
      <4>1. PICK p \in Int, q \in Int : p = y + 1 /\ q = x + 1
        OBVIOUS
      <4> QED BY <4>1, DaysTyped
    <3> QED BY <1>4, <3>1, <3>2, <3>3, <3>4, <3>5, <3>6, <3>7
  <2> QED BY <1>2, <1>3, <1>4, <2>4, <2>5, <2>6, <2>7, <2>8
<1> QED BY <1>6, <1>7

\* A date with its year replaced by one that matches it
LEMMA SafeDateShown ==
  ASSUME NEW d, NEW t \in Int, Shows(d, t), NEW safe, SafeOne(safe), Matches(safe, d.year + 1900),
         NEW v, v = [d EXCEPT !.year = safe - 1900]
  PROVE  /\ Shows(v, 2 * DayOf(v) + v.half)
         /\ v.year = safe - 1900 /\ v.mon = d.mon /\ v.mday = d.mday /\ v.yday = d.yday
         /\ v.wday = d.wday /\ v.half = d.half
         /\ Dates!DaysInMonth(v.year) = Dates!DaysInMonth(d.year)
         /\ Dates!LengthOfYear(v.year) = Dates!LengthOfYear(d.year)
         /\ DayOf(d) = DayOf(v) + Dates!DaysOfYears(safe - 1900, d.year)
         /\ Dates!DaysOfYears(safe - 1900, d.year) \in Int
         /\ Dates!Timegm(v) = 2 * DayOf(v) + v.half
<1>1. safe \in Int /\ 1971 <= safe /\ safe <= 2037
  BY DEF SafeOne
<1>2. /\ Dated(d) /\ d \in DateFields /\ d.wday = (DayOf(d) + 4) % 7
      /\ t = 2 * DayOf(d) + d.half
      /\ 1 <= d.mday /\ d.mday <= Dates!DaysInMonth(d.year)[d.mon + 1]
      /\ d.yday = Dates!JulianDays(d.year)[d.mon + 1] + d.mday - 1
  BY DEF Shows, Dated
<1>3. /\ d.year \in Int /\ d.mon \in 0..11 /\ d.mday \in Int /\ d.yday \in Int
      /\ d.wday \in Int /\ d.half \in 0..1 /\ DayOf(d) \in Int
  BY <1>2, DayOfYear
<1>4. /\ v.year = safe - 1900 /\ v.mon = d.mon /\ v.mday = d.mday /\ v.yday = d.yday
      /\ v.wday = d.wday /\ v.half = d.half /\ v \in DateFields
  BY <1>1, <1>2 DEF DateFields
<1>5. PICK x \in Int : x = d.year + 1900
  BY <1>3
<1>6. /\ Dates!IsLeap(v.year) <=> Dates!IsLeap(d.year)
      /\ \E w \in Int : Dates!DaysOfYears(v.year, d.year) = 7 * w
  <2>1. Matches(safe, x) /\ x - 1900 = d.year
    BY <1>3, <1>5
  <2>2. Dates!IsLeap(safe - 1900) <=> Dates!IsLeap(x - 1900)
    BY <2>1 DEF Matches
  <2>3. \E w \in Int : Dates!DaysOfYears(safe - 1900, x - 1900) = 7 * w
    BY <2>1 DEF Matches
  <2> QED BY <1>4, <2>1, <2>2, <2>3
<1>7. /\ Dates!JulianDays(v.year) = Dates!JulianDays(d.year)
      /\ Dates!DaysInMonth(v.year) = Dates!DaysInMonth(d.year)
      /\ Dates!LengthOfYear(v.year) = Dates!LengthOfYear(d.year)
  BY <1>6, SameLeap
<1>8. Dated(v)
  BY <1>2, <1>4, <1>7 DEF Dated
<1>9. PICK w \in Int : Dates!DaysOfYears(v.year, d.year) = 7 * w
  BY <1>6
<1>10. v.year \in Int
  BY <1>1, <1>4
<1>11. Dates!DaysOfYears(70, v.year) \in Int /\ Dates!DaysOfYears(70, d.year) \in Int
  BY <1>3, <1>10, Epoch
<1>12. Dates!DaysOfYears(70, d.year)
         = Dates!DaysOfYears(70, v.year) + Dates!DaysOfYears(v.year, d.year)
  <2>1. PICK y \in Int, z \in Int, s \in Int : y = v.year /\ z = d.year /\ s = 70
    BY <1>3, <1>10
  <2>2. Dates!DaysOfYears(s, z) = Dates!DaysOfYears(s, y) + Dates!DaysOfYears(y, z)
    BY Through
  <2> QED BY <2>1, <2>2
<1>13. DayOf(v) \in Int /\ DayOf(d) = DayOf(v) + 7 * w
  <2>1. PICK p \in Int, q \in Int :
          p = Dates!DaysOfYears(70, v.year) /\ q = Dates!DaysOfYears(70, d.year)
    BY <1>11
  <2>2. q = p + 7 * w
    BY <1>9, <1>12, <2>1
  <2>3. DayOf(v) = p + d.yday /\ DayOf(d) = q + d.yday
    BY <1>4, <2>1 DEF DayOf
  <2> QED BY <1>3, <2>1, <2>2, <2>3
<1>14. v.wday = (DayOf(v) + 4) % 7
  <2>1. PICK n \in Int : n = DayOf(v)
    BY <1>13
  <2>2. (n + 7 * w + 4) % 7 = (n + 4) % 7
    OBVIOUS
  <2> QED BY <1>2, <1>4, <1>13, <2>1, <2>2
<1>15. Shows(v, 2 * DayOf(v) + v.half)
  BY <1>8, <1>14 DEF Shows
<1>16. Dates!Timegm(v) = 2 * DayOf(v) + v.half
  <2>1. PICK tv \in Int : tv = 2 * DayOf(v) + v.half
    BY <1>3, <1>4, <1>13
  <2> QED BY <1>15, <2>1, TimegmShown
<1> QED BY <1>4, <1>7, <1>9, <1>13, <1>15, <1>16

\* The year the date is taken from does not show in the time.
LEMMA MktimeShown ==
  ASSUME NEW d, NEW t \in Int, zone \in Int, Shows(d, t + zone)
  PROVE  Dates!Mktime(d) = t
<1>1. PICK clock \in Int : clock = t + zone
  OBVIOUS
<1>2. Shows(d, clock) /\ Dates!Timegm(d) = clock /\ d.year \in Int
  BY <1>1, TimegmShown, DayOfYear DEF Shows
<1>3. PICK year \in Int : year = d.year + 1900
  BY <1>2
<1>4. CASE year \in 1971..2037
  BY <1>1, <1>2, <1>3, <1>4 DEF Dates!Mktime, Dates!SystemMktime, Dates!MinSafe, Dates!MaxSafe
<1>5. CASE year < 1971 \/ year > 2037
  <2>1. PICK safe \in Int : safe = Dates!SafeYear(year)
    BY <1>5, SafeYearMatches DEF SafeOne
  <2>2. SafeOne(safe) /\ Matches(safe, year)
    BY <1>5, <2>1, SafeYearMatches
  <2> DEFINE v == [d EXCEPT !.year = safe - 1900]
  <2>3. v = [d EXCEPT !.year = safe - 1900]
    OBVIOUS
  <2> HIDE DEF v
  <2>4. /\ Dates!Timegm(v) = 2 * DayOf(v) + v.half /\ v.half = d.half
        /\ DayOf(d) = DayOf(v) + Dates!DaysOfYears(safe - 1900, d.year)
        /\ Dates!DaysOfYears(safe - 1900, d.year) \in Int
        /\ Shows(v, 2 * DayOf(v) + v.half)
    BY <1>2, <1>3, <2>2, <2>3, SafeDateShown
  <2>5. Dates!DaysBetweenYears(year, safe) = Dates!DaysOfYears(safe - 1900, d.year)
    <3>1. Dates!IsLeap(safe - 1900) <=> Dates!IsLeap(year - 1900)
      BY <2>2 DEF Matches
    <3>2. year - 1900 = d.year
      BY <1>2, <1>3
    <3> QED BY <1>5, <2>2, <3>1, <3>2, BetweenYears
  <2>6. Dates!Mktime(d) = Dates!Timegm(v) - zone + 2 * Dates!DaysBetweenYears(year, safe)
    <3>1. ~(year \in 1971..2037)
      BY <1>5
    <3> QED BY <1>3, <2>1, <2>3, <3>1
            DEF Dates!Mktime, Dates!SystemMktime, Dates!MinSafe, Dates!MaxSafe
  <2>7. clock = 2 * DayOf(d) + d.half /\ DayOf(v) \in Int /\ d.half \in Int
    BY <1>2, <2>4, DayOfYear DEF Shows
  <2> QED BY <1>1, <2>4, <2>5, <2>6, <2>7
<1> QED BY <1>4, <1>5

\* The way localtime64 takes outside the system's range.
LEMMA LocaltimeUnfolds ==
  ASSUME NEW t \in Int, t < -49710 \/ t > 49710
  PROVE  Dates!Localtime(t)
           = Dates!Restored(Dates!Gmtime(Dates!Timegm(Dates!SafeDate(Dates!Gmtime(t))) + zone),
                            Dates!Gmtime(t))
BY DEF Dates!Localtime, Dates!SystemLocaltime, Dates!SystemMax

\* Outside the system's range the year is outside the safe ones.
LEMMA FarYear ==
  ASSUME NEW d, NEW t \in Int, Shows(d, t), t < -49710 \/ t > 49710
  PROVE  d.year > 137 \/ d.year < 70
<1>1. /\ Dated(d) /\ d.year \in Int /\ d.yday \in Int /\ d.half \in 0..1 /\ DayOf(d) \in Int
      /\ 0 <= d.yday /\ d.yday < Dates!LengthOfYear(d.year) /\ t = 2 * DayOf(d) + d.half
  BY DayOfYear DEF Shows
<1>2. Dates!DaysOfYears(70, d.year) \in Int /\ Dates!LengthOfYear(d.year) \in {365, 366}
  BY <1>1, Epoch, LengthTyped
<1>3. 70 \in Int /\ 138 \in Int
  OBVIOUS
<1>4. CASE t > 49710
  <2>1. DayOf(d) >= 24855
    BY <1>1, <1>4
  <2>2. Dates!DaysOfYears(70, 138) = 24837
    BY DEF Dates!DaysOfYears, Dates!LeapsBefore
  <2>3. d.year < 138 => Dates!DaysOfYears(70, d.year) + Dates!LengthOfYear(d.year)
                          <= Dates!DaysOfYears(70, 138)
    BY <1>1, <1>3, YearsApart
  <2> QED BY <1>1, <1>2, <2>1, <2>2, <2>3 DEF DayOf
<1>5. CASE t < -49710
  <2>1. DayOf(d) < 0
    BY <1>1, <1>5
  <2>2. Dates!DaysOfYears(70, 70) = 0
    BY DEF Dates!DaysOfYears, Dates!LeapsBefore
  <2>3. 70 < d.year => Dates!DaysOfYears(70, 70) + Dates!LengthOfYear(70)
                          <= Dates!DaysOfYears(70, d.year)
    BY <1>1, <1>3, YearsApart
  <2>4. Dates!LengthOfYear(70) \in {365, 366}
    BY LengthTyped
  <2>5. d.year = 70 => Dates!DaysOfYears(70, d.year) = 0
    BY <2>2
  <2> QED BY <1>1, <1>2, <2>1, <2>2, <2>3, <2>4, <2>5 DEF DayOf
<1> QED BY <1>4, <1>5

\* Half a day on, the year is the same or the next one has begun.
LEMMA TurnOfYear ==
  ASSUME NEW d, NEW t \in Int, Shows(d, t), Dates!Later(d).year # d.year
  PROVE  /\ d.mon = 11 /\ d.mday = 31 /\ d.half = 1
         /\ d.mday = Dates!DaysInMonth(d.year)[d.mon + 1]
         /\ d.yday = Dates!LengthOfYear(d.year) - 1
         /\ Dates!Later(d) = [year |-> d.year + 1, mon |-> 0, mday |-> 1, yday |-> 0,
                              wday |-> (d.wday + 1) % 7, half |-> 0]
<1> DEFINE ends == d.mday = Dates!DaysInMonth(d.year)[d.mon + 1]
<1>1. /\ Dated(d) /\ d \in DateFields /\ d.half \in 0..1 /\ d.mday \in Int
      /\ d.yday = Dates!JulianDays(d.year)[d.mon + 1] + d.mday - 1
  BY DayOfYear DEF Shows, Dated
<1>2. d.half = 1
  <2>1. d.half = 0 => Dates!Later(d).year = d.year
    BY <1>1 DEF Dates!Later, DateFields
  <2> QED BY <1>1, <2>1
<1>3. Dates!Later(d)
        = [year |-> IF ends /\ d.mon = 11 THEN d.year + 1 ELSE d.year,
           mon |-> IF ends /\ d.mon = 11 THEN 0 ELSE IF ends THEN d.mon + 1 ELSE d.mon,
           mday |-> IF ends THEN 1 ELSE d.mday + 1,
           yday |-> IF ends /\ d.mon = 11 THEN 0 ELSE d.yday + 1,
           wday |-> (d.wday + 1) % 7, half |-> 0]
  BY <1>2 DEF Dates!Later, Dates!Tomorrow
<1>4. ends /\ d.mon = 11
  BY <1>3
<1>5. Dates!DaysInMonth(d.year)[12] = 31
  BY DEF Dates!DaysInMonth
<1>6. d.mday = 31
  BY <1>4, <1>5
<1>7. d.yday = Dates!LengthOfYear(d.year) - 1
  <2>1. Dates!JulianDays(d.year)[13] = Dates!LengthOfYear(d.year)
    BY Months
  <2>2. Dates!JulianDays(d.year)[12] + 31 = Dates!JulianDays(d.year)[13]
    <3>1. CASE Dates!IsLeap(d.year)
      BY <3>1 DEF Dates!JulianDays
    <3>2. CASE ~Dates!IsLeap(d.year)
      BY <3>2 DEF Dates!JulianDays
    <3> QED BY <3>1, <3>2
  <2>3. Dates!JulianDays(d.year)[12] \in Int
    BY DEF Dates!JulianDays
  <2> QED BY <1>1, <1>4, <1>6, <2>1, <2>2, <2>3
<1> QED BY <1>2, <1>3, <1>4, <1>6, <1>7

\* Two dates of a year half a day apart are not eleven months apart.
LEMMA CloseMonths ==
  ASSUME NEW d, NEW e, NEW t \in Int, NEW z \in Int, -1 <= z, z <= 1,
         Shows(d, t), Shows(e, t + z), d.year = e.year
  PROVE  e.mon - d.mon # 11 /\ e.mon - d.mon # -11
<1>1. PICK x \in Int : x = t + z
  OBVIOUS
<1>2. /\ Dated(d) /\ Dated(e) /\ d.half \in 0..1 /\ e.half \in 0..1
      /\ d.year \in Int /\ d.mon \in 0..11 /\ e.mon \in 0..11
      /\ d.yday \in Int /\ e.yday \in Int /\ DayOf(d) \in Int /\ DayOf(e) \in Int
      /\ t = 2 * DayOf(d) + d.half /\ x = 2 * DayOf(e) + e.half
      /\ Dates!JulianDays(d.year)[d.mon + 1] <= d.yday
      /\ d.yday < Dates!JulianDays(d.year)[d.mon + 2]
      /\ Dates!JulianDays(e.year)[e.mon + 1] <= e.yday
      /\ e.yday < Dates!JulianDays(e.year)[e.mon + 2]
  BY <1>1, DayOfYear DEF Shows
<1>3. Dates!DaysOfYears(70, d.year) \in Int
  BY <1>2, Epoch
<1>4. DayOf(d) - DayOf(e) = d.yday - e.yday
  BY <1>2, <1>3 DEF DayOf
<1>5. d.yday - e.yday <= 1 /\ e.yday - d.yday <= 1
  BY <1>1, <1>2, <1>4
<1>6. Dates!JulianDays(d.year)[2] = 31 /\ Dates!JulianDays(d.year)[12] \in {334, 335}
  BY DEF Dates!JulianDays
<1>7. ~(e.mon = 11 /\ d.mon = 0)
  BY <1>2, <1>5, <1>6
<1>8. ~(e.mon = 0 /\ d.mon = 11)
  BY <1>2, <1>5, <1>6
<1> QED BY <1>2, <1>7, <1>8

\* A date with another year and day of the year
Changed(wall, year, yday) == [wall EXCEPT !.year = year, !.yday = yday]

LEMMA Replaced ==
  ASSUME NEW wall \in DateFields, NEW year \in Int, NEW yday \in Int,
         NEW r, r = Changed(wall, year, yday)
  PROVE  /\ r \in DateFields
         /\ r.year = year /\ r.yday = yday /\ r.mon = wall.mon /\ r.mday = wall.mday
         /\ r.wday = wall.wday /\ r.half = wall.half
<1>1. r \in DateFields
  BY DEF DateFields, Changed
<1>2. /\ r.year = year /\ r.yday = yday /\ r.mon = wall.mon /\ r.mday = wall.mday
      /\ r.wday = wall.wday /\ r.half = wall.half
  BY DEF DateFields, Changed
<1> QED BY <1>1, <1>2

LEMMA SameFields ==
  ASSUME NEW d \in DateFields, NEW e \in DateFields,
         d.year = e.year, d.mon = e.mon, d.mday = e.mday, d.yday = e.yday,
         d.wday = e.wday, d.half = e.half
  PROVE  d = e
BY DEF DateFields

\* The system's date for a safe one, taken back to the year it stands for.
LEMMA Restoring ==
  ASSUME NEW wall \in DateFields, NEW u, NEW l \in DateFields,
         l.year = (IF wall.mon - u.mon = 11 THEN u.year - 1
                   ELSE IF wall.mon - u.mon = -11 THEN u.year + 1 ELSE u.year),
         l.yday = (IF ~Dates!IsLeap(l.year) /\ wall.yday = 365 THEN 364 ELSE wall.yday),
         l.mon = wall.mon, l.mday = wall.mday, l.wday = wall.wday, l.half = wall.half
  PROVE  Dates!Restored(wall, u) = l
<1> DEFINE year == IF wall.mon - u.mon = 11 THEN u.year - 1
                   ELSE IF wall.mon - u.mon = -11 THEN u.year + 1 ELSE u.year
           yday == IF ~Dates!IsLeap(year) /\ wall.yday = 365 THEN 364 ELSE wall.yday
<1>1. Dates!Restored(wall, u) = [wall EXCEPT !.year = year, !.yday = yday]
  BY DEF Dates!Restored
<1>2. year = l.year
  OBVIOUS
<1> HIDE DEF year
<1>3. yday = l.yday
  BY <1>2
<1> HIDE DEF yday
<1>4. PICK r : r = Changed(wall, l.year, l.yday)
  OBVIOUS
<1>5. l.year \in Int /\ l.yday \in Int
  BY DEF DateFields
<1>6. /\ r \in DateFields
      /\ r.year = l.year /\ r.yday = l.yday /\ r.mon = wall.mon /\ r.mday = wall.mday
      /\ r.wday = wall.wday /\ r.half = wall.half
  BY <1>4, <1>5, Replaced
<1>7. r = l
  BY <1>6, SameFields
<1> QED BY <1>1, <1>2, <1>3, <1>4, <1>7 DEF Changed

\* The local date is the one on the wall here, whichever place the year has turned in.
LEMMA LocaltimeShown ==
  ASSUME NEW u, NEW l, NEW t \in Int, zone \in {-1, 0, 1}, Shows(u, t), Shows(l, t + zone)
  PROVE  Dates!Localtime(t) = l
<1>1. PICK clock \in Int : clock = t + zone
  OBVIOUS
<1>2. CASE t <= 49710 /\ t >= -49710
  <2>1. Dates!Localtime(t) = Dates!Gmtime(clock)
    BY <1>1, <1>2 DEF Dates!Localtime, Dates!SystemLocaltime, Dates!SystemMax
  <2> QED BY <1>1, <2>1, GmtimeShown
<1>3. CASE t < -49710 \/ t > 49710
  <2>1. /\ u.year \in Int /\ u.mon \in 0..11 /\ u.mday \in Int /\ u.yday \in Int
        /\ u.wday \in Int /\ u.half \in 0..1 /\ u \in DateFields /\ DayOf(u) \in Int
        /\ t = 2 * DayOf(u) + u.half /\ u.yday < Dates!LengthOfYear(u.year)
    BY DayOfYear DEF Shows, Dated
  <2>2. /\ l.year \in Int /\ l.mon \in 0..11 /\ l.mday \in Int /\ l.yday \in Int
        /\ l.wday \in Int /\ l.half \in 0..1 /\ l \in DateFields /\ DayOf(l) \in Int
        /\ clock = 2 * DayOf(l) + l.half /\ l.yday < Dates!LengthOfYear(l.year)
        /\ Shows(l, clock)
    BY <1>1, DayOfYear DEF Shows, Dated
  <2>3. u.year > 137 \/ u.year < 70
    BY <1>3, FarYear
  <2>4. PICK year \in Int : year = u.year + 1900
    BY <2>1
  <2>5. PICK safe \in Int : safe = Dates!SafeYear(year)
    BY <2>1, <2>3, <2>4, SafeYearMatches DEF SafeOne
  <2>6. SafeOne(safe) /\ Matches(safe, year)
    BY <2>1, <2>3, <2>4, <2>5, SafeYearMatches
  <2> DEFINE v == [u EXCEPT !.year = safe - 1900]
  <2>7. v = [u EXCEPT !.year = safe - 1900] /\ v = Dates!SafeDate(u)
    BY <2>3, <2>4, <2>5 DEF Dates!SafeDate
  <2> HIDE DEF v
  <2>8. /\ Shows(v, 2 * DayOf(v) + v.half)
        /\ v.year = safe - 1900 /\ v.mon = u.mon /\ v.mday = u.mday /\ v.yday = u.yday
        /\ v.wday = u.wday /\ v.half = u.half
        /\ Dates!DaysInMonth(v.year) = Dates!DaysInMonth(u.year)
        /\ Dates!LengthOfYear(v.year) = Dates!LengthOfYear(u.year)
        /\ DayOf(u) = DayOf(v) + Dates!DaysOfYears(safe - 1900, u.year)
        /\ Dates!DaysOfYears(safe - 1900, u.year) \in Int
        /\ Dates!Timegm(v) = 2 * DayOf(v) + v.half
    BY <2>4, <2>6, <2>7, SafeDateShown
  <2>9. PICK tv \in Int : tv = Dates!Timegm(v)
    BY <2>1, <2>8, DayOfYear DEF Shows
  <2>10. Shows(v, tv) /\ DayOf(v) \in Int
    BY <2>8, <2>9, DayOfYear DEF Shows
  <2>11. PICK wall : wall = Dates!Gmtime(tv + zone)
    OBVIOUS
  <2>12. Dates!Localtime(t) = Dates!Restored(wall, u)
    <3>1. Dates!Gmtime(t) = u
      BY GmtimeShown
    <3> QED BY <1>3, <2>7, <2>9, <2>11, <3>1, LocaltimeUnfolds
  <2>13. CASE l.year = u.year
    <3> DEFINE w == [l EXCEPT !.year = safe - 1900]
    <3>1. w = [l EXCEPT !.year = safe - 1900]
      OBVIOUS
    <3> HIDE DEF w
    <3>2. /\ Shows(w, 2 * DayOf(w) + w.half)
          /\ w.year = safe - 1900 /\ w.mon = l.mon /\ w.mday = l.mday /\ w.yday = l.yday
          /\ w.wday = l.wday /\ w.half = l.half
          /\ DayOf(l) = DayOf(w) + Dates!DaysOfYears(safe - 1900, u.year)
      BY <2>2, <2>4, <2>6, <2>13, <3>1, SafeDateShown
    <3>3. DayOf(w) \in Int
      BY <3>2, DayOfYear DEF Shows
    <3>4. PICK tw \in Int : tw = 2 * DayOf(w) + w.half
      BY <2>2, <3>2, <3>3
    <3>5. tv + zone = tw
      BY <1>1, <2>1, <2>2, <2>8, <2>9, <2>10, <3>2, <3>3, <3>4
    <3>6. wall = w
      BY <2>11, <3>2, <3>4, <3>5, GmtimeShown
    <3>7. wall.mon - u.mon # 11 /\ wall.mon - u.mon # -11
      <4>1. PICK z \in Int : z = zone /\ -1 <= z /\ z <= 1
        OBVIOUS
      <4>2. l.mon - u.mon # 11 /\ l.mon - u.mon # -11
        BY <2>13, <4>1, CloseMonths
      <4> QED BY <3>2, <3>6, <4>2
    <3>8. ~(~Dates!IsLeap(u.year) /\ wall.yday = 365)
      BY <2>2, <2>13, <3>2, <3>6 DEF Dates!LengthOfYear
    <3>9. wall \in DateFields
      BY <3>2, <3>6 DEF Shows, Dated
    <3>10. /\ l.mon = wall.mon /\ l.mday = wall.mday /\ l.wday = wall.wday /\ l.half = wall.half
           /\ l.yday = wall.yday
      BY <3>2, <3>6
    <3>11. Dates!Restored(wall, u) = l
      BY <2>2, <2>13, <3>7, <3>8, <3>9, <3>10, Restoring
    <3> QED BY <2>12, <3>11
  <2>14. CASE zone = 1 /\ l.year # u.year
    <3>1. l = Dates!Later(u)
      <4>1. Shows(Dates!Later(u), clock)
        BY <1>1, <2>14, LaterShown
      <4> QED BY <2>2, <4>1, OneDate
    <3>2. /\ u.mon = 11 /\ u.mday = 31 /\ u.half = 1
          /\ u.mday = Dates!DaysInMonth(u.year)[u.mon + 1]
          /\ l = [year |-> u.year + 1, mon |-> 0, mday |-> 1, yday |-> 0,
                  wday |-> (u.wday + 1) % 7, half |-> 0]
      BY <2>14, <3>1, TurnOfYear
    <3>3. wall = [year |-> safe - 1899, mon |-> 0, mday |-> 1, yday |-> 0,
                  wday |-> (u.wday + 1) % 7, half |-> 0]
      <4>1. PICK after \in Int : after = tv + 1
        OBVIOUS
      <4>2. Shows(Dates!Later(v), after)
        BY <2>10, <4>1, LaterShown
      <4>3. wall = Dates!Later(v)
        BY <2>11, <2>14, <4>1, <4>2, GmtimeShown
      <4>4. Dates!Later(v) = Dates!Tomorrow(v)
        BY <2>8, <3>2 DEF Dates!Later
      <4>5. v.mday = Dates!DaysInMonth(v.year)[v.mon + 1] /\ v.mon = 11
        BY <2>8, <3>2
      <4>6. Dates!Tomorrow(v) = [year |-> v.year + 1, mon |-> 0, mday |-> 1, yday |-> 0,
                                 wday |-> (v.wday + 1) % 7, half |-> 0]
        BY <4>5, Zenon DEF Dates!Tomorrow
      <4>7. v.year + 1 = safe - 1899
        BY <2>8
      <4> QED BY <2>8, <4>3, <4>4, <4>6, <4>7
    <3>4. /\ wall.mon - u.mon = -11 /\ wall.yday = 0 /\ wall.mon = l.mon /\ wall.mday = l.mday
          /\ wall.wday = l.wday /\ wall.half = l.half /\ l.year = u.year + 1 /\ l.yday = 0
      BY <3>2, <3>3
    <3>5. wall \in DateFields
      BY <2>1, <3>3 DEF DateFields
    <3>6. Dates!Restored(wall, u) = l
      BY <2>2, <3>4, <3>5, Restoring
    <3> QED BY <2>12, <3>6
  <2>15. CASE zone = -1 /\ l.year # u.year
    <3>1. u = Dates!Later(l)
      <4>1. Shows(Dates!Later(l), clock + 1)
        BY <2>2, LaterShown
      <4>2. clock + 1 = t
        BY <1>1, <2>15
      <4> QED BY <4>1, <4>2, OneDate
    <3>2. /\ l.mon = 11 /\ l.mday = 31 /\ l.half = 1
          /\ l.yday = Dates!LengthOfYear(l.year) - 1
          /\ u = [year |-> l.year + 1, mon |-> 0, mday |-> 1, yday |-> 0,
                  wday |-> (l.wday + 1) % 7, half |-> 0]
      BY <2>2, <2>15, <3>1, TurnOfYear
    <3>3. u.year = l.year + 1 /\ u.mon = 0 /\ u.yday = 0 /\ u.half = 0
      BY <3>2
    <3>4. PICK len \in {365, 366} : len = Dates!LengthOfYear(safe - 1901)
      BY LengthTyped
    <3> DEFINE w == [year |-> safe - 1901, mon |-> 11, mday |-> 31, yday |-> len - 1,
                     wday |-> l.wday, half |-> 1]
    <3>5. /\ w.year = safe - 1901 /\ w.mon = 11 /\ w.mday = 31 /\ w.yday = len - 1
          /\ w.wday = l.wday /\ w.half = 1 /\ w \in DateFields
      BY <2>2, <3>4 DEF DateFields
    <3> HIDE DEF w
    <3>6. Dated(w)
      <4>1. Dates!JulianDays(safe - 1901)[13] = len
        BY <3>4, Months
      <4>2. Dates!JulianDays(safe - 1901)[12] + 31 = Dates!JulianDays(safe - 1901)[13]
            /\ Dates!JulianDays(safe - 1901)[12] \in Int
        <5>1. CASE Dates!IsLeap(safe - 1901)
          BY <5>1 DEF Dates!JulianDays
        <5>2. CASE ~Dates!IsLeap(safe - 1901)
          BY <5>2 DEF Dates!JulianDays
        <5> QED BY <5>1, <5>2
      <4>3. Dates!DaysInMonth(safe - 1901)[12] = 31
        BY DEF Dates!DaysInMonth
      <4> QED BY <3>4, <3>5, <4>1, <4>2, <4>3 DEF Dated
    <3>7. DayOf(w) = DayOf(v) - 1
      <4>1. PICK y \in Int : y = safe - 1901
        OBVIOUS
      <4>2. Dates!DaysOfYears(70, y + 1) = Dates!DaysOfYears(70, y) + Dates!LengthOfYear(y)
        <5>1. 70 \in Int
          OBVIOUS
        <5> QED BY <5>1, NextYear
      <4>3. Dates!DaysOfYears(70, y) \in Int
        BY Epoch
      <4>4. y + 1 = v.year /\ w.year = y
        BY <2>8, <3>5, <4>1
      <4> QED BY <2>8, <3>3, <3>4, <3>5, <4>1, <4>2, <4>3, <4>4 DEF DayOf
    <3>8. DayOf(l) = DayOf(u) - 1
      BY <1>1, <2>1, <2>2, <2>15, <3>2, <3>3
    <3>9. w.wday = (DayOf(w) + 4) % 7
      <4>1. \E k \in Int : Dates!DaysOfYears(safe - 1900, year - 1900) = 7 * k
        BY <2>6 DEF Matches
      <4>2. year - 1900 = u.year
        BY <2>1, <2>4
      <4>3. PICK k \in Int : Dates!DaysOfYears(safe - 1900, u.year) = 7 * k
        BY <4>1, <4>2
      <4>4. PICK x \in Int : x = DayOf(v)
        BY <2>10
      <4>5. DayOf(w) = x - 1 /\ DayOf(l) = x + 7 * k - 1
        BY <2>8, <3>7, <3>8, <4>3, <4>4
      <4>6. l.wday = (DayOf(l) + 4) % 7
        BY DEF Shows
      <4>7. (x + 7 * k - 1 + 4) % 7 = (x - 1 + 4) % 7
        OBVIOUS
      <4> QED BY <3>5, <4>5, <4>6, <4>7
    <3>10. PICK before \in Int : before = tv - 1 /\ before = tv + zone
      BY <2>15
    <3>11. Shows(w, before)
      <4>1. before = 2 * DayOf(w) + w.half
        BY <2>8, <2>9, <2>10, <3>3, <3>5, <3>7, <3>10
      <4> QED BY <3>6, <3>9, <4>1 DEF Shows
    <3>12. wall = w
      BY <2>11, <3>10, <3>11, GmtimeShown
    <3>13. wall.mon - u.mon = 11 /\ u.year - 1 = l.year
      BY <2>2, <3>3, <3>5, <3>12
    <3>14. (IF ~Dates!IsLeap(l.year) /\ wall.yday = 365 THEN 364 ELSE wall.yday) = l.yday
      <4>1. Dates!IsLeap(year - 1901) => Dates!IsLeap(safe - 1901)
        BY <2>6 DEF Matches
      <4>2. year - 1901 = l.year
        BY <2>2, <2>4, <3>3
      <4>3. Dates!IsLeap(l.year) => Dates!IsLeap(safe - 1901)
        BY <4>1, <4>2
      <4> QED BY <3>2, <3>4, <3>5, <3>12, <4>3 DEF Dates!LengthOfYear
    <3>15. /\ l.mon = wall.mon /\ l.mday = wall.mday /\ l.wday = wall.wday /\ l.half = wall.half
           /\ wall \in DateFields
      BY <3>2, <3>5, <3>12
    <3>16. Dates!Restored(wall, u) = l
      BY <2>2, <3>13, <3>14, <3>15, Restoring
    <3> QED BY <2>12, <3>16
  <2>16. CASE zone = 0 /\ l.year # u.year
    <3>1. Shows(l, t)
      BY <1>1, <2>2, <2>16
    <3> QED BY <2>16, <3>1, OneDate
  <2> QED BY <2>13, <2>14, <2>15, <2>16
<1> QED BY <1>2, <1>3
-----------------------------------------------------------------------------
(* The calendar over a behaviour *)

\* What makes the calendar exact: both walls show the date of their time.
CalendarInv ==
  /\ zone \in {-1, 0, 1} /\ time \in Int
  /\ Shows(utc, time) /\ Shows(local, time + zone)

LEMMA CalendarStarts ==
  ASSUME Dates!CalendarAssumption, Dates!Init
  PROVE  CalendarInv
<1>1. PICK a \in Anchors :
        LET midnight == [year |-> a.year, mon |-> a.mon, mday |-> a.mday, yday |-> a.yday,
                         wday |-> a.wday, half |-> 0]
        IN  /\ utc = IF zone < 0 THEN Dates!Later(midnight) ELSE midnight
            /\ local = IF zone > 0 THEN Dates!Later(midnight) ELSE midnight
            /\ time = 2 * a.day + (IF zone < 0 THEN 1 ELSE 0)
  BY DEF Dates!Init
<1> DEFINE midnight == [year |-> a.year, mon |-> a.mon, mday |-> a.mday, yday |-> a.yday,
                        wday |-> a.wday, half |-> 0]
<1>2. /\ utc = IF zone < 0 THEN Dates!Later(midnight) ELSE midnight
      /\ local = IF zone > 0 THEN Dates!Later(midnight) ELSE midnight
      /\ time = 2 * a.day + (IF zone < 0 THEN 1 ELSE 0)
  BY <1>1
<1>3. /\ a.year \in Int /\ a.mon \in 0..11 /\ a.mday \in Int
      /\ 1 <= a.mday /\ a.mday <= Dates!DaysInMonth(a.year)[a.mon + 1]
      /\ a.yday = Dates!JulianDays(a.year)[a.mon + 1] + a.mday - 1
      /\ a.day = Dates!DaysOfYears(70, a.year) + a.yday
      /\ a.wday = (a.day + 4) % 7
  BY DEF Dates!CalendarAssumption
<1>4. zone \in {-1, 0, 1}
  BY DEF Dates!Init, Dates!CalendarAssumption
<1>5. a.yday \in Int
  <2>1. Dates!JulianDays(a.year)[a.mon + 1] \in Nat
    BY <1>3, Months
  <2> QED BY <1>3, <2>1
<1>6. a.day \in Int
  <2>1. Dates!DaysOfYears(70, a.year) \in Int
    BY <1>3, Epoch
  <2> QED BY <1>3, <1>5, <2>1
<1>7. a.wday \in Int
  BY <1>3, <1>6
<1>8. /\ midnight.year = a.year /\ midnight.mon = a.mon /\ midnight.mday = a.mday
      /\ midnight.yday = a.yday /\ midnight.wday = a.wday /\ midnight.half = 0
      /\ midnight \in DateFields
  BY <1>3, <1>5, <1>7 DEF DateFields
<1> HIDE DEF midnight
<1>9. PICK start \in Int : start = 2 * a.day
  BY <1>6
<1>10. Shows(midnight, start)
  <2>1. Dated(midnight)
    BY <1>3, <1>8 DEF Dated
  <2>2. DayOf(midnight) = a.day
    BY <1>3, <1>8 DEF DayOf
  <2>3. start = 2 * DayOf(midnight) + midnight.half
    BY <1>6, <1>8, <1>9, <2>2
  <2> QED BY <1>3, <1>8, <2>1, <2>2, <2>3 DEF Shows
<1>11. Shows(Dates!Later(midnight), start + 1)
  BY <1>10, LaterShown
<1>12. CASE zone = 0
  <2>1. time = start /\ utc = midnight /\ local = midnight /\ time + zone = start
    BY <1>2, <1>9, <1>12
  <2> QED BY <1>4, <1>10, <2>1 DEF CalendarInv
<1>13. CASE zone = 1
  <2>1. time = start /\ utc = midnight /\ local = Dates!Later(midnight) /\ time + zone = start + 1
    BY <1>2, <1>9, <1>13
  <2> QED BY <1>4, <1>10, <1>11, <2>1 DEF CalendarInv
<1>14. CASE zone = -1
  <2>1. time = start + 1 /\ utc = Dates!Later(midnight) /\ local = midnight /\ time + zone = start
    BY <1>2, <1>9, <1>14
  <2> QED BY <1>4, <1>10, <1>11, <2>1 DEF CalendarInv
<1> QED BY <1>4, <1>12, <1>13, <1>14

LEMMA CalendarWalks ==
  ASSUME CalendarInv, [Dates!Next]_dateVars
  PROVE  CalendarInv'
<1>1. CASE UNCHANGED dateVars
  <2>1. UNCHANGED <<time, utc, local, zone>>
    BY <1>1 DEF dateVars
  <2> QED BY <2>1 DEF CalendarInv, Shows, Dated, DayOf, DateFields
<1>2. CASE Dates!Next
  <2>1. /\ time' = time + 1 /\ utc' = Dates!Later(utc) /\ local' = Dates!Later(local)
        /\ zone' = zone
    BY <1>2 DEF Dates!Next, Dates!HalfDayPasses
  <2>2. zone \in {-1, 0, 1} /\ time \in Int /\ Shows(utc, time) /\ Shows(local, time + zone)
    BY DEF CalendarInv
  <2>3. Shows(Dates!Later(utc), time + 1)
    BY <2>2, LaterShown
  <2>4. PICK clock \in Int : clock = time + zone
    BY <2>2
  <2>5. Shows(Dates!Later(local), clock + 1)
    BY <2>2, <2>4, LaterShown
  <2>6. clock + 1 = (time + 1) + zone
    BY <2>2, <2>4
  <2>7. Shows(utc', time')
    BY <2>1, <2>3
  <2>8. Shows(local', time' + zone')
    BY <2>1, <2>5, <2>6
  <2> QED BY <2>1, <2>2, <2>7, <2>8 DEF CalendarInv
<1> QED BY <1>1, <1>2

LEMMA CalendarShows ==
  ASSUME CalendarInv
  PROVE  CalendarExact
<1>1. zone \in {-1, 0, 1} /\ time \in Int /\ Shows(utc, time) /\ Shows(local, time + zone)
  BY DEF CalendarInv
<1>2. Dates!Gmtime(time) = utc
  BY <1>1, GmtimeShown
<1>3. Dates!Timegm(utc) = time
  BY <1>1, TimegmShown
<1>4. Dates!Localtime(time) = local
  BY <1>1, LocaltimeShown
<1>5. Dates!Mktime(local) = time
  BY <1>1, MktimeShown
<1> QED BY <1>2, <1>3, <1>4, <1>5 DEF CalendarExact, Dates!CalendarExact

\* From any right date on, for ever, and half a day either side of Greenwich, gmtime64,
\* timegm64, localtime64 and mktime64 agree with the calendar on the wall: the years
\* found from either end of the 400-year cycle, the safe years that stand for those
\* the system cannot show, and the turn of a year that only one of the two places has
\* reached (time64.c:196-241, 317-359, 461-512, 521-735).
THEOREM CalendarRight == ServicesSpec => []CalendarExact
<1>1. ServicesInit => CalendarInv
  <2> SUFFICES ASSUME ServicesInit PROVE CalendarInv
    OBVIOUS
  <2>1. Dates!Init
    BY DEF ServicesInit
  <2>2. Dates!CalendarAssumption
    BY ServicesAssumption
  <2> QED BY <2>1, <2>2, CalendarStarts
<1>2. CalendarInv /\ [ServicesNext]_servicesVars => CalendarInv'
  <2> SUFFICES ASSUME CalendarInv, [ServicesNext]_servicesVars PROVE CalendarInv'
    OBVIOUS
  <2>1. [Dates!Next]_dateVars
    BY DEF ServicesNext, Others, servicesVars
  <2> QED BY <2>1, CalendarWalks
<1>3. CalendarInv => CalendarExact
  BY CalendarShows
<1> QED BY <1>1, <1>2, <1>3, PTL DEF ServicesSpec, servicesVars
=============================================================================
