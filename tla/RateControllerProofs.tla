------------------------ MODULE RateControllerProofs ------------------------
(* Proofs about request pacing, for any callers, interval, delays and horizon. *)
EXTENDS RateController, FiniteSetTheorems, TLAPS

-----------------------------------------------------------------------------
(* Arithmetic *)

\* Multiplication by a natural number is monotone.
LEMMA TimesMonotone ==
    ASSUME NEW m \in Int, NEW n \in Int, NEW i \in Nat, m <= n
    PROVE  m * i <= n * i
<1>1. (n - m) * i >= 0
  OBVIOUS
<1>2. (n - m) * i = n * i - m * i
  OBVIOUS
<1>3. m * i \in Int /\ n * i \in Int
  OBVIOUS
<1> QED
  BY <1>1, <1>2, <1>3

\* A slot more takes an interval more.
LEMMA TimesNext ==
    ASSUME NEW n \in Int, NEW i \in Nat
    PROVE  /\ (n + 1) * i = n * i + i
           /\ (n + 1 - 1) * i = n * i
           /\ n * i \in Int
OBVIOUS

-----------------------------------------------------------------------------
(* The numbers of the slots *)

\* wait() reserves a slot after every slot there is, and at or after the pause.
LEMMA WaitReserves ==
    ASSUME TypeOK
    PROVE  /\ Target \in Nat
           /\ Target >= nextRequest
           /\ Target >= pausedUntil
BY DEF TypeOK, Target, Later, NoPause

\* Before the first request nothing is reserved or sent.
LEMMA InitSlots == Init => SlotInv
<1> SUFFICES ASSUME Init PROVE SlotInv
  OBVIOUS
<1>1. TypeOK
  BY RateAssumption DEF Init, TypeOK, NoPause
<1>2. Asleep = {} /\ served = {}
  BY DEF Init, Asleep
<1>3. reserved * Interval <= nextRequest
  BY RateAssumption DEF Init
<1> QED
  BY <1>1, <1>2, <1>3 DEF SlotInv, SlotsSpaced

\* A reservation takes the next number and a slot after all others.
LEMMA WaitPreserves ==
    ASSUME SlotInv, NEW c \in Callers, Wait(c)
    PROVE  SlotInv'
<1>1. /\ Target \in Nat
      /\ Target >= nextRequest
      /\ Target >= pausedUntil
  BY WaitReserves DEF SlotInv
<1>2. TypeOK'
  <2>1. Advance(Target) \in Nat
    BY <1>1, RateAssumption DEF Advance
  <2> QED
    BY <1>1, <2>1 DEF Wait, SlotInv, TypeOK
<1>3. Asleep' = Asleep \union {c} /\ c \notin Asleep
  BY DEF Wait, Asleep, SlotInv, TypeOK
<1>4. /\ wake'[c] = Target
      /\ number'[c] = reserved + 1
      /\ \A d \in Asleep : wake'[d] = wake[d] /\ number'[d] = number[d]
  BY <1>3 DEF Wait, SlotInv, TypeOK, Asleep
<1>5. \A d \in Asleep : wake[d] \in Nat /\ number[d] \in Nat /\ number[d] <= reserved
  BY DEF SlotInv, TypeOK, Asleep
<1>6. SlotsSpaced'
  <2>1. nextRequest' = Target + Interval
    BY DEF Wait, Advance
  <2>2. \A d \in Asleep : wake[d] + Interval <= Target
    BY <1>1, <1>5, RateAssumption DEF SlotInv, SlotsSpaced, TypeOK
  <2>3. ASSUME NEW d \in Asleep', NEW e \in Asleep', number'[d] < number'[e]
        PROVE  wake'[d] + Interval <= wake'[e]
    <3>1. CASE e = c
      BY <1>3, <1>4, <2>2, <2>3, <3>1 DEF SlotInv, TypeOK
    <3>2. CASE e # c /\ d # c
      BY <1>3, <1>4, <2>3, <3>2 DEF SlotInv, SlotsSpaced
    <3>3. CASE e # c /\ d = c
      BY <1>3, <1>4, <1>5, <2>3, <3>3 DEF SlotInv, TypeOK
    <3> QED
      BY <3>1, <3>2, <3>3
  <2>4. \A d \in Asleep' : nextRequest' >= wake'[d] + Interval
    BY <1>1, <1>3, <1>4, <1>5, <2>1, <2>2, RateAssumption
  <2> QED
    BY <2>3, <2>4 DEF SlotsSpaced
<1>7. reserved * Interval <= Target
  <2>1. reserved * Interval \in Int
    BY RateAssumption, TimesNext DEF SlotInv, TypeOK
  <2> QED
    BY <1>1, <2>1 DEF SlotInv, TypeOK
<1>8. (reserved * Interval <= nextRequest)'
  <2>1. (reserved + 1) * Interval = reserved * Interval + Interval /\ reserved * Interval \in Int
    BY RateAssumption, TimesNext DEF SlotInv, TypeOK
  <2> QED
    BY <1>1, <1>7, <2>1, RateAssumption DEF Wait, Advance
<1>9. ASSUME NEW d \in Asleep'
      PROVE  /\ number'[d] \in 1..reserved'
             /\ number'[d] \notin served'
             /\ (number'[d] - 1) * Interval <= wake'[d]
             /\ wake'[d] >= pausedUntil' \/ d \in caught'
             /\ \A e \in Asleep' : number'[d] = number'[e] => d = e
  <2>1. CASE d = c
    <3>1. (number'[d] - 1) * Interval = reserved * Interval
      BY <1>4, <2>1, RateAssumption, TimesNext DEF SlotInv, TypeOK
    <3>2. number'[d] \in 1..reserved' /\ number'[d] \notin served'
      BY <1>4, <2>1 DEF Wait, SlotInv, TypeOK
    <3>3. wake'[d] >= pausedUntil'
      BY <1>1, <1>4, <2>1 DEF Wait
    <3> QED
      BY <1>3, <1>4, <1>5, <1>7, <2>1, <3>1, <3>2, <3>3 DEF SlotInv, TypeOK
  <2>2. CASE d # c
    <3>1. d \in Asleep
      BY <1>3, <2>2
    <3>2. number[d] \in 1..reserved' /\ number[d] \notin served'
      BY <3>1 DEF Wait, SlotInv, TypeOK
    <3>3. (number'[d] - 1) * Interval <= wake'[d]
      BY <1>4, <3>1 DEF SlotInv
    <3>4. wake'[d] >= pausedUntil' \/ d \in caught'
      BY <1>4, <2>2, <3>1 DEF Wait, SlotInv
    <3> QED
      BY <1>3, <1>4, <1>5, <3>1, <3>2, <3>3, <3>4 DEF SlotInv, TypeOK
  <2> QED
    BY <2>1, <2>2
<1>10. (\A n \in served : (n - 1) * Interval <= now)'
  BY DEF Wait, SlotInv
<1> QED
  BY <1>2, <1>6, <1>8, <1>9, <1>10 DEF SlotInv

\* A request that goes out does so at or after its slot.
LEMMA SendPreserves ==
    ASSUME SlotInv, NEW c \in Callers, Send(c)
    PROVE  SlotInv'
<1>1. c \in Asleep /\ Asleep' = Asleep \ {c}
  BY DEF Send, Asleep, SlotInv, TypeOK
<1>2. TypeOK'
  <2>1. number[c] \in 1..reserved
    BY <1>1 DEF SlotInv
  <2>2. TypeOK
    BY DEF SlotInv
  <2>3. pc' \in [Callers -> {"idle", "asleep", "sent"}] /\ served' \subseteq 1..reserved
    BY <2>1, <2>2 DEF Send, TypeOK
  <2> QED
    BY <2>2, <2>3 DEF Send, TypeOK
<1>3. SlotsSpaced'
  BY <1>1 DEF Send, SlotInv, SlotsSpaced
<1>4. \A d \in Asleep \ {c} : number[d] \notin served \union {number[c]}
  BY <1>1 DEF SlotInv
<1>5. (number[c] - 1) * Interval <= now
  <2>1. /\ (number[c] - 1) * Interval <= wake[c]
        /\ wake[c] <= now
        /\ wake[c] \in Nat /\ now \in Nat /\ number[c] - 1 \in Int
    BY <1>1 DEF Send, SlotInv, TypeOK
  <2>2. (number[c] - 1) * Interval \in Int
    BY <2>1, RateAssumption, TimesNext
  <2> QED
    BY <2>1, <2>2
<1>6. (\A n \in served : (n - 1) * Interval <= now)'
  BY <1>5 DEF Send, SlotInv
<1>7. (\A d \in Asleep : /\ number[d] \in 1..reserved
                         /\ number[d] \notin served
                         /\ (number[d] - 1) * Interval <= wake[d]
                         /\ wake[d] >= pausedUntil \/ d \in caught
                         /\ \A e \in Asleep : number[d] = number[e] => d = e)'
  BY <1>1, <1>4 DEF Send, SlotInv
<1>8. (reserved * Interval <= nextRequest)'
  BY DEF Send, SlotInv
<1> QED
  BY <1>2, <1>3, <1>6, <1>7, <1>8 DEF SlotInv

\* An answer frees its caller; a pause catches those asleep.
LEMMA ObservePreserves ==
    ASSUME SlotInv, NEW c \in Callers,
           (\E delay \in RetryAfter : ObserveLimit(c, delay)) \/ ObserveOther(c)
    PROVE  SlotInv'
<1>1. /\ UNCHANGED <<now, nextRequest, wake, reserved, number, served>>
      /\ Asleep' = Asleep
      /\ \/ caught' = Asleep
         \/ caught' = caught /\ pausedUntil' = pausedUntil
  BY DEF ObserveLimit, ObserveOther, SlotInv, TypeOK, Asleep
<1>2. TypeOK'
  <2>1. ASSUME NEW delay \in RetryAfter, ObserveLimit(c, delay)
        PROVE  TypeOK'
    <3>1. now + delay \in Nat /\ Later(longest, now + delay) \in Nat
      BY RateAssumption DEF SlotInv, TypeOK, Later
    <3> QED
      BY <2>1, <3>1 DEF ObserveLimit, SlotInv, TypeOK, Asleep
  <2>2. CASE ObserveOther(c)
    BY <2>2 DEF ObserveOther, SlotInv, TypeOK
  <2> QED
    BY <2>1, <2>2
<1>3. SlotsSpaced'
  BY <1>1 DEF SlotInv, SlotsSpaced
<1>4. \A d \in Asleep : wake[d] >= pausedUntil' \/ d \in caught'
  BY <1>1 DEF SlotInv
<1> QED
  BY <1>1, <1>2, <1>3, <1>4 DEF SlotInv

\* Time passing only makes room.
LEMMA TickPreserves ==
    ASSUME SlotInv, Tick
    PROVE  SlotInv'
<1>1. TypeOK' /\ SlotsSpaced' /\ Asleep' = Asleep
  BY DEF Tick, SlotInv, TypeOK, SlotsSpaced, Asleep
<1>2. ASSUME NEW n \in served
      PROVE  (n - 1) * Interval <= now'
  <2>1. /\ (n - 1) * Interval <= now
        /\ n - 1 \in Int
        /\ now \in Nat
    BY DEF SlotInv, TypeOK
  <2>2. (n - 1) * Interval \in Int
    BY <2>1, RateAssumption, TimesNext
  <2> QED
    BY <2>1, <2>2 DEF Tick
<1> QED
  BY <1>1, <1>2 DEF Tick, SlotInv

\* Every step preserves the invariant.
LEMMA NextSlots == SlotInv /\ [Next]_vars => SlotInv'
<1> SUFFICES ASSUME SlotInv, [Next]_vars
             PROVE  SlotInv'
  OBVIOUS
<1>1. CASE Tick
  BY <1>1, TickPreserves
<1>2. CASE CallerNext
  BY <1>2, WaitPreserves, SendPreserves, ObservePreserves DEF CallerNext
<1>3. CASE UNCHANGED vars
  BY <1>3 DEF vars, SlotInv, TypeOK, SlotsSpaced, Asleep
<1> QED
  BY <1>1, <1>2, <1>3 DEF Next

-----------------------------------------------------------------------------
(* The chain of slots *)

\* What can be waited for does not get earlier.
LEMMA LaterGrows ==
    ASSUME TypeOK, TypeOK', now <= now', longest <= longest'
    PROVE  /\ Later(now, longest) \in Nat /\ Later(now', longest') \in Nat
           /\ Later(now, longest) <= Later(now', longest') /\ now' <= Later(now', longest')
           /\ longest' <= Later(now', longest')
BY DEF TypeOK, Later

\* A slot stays chained when time passes or pauses are set, and when a request is sent,
\* since its slot has come then.
LEMMA StaysChained ==
    ASSUME SlotInv, TypeOK', now <= now', longest <= longest',
           wake' = wake, number' = number,
           \A c \in Asleep \ Asleep' : wake[c] <= now,
           NEW slot \in Nat, NEW previous, Chained(slot, previous)
    PROVE  Chained(slot, previous)'
<1>1. /\ Later(now, longest) \in Nat /\ Later(now', longest') \in Nat
      /\ Later(now, longest) <= Later(now', longest') /\ now' <= Later(now', longest')
      /\ Later(now, longest)' = Later(now', longest')
  BY LaterGrows DEF SlotInv, Later
<1>2. now \in Nat /\ now' \in Nat /\ Interval \in Nat
  BY RateAssumption DEF SlotInv, TypeOK
<1>3. CASE slot <= Later(now, longest) + Interval
  BY <1>1, <1>2, <1>3 DEF Chained
<1>4. CASE \E c \in Asleep : number[c] = previous /\ slot = wake[c] + Interval
  <2>1. PICK c \in Asleep : number[c] = previous /\ slot = wake[c] + Interval
    BY <1>4
  <2>2. CASE c \in Asleep'
    BY <2>1, <2>2 DEF Chained
  <2>3. CASE c \notin Asleep'
    <3>1. wake[c] \in Nat /\ wake[c] <= now
      BY <2>1, <2>3 DEF SlotInv, TypeOK, Asleep
    <3>2. slot <= Later(now', longest') + Interval
      BY <1>1, <1>2, <2>1, <3>1
    <3> QED
      BY <1>1, <3>2 DEF Chained
  <2> QED
    BY <2>2, <2>3
<1> QED
  BY <1>3, <1>4 DEF Chained

LEMMA ChainStays ==
    ASSUME SlotInv, SlotInv', ChainInv, now <= now', longest <= longest', pausedUntil' <= longest',
           UNCHANGED <<wake, number, nextRequest, reserved>>, Asleep' \subseteq Asleep,
           \A c \in Asleep \ Asleep' : wake[c] <= now
    PROVE  ChainInv'
<1>1. TypeOK' /\ nextRequest \in Nat /\ \A c \in Asleep : wake[c] \in Nat
  BY DEF SlotInv, TypeOK, Asleep
<1>2. Chained(nextRequest, reserved)'
  <2>1. Chained(nextRequest, reserved)
    BY DEF ChainInv
  <2>2. \A slot \in Nat, previous \in Nat : Chained(slot, previous) => Chained(slot, previous)'
    BY <1>1, StaysChained
  <2> QED
    BY <1>1, <2>1, <2>2 DEF SlotInv, TypeOK, Chained
<1>3. ASSUME NEW c \in Asleep' PROVE Chained(wake[c], number[c] - 1)'
  <2>1. Chained(wake[c], number[c] - 1) /\ wake[c] \in Nat
    BY <1>1 DEF ChainInv
  <2>2. \A slot \in Nat, previous \in Int : Chained(slot, previous) => Chained(slot, previous)'
    BY <1>1, StaysChained
  <2>3. number[c] - 1 \in Int /\ wake' = wake /\ number' = number
    BY DEF SlotInv, TypeOK, Asleep
  <2> QED
    BY <2>1, <2>2, <2>3 DEF Chained
<1> QED
  BY <1>2, <1>3 DEF ChainInv

\* A reservation continues the chain, or starts one at a time that has come or will.
LEMMA WaitChains ==
    ASSUME SlotInv, SlotInv', ChainInv, NEW c \in Callers, Wait(c)
    PROVE  ChainInv'
<1>1. Asleep' = Asleep \union {c} /\ c \notin Asleep
  BY DEF Wait, Asleep, SlotInv, TypeOK
<1>2. /\ wake'[c] = Target /\ number'[c] = reserved + 1 /\ reserved' = reserved + 1
      /\ nextRequest' = Target + Interval
      /\ \A d \in Asleep : wake'[d] = wake[d] /\ number'[d] = number[d]
      /\ UNCHANGED <<now, longest, pausedUntil>>
  BY <1>1 DEF Wait, Advance, SlotInv, TypeOK, Asleep
<1>3. /\ now \in Nat /\ longest \in Nat /\ nextRequest \in Nat /\ Target \in Nat
      /\ Interval \in Nat /\ reserved \in Nat
      /\ Later(now, longest) \in Nat /\ now <= Later(now, longest)
      /\ longest <= Later(now, longest)
  BY RateAssumption, WaitReserves DEF SlotInv, TypeOK, Later
<1>4. Later(now, longest)' = Later(now, longest)
  BY <1>2 DEF Later
<1>5. ASSUME NEW slot, NEW previous, Chained(slot, previous)
      PROVE  Chained(slot, previous)'
  BY <1>1, <1>2, <1>4, <1>5 DEF Chained
<1>6. \/ Target <= Later(now, longest) + Interval
      \/ \E d \in Asleep' : number'[d] = reserved /\ Target = wake'[d] + Interval
  <2>1. CASE Target = nextRequest
    <3>1. \/ Target <= Later(now, longest) + Interval
          \/ \E d \in Asleep : number[d] = reserved /\ Target = wake[d] + Interval
      BY <2>1 DEF ChainInv, Chained
    <3> QED
      BY <1>1, <1>2, <3>1
  <2>2. CASE Target # nextRequest
    <3>1. Target <= Later(now, longest)
      BY <1>3, <2>2 DEF Target, Later, ChainInv, SlotInv, TypeOK, NoPause
    <3> QED
      BY <1>3, <3>1
  <2> QED
    BY <2>1, <2>2
<1>7. (Chained(nextRequest, reserved))'
  BY <1>1, <1>2 DEF Chained
<1>8. ASSUME NEW d \in Asleep' PROVE (Chained(wake[d], number[d] - 1))'
  <2>1. CASE d = c
    <3>1. number'[d] = reserved + 1 /\ wake'[d] = Target
      BY <1>2, <2>1
    <3>2. number'[d] - 1 = reserved
      BY <1>3, <3>1
    <3> QED
      BY <1>4, <1>6, <3>1, <3>2 DEF Chained
  <2>2. CASE d # c
    <3>1. Chained(wake[d], number[d] - 1) /\ wake'[d] = wake[d] /\ number'[d] = number[d]
      BY <1>1, <1>2, <2>2 DEF ChainInv
    <3>2. Chained(wake[d], number[d] - 1)'
      BY <1>5, <3>1
    <3> QED
      BY <3>1, <3>2 DEF Chained
  <2> QED
    BY <2>1, <2>2
<1> QED
  BY <1>2, <1>7, <1>8 DEF ChainInv

LEMMA NextChain ==
    ASSUME RateInv, SlotInv', [Next]_vars
    PROVE  ChainInv'
<1>1. SlotInv /\ ChainInv /\ now \in Nat /\ longest \in Nat /\ pausedUntil <= longest
  BY DEF RateInv, SlotInv, ChainInv, TypeOK
<1>2. CASE \E c \in Callers : Wait(c)
  BY <1>1, <1>2, WaitChains
<1>3. CASE \E c \in Callers : Send(c)
  <2>1. PICK c \in Callers : Send(c)
    BY <1>3
  <2>2. Asleep' = Asleep \ {c} /\ wake[c] <= now
    BY <2>1 DEF Send, Asleep, SlotInv, TypeOK, RateInv
  <2> QED
    BY <1>1, <2>1, <2>2, ChainStays DEF Send
<1>4. CASE \E c \in Callers, delay \in RetryAfter : ObserveLimit(c, delay)
  <2>1. PICK c \in Callers, delay \in RetryAfter : ObserveLimit(c, delay)
    BY <1>4
  <2>2. Asleep' = Asleep
    BY <2>1 DEF ObserveLimit, Asleep, SlotInv, TypeOK, RateInv
  <2>3. longest <= longest' /\ pausedUntil' <= longest'
    BY <1>1, <2>1, RateAssumption DEF ObserveLimit, Later
  <2> QED
    BY <1>1, <2>1, <2>2, <2>3, ChainStays DEF ObserveLimit
<1>5. CASE \E c \in Callers : ObserveOther(c)
  <2>1. PICK c \in Callers : ObserveOther(c)
    BY <1>5
  <2>2. Asleep' = Asleep
    BY <2>1 DEF ObserveOther, Asleep, SlotInv, TypeOK, RateInv
  <2> QED
    BY <1>1, <2>1, <2>2, ChainStays DEF ObserveOther
<1>6. CASE Tick
  BY <1>1, <1>6, ChainStays DEF Tick, Asleep
<1>7. CASE UNCHANGED vars
  BY <1>1, <1>7, ChainStays DEF vars, Asleep
<1> QED
  BY <1>2, <1>3, <1>4, <1>5, <1>6, <1>7 DEF Next, CallerNext

LEMMA InitChain == Init => ChainInv
<1> SUFFICES ASSUME Init PROVE ChainInv
  OBVIOUS
<1>1. Asleep = {} /\ Later(now, longest) = 0 /\ Interval \in Nat
  BY RateAssumption DEF Init, Asleep, Later
<1> QED
  BY <1>1 DEF Init, ChainInv, Chained, NoPause

\* Down the chain each caller adds an interval: a caller with a slot beyond the bound, the
\* that no other such caller is before, would have the previous one before it, within it.
LEMMA WaitBound == RateInv => BoundedWait
<1> SUFFICES ASSUME RateInv PROVE BoundedWait
  OBVIOUS
<1> DEFINE L == Later(now, longest)
           Upto(c) == {e \in Asleep : number[e] <= number[c]}
           Within(c) == wake[c] <= L + Interval * Cardinality(Upto(c))
           Beyond == {c \in Asleep : ~Within(c)}
<1>1. L \in Nat /\ Interval \in Nat
  BY RateAssumption DEF RateInv, SlotInv, TypeOK, Later
<1>2. IsFiniteSet(Asleep)
  <2>1. Asleep \in SUBSET Callers
    BY DEF Asleep
  <2> QED
    BY <2>1, RateAssumption, FS_Subset
<1>3. \A c \in Asleep : wake[c] \in Nat /\ number[c] \in Nat
  BY DEF RateInv, SlotInv, TypeOK, Asleep
<1> HIDE DEF L
<1>4. ASSUME NEW c \in Asleep
      PROVE  /\ IsFiniteSet(Upto(c)) /\ Cardinality(Upto(c)) \in Nat
             /\ Cardinality(Upto(c)) >= 1 /\ Cardinality(Upto(c)) <= Cardinality(Asleep)
  <2>1. Upto(c) \in SUBSET Asleep /\ c \in Upto(c)
    BY <1>3
  <2> DEFINE U == Upto(c)
  <2>2. U \in SUBSET Asleep /\ U # {}
    BY <2>1
  <2> HIDE DEF U
  <2>3. IsFiniteSet(U) /\ Cardinality(U) <= Cardinality(Asleep) /\ Cardinality(U) \in Nat
    BY <1>2, <2>2, FS_Subset, FS_CardinalityType
  <2>4. Cardinality(U) # 0
    BY <2>2, <2>3, FS_EmptySet
  <2> QED
    BY <2>3, <2>4 DEF U
<1>5. ASSUME NEW c \in Asleep, NEW e \in Asleep, number[e] = number[c] - 1, Within(e),
             wake[c] = wake[e] + Interval
      PROVE  Within(c)
  <2>1. Upto(c) = Upto(e) \union {c} /\ c \notin Upto(e)
    <3>1. \A x \in Asleep : number[x] = number[c] => x = c
      BY DEF RateInv, SlotInv
    <3>2. \A x \in Asleep : number[x] <= number[c] <=> number[x] <= number[e] \/ x = c
      BY <1>3, <1>5, <3>1
    <3>3. ~(number[c] <= number[e])
      BY <1>3, <1>5
    <3> QED
      BY <3>2, <3>3
  <2> DEFINE U == Upto(e)
             V == Upto(c)
  <2>2. IsFiniteSet(U) /\ Cardinality(U) \in Nat /\ V = U \union {c} /\ c \notin U
    BY <1>4, <2>1
  <2>3. wake[e] <= L + Interval * Cardinality(U)
    BY <1>5
  <2> HIDE DEF U, V
  <2>4. Cardinality(V) = Cardinality(U) + 1
    BY <2>2, FS_AddElement
  <2>5. Interval * (Cardinality(U) + 1) = Interval * Cardinality(U) + Interval
        /\ Interval * Cardinality(U) \in Nat
    BY <1>1, <2>2
  <2>6. wake[c] <= L + Interval * Cardinality(V)
    BY <1>1, <1>3, <1>5, <2>3, <2>4, <2>5
  <2> QED
    BY <2>6 DEF V
<1>6. ASSUME NEW c \in Asleep, wake[c] <= L + Interval
      PROVE  Within(c)
  <2> DEFINE k == Cardinality(Upto(c))
  <2>1. k \in Nat /\ k >= 1
    BY <1>4
  <2> HIDE DEF k
  <2>2. Interval * k \in Nat /\ Interval <= Interval * k
    <3>1. (k - 1) * Interval >= 0 /\ (k - 1) * Interval = k * Interval - Interval
      BY <1>1, <2>1
    <3>2. k * Interval = Interval * k /\ Interval * k \in Nat
      BY <1>1, <2>1
    <3> QED
      BY <1>1, <3>1, <3>2
  <2>3. wake[c] <= L + Interval * k
    BY <1>1, <1>3, <1>6, <2>2
  <2> QED
    BY <2>3 DEF k
<1> HIDE DEF Upto, Within
<1>7. Beyond = {}
  <2> SUFFICES ASSUME Beyond # {} PROVE FALSE
    OBVIOUS
  <2> DEFINE R == StrictSubsetOrdering(Asleep)
             uptos == {Upto(c) : c \in Beyond}
  <2>1. IsWellFoundedOn(R, SUBSET Asleep)
    BY <1>2, FS_StrictSubsetOrderingWellFounded, FS_FiniteSubsetsOfFinite
  <2>2. uptos \subseteq SUBSET Asleep /\ uptos # {}
    BY DEF Upto
  <2>3. PICK X \in uptos : \A Y \in uptos : ~(<<Y, X>> \in R)
    <3> HIDE DEF R, uptos
    <3> QED
      BY <2>1, <2>2, WFMin
  <2>4. PICK c \in Beyond : Upto(c) = X
    BY <2>3
  <2>5. Chained(wake[c], number[c] - 1) /\ ~(wake[c] <= L + Interval)
    BY <1>6, <2>4 DEF RateInv, ChainInv
  <2>6. PICK e \in Asleep : number[e] = number[c] - 1 /\ wake[c] = wake[e] + Interval
    BY <2>5 DEF Chained, L
  <2>7. Upto(e) \subseteq Upto(c) /\ c \in Upto(c) /\ c \notin Upto(e)
    BY <1>3, <2>4, <2>6 DEF Upto
  <2>8. Upto(e) \in SUBSET Asleep /\ Upto(c) \in SUBSET Asleep
    BY DEF Upto
  <2>9. <<Upto(e), Upto(c)>> \in R
    BY <2>7, <2>8 DEF StrictSubsetOrdering
  <2>10. e \notin Beyond
    BY <2>3, <2>4, <2>9
  <2> QED
    BY <1>5, <2>4, <2>6, <2>10
<1>8. ASSUME NEW c \in Asleep PROVE wake[c] <= L + Interval * Cardinality(Asleep)
  <2> DEFINE k == Cardinality(Upto(c))
             a == Cardinality(Asleep)
  <2>1. k \in Nat /\ k <= a /\ a \in Nat
    BY <1>2, <1>4, FS_CardinalityType
  <2>2. wake[c] <= L + Interval * k
    BY <1>7, <1>8 DEF Within
  <2> HIDE DEF k, a
  <2>3. Interval * k <= Interval * a /\ Interval * k \in Nat /\ Interval * a \in Nat
    <3>1. k * Interval <= a * Interval
      BY <1>1, <2>1, TimesMonotone
    <3>2. k * Interval = Interval * k /\ a * Interval = Interval * a
          /\ Interval * k \in Nat /\ Interval * a \in Nat
      BY <1>1, <2>1
    <3> QED
      BY <3>1, <3>2
  <2>4. wake[c] <= L + Interval * a
    BY <1>1, <1>3, <2>2, <2>3
  <2> QED
    BY <2>4 DEF a
<1> QED
  BY <1>8 DEF BoundedWait, L

-----------------------------------------------------------------------------
(* Before the first pause *)

LEMMA InitPaced == Init => PacedInv
BY RateAssumption DEF Init, PacedInv, Asleep

\* The request whose slot has come is an interval before all slots that are left.
LEMMA SendKeepsPace ==
    ASSUME RateInv, NEW c \in Callers, Send(c)
    PROVE  PacedInv'
<1> SUFFICES ASSUME prompt, pausedUntil = NoPause
             PROVE  /\ now + Interval <= nextRequest
                    /\ \A d \in Asleep' : now <= wake[d] /\ now + Interval <= wake[d]
  BY DEF Send, PacedInv
<1>1. TypeOK /\ SlotsSpaced /\ Interval \in Nat
  BY RateAssumption DEF RateInv, SlotInv
<1>2. c \in Asleep /\ Asleep' = Asleep \ {c} /\ now >= wake[c]
  BY <1>1 DEF Send, Asleep, TypeOK
<1>3. now = wake[c] /\ now \in Nat
  BY <1>1, <1>2 DEF RateInv, PacedInv, TypeOK
<1>4. now + Interval <= nextRequest
  BY <1>1, <1>2, <1>3 DEF SlotsSpaced
<1>5. ASSUME NEW d \in Asleep, d # c
      PROVE  now <= wake[d] /\ now + Interval <= wake[d]
  <2>1. now <= wake[d] /\ number[d] # number[c]
    BY <1>2, <1>5 DEF RateInv, PacedInv, SlotInv
  <2>2. wake[d] \in Nat /\ number[d] \in Nat /\ number[c] \in Nat
    BY <1>1, <1>2 DEF TypeOK, Asleep
  <2>3. CASE number[c] < number[d]
    BY <1>1, <1>2, <1>3, <2>1, <2>3 DEF SlotsSpaced
  <2>4. CASE number[d] < number[c]
    <3>1. wake[d] + Interval <= wake[c]
      BY <1>1, <1>2, <2>4 DEF SlotsSpaced
    <3> QED
      BY <1>3, <2>1, <2>2, <3>1, RateAssumption
  <2> QED
    BY <2>1, <2>2, <2>3, <2>4
<1> QED
  BY <1>2, <1>4, <1>5

LEMMA NextPaced == RateInv /\ [Next]_vars => PacedInv'
<1> SUFFICES ASSUME RateInv, [Next]_vars PROVE PacedInv'
  OBVIOUS
<1>1. TypeOK /\ PacedInv /\ Interval \in Nat
  BY RateAssumption DEF RateInv, SlotInv
<1>2. CASE Tick
  <2> SUFFICES ASSUME prompt', pausedUntil' = NoPause
               PROVE  /\ lastSent' + Interval <= nextRequest'
                      /\ \A c \in Asleep' : now' <= wake'[c] /\ lastSent' + Interval <= wake'[c]
    BY DEF PacedInv
  <2>1. prompt /\ \A c \in Asleep : now < wake[c]
    BY <1>2 DEF Tick
  <2>2. Asleep' = Asleep /\ \A c \in Asleep : wake[c] \in Nat /\ now \in Nat
    BY <1>1, <1>2 DEF Tick, Asleep, TypeOK
  <2> QED
    BY <1>1, <1>2, <2>1, <2>2 DEF Tick, PacedInv
<1>3. ASSUME NEW c \in Callers, Wait(c) PROVE PacedInv'
  <2> SUFFICES ASSUME prompt, pausedUntil = NoPause
               PROVE  /\ lastSent + Interval <= nextRequest'
                      /\ \A d \in Asleep' : now <= wake'[d] /\ lastSent + Interval <= wake'[d]
    BY <1>3 DEF Wait, PacedInv
  <2>1. /\ Target \in Nat /\ Target >= nextRequest /\ Target >= now
        /\ lastSent \in Int /\ nextRequest \in Nat /\ now \in Nat
    BY <1>1 DEF TypeOK, Target, Later
  <2>2. lastSent + Interval <= Target
    BY <1>1, <2>1 DEF PacedInv
  <2>3. /\ nextRequest' = Target + Interval
        /\ wake'[c] = Target
        /\ Asleep' = Asleep \union {c}
        /\ \A d \in Asleep : d # c => wake'[d] = wake[d]
    BY <1>1, <1>3 DEF Wait, Advance, Asleep, TypeOK
  <2> QED
    BY <1>1, <2>1, <2>2, <2>3 DEF PacedInv
<1>4. ASSUME NEW c \in Callers, Send(c) PROVE PacedInv'
  BY <1>4, SendKeepsPace
<1>5. ASSUME NEW c \in Callers, NEW delay \in RetryAfter, ObserveLimit(c, delay)
      PROVE  PacedInv'
  <2>1. pausedUntil' # NoPause
    BY <1>1, <1>5, RateAssumption DEF ObserveLimit, TypeOK, NoPause
  <2> QED
    BY <2>1 DEF PacedInv
<1>6. ASSUME NEW c \in Callers, ObserveOther(c) PROVE PacedInv'
  BY <1>1, <1>6 DEF ObserveOther, PacedInv, Asleep, TypeOK
<1>7. CASE UNCHANGED vars
  BY <1>1, <1>7 DEF vars, PacedInv, Asleep
<1> QED
  BY <1>2, <1>3, <1>4, <1>5, <1>6, <1>7 DEF Next, CallerNext

-----------------------------------------------------------------------------
(* The theorems *)

\* The inductive invariant holds of every run of the controller.
THEOREM RateInvariance == Spec => []RateInv
<1>1. Init => RateInv
  BY InitSlots, InitChain, InitPaced DEF RateInv
<1>2. RateInv /\ [Next]_vars => RateInv'
  BY NextSlots, NextChain, NextPaced DEF RateInv
<1> QED
  BY <1>1, <1>2, PTL DEF Spec

\* However many callers wait and whatever pauses are set, slots are an interval apart.
THEOREM SlotsAreSpaced == Spec => []SlotsSpaced
<1>1. RateInv => SlotsSpaced
  BY DEF RateInv, SlotInv
<1> QED
  BY <1>1, RateInvariance, PTL

\* A set of numbered requests each of which was due is no larger than the time allows:
\* if it had k members and more, one of them would be the k-th slot or a later one.
LEMMA RateBound == RateInv => LongRunRate
<1> SUFFICES ASSUME RateInv PROVE LongRunRate
  OBVIOUS
<1> DEFINE k == Cardinality(served)
<1>1. now \in Nat /\ served \subseteq 1..reserved /\ reserved \in Nat /\ Interval \in Nat
  BY RateAssumption DEF RateInv, SlotInv, TypeOK
<1>2. IsFiniteSet(served) /\ k \in Nat
  <2>1. IsFiniteSet(1..reserved)
    BY <1>1, FS_Interval
  <2>2. IsFiniteSet(served)
    BY <1>1, <2>1, FS_Subset
  <2> QED
    BY <2>2, FS_CardinalityType
<1> HIDE DEF k
<1>3. SUFFICES ASSUME k * Interval > now + Interval
               PROVE  FALSE
  <2>1. k * Interval \in Int
    BY <1>1, <1>2, TimesNext
  <2> QED
    BY <1>1, <1>3, <2>1 DEF LongRunRate, k
<1>4. (k - 1) * Interval > now /\ (k - 1) * Interval \in Int
  <2>1. /\ (k - 1 + 1) * Interval = (k - 1) * Interval + Interval
        /\ (k - 1) * Interval \in Int
    BY <1>1, <1>2, TimesNext
  <2>2. k - 1 + 1 = k
    BY <1>2
  <2> QED
    BY <1>1, <1>3, <2>1, <2>2
<1>5. served \subseteq 1..(k - 1)
  <2> SUFFICES ASSUME NEW n \in served
               PROVE  n \in 1..(k - 1)
    OBVIOUS
  <2>1. n \in Nat /\ n >= 1
    BY <1>1
  <2>2. (n - 1) * Interval <= now /\ (n - 1) * Interval \in Int
    BY <1>1, <2>1, TimesNext DEF RateInv, SlotInv
  <2>3. ~(k - 1 <= n - 1)
    <3> SUFFICES ASSUME k - 1 <= n - 1
                 PROVE  FALSE
      OBVIOUS
    <3>1. (k - 1) * Interval <= (n - 1) * Interval
      BY <1>1, <1>2, <2>1, TimesMonotone
    <3> QED
      BY <1>1, <1>4, <2>2, <3>1
  <2> QED
    BY <1>2, <2>1, <2>3
<1>6. Cardinality(served) <= Cardinality(1..(k - 1))
  <2>1. k - 1 \in Int
    BY <1>2
  <2>2. IsFiniteSet(1..(k - 1))
    BY <2>1, FS_Interval
  <2> QED
    BY <1>5, <2>2, FS_Subset
<1>7. Cardinality(1..(k - 1)) = IF 1 > k - 1 THEN 0 ELSE k - 1
  <2>1. k - 1 \in Int /\ (k - 1) - 1 + 1 = k - 1
    BY <1>2
  <2> QED
    BY <2>1, FS_Interval
<1>8. k = 0
  BY <1>2, <1>6, <1>7 DEF k
<1> QED
  <2>1. 0 * Interval = 0
    BY <1>1
  <2> QED
    BY <1>1, <1>3, <1>8, <2>1

\* At no time were more requests sent than the rate allows since the construction.
THEOREM NeverAboveRate == Spec => []LongRunRate
<1> QED
  BY RateBound, RateInvariance, PTL

\* Nobody sleeps longer than the longest pause and an interval for each caller asleep.
THEOREM WaitsBounded == Spec => []BoundedWait
<1> QED
  BY WaitBound, RateInvariance, PTL

\* Only requests that already had their slot are sent during a pause.
THEOREM PausesHonoured == Spec => PauseHonoured
<1> DEFINE Honoured ==
      \A c \in Callers : pc[c] = "asleep" /\ pc'[c] = "sent" =>
          now >= pausedUntil \/ c \in caught
<1>1. RateInv /\ [Next]_vars => [Honoured]_vars
  <2> SUFFICES ASSUME RateInv, Next, NEW c \in Callers, pc[c] = "asleep", pc'[c] = "sent"
               PROVE  now >= pausedUntil \/ c \in caught
    OBVIOUS
  <2>1. c \in Asleep
    BY DEF Asleep
  <2>2. now >= wake[c]
    BY DEF Next, CallerNext, Tick, Wait, Send, ObserveLimit, ObserveOther, RateInv, SlotInv,
           TypeOK
  <2>3. wake[c] >= pausedUntil \/ c \in caught
    BY <2>1 DEF RateInv, SlotInv
  <2> QED
    BY <2>2, <2>3 DEF RateInv, SlotInv, TypeOK, NoPause
<1> QED
  BY <1>1, RateInvariance, PTL DEF Spec, PauseHonoured

\* Until the first pause, and as long as sleeps end on time, requests are an interval apart.
THEOREM ApartUntilPaused == Spec => IntervalUntilPaused
<1> DEFINE Apart ==
      \A c \in Callers : prompt /\ pausedUntil = NoPause
                           /\ pc[c] = "asleep" /\ pc'[c] = "sent" =>
          now >= lastSent + Interval
<1>1. RateInv /\ [Next]_vars => [Apart]_vars
  <2> SUFFICES ASSUME RateInv, Next, NEW c \in Callers, pc[c] = "asleep", pc'[c] = "sent",
                      prompt, pausedUntil = NoPause
               PROVE  now >= lastSent + Interval
    OBVIOUS
  <2>1. now >= wake[c]
    BY DEF Next, CallerNext, Tick, Wait, Send, ObserveLimit, ObserveOther, RateInv, SlotInv,
           TypeOK
  <2>2. lastSent + Interval <= wake[c]
    BY DEF RateInv, PacedInv, Asleep
  <2>3. now \in Nat /\ wake[c] \in Nat /\ lastSent + Interval \in Int
    BY RateAssumption DEF RateInv, SlotInv, TypeOK
  <2> QED
    BY <2>1, <2>2, <2>3
<1> QED
  BY <1>1, RateInvariance, PTL DEF Spec, IntervalUntilPaused
=============================================================================
