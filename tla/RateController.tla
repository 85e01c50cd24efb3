--------------------------- MODULE RateController ---------------------------
(***************************************************************************)
(* The request pacing of src/facehugger/indexer/rate_limit.py, shared by   *)
(* the catalog client and the inspection workers: every request calls      *)
(* wait() before it is sent, every response observe() after it arrived.    *)
(* The lock makes the reservation of a slot one step; the sleep up to it   *)
(* is outside the lock, so slots are reserved, pauses announced and        *)
(* requests sent in any order.  Time is counted from the construction of   *)
(* the controller and does not go back.                                    *)
(*                                                                         *)
(* As in module IndexState, an operator directly before one it resembles   *)
(* (SendEarly before Send) is a mistake the properties are tried on.       *)
(***************************************************************************)
EXTENDS Integers, FiniteSets

CONSTANTS
    Callers,     \* the threads that send requests
    Interval,    \* interval_seconds
    RetryAfter,  \* the delays the Hub asks for
    Late,        \* whether a sleep may take longer than it was asked to
    Horizon      \* bounds the time

ASSUME RateAssumption ==
    /\ Interval \in Nat \ {0}
    /\ RetryAfter \subseteq Nat
    /\ Late \in BOOLEAN
    /\ Horizon \in Nat
    /\ IsFiniteSet(Callers)

VARIABLES
    now,          \* datetime.now(UTC)
    nextRequest,  \* _next_request
    pausedUntil,  \* _paused_until
    pc,           \* what each caller does
    wake,         \* the slot each caller reserved last
    reserved,     \* history: how many slots were reserved so far,
    number,       \* history: which of them is each caller's last,
    served,       \* history: and those whose request was sent
    lastSent,     \* history: when a request was sent last
    longest,      \* history: the latest deadline the Hub ever gave
    due,          \* history: what that was when each caller asked for its slot
    caught,       \* history: the callers that were asleep when the pause was set
    prompt        \* history: no sleep took longer than it was asked to, so far

vars == <<now, nextRequest, pausedUntil, pc, wake, reserved, number, served, lastSent,
          longest, due, caught, prompt>>

NoPause == -1

Later(x, y) == IF x >= y THEN x ELSE y

Asleep == {c \in Callers : pc[c] = "asleep"}

-----------------------------------------------------------------------------
TargetIgnoringPause == Later(nextRequest, now)

\* The slot wait() reserves: a deadline that has passed still takes the place of `now`.
Target == Later(nextRequest, IF pausedUntil = NoPause THEN now ELSE pausedUntil)

AdvanceFromNow(target) == now + Interval

AdvanceTwice(target) == target + 2 * Interval

\* What wait() leaves in _next_request.
Advance(target) == target + Interval

Wait(c) ==
    /\ pc[c] = "idle"
    /\ Target <= Horizon
    /\ wake' = [wake EXCEPT ![c] = Target]
    /\ nextRequest' = Advance(Target)
    /\ pc' = [pc EXCEPT ![c] = "asleep"]
    /\ reserved' = reserved + 1
    /\ number' = [number EXCEPT ![c] = reserved + 1]
    /\ due' = [due EXCEPT ![c] = longest]
    /\ caught' = caught \ {c}
    /\ UNCHANGED <<now, pausedUntil, served, lastSent, longest, prompt>>

SendEarly(c) ==
    /\ pc[c] = "asleep"
    /\ pc' = [pc EXCEPT ![c] = "sent"]
    /\ served' = served \union {number[c]}
    /\ lastSent' = now
    /\ UNCHANGED <<now, nextRequest, pausedUntil, wake, reserved, number, longest, due,
                   caught, prompt>>

\* The sleep is over and the request goes out.
Send(c) ==
    /\ pc[c] = "asleep"
    /\ now >= wake[c]
    /\ pc' = [pc EXCEPT ![c] = "sent"]
    /\ served' = served \union {number[c]}
    /\ lastSent' = now
    /\ UNCHANGED <<now, nextRequest, pausedUntil, wake, reserved, number, longest, due,
                   caught, prompt>>

\* observe() of a 429 with a Retry-After in digits.
ObserveLimit(c, delay) ==
    /\ pc[c] = "sent"
    /\ pc' = [pc EXCEPT ![c] = "idle"]
    /\ pausedUntil' = now + delay
    /\ longest' = Later(longest, now + delay)
    /\ caught' = Asleep
    /\ UNCHANGED <<now, nextRequest, wake, reserved, number, served, lastSent, due, prompt>>

\* observe() of any other response, or a request that failed without one.
ObserveOther(c) ==
    /\ pc[c] = "sent"
    /\ pc' = [pc EXCEPT ![c] = "idle"]
    /\ UNCHANGED <<now, nextRequest, pausedUntil, wake, reserved, number, served,
                   lastSent, longest, due, caught, prompt>>

\* Time passes; unless sleeps may be late, not beyond the end of one.
Tick ==
    /\ now < Horizon
    /\ Late \/ \A c \in Asleep : now < wake[c]
    /\ now' = now + 1
    /\ prompt' = (prompt /\ \A c \in Asleep : now < wake[c])
    /\ UNCHANGED <<nextRequest, pausedUntil, pc, wake, reserved, number, served, lastSent,
                   longest, due, caught>>

Init ==
    /\ now = 0
    /\ nextRequest = 0
    /\ pausedUntil = NoPause
    /\ pc = [c \in Callers |-> "idle"]
    /\ wake = [c \in Callers |-> 0]
    /\ reserved = 0
    /\ number = [c \in Callers |-> 0]
    /\ served = {}
    /\ lastSent = -Interval
    /\ longest = 0
    /\ due = [c \in Callers |-> 0]
    /\ caught = {}
    /\ prompt = TRUE

CallerNext ==
    \E c \in Callers :
        \/ Wait(c)
        \/ Send(c)
        \/ \E delay \in RetryAfter : ObserveLimit(c, delay)
        \/ ObserveOther(c)

Next == Tick \/ CallerNext

Spec == Init /\ [][Next]_vars

-----------------------------------------------------------------------------
(* Properties *)

TypeOK ==
    /\ now \in Nat
    /\ nextRequest \in Nat
    /\ pausedUntil \in Nat \union {NoPause}
    /\ pc \in [Callers -> {"idle", "asleep", "sent"}]
    /\ wake \in [Callers -> Nat]
    /\ reserved \in Nat
    /\ number \in [Callers -> Nat]
    /\ served \subseteq 1..reserved
    /\ lastSent \in Int
    /\ longest \in Nat
    /\ due \in [Callers -> Nat]
    /\ caught \subseteq Callers
    /\ prompt \in BOOLEAN

\* The callers asleep at one time hold slots that are an interval apart, and the next
\* slot is an interval after them all, whatever pauses come in between: "concurrent
\* callers share one sustained-rate schedule" (test_rate_limit.py:33).
SlotsSpaced ==
    \A c \in Asleep :
        /\ nextRequest >= wake[c] + Interval
        /\ \A d \in Asleep : number[c] < number[d] => wake[c] + Interval <= wake[d]

\* Counted from the construction of the controller, no more requests were ever sent than
\* the configured rate allows, also when sleeps end late, the schedule falls behind
\* after an idle time and catches up, or the Hub sets and moves pauses.
LongRunRate == Cardinality(served) * Interval <= now + Interval

\* A request that is sent during a pause already had its slot when the pause was set.
PauseHonoured ==
    [][\A c \in Callers : pc[c] = "asleep" /\ pc'[c] = "sent" =>
          now >= pausedUntil \/ c \in caught]_vars

\* Nobody sleeps longer than until the end of the longest pause and then one interval for
\* each caller that is asleep: reservations cannot run away from the clock.
BoundedWait ==
    \A c \in Asleep : wake[c] <= Later(now, longest) + Interval * Cardinality(Asleep)

\* "Apply a small fixed request interval" (rate_limit.py:53), as far as that is kept: until
\* the Hub sets a pause for the first time or a sleep ends late, requests are an interval
\* apart, however many callers there are and however long the controller was idle.
IntervalUntilPaused ==
    [][\A c \in Callers : prompt /\ pausedUntil = NoPause
                           /\ pc[c] = "asleep" /\ pc'[c] = "sent" =>
          now >= lastSent + Interval]_vars

\* The n-th slot is no earlier than n - 1 intervals after the
\* construction, and the slots held are numbered in the order of their times.
SlotInv ==
    /\ TypeOK
    /\ SlotsSpaced
    /\ reserved * Interval <= nextRequest
    /\ \A c \in Asleep :
          /\ number[c] \in 1..reserved
          /\ number[c] \notin served
          /\ (number[c] - 1) * Interval <= wake[c]
          /\ wake[c] >= pausedUntil \/ c \in caught
          /\ \A d \in Asleep : number[c] = number[d] => c = d
    /\ \A n \in served : (n - 1) * Interval <= now

\* A slot is at most an interval after what can be waited for now, or it is an interval
\* after the previous one, which is still slept for.
Chained(slot, previous) ==
    \/ slot <= Later(now, longest) + Interval
    \/ \E c \in Asleep : number[c] = previous /\ slot = wake[c] + Interval

\* Every slot that is held, and the next one, is.
ChainInv ==
    /\ pausedUntil <= longest
    /\ Chained(nextRequest, reserved)
    /\ \A c \in Asleep : Chained(wake[c], number[c] - 1)

\* Until then no slot has passed that is slept for, and all are an interval after the last
\* request.
PacedInv ==
    prompt /\ pausedUntil = NoPause =>
        /\ lastSent + Interval <= nextRequest
        /\ \A c \in Asleep : now <= wake[c] /\ lastSent + Interval <= wake[c]

\* The inductive invariant.
RateInv == SlotInv /\ ChainInv /\ PacedInv

-----------------------------------------------------------------------------
(* What the documentation says, and the code does not keep *)

\* rate_limit.py:53 "Apply a small fixed request interval": requests are an interval
\* apart when sleeps are exact.
FixedInterval ==
    [][\A c \in Callers : pc[c] = "asleep" /\ pc'[c] = "sent" =>
          now >= lastSent + Interval]_vars

\* rate_limit.py:65 "Wait until both the sustained-rate and any server reset deadline
\* allow a request": a request is not sent before a deadline that had been given when
\* wait() was called.
EveryResetHonoured ==
    [][\A c \in Callers : pc[c] = "asleep" /\ pc'[c] = "sent" => now >= due[c]]_vars
=============================================================================
