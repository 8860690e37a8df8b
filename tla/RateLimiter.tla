------------------------------ MODULE RateLimiter ------------------------------
(***************************************************************************)
(* FixedWindowRateLimiter (security.py), which the authentication          *)
(* middleware (main.py) asks before every protected request.  A window     *)
(* belongs to one identity; it opens with a request, counts requests until *)
(* it expires, and is forgotten by whichever call comes first after that,  *)
(* of this identity or another.                                            *)
(*                                                                         *)
(* The clock of the code is a float of seconds.  Here a second has         *)
(* TicksPerSecond ticks, so that the rounding of the Retry-After header to *)
(* whole seconds is visible.                                               *)
(***************************************************************************)
EXTENDS Integers, Sequences, FiniteSets

CONSTANTS
    Identity,        \* rate limit keys
    MaxRequests,     \* at least 1, as the constructor makes sure
    WindowSeconds,   \* at least 1
    MaxIdentities,   \* at least 1
    TicksPerSecond,
    None          \* no Retry-After: the request passed

ASSUME RateLimiterAssumption ==
    /\ MaxRequests \in Nat \ {0}
    /\ WindowSeconds \in Nat \ {0}
    /\ MaxIdentities \in Nat \ {0}
    /\ TicksPerSecond \in Nat \ {0}
    /\ None \notin Nat

Window == WindowSeconds * TicksPerSecond

VARIABLES
    now,       \* time.monotonic()
    live,      \* identities that have a window: the keys of _windows
    started,   \* started_at of a window
    count,     \* count of a window
    passed,    \* per identity: when its accepted requests came, in order
    told       \* per identity: what the last call answered, and when

vars == <<now, live, started, count, passed, told>>

Answers == [at : Nat, wait : Nat \cup {None}, own : BOOLEAN]

TypeOK ==
    /\ now \in Nat
    /\ live \subseteq Identity
    /\ started \in [Identity -> Nat]
    /\ count \in [Identity -> Nat]
    /\ passed \in [Identity -> Seq(Nat)]
    /\ told \in [Identity -> Answers]

Init ==
    /\ now = 0
    /\ live = {}
    /\ started = [i \in Identity |-> 0]
    /\ count = [i \in Identity |-> 0]
    /\ passed = [i \in Identity |-> <<>>]
    /\ told = [i \in Identity |-> [at |-> 0, wait |-> None, own |-> FALSE]]

\* Mutant: a window expires one tick early.
UnexpiredShort == {i \in live : started[i] + Window > now + 1}

\* _remove_expired
Unexpired == {i \in live : started[i] + Window > now}

\* Mutant: one window too many.
HasRoomForAnother == Cardinality(Unexpired) <= MaxIdentities

HasRoom == Cardinality(Unexpired) < MaxIdentities

\* Mutant: rounded down.
SecondsDown(ticks) == ticks \div TicksPerSecond

\* math.ceil
Seconds(ticks) == (ticks + TicksPerSecond - 1) \div TicksPerSecond

\* Mutant: the subtraction the wrong way round, without the lower limit.
WaitBackwards(i) == Seconds((now - started[i]) - Window)

\* What Retry-After tells an identity whose window is full.
Wait(i) ==
    LET seconds == Seconds(Window - (now - started[i]))
    IN  IF seconds > 1 THEN seconds ELSE 1

Pass(i) ==
    /\ passed' = [passed EXCEPT ![i] = Append(@, now)]
    /\ told' = [told EXCEPT ![i] = [at |-> now, wait |-> None, own |-> FALSE]]

Reject(i, seconds, own) ==
    /\ told' = [told EXCEPT ![i] = [at |-> now, wait |-> seconds, own |-> own]]
    /\ UNCHANGED <<started, count, passed>>

\* The identity has no window.
Open(i) ==
    /\ i \notin Unexpired
    /\ HasRoom
    /\ live' = Unexpired \cup {i}
    /\ started' = [started EXCEPT ![i] = now]
    /\ count' = [count EXCEPT ![i] = 1]
    /\ Pass(i)
    /\ UNCHANGED now

\* Nor is there room for one.
NoRoom(i) ==
    /\ i \notin Unexpired
    /\ ~ HasRoom
    /\ live' = Unexpired
    /\ Reject(i, WindowSeconds, FALSE)
    /\ UNCHANGED now

CountIn(i) ==
    /\ i \in Unexpired
    /\ count[i] < MaxRequests
    /\ live' = Unexpired
    /\ count' = [count EXCEPT ![i] = @ + 1]
    /\ Pass(i)
    /\ UNCHANGED <<now, started>>

TooMany(i) ==
    /\ i \in Unexpired
    /\ count[i] >= MaxRequests
    /\ live' = Unexpired
    /\ Reject(i, Wait(i), TRUE)
    /\ UNCHANGED now

Tick ==
    /\ now' = now + 1
    /\ UNCHANGED <<live, started, count, passed, told>>

Ask(i) == Open(i) \/ NoRoom(i) \/ CountIn(i) \/ TooMany(i)

Next == Tick \/ \E i \in Identity : Ask(i)

Spec == Init /\ [][Next]_vars

----------------------------------------------------------------------------
\* However the windows of an identity open and expire, it gets at most
\* 2 * MaxRequests - 1 requests through in any span of one window length: the
\* 2 * MaxRequests-th comes a full window after the first.
Paced ==
    \A i \in Identity : \A k \in 1 .. Len(passed[i]) :
        k + 2 * MaxRequests - 1 <= Len(passed[i]) =>
            passed[i][k] + Window <= passed[i][k + 2 * MaxRequests - 1]

\* The table never holds more windows than its limit, and no window more
\* requests than the limit.
TableBounded ==
    /\ Cardinality(live) <= MaxIdentities
    /\ \A i \in live : count[i] \in 1 .. MaxRequests

\* An identity that waited as long as it was told is not turned away for its
\* own requests again; only a full table can still refuse it.
WaitingSuffices ==
    [][\A i \in Identity :
          /\ told[i].wait # None
          /\ told'[i] # told[i]
          /\ now >= told[i].at + told[i].wait * TicksPerSecond
          => ~ told'[i].own]_vars

\* Nobody is told to wait a second more than the window lasts: while the last
\* second of the answer has not begun, the window is still closed.
WaitIsNotPadded ==
    \A i \in Identity : told[i].own =>
        /\ told[i].wait >= 1
        /\ told[i].at + (told[i].wait - 1) * TicksPerSecond < started[i] + Window

\* Retry-After is long enough and not a second too long.
WaitsAreExact == WaitingSuffices /\ []WaitIsNotPadded
=============================================================================
