----------------------------- MODULE Deadlines -----------------------------
(***************************************************************************)
(* The deadlines of rpcc::call1: a call waits for its reply in rounds that *)
(* double, looks after each whether it has to send again, and gives up at  *)
(* the deadline of the caller.  A time is a timespec.  Msec and Nsec stand *)
(* for the 1000 milliseconds of a second and the 1000000 nanoseconds of a  *)
(* millisecond.  The clock is CLOCK_REALTIME and is not set back.           *)
(***************************************************************************)
EXTENDS Integers

CONSTANTS Msec,         \* milliseconds in a second
          Nsec,         \* nanoseconds in a millisecond
          ToMin,        \* rpcc::to_min, in milliseconds
          Timeouts,     \* the timeouts of callers, in milliseconds
          MaxClock      \* bound on the clock

VARIABLES clock,            \* CLOCK_REALTIME in nanoseconds
          start,            \* when the call read the clock first
          to,               \* its timeout
          curr_to,          \* how long the round waits
          nextdeadline, finaldeadline,
          at                \* "idle", "loop", "wait", and then "done" or "timeout"

deadlineVars == <<clock, start, to, curr_to, nextdeadline, finaldeadline, at>>

Second == Msec * Nsec

\* clock_gettime, and back.
timespec(t) == [tv_sec |-> t \div Second, tv_nsec |-> t % Second]
Instant(ts) == ts.tv_sec * Second + ts.tv_nsec

cmp_timespec(a, b) ==
    IF a.tv_sec # b.tv_sec THEN IF a.tv_sec > b.tv_sec THEN 1 ELSE -1
    ELSE IF a.tv_nsec > b.tv_nsec THEN 1 ELSE IF a.tv_nsec < b.tv_nsec THEN -1 ELSE 0

\* The loop carries while tv_nsec is more than a second, not when it is one.
add_timespec(a, b) ==
    LET nsec == a.tv_nsec + (b % Msec) * Nsec
        carry == IF nsec > Second THEN (nsec - 1) \div Second ELSE 0
    IN  [tv_sec |-> a.tv_sec + b \div Msec + carry, tv_nsec |-> nsec - carry * Second]

Init ==
    /\ clock = Second /\ start = 0 /\ to = 0 /\ curr_to = 0
    /\ nextdeadline = timespec(0) /\ finaldeadline = timespec(0)
    /\ at = "idle"

tick ==
    /\ clock < MaxClock /\ at \notin {"done", "timeout"} /\ clock' = clock + 1
    /\ UNCHANGED <<start, to, curr_to, nextdeadline, finaldeadline, at>>

call1(b) ==
    /\ at = "idle" /\ clock < 2 * Second
    /\ start' = clock /\ to' = b
    /\ finaldeadline' = add_timespec(timespec(clock), b)
    /\ curr_to' = ToMin
    /\ at' = "loop"
    /\ UNCHANGED <<clock, nextdeadline>>

\* Mutant of round: the deadline of the caller is looked at when it has passed.
round_late ==
    /\ at = "loop"
    /\ IF finaldeadline.tv_sec = 0
       THEN at' = "timeout" /\ UNCHANGED <<nextdeadline, finaldeadline>>
       ELSE /\ nextdeadline' = add_timespec(timespec(clock), curr_to)
            /\ IF cmp_timespec(timespec(clock), finaldeadline) > 0
               THEN finaldeadline' = [finaldeadline EXCEPT !.tv_sec = 0]
               ELSE UNCHANGED finaldeadline
            /\ at' = "wait"
    /\ UNCHANGED <<clock, start, to, curr_to>>

\* The round that reaches finaldeadline is the last: tv_sec of it is set to 0.
round ==
    /\ at = "loop"
    /\ IF finaldeadline.tv_sec = 0
       THEN at' = "timeout" /\ UNCHANGED <<nextdeadline, finaldeadline>>
       ELSE LET next == add_timespec(timespec(clock), curr_to)
                last == cmp_timespec(next, finaldeadline) > 0
            IN  /\ nextdeadline' = IF last THEN finaldeadline ELSE next
                /\ finaldeadline' = [finaldeadline EXCEPT !.tv_sec = IF last THEN 0 ELSE @]
                /\ at' = "wait"
    /\ UNCHANGED <<clock, start, to, curr_to>>

\* pthread_cond_timedwait gives EINVAL at once for a tv_nsec of a second or more.
Valid(ts) == ts.tv_nsec < Second

timedwait ==
    /\ at = "wait" /\ Valid(nextdeadline) /\ clock >= Instant(nextdeadline)
    /\ curr_to' = 2 * curr_to
    /\ at' = "loop"
    /\ UNCHANGED <<clock, start, to, nextdeadline, finaldeadline>>

replied ==
    /\ at = "wait"
    /\ at' = "done"
    /\ UNCHANGED <<clock, start, to, curr_to, nextdeadline, finaldeadline>>

Next == tick \/ (\E b \in Timeouts : call1(b)) \/ round \/ timedwait \/ replied

-----------------------------------------------------------------------------
(***************************************************************************)
(* Properties.                                                             *)
(***************************************************************************)

Due == start + to * Nsec

\* A call gives up no earlier than its timeout says and never waits for a time
\* after it, however late the thread gets to run, wherever in a second it starts,
\* and although every round adds to the clock again.  With a timeout of whole
\* seconds, as all in the program are, it never waits for a time that
\* pthread_cond_timedwait refuses, where the loop would spin with ca.m held.
TimesOutOnTime ==
    /\ at = "timeout" => clock >= Due
    /\ at = "wait" => /\ Instant(nextdeadline) <= Due
                      /\ to % Msec = 0 => Valid(nextdeadline)
=============================================================================
