---------------------------- MODULE RateLimiter ----------------------------
(***************************************************************************)
(* RateLimiter.Allow for one key, a pure function of the times it keeps:   *)
(* the times of all attempts, refused ones included, that the window has   *)
(* not left behind.  The mutex makes one call one step, and the clock is   *)
(* read under it, so that the times are in order.                          *)
(***************************************************************************)
EXTENDS Integers, Sequences

CONSTANT Window

\* Mutant: an attempt exactly Window ago still counts.
RecentAtCutoff(t, now) == t >= now - Window

\* t.After(cutoff) with cutoff = now - Window.
Recent(t, now) == t > now - Window

\* The loop that filters the slice in place.
Kept(times, now) ==
    LET kept[i \in 0 .. Len(times)] ==
            IF i = 0 THEN <<>>
            ELSE IF Recent(times[i], now) THEN Append(kept[i-1], times[i])
            ELSE kept[i-1]
    IN  kept[Len(times)]

\* Mutant: the new time comes first.
CountedFirst(times, now) == <<now>> \o Kept(times, now)

\* What Allow stores.
Counted(times, now) == Append(Kept(times, now), now)

\* Mutant: the attempt itself is not counted.
WithinBefore(times, limit) == Len(times) - 1 <= limit

\* What Allow returns, of what it stores.
Within(times, limit) == Len(times) <= limit

=============================================================================
