------------------------------- MODULE Events -------------------------------
(***************************************************************************)
(* Packed events and clocks (crates/core/src/event.rs, clock.rs): 24 bits  *)
(* of code id and 8 bits of kind in a word, ticks from the batch's base,   *)
(* nanoseconds since the clock's start.                                    *)
(***************************************************************************)
EXTENDS Naturals

CodeIdMax == 16777215
Kinds == 1 .. 6   \* Begin, End, Yield, Resume, Unwind, Throw

FromU8(v) == IF v \in Kinds THEN v ELSE 1

OpensSlice(kind) == kind \in {1, 4, 6}

PackCodeKind(code, kind) == kind * (CodeIdMax + 1) + (code % (CodeIdMax + 1))

CodeIdOf(word) == word % (CodeIdMax + 1)
KindOf(word) == FromU8(word \div (CodeIdMax + 1))

\* f with v at x, wherever it was defined before.
With(f, x, v) == [y \in DOMAIN f \cup {x} |-> IF y = x THEN v ELSE f[y]]

\* A clock is [start, num, den]: a tick is num / den nanoseconds.  What was read
\* before the clock's start is at 0.
NsSinceStart(clock, ticks) ==
    LET delta == IF ticks > clock.start THEN ticks - clock.start ELSE 0
    IN (delta * clock.num) \div clock.den

\* packed is [delta, word].
FromPacked(clock, base, tid, packed) ==
    [ts |-> NsSinceStart(clock, base + packed.delta), tid |-> tid, word |-> packed.word]
=============================================================================
