-------------------------------- MODULE Sched --------------------------------
(***************************************************************************)
(* The scheduling of GDELT (source-gdelt sched.rs), over integer seconds:  *)
(* how long to wait after a poll that failed and after one that did not,   *)
(* the tiling of a historical range into windows, and what of it the       *)
(* coverage ledger leaves to fetch.                                        *)
(***************************************************************************)
EXTENDS Integers, Sequences

Interval(s, e) == [start |-> s, end |-> e]

Smaller(a, b) == IF a < b THEN a ELSE b

\* Half-open windows of at most step, the last clamped to the range's end.
BackfillWindows(from, to, step) ==
  IF step <= 0 \/ from >= to THEN <<>>
  ELSE [i \in 1 .. (to - from + step - 1) \div step |->
          Interval(from + (i - 1) * step, Smaller(from + i * step, to))]

Spans(c, w) == c.start <= w.start /\ w.end <= c.end

\* Mutant: nothing is subtracted.
MissingWindowsAll(all, covered) == all
MissingWindows(all, covered) ==
  SelectSeq(all, LAMBDA w : ~ \E c \in covered : Spans(c, w))

-----------------------------------------------------------------------------
\* An error is [limited |-> whether it is a 429, after |-> its Retry-After, a
\* set of at most one delay].

\* Backoff::after_error: base times 2^attempt, or what the server asks for, at
\* most the cap, and up to half as much again of jitter.
Backoff(base, cap, attempt, err) ==
  LET asked == IF err.after # {} THEN CHOOSE r \in err.after : TRUE
               ELSE base * 2 ^ Smaller(attempt, 30)
      capped == Smaller(asked, cap)
  IN  capped .. capped + capped \div 2

\* pick_backoff_error: of the two feeds' errors, one that is a 429 if there is
\* one, DOC's before the Events feed's.
PickBackoffError(doc, ev) == IF ev.limited /\ ~ doc.limited THEN ev ELSE doc

\* Mutant: the boundary itself, before the dump has landed.
UntilNextSlotBare(now, interval, lag) == (now \div interval + 1) * interval - now
\* until_next_slot: lag past the next boundary.
UntilNextSlot(now, interval, lag) == (now \div interval + 1) * interval + lag - now
=============================================================================
