---------------------------- MODULE PolledTransfer ----------------------------
(***************************************************************************)
(* What the polled drivers (UART, SPI, I2C) promise of a call that moves   *)
(* bytes between a buffer and a peripheral until it is done or its timeout *)
(* has passed: never a byte outside the buffer, and a result that is the   *)
(* number of bytes left over or one less.  One less than nothing left      *)
(* wraps.  Where a driver is excused, a call that fails may also return 0; *)
(* only the register read of the I2C driver is, in its first half.         *)
(***************************************************************************)
EXTENDS Integers

CONSTANTS Word,       \* the results are unsigned numbers below Word
          MaxSize     \* the longest buffer

VARIABLES calling, left, result,
          excused     \* the caller is told nothing if the call fails now

polledVars == <<calling, left, result>>

\* `n--` of an unsigned n.
Decrement(n) == IF n = 0 THEN Word - 1 ELSE n - 1

InitPolled == calling = FALSE /\ left = 0 /\ result = 0

Begin ==
  /\ ~calling /\ calling' = TRUE
  /\ left' \in 0..MaxSize
  /\ UNCHANGED result

Move ==
  /\ calling /\ left > 0
  /\ left' = left - 1
  /\ UNCHANGED <<calling, result>>

Return ==
  /\ calling /\ calling' = FALSE
  /\ left' = 0
  /\ result' \in {left, Decrement(left)} \/ (excused /\ result' = 0)

SpecPolled == InitPolled /\ [][Begin \/ Move \/ Return]_polledVars

=============================================================================
