------------------------------ MODULE PolledUart ------------------------------
(***************************************************************************)
(* UART_read, UART_write and UART_print of usart.c: loops that test a flag *)
(* of the peripheral and, while it is clear, compare the time since the    *)
(* call with the timeout.  A byte may arrive, or leave, between the test   *)
(* and the comparison.  The line at the other end, and the time, are the   *)
(* environment.                                                            *)
(***************************************************************************)
EXTENDS Integers

CONSTANTS Word,       \* uint32_t counts are taken modulo Word
          MaxSize,    \* the longest buffer or string
          Timeouts,   \* the timeouts callers choose
          MaxTick     \* ticks since the call are counted up to here

ASSUME UartAssumption ==
  /\ Word \in Nat /\ MaxSize \in Nat /\ MaxSize < Word
  /\ Timeouts \subseteq Nat
  /\ MaxTick \in Nat /\ \A t \in Timeouts : t < MaxTick

VARIABLES
  fn,         \* the function called last
  at,         \* "idle", "loop" (the head of the outer loop), "poll", "compare"
  size,       \* the argument the code counts down
  left,       \* bytes of the buffer that have not been moved
  timeout, elapsed,      \* argument, and tick - start
  result,     \* of the last UART_read or UART_write
  printed,    \* of the last UART_print
  ISR         \* the flags RXNE and TXE

vars == <<fn, at, size, left, timeout, elapsed, result, printed, ISR>>

Functions == {"UART_read", "UART_write", "UART_print"}
Flag(f) == IF f = "UART_read" THEN "RXNE" ELSE "TXE"

\* `size--` of a uint32_t.
Decrement_Signed(n) == n - 1
Decrement(n) == IF n = 0 THEN Word - 1 ELSE n - 1

\* (uint8_t)-1
PrintError == 255

TypeOK ==
  /\ fn \in Functions
  /\ at \in {"idle", "loop", "poll", "compare"}
  /\ size \in 0..(Word - 1) /\ left \in 0..MaxSize
  /\ timeout \in Timeouts \cup {0} /\ elapsed \in 0..MaxTick
  /\ result \in 0..(Word - 1) /\ printed \in {0, PrintError}
  /\ ISR \subseteq {"RXNE", "TXE"}

Init ==
  /\ fn = "UART_read" /\ at = "idle" /\ size = 0 /\ left = 0
  /\ timeout = 0 /\ elapsed = 0 /\ result = 0 /\ printed = 0
  /\ ISR = {"TXE"}

-----------------------------------------------------------------------------
\* The line and the tick.

Receive == ISR' = ISR \cup {"RXNE"} /\ UNCHANGED <<fn, at, size, left, timeout, elapsed, result, printed>>
Transmitted == ISR' = ISR \cup {"TXE"} /\ UNCHANGED <<fn, at, size, left, timeout, elapsed, result, printed>>

SysTick ==
  /\ at # "idle" /\ elapsed < MaxTick
  /\ elapsed' = elapsed + 1
  /\ UNCHANGED <<fn, at, size, left, timeout, result, printed, ISR>>

-----------------------------------------------------------------------------
\* The three functions.  UART_print has no size: it ends at the end of the string.

Call ==
  /\ at = "idle" /\ at' = "loop"
  /\ fn' \in Functions
  /\ left' \in 0..MaxSize
  /\ size' = IF fn' = "UART_print" THEN 0 ELSE left'
  /\ timeout' \in Timeouts /\ elapsed' = 0
  /\ UNCHANGED <<result, printed, ISR>>

\* `while (size--)`: one less, whether or not there was one.
CountDown_DoWhile ==
  /\ at = "loop" /\ fn # "UART_print"
  /\ size' = Decrement(size) /\ at' = "poll"
  /\ UNCHANGED <<fn, left, timeout, elapsed, result, printed, ISR>>
CountDown ==
  /\ at = "loop" /\ fn # "UART_print"
  /\ size' = Decrement(size)
  /\ IF size = 0 THEN at' = "idle" /\ result' = Decrement(size)
                 ELSE at' = "poll" /\ UNCHANGED result
  /\ UNCHANGED <<fn, left, timeout, elapsed, printed, ISR>>

\* `while (*str)`
NextCharacter ==
  /\ at = "loop" /\ fn = "UART_print"
  /\ IF left = 0 THEN at' = "idle" /\ printed' = 0
                 ELSE at' = "poll" /\ UNCHANGED printed
  /\ UNCHANGED <<fn, size, left, timeout, elapsed, result, ISR>>

\* The flag is set: RDR is read or TDR written, which clears it.
MoveByte ==
  /\ at = "poll" /\ Flag(fn) \in ISR /\ at' = "loop"
  /\ left' = left - 1
  /\ ISR' = ISR \ {Flag(fn)}
  /\ UNCHANGED <<fn, size, timeout, elapsed, result, printed>>

NotReady_KeepsPolling ==
  /\ at = "poll" /\ Flag(fn) \notin ISR
  /\ UNCHANGED vars
NotReady ==
  /\ at = "poll" /\ Flag(fn) \notin ISR /\ at' = "compare"
  /\ UNCHANGED <<fn, size, left, timeout, elapsed, result, printed, ISR>>

\* The results of giving up.
TimeoutResult == size
TimeoutPrinted_OK == 0
TimeoutPrinted == PrintError

\* `if (tick - start > timeout)`
Compare ==
  /\ at = "compare"
  /\ IF elapsed > timeout
     THEN /\ at' = "idle"
          /\ IF fn = "UART_print"
             THEN printed' = TimeoutPrinted /\ UNCHANGED result
             ELSE result' = TimeoutResult /\ UNCHANGED printed
     ELSE at' = "poll" /\ UNCHANGED <<result, printed>>
  /\ UNCHANGED <<fn, size, left, timeout, elapsed, ISR>>

Code == CountDown \/ NextCharacter \/ MoveByte \/ NotReady \/ Compare

Next == Receive \/ Transmitted \/ SysTick \/ Call \/ Code

Spec == Init /\ [][Next]_vars

\* A call goes on, and so does the time; nothing is assumed of the line.
FairSpec == Spec /\ WF_vars(Code) /\ WF_vars(SysTick)

-----------------------------------------------------------------------------
\* Properties.

Counts == at # "idle" /\ fn # "UART_print"

\* "-> n unprocessed", say the comments on UART_read and UART_write (usart.c 175, 183).
\* `size--` comes before the wait and before the end of the loop, so neither exit does.
NUnprocessed == [][Counts /\ at' = "idle" => result' = left]_vars

\* What they return instead: one less, which after a full transfer is UINT32_MAX.
OneShort == [][Counts /\ at' = "idle" => result' = Decrement(left)]_vars

\* UART_print says OK exactly when the whole string has been handed over, and the
\* end of the string is never passed.
PrintedAll ==
  [][at # "idle" /\ at' = "idle" /\ fn = "UART_print" => (printed' = 0 <=> left = 0)]_vars

\* Reading and writing are polled transfers: no byte outside the buffer, and a
\* result that is off by one at most.
Transfer ==
  INSTANCE PolledTransfer WITH excused <- FALSE, calling <- Counts,
                               left <- IF Counts THEN left ELSE 0
ImplementsTransfer == Transfer!SpecPolled

\* Every call returns, whatever the line does.
CallReturns == at # "idle" ~> at = "idle"

=============================================================================
