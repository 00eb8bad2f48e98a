------------------------------ MODULE SpiMaster ------------------------------
(***************************************************************************)
(* SPI_master_transmit of spi.c: the slave is selected, the number of      *)
(* bytes is given to the peripheral, the bytes follow through its FIFO, and *)
(* the slave is released when the peripheral reports the end of the        *)
(* transfer.  Both waits give up when the timeout has passed, and leave    *)
(* the slave selected.                                                     *)
(*                                                                         *)
(* The peripheral and the tick are the environment.                        *)
(***************************************************************************)
EXTENDS Integers

CONSTANTS Word,       \* uint32_t counts are taken modulo Word
          Counter,    \* 2^16: TSIZE is the low half of CR2, TSER the high half
          Sizes,      \* the sizes of the buffers
          Timeouts,   \* the timeouts callers choose
          FifoDepth,  \* bytes the transmit FIFO holds
          MaxTick     \* ticks since the call are counted up to here

ASSUME SpiAssumption ==
  /\ Counter \in Nat \ {0} /\ Word \in Nat /\ 2 * Counter <= Word
  /\ Sizes \subseteq 0..(Word - 1) /\ \A s \in Sizes : s < 2 * Counter
  /\ FifoDepth \in Nat \ {0} /\ FifoDepth + 1 < Counter
  /\ Timeouts \subseteq Nat /\ MaxTick \in Nat /\ \A t \in Timeouts : t < MaxTick

VARIABLES
  at,         \* "idle", "bytes" (the head of the loop), or the wait: "byte", "end"
  polled,     \* the flag was clear, the time has still to be compared
  size, left, requested,  \* counted down by the code; bytes not moved; size of the call
  timeout, elapsed,       \* argument, and tick - start
  result,     \* of the last call
  selected,   \* the slave-select pin is low
  CR2,        \* TSIZE and TSER
  SPE,        \* the peripheral is enabled and has been started
  fifo,       \* bytes in the FIFO
  EOT,        \* the flag
  heard,      \* bytes the slave has received since it was selected, up to MaxHeard
  cutOff      \* a call has given up since the slave was selected

callVars == <<at, polled, size, left, requested, timeout, result>>
spiVars == <<selected, CR2, SPE, fifo, EOT, heard, cutOff>>
vars == <<callVars, elapsed, spiVars>>

Waits == {"byte", "end"}

\* More than any call sends.
MaxHeard == 2 * Counter

TypeOK ==
  /\ at \in {"idle", "bytes"} \cup Waits
  /\ polled \in BOOLEAN /\ (polled => at \in Waits)
  /\ {size, left, requested, result} \subseteq 0..(Word - 1)
  /\ timeout \in Timeouts \cup {0} /\ elapsed \in 0..MaxTick
  /\ CR2 \in [TSIZE : 0..(Counter - 1), TSER : {0, 1}]
  /\ fifo \in 0..FifoDepth /\ heard \in 0..MaxHeard
  /\ {selected, SPE, EOT, cutOff} \subseteq BOOLEAN

Init ==
  /\ at = "idle" /\ polled = FALSE
  /\ size = 0 /\ left = 0 /\ requested = 0 /\ timeout = 0 /\ elapsed = 0 /\ result = 0
  /\ selected = FALSE /\ CR2 = [TSIZE |-> 0, TSER |-> 0]
  /\ SPE = FALSE /\ fifo = 0 /\ EOT = FALSE /\ heard = 0 /\ cutOff = FALSE

-----------------------------------------------------------------------------
\* The tick and the peripheral.

SysTick ==
  /\ at # "idle" /\ elapsed < MaxTick
  /\ elapsed' = elapsed + 1
  /\ UNCHANGED <<callVars, spiVars>>

\* A byte is shifted out.  With TSIZE at 0 from the start there is no end; otherwise
\* the last byte takes TSER for a new TSIZE, or ends the transfer.
Shift ==
  /\ SPE /\ fifo > 0 /\ ~EOT
  /\ fifo' = fifo - 1
  /\ heard' = IF selected /\ heard < MaxHeard THEN heard + 1 ELSE heard
  /\ CASE CR2.TSIZE = 0 -> UNCHANGED <<CR2, EOT>>
       [] CR2.TSIZE = 1 -> /\ CR2' = [TSIZE |-> CR2.TSER, TSER |-> 0]
                           /\ EOT' = (CR2.TSER = 0)
       [] OTHER -> CR2' = [CR2 EXCEPT !.TSIZE = @ - 1] /\ UNCHANGED EOT
  /\ UNCHANGED <<callVars, elapsed, selected, SPE, cutOff>>

-----------------------------------------------------------------------------
\* SPI_master_transmit

\* TSIZE is cleared before the size is set, TSER is not.
SizeRegister_LastIndex(n) ==
  [TSIZE |-> (n + Counter - 1) % Counter, TSER |-> IF n >= Counter THEN 1 ELSE CR2.TSER]
SizeRegister(n) ==
  [TSIZE |-> n % Counter, TSER |-> IF n >= Counter THEN 1 ELSE CR2.TSER]

Call ==
  /\ at = "idle" /\ at' = "bytes"
  /\ size' \in Sizes /\ left' = size' /\ requested' = size'
  /\ timeout' \in Timeouts /\ elapsed' = 0
  /\ CR2' = SizeRegister(size')
  /\ selected' = TRUE /\ heard' = (IF selected THEN heard ELSE 0)
  /\ SPE' = TRUE
  /\ UNCHANGED <<polled, result, fifo, EOT, cutOff>>

\* `while (size--)`
CountDown_DoWhile ==
  /\ at = "bytes" /\ at' = "byte"
  /\ size' = IF size = 0 THEN Word - 1 ELSE size - 1
  /\ UNCHANGED <<polled, left, requested, timeout, result, elapsed, spiVars>>
CountDown_Signed ==
  /\ at = "bytes"
  /\ at' = IF size = 0 THEN "end" ELSE "byte"
  /\ size' = size - 1
  /\ UNCHANGED <<polled, left, requested, timeout, result, elapsed, spiVars>>
CountDown ==
  /\ at = "bytes"
  /\ at' = IF size = 0 THEN "end" ELSE "byte"
  /\ size' = IF size = 0 THEN Word - 1 ELSE size - 1
  /\ UNCHANGED <<polled, left, requested, timeout, result, elapsed, spiVars>>

\* TXP and EOT.
Ready_NotEnded == at = "byte" => fifo < FifoDepth
Ready == IF at = "byte" THEN fifo < FifoDepth ELSE EOT

NotReady_KeepsPolling ==
  /\ at \in Waits /\ ~polled /\ ~Ready
  /\ UNCHANGED vars
NotReady ==
  /\ at \in Waits /\ ~polled /\ ~Ready
  /\ polled' = TRUE
  /\ UNCHANGED <<at, size, left, requested, timeout, result, elapsed, spiVars>>

StillTime ==
  /\ polled /\ elapsed <= timeout
  /\ polled' = FALSE
  /\ UNCHANGED <<at, size, left, requested, timeout, result, elapsed, spiVars>>

MoveByte ==
  /\ at = "byte" /\ ~polled /\ Ready /\ at' = "bytes"
  /\ left' = left - 1
  /\ fifo' = fifo + 1
  /\ UNCHANGED <<polled, size, requested, timeout, result, elapsed, selected, CR2, SPE, EOT,
                 heard, cutOff>>

\* SPI_end_transfer: the flag is cleared and the peripheral disabled, which empties
\* its FIFO.
SPI_end_transfer == EOT' = FALSE /\ SPE' = FALSE /\ fifo' = 0

GiveUp ==
  /\ polled /\ elapsed > timeout /\ polled' = FALSE /\ at' = "idle"
  /\ SPI_end_transfer
  /\ result' = IF at = "byte" THEN size ELSE Word - 1
  /\ cutOff' = TRUE
  /\ UNCHANGED <<size, left, requested, timeout, elapsed, selected, CR2, heard>>

Finish ==
  /\ at = "end" /\ ~polled /\ Ready /\ at' = "idle"
  /\ selected' = FALSE
  /\ SPI_end_transfer
  /\ result' = 0
  /\ cutOff' = FALSE
  /\ UNCHANGED <<polled, size, left, requested, timeout, elapsed, CR2, heard>>

Code == CountDown \/ NotReady \/ StillTime \/ MoveByte \/ GiveUp \/ Finish

Next == SysTick \/ Shift \/ Call \/ Code

Spec == Init /\ [][Next]_vars

\* A call goes on, and so does the time.
FairSpec == Spec /\ WF_vars(Code) /\ WF_vars(SysTick)

-----------------------------------------------------------------------------
\* Properties.

\* The comment on SPI_master_transmit (spi.c 133): "-> n unprocessed".
NUnprocessed == [][at # "idle" /\ at' = "idle" => result' = left]_vars

\* A slave that is released has received the buffer of the call, no more and no less.
\* It may have received parts of others before it when a call has given up: the slave
\* stays selected then, and takes a retry for more of the same message.
WholeMessages == [][selected /\ ~selected' => heard = requested \/ cutOff]_vars

\* A buffer that does not fit TSIZE is never reported as sent.
TooLong == [][Finish => requested < Counter]_vars

\* Transmitting is a polled transfer: no byte outside the buffer, and a result that is
\* off by one at most.
Transfer ==
  INSTANCE PolledTransfer WITH excused <- FALSE, calling <- at # "idle",
                               MaxSize <- Word - 1,
                               left <- IF at # "idle" THEN left ELSE 0
ImplementsTransfer == Transfer!SpecPolled

\* A call returns, whether or not the peripheral goes on.
CallReturns == at # "idle" ~> at = "idle"

=============================================================================
