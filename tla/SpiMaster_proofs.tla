--------------------------- MODULE SpiMaster_proofs ---------------------------
(***************************************************************************)
(* SPI_master_transmit implements PolledTransfer, releases the slave only  *)
(* with the whole message, and never ends a buffer beyond TSIZE well, for  *)
(* every size, FIFO and timeout.                                           *)
(***************************************************************************)
EXTENDS SpiMaster, TLAPS

\* The count of the code against what is left of the buffer.
Counting ==
  /\ at \in {"idle", "bytes", "byte", "end"}
  /\ size \in 0..(Word - 1) /\ left \in 0..(Word - 1)
  /\ at = "bytes" => size = left
  /\ at = "byte" => left > 0 /\ size = left - 1
  /\ at = "end" => left = 0

\* Time is compared only in a wait.
Waiting == polled \in BOOLEAN /\ (polled => at \in Waits)

USE SpiAssumption

LEMMA InitCounting == Init => Counting
BY DEF Init, Counting

LEMMA InitWaiting == Init => Waiting
BY DEF Init, Waiting

LEMMA WaitingStep ==
  ASSUME Waiting, [Next]_vars
  PROVE  Waiting'
<1> USE DEF Waiting, Waits
<1>1. CASE UNCHANGED vars \/ SysTick \/ Shift \/ Call \/ CountDown
  BY <1>1 DEF vars, callVars, SysTick, Shift, Call, CountDown
<1>2. CASE NotReady
  BY <1>2 DEF NotReady
<1>3. CASE StillTime
  BY <1>3 DEF StillTime
<1>4. CASE MoveByte
  BY <1>4 DEF MoveByte
<1>5. CASE GiveUp
  BY <1>5 DEF GiveUp
<1>6. CASE Finish
  BY <1>6 DEF Finish
<1> QED
  BY <1>1, <1>2, <1>3, <1>4, <1>5, <1>6 DEF Next, Code

LEMMA CountingStep ==
  ASSUME Counting, Waiting, [Next]_vars
  PROVE  Counting'
<1> USE DEF Counting, Waiting, Waits
<1>1. CASE UNCHANGED vars \/ SysTick \/ Shift
  BY <1>1 DEF vars, SysTick, Shift, callVars
<1>2. CASE Call
  BY <1>2 DEF Call
<1>3. CASE CountDown
  BY <1>3 DEF CountDown
<1>4. CASE NotReady \/ StillTime
  BY <1>4 DEF NotReady, StillTime
<1>5. CASE MoveByte
  BY <1>5 DEF MoveByte
<1>6. CASE GiveUp \/ Finish
  BY <1>6 DEF GiveUp, Finish
<1> QED
  BY <1>1, <1>2, <1>3, <1>4, <1>5, <1>6 DEF Next, Code

LEMMA SpiTransferInit == Init => Transfer!InitPolled
BY DEF Init, Transfer!InitPolled

LEMMA SpiTransferStep ==
  ASSUME Counting, Waiting, [Next]_vars
  PROVE  [Transfer!Begin \/ Transfer!Move \/ Transfer!Return]_Transfer!polledVars
<1> USE DEF Counting, Waiting, Waits, Transfer!polledVars
<1>1. CASE UNCHANGED vars \/ SysTick \/ Shift
  BY <1>1 DEF vars, SysTick, Shift, callVars
<1>2. CASE Call
  BY <1>2 DEF Call, Transfer!Begin
<1>3. CASE CountDown \/ NotReady \/ StillTime
  BY <1>3 DEF CountDown, NotReady, StillTime
<1>4. CASE MoveByte
  BY <1>4 DEF MoveByte, Transfer!Move
<1>5. CASE GiveUp
  BY <1>5 DEF GiveUp, Transfer!Return, Transfer!Decrement
<1>6. CASE Finish
  BY <1>6 DEF Finish, Transfer!Return
<1> QED
  BY <1>1, <1>2, <1>3, <1>4, <1>5, <1>6 DEF Next, Code

\* No byte outside the buffer, and a result that is off by one at most, for every
\* size, FIFO depth and timeout.
THEOREM SpiTransferCorrect == Spec => ImplementsTransfer
BY InitCounting, InitWaiting, CountingStep, WaitingStep, SpiTransferInit, SpiTransferStep, PTL
   DEF Spec, ImplementsTransfer, Transfer!SpecPolled

-----------------------------------------------------------------------------
(* Types, and what the peripheral has shifted out *)

\* Sizes fit TSIZE or spill into TSER; what is left in TSIZE then.
LEMMA Fits == ASSUME NEW n \in Nat, n < Counter PROVE n % Counter = n
BY Z3
LEMMA Spills == ASSUME NEW n \in Nat, Counter <= n, n < 2 * Counter PROVE n % Counter = n - Counter
BY Z3

\* What a call writes into TSIZE and TSER.
LEMMA RegisterSet ==
  ASSUME NEW n \in Sizes, CR2 \in [TSIZE : 0..(Counter - 1), TSER : {0, 1}]
  PROVE  /\ n \in Nat /\ n < 2 * Counter /\ SizeRegister(n) \in [TSIZE : 0..(Counter - 1), TSER : {0, 1}]
         /\ n < Counter => SizeRegister(n).TSIZE = n
         /\ n >= Counter => SizeRegister(n).TSIZE = n - Counter /\ SizeRegister(n).TSER = 1
<1>1. n \in Nat /\ n < 2 * Counter
  OBVIOUS
<1>2. CASE n < Counter
  BY <1>1, <1>2, Fits DEF SizeRegister
<1>3. CASE n >= Counter
  BY <1>1, <1>3, Spills DEF SizeRegister
<1> QED
  BY <1>1, <1>2, <1>3

\* The bytes of the call that have left the FIFO.
Shifted == requested - left - fifo

\* The flags are flags.
Flags == selected \in BOOLEAN /\ SPE \in BOOLEAN /\ EOT \in BOOLEAN /\ cutOff \in BOOLEAN

\* The registers, and that the peripheral runs exactly while a call does.
Registers ==
  /\ CR2 \in [TSIZE : 0..(Counter - 1), TSER : {0, 1}]
  /\ fifo \in 0..FifoDepth
  /\ requested \in Nat /\ requested < 2 * Counter /\ requested <= Word - 1
  /\ timeout \in Timeouts \cup {0} /\ elapsed \in 0..MaxTick
  /\ result \in 0..(Word - 1)
  /\ SPE <=> at # "idle"
  /\ at = "idle" => fifo = 0 /\ ~EOT
  /\ at # "idle" => selected /\ left + fifo <= requested

\* TSIZE and TSER count down what the size put there: a size that fits comes to the
\* end of the transfer with all its bytes shifted, unless a TSER of an earlier call
\* starts another byte; a size that does not fit, with Counter - 1 bytes to go.
Countdown ==
  at # "idle" =>
    /\ requested = 0 => CR2.TSIZE = 0 /\ ~EOT
    /\ 0 < requested /\ requested < Counter =>
         \/ ~EOT /\ CR2.TSIZE = requested - Shifted /\ CR2.TSIZE > 0
         \/ Shifted = requested /\ (EOT <=> CR2.TSIZE = 0) /\ CR2.TSIZE \in {0, 1} /\ CR2.TSER = 0
    /\ requested = Counter => CR2.TSIZE = 0 /\ ~EOT
    /\ requested > Counter =>
         \/ ~EOT /\ CR2.TSER = 1 /\ CR2.TSIZE = requested - Counter - Shifted /\ CR2.TSIZE > 0
         \/ ~EOT /\ CR2.TSER = 0 /\ CR2.TSIZE = 1 /\ Shifted = requested - Counter
         \/ EOT /\ CR2.TSER = 0 /\ CR2.TSIZE = 0 /\ Shifted = requested - Counter + 1

\* As long as no call has given up, the slave has what was shifted since the call.
Heard ==
  /\ heard \in 0..MaxHeard
  /\ ~cutOff => IF at = "idle" THEN ~selected ELSE heard = Shifted

SpiInv == Counting /\ Waiting /\ Flags /\ Registers /\ Countdown /\ Heard

\* The call has moved its last byte, and is ready: nothing is left in the FIFO.
LEMMA EndMeans ==
  ASSUME SpiInv, at = "end", EOT
  PROVE  requested < Counter /\ Shifted = requested /\ fifo = 0
BY DEF SpiInv, Counting, Registers, Countdown, Shifted

LEMMA SpiInvInit == Init => SpiInv
<1> SUFFICES ASSUME Init PROVE SpiInv
  OBVIOUS
<1>1. Counting /\ Waiting
  BY InitCounting, InitWaiting
<1>2. CR2 \in [TSIZE : 0..(Counter - 1), TSER : {0, 1}]
  BY SMT DEF Init
<1>3. Flags
  BY DEF Init, Flags
<1>5. ~SPE /\ ~EOT /\ ~selected
  BY DEF Init
<1>6. Registers
  BY <1>2, <1>5, SMT DEF Init, Registers
<1>4. Countdown /\ Heard
  BY <1>5, SMT DEF Init, Countdown, Heard, MaxHeard
<1> QED
  BY <1>1, <1>3, <1>4, <1>6 DEF SpiInv

\* A byte that is shifted out changes the peripheral and what the slave has heard.
LEMMA ShiftStep ==
  ASSUME SpiInv, Shift
  PROVE  Registers' /\ Countdown' /\ Heard'
<1> USE DEF SpiInv, Shift, callVars
<1>1. /\ at # "idle" /\ selected /\ ~EOT /\ fifo \in 1..FifoDepth /\ fifo' = fifo - 1
      /\ at' = at /\ left' = left /\ requested' = requested /\ left \in Nat /\ requested \in Nat
      /\ cutOff' = cutOff /\ SPE' = SPE /\ selected' = selected
  BY DEF Registers, Counting
<1>2. Shifted' = Shifted + 1 /\ Shifted \in Nat /\ Shifted < requested
  BY <1>1 DEF Shifted, Registers, Counting
<1>3. CASE CR2.TSIZE = 0
  <2>1. UNCHANGED <<CR2, EOT>>
    BY <1>3
  <2> QED
    BY <1>1, <1>2, <1>3, <2>1 DEF Registers, Countdown, Heard, MaxHeard
<1>4. CASE CR2.TSIZE = 1
  <2>1. CR2' = [TSIZE |-> CR2.TSER, TSER |-> 0] /\ (EOT' <=> CR2.TSER = 0)
    <3>1. CR2' = [TSIZE |-> CR2.TSER, TSER |-> 0] /\ EOT' = (CR2.TSER = 0)
      BY <1>4
    <3> QED
      BY <3>1, Zenon
  <2>2. CR2'.TSIZE = CR2.TSER /\ CR2'.TSER = 0 /\ CR2.TSER \in {0, 1}
    BY <2>1 DEF Registers
  <2>3. Registers'
    BY <1>1, <2>1, <2>2 DEF Registers
  <2>4. Countdown'
    <3>1. CASE requested < Counter
      BY <1>1, <1>2, <1>4, <2>1, <2>2, <3>1 DEF Countdown
    <3>2. CASE requested >= Counter
      BY <1>1, <1>2, <1>4, <2>1, <2>2, <3>2 DEF Countdown
    <3> QED
      BY <1>1, <3>1, <3>2
  <2>5. Heard'
    BY <1>1, <1>2 DEF Heard, MaxHeard, Registers
  <2> QED
    BY <2>3, <2>4, <2>5
<1>5. CASE CR2.TSIZE \notin {0, 1}
  <2>1. CR2' = [CR2 EXCEPT !.TSIZE = @ - 1] /\ EOT' = EOT
    BY <1>5
  <2>2. CR2'.TSIZE = CR2.TSIZE - 1 /\ CR2'.TSER = CR2.TSER /\ CR2.TSIZE \in 2..(Counter - 1)
    BY <1>5, <2>1 DEF Registers
  <2>3. Registers'
    BY <1>1, <2>1, <2>2 DEF Registers
  <2>4. Countdown'
    BY <1>1, <1>2, <2>1, <2>2 DEF Countdown
  <2>5. Heard'
    BY <1>1, <1>2 DEF Heard, MaxHeard, Registers
  <2> QED
    BY <2>3, <2>4, <2>5
<1> QED
  BY <1>3, <1>4, <1>5

\* A call sets the size, and starts the slave's message if none was cut off.
LEMMA CallStep ==
  ASSUME SpiInv, Call
  PROVE  Registers' /\ Countdown' /\ Heard'
<1> USE DEF SpiInv
<1>1. PICK n \in Sizes : size' = n
  BY DEF Call
<1>2. /\ at = "idle" /\ at' = "bytes" /\ left' = n /\ requested' = n /\ fifo' = 0 /\ ~EOT'
      /\ SPE' /\ selected' /\ cutOff' = cutOff /\ CR2' = SizeRegister(n)
      /\ timeout' \in Timeouts /\ elapsed' = 0 /\ result' = result
      /\ heard' = (IF selected THEN heard ELSE 0)
  BY <1>1 DEF Call, Registers
<1>3. /\ n \in Nat /\ n < 2 * Counter /\ n <= Word - 1
      /\ CR2' \in [TSIZE : 0..(Counter - 1), TSER : {0, 1}]
      /\ n < Counter => CR2'.TSIZE = n
      /\ n >= Counter => CR2'.TSIZE = n - Counter /\ CR2'.TSER = 1
  BY <1>2, RegisterSet DEF Registers
<1>4. Shifted' = 0
  BY <1>2, <1>3 DEF Shifted
<1>5. Registers'
  <2>2. elapsed' \in 0..MaxTick /\ fifo' \in 0..FifoDepth /\ result' \in 0..(Word - 1)
    BY <1>2, <1>3 DEF Registers
  <2> QED
    BY <1>2, <1>3, <2>2 DEF Registers
<1>6. Countdown'
  BY <1>2, <1>3, <1>4 DEF Countdown
<1>7. Heard'
  BY <1>2, <1>4 DEF Heard, MaxHeard, Registers
<1> QED
  BY <1>5, <1>6, <1>7

\* Flags stay flags.
LEMMA FlagsStep ==
  ASSUME Flags, [Next]_vars
  PROVE  Flags'
<1> USE DEF Flags
<1>1. CASE UNCHANGED vars \/ SysTick
  BY <1>1 DEF vars, spiVars, SysTick
<1>2. CASE Shift
  <2>1. EOT' = EOT \/ EOT' = (CR2.TSER = 0)
    BY <1>2 DEF Shift
  <2> QED
    BY <1>2, <2>1 DEF Shift
<1>3. CASE Call
  BY <1>3 DEF Call
<1>4. CASE CountDown \/ NotReady \/ StillTime \/ MoveByte
  BY <1>4 DEF CountDown, NotReady, StillTime, MoveByte, spiVars
<1>5. CASE GiveUp \/ Finish
  BY <1>5 DEF GiveUp, Finish, SPI_end_transfer
<1> QED
  BY <1>1, <1>2, <1>3, <1>4, <1>5 DEF Next, Code

\* The other steps shift nothing.
LEMMA SpiInvStep ==
  ASSUME SpiInv, [Next]_vars
  PROVE  SpiInv'
<1>1. Counting' /\ Waiting' /\ Flags'
  BY CountingStep, WaitingStep, FlagsStep DEF SpiInv
<1> SUFFICES Registers' /\ Countdown' /\ Heard'
  BY <1>1 DEF SpiInv
<1>2. CASE UNCHANGED vars
  BY <1>2 DEF SpiInv, vars, callVars, spiVars, Registers, Countdown, Heard, Shifted
<1>3. CASE SysTick
  BY <1>3 DEF SpiInv, SysTick, callVars, spiVars, Registers, Countdown, Heard, Shifted
<1>4. CASE Shift
  BY <1>4, ShiftStep
<1>5. CASE Call
  BY <1>5, CallStep
<1>6. CASE CountDown
  BY <1>6 DEF SpiInv, CountDown, spiVars, Registers, Countdown, Heard, Shifted
<1>7. CASE NotReady \/ StillTime
  BY <1>7 DEF SpiInv, NotReady, StillTime, Waiting, Waits, spiVars, Registers, Countdown, Heard, Shifted
<1>8. CASE MoveByte
  <2>1. /\ at = "byte" /\ at' = "bytes" /\ left \in Nat /\ left > 0 /\ left' = left - 1
        /\ fifo \in Nat /\ fifo < FifoDepth /\ fifo' = fifo + 1 /\ requested \in Nat
        /\ UNCHANGED <<requested, timeout, result, elapsed, selected, CR2, SPE, EOT, heard, cutOff>>
    BY <1>8 DEF SpiInv, MoveByte, Ready, Counting, Registers
  <2>2. Shifted' = Shifted
    BY <2>1 DEF Shifted
  <2> QED
    BY <2>1, <2>2 DEF SpiInv, Registers, Countdown, Heard
<1>9. CASE GiveUp
  <2>1. result' \in 0..(Word - 1)
    BY <1>9 DEF SpiInv, GiveUp, Counting
  <2>2. /\ at' = "idle" /\ fifo' = 0 /\ ~EOT' /\ ~SPE' /\ cutOff'
        /\ UNCHANGED <<requested, timeout, elapsed, selected, CR2, heard>>
    BY <1>9 DEF GiveUp, SPI_end_transfer
  <2> QED
    BY <2>1, <2>2 DEF SpiInv, Registers, Countdown, Heard
<1>10. CASE Finish
  <2>1. /\ at' = "idle" /\ fifo' = 0 /\ ~EOT' /\ ~SPE' /\ ~selected' /\ result' = 0
        /\ UNCHANGED <<requested, timeout, elapsed, CR2, heard>>
    BY <1>10 DEF Finish, SPI_end_transfer
  <2> QED
    BY <2>1 DEF SpiInv, Registers, Countdown, Heard
<1> QED
  BY <1>2, <1>3, <1>4, <1>5, <1>6, <1>7, <1>8, <1>9, <1>10 DEF Next, Code

LEMMA SpiInvCorrect == Spec => []SpiInv
BY SpiInvInit, SpiInvStep, PTL DEF Spec

\* Every register, count and flag keeps its type.
THEOREM SpiTypeCorrect == Spec => []TypeOK
<1>1. SpiInv => TypeOK
  BY DEF SpiInv, Counting, Waiting, Waits, Flags, Registers, Heard, TypeOK
<1> QED
  BY <1>1, SpiInvCorrect, PTL

\* A slave that is released has received the buffer of the call, unless a call has
\* given up since it was selected.
THEOREM WholeMessagesCorrect == Spec => WholeMessages
<1>1. ASSUME SpiInv, [Next]_vars
      PROVE  [selected /\ ~selected' => heard = requested \/ cutOff]_vars
  <2> SUFFICES ASSUME selected, ~selected'
               PROVE  heard = requested \/ cutOff
    OBVIOUS
  <2>1. Finish
    BY <1>1 DEF Next, Code, SysTick, Shift, Call, CountDown, NotReady, StillTime, MoveByte, GiveUp,
       vars, spiVars
  <2>2. at = "end" /\ EOT
    BY <2>1 DEF Finish, Ready
  <2> QED
    BY <1>1, <2>2, EndMeans DEF SpiInv, Heard
<1> QED
  BY <1>1, SpiInvCorrect, PTL DEF Spec, WholeMessages

\* A buffer that does not fit TSIZE is never reported as sent: the transfer ends too
\* early for the rest of it to fit the FIFO.
THEOREM TooLongCorrect == Spec => TooLong
<1>1. ASSUME SpiInv, [Next]_vars
      PROVE  [Finish => requested < Counter]_vars
  BY <1>1, EndMeans DEF Finish, Ready
<1> QED
  BY <1>1, SpiInvCorrect, PTL DEF Spec, TooLong

=============================================================================
