-------------------------- MODULE PolledUart_proofs --------------------------
(***************************************************************************)
(* The UART functions return one less than what is left, on every exit,    *)
(* and implement PolledTransfer, for every buffer size, width of the count *)
(* and set of timeouts.                                                    *)
(***************************************************************************)
EXTENDS PolledUart, TLAPS

\* What the code counts down and what is left of the buffer: the same at the head
\* of the loop, and one apart while a byte is being waited for.
SizeCounts ==
  /\ at = "loop" /\ fn # "UART_print" => size = left
  /\ at \in {"poll", "compare"} =>
       /\ left > 0
       /\ fn # "UART_print" => size = left - 1

UartInv == TypeOK /\ SizeCounts

USE UartAssumption DEF Decrement

LEMMA InitUart == Init => UartInv
BY DEF Init, UartInv, TypeOK, SizeCounts, Functions, PrintError

LEMMA LineSteps ==
  ASSUME UartInv, Receive \/ Transmitted \/ SysTick
  PROVE  UartInv'
<1>1. TypeOK'
  <2>1. CASE Receive \/ Transmitted
    <3>1. ISR' \subseteq {"RXNE", "TXE"}
      BY <2>1 DEF UartInv, TypeOK, Receive, Transmitted
    <3> QED
      BY <2>1, <3>1 DEF UartInv, TypeOK, Receive, Transmitted
  <2>2. CASE SysTick
    BY <2>2 DEF UartInv, TypeOK, SysTick
  <2> QED
    BY <2>1, <2>2
<1>2. SizeCounts'
  BY DEF UartInv, SizeCounts, Receive, Transmitted, SysTick
<1> QED
  BY <1>1, <1>2 DEF UartInv

LEMMA CallStep ==
  ASSUME UartInv, Call
  PROVE  UartInv'
<1>1. TypeOK'
  BY DEF UartInv, TypeOK, Call, Functions
<1>2. SizeCounts'
  BY DEF SizeCounts, Call
<1> QED
  BY <1>1, <1>2 DEF UartInv

LEMMA CodeSteps ==
  ASSUME UartInv, Code
  PROVE  UartInv'
<1> USE DEF UartInv, TypeOK, SizeCounts, Functions, PrintError
<1>1. CASE CountDown
  BY <1>1 DEF CountDown
<1>2. CASE NextCharacter
  BY <1>2 DEF NextCharacter
<1>3. CASE MoveByte
  <2>1. ISR' \subseteq {"RXNE", "TXE"}
    BY <1>3 DEF MoveByte
  <2>2. left' = left - 1 /\ left' \in 0..MaxSize
    BY <1>3 DEF MoveByte
  <2> QED
    BY <1>3, <2>1, <2>2 DEF MoveByte
<1>4. CASE NotReady
  BY <1>4 DEF NotReady
<1>5. CASE Compare
  BY <1>5 DEF Compare, TimeoutResult, TimeoutPrinted
<1> QED
  BY <1>1, <1>2, <1>3, <1>4, <1>5 DEF Code

LEMMA UartStep == UartInv /\ [Next]_vars => UartInv'
<1> SUFFICES ASSUME UartInv, [Next]_vars
             PROVE  UartInv'
  OBVIOUS
<1>1. CASE UNCHANGED vars
  BY <1>1 DEF vars, UartInv, TypeOK, SizeCounts
<1> QED
  BY <1>1, LineSteps, CallStep, CodeSteps DEF Next

\* Every variable keeps its type: the count never leaves its width.
THEOREM UartTypeCorrect == Spec => []TypeOK
<1>1. UartInv => TypeOK
  BY DEF UartInv
<1> QED
  BY <1>1, InitUart, UartStep, PTL DEF Spec

\* UART_read and UART_write return one less than what is left, whichever exit they
\* take, for every buffer and timeout.
THEOREM OneShortCorrect == Spec => OneShort
<1>1. UartInv /\ [Next]_vars => [Counts /\ at' = "idle" => result' = Decrement(left)]_vars
  BY DEF UartInv, TypeOK, SizeCounts, Next, vars, Counts, Receive, Transmitted, SysTick, Call,
     Code, CountDown, NextCharacter, MoveByte, NotReady, Compare, TimeoutResult
<1> QED
  BY <1>1, InitUart, UartStep, PTL DEF Spec, OneShort

\* UART_print says OK exactly for a string that has been handed over to its end.
THEOREM PrintedAllCorrect == Spec => PrintedAll
<1>1. UartInv /\ [Next]_vars =>
        [at # "idle" /\ at' = "idle" /\ fn = "UART_print" => (printed' = 0 <=> left = 0)]_vars
  BY DEF UartInv, TypeOK, SizeCounts, Next, vars, Receive, Transmitted, SysTick, Call, Code,
     CountDown, NextCharacter, MoveByte, NotReady, Compare, TimeoutPrinted, PrintError
<1> QED
  BY <1>1, InitUart, UartStep, PTL DEF Spec, PrintedAll

-----------------------------------------------------------------------------
\* The refinement.

LEMMA UartTransferInit == Init => Transfer!InitPolled
BY DEF Init, Transfer!InitPolled, Counts

LEMMA UartTransferStep ==
  UartInv /\ [Next]_vars =>
    [Transfer!Begin \/ Transfer!Move \/ Transfer!Return]_Transfer!polledVars
<1> SUFFICES ASSUME UartInv, [Next]_vars
             PROVE  [Transfer!Begin \/ Transfer!Move \/ Transfer!Return]_Transfer!polledVars
  OBVIOUS
<1> USE DEF Counts, Transfer!polledVars
<1>1. CASE UNCHANGED vars \/ Receive \/ Transmitted \/ SysTick
  BY <1>1 DEF vars, Receive, Transmitted, SysTick
<1>2. CASE Call
  BY <1>2 DEF Call, Transfer!Begin
<1>3. CASE CountDown
  BY <1>3 DEF CountDown, UartInv, SizeCounts, TypeOK, Transfer!Return, Transfer!Decrement
<1>4. CASE NextCharacter \/ NotReady
  BY <1>4 DEF NextCharacter, NotReady
<1>5. CASE MoveByte
  BY <1>5 DEF MoveByte, UartInv, SizeCounts, TypeOK, Transfer!Move
<1>6. CASE Compare
  BY <1>6 DEF Compare, TimeoutResult, UartInv, SizeCounts, TypeOK, Transfer!Return,
     Transfer!Decrement
<1> QED
  BY <1>1, <1>2, <1>3, <1>4, <1>5, <1>6 DEF Next, Code

\* Reading and writing never leave the buffer, and their result is off by one at
\* most, for every size, timeout and width of the count.
THEOREM UartTransferCorrect == Spec => ImplementsTransfer
BY InitUart, UartStep, UartTransferInit, UartTransferStep, PTL
   DEF Spec, ImplementsTransfer, Transfer!SpecPolled

=============================================================================
