----------------------------- MODULE FlashDriver -----------------------------
(***************************************************************************)
(* ospi.c and W25Q64.c: the initialisation of the flash chip, a sequence   *)
(* of OSPI_transmit and OSPI_test_receive.                                 *)
(*                                                                         *)
(* What OSPI_transmit programs decides what the peripheral does and which  *)
(* flags it raises; here each flag may have any value whenever it is read, *)
(* and what holds, holds whatever the peripheral and the chip do.          *)
(* OSPI_transmit gives up when its timeout has passed, OSPI_test_receive   *)
(* does not.  delay_ms between the calls only takes time.                  *)
(***************************************************************************)
EXTENDS Integers, Sequences

CONSTANTS Word,       \* results are uint32_t
          Byte,       \* the count of OSPI_test_receive is a uint8_t
          Timeout,    \* 100 in W25Q64.c
          MaxTick     \* ticks since the call are counted up to here

ASSUME FlashAssumption == Byte \in Nat \ {0} /\ Timeout < MaxTick

\* A transmission of n bytes of data; a reception into a variable that ends after
\* room bytes.
Transmit(n) == [function |-> "OSPI_transmit", size |-> n, room |-> 0]
Receive(n) == [function |-> "OSPI_test_receive", size |-> 0, room |-> n]

W25Q64_id == <<Transmit(0), Receive(1)>>
W25Q64_stat == <<Transmit(0), Receive(3), Transmit(0), Receive(2), Transmit(0), Receive(1)>>
W25Q64_SR_write_enable == <<Transmit(0)>>
W25Q64_write_disable == <<Transmit(0)>>
W25Q64_quad_enable ==
  <<Transmit(0), Receive(1)>> \o W25Q64_SR_write_enable \o <<Transmit(1)>> \o W25Q64_write_disable
W25Q64_init(QE) ==
  W25Q64_id \o W25Q64_stat \o (IF QE THEN <<>> ELSE W25Q64_quad_enable) \o W25Q64_stat

VARIABLES
  script,     \* the calls to come, the one that runs included
  at,         \* "idle", the head of a loop, or the wait for a flag
  polled,     \* the flag was not as hoped, the time has still to be compared
  i,          \* bytes written, or stored
  cnt,        \* what OSPI_test_receive counts down
  DLR,        \* the register: what the last transmission that was not refused wrote
  elapsed,    \* tick - start
  result,
  refusals    \* history: transmissions in a row that found the peripheral busy

vars == <<script, at, polled, i, cnt, DLR, elapsed, result, refusals>>

TransmitWaits == {"BUSY", "FTF_clear", "TCF_clear"}
ReceiveWaits == {"FTF_or_TCF", "TCF"}

Init ==
  /\ script \in {W25Q64_init(QE) : QE \in BOOLEAN} /\ at = "idle" /\ polled = FALSE
  /\ i = 0 /\ cnt = 0 /\ DLR = 0 /\ elapsed = 0 /\ result = 0 /\ refusals = 0

SysTick ==
  /\ at # "idle" /\ elapsed < MaxTick
  /\ elapsed' = elapsed + 1
  /\ UNCHANGED <<script, at, polled, i, cnt, DLR, result, refusals>>

Calls(function) == at = "idle" /\ script # <<>> /\ Head(script).function = function
Returns(value) == at' = "idle" /\ script' = Tail(script) /\ result' = value /\ polled' = FALSE

-----------------------------------------------------------------------------
\* OSPI_transmit

OSPI_transmit ==
  /\ Calls("OSPI_transmit")
  /\ at' = "BUSY" /\ i' = 0 /\ elapsed' = 0
  /\ UNCHANGED <<script, polled, cnt, DLR, result, refusals>>

\* A poll that finds BUSY, FTF or TCF set, and the comparison of the time.
NotReady_KeepsPolling ==
  /\ at \in TransmitWaits /\ ~polled
  /\ UNCHANGED vars
NotReady ==
  /\ at \in TransmitWaits /\ ~polled
  /\ polled' = TRUE
  /\ UNCHANGED <<script, at, i, cnt, DLR, elapsed, result, refusals>>
StillTime ==
  /\ polled /\ elapsed <= Timeout /\ polled' = FALSE
  /\ UNCHANGED <<script, at, i, cnt, DLR, elapsed, result, refusals>>
GiveUp ==
  /\ polled /\ elapsed > Timeout
  /\ Returns(IF at = "FTF_clear" THEN Head(script).size - i ELSE Word - 1)
  /\ refusals' = IF at = "BUSY" THEN refusals + 1 ELSE refusals
  /\ UNCHANGED <<i, cnt, DLR, elapsed>>

\* The peripheral is ready: the registers are written, DLR with the size.
Program ==
  /\ at = "BUSY" /\ ~polled
  /\ DLR' = Head(script).size /\ refusals' = 0
  /\ at' = IF Head(script).size = 0 THEN "TCF_clear" ELSE "FTF_clear"
  /\ UNCHANGED <<script, polled, i, cnt, elapsed, result>>
WriteByte ==
  /\ at = "FTF_clear" /\ ~polled
  /\ i' = i + 1
  /\ at' = IF i' < Head(script).size THEN "FTF_clear" ELSE "TCF_clear"
  /\ UNCHANGED <<script, polled, cnt, DLR, elapsed, result, refusals>>
Transmitted ==
  /\ at = "TCF_clear" /\ ~polled
  /\ Returns(0)
  /\ UNCHANGED <<i, cnt, DLR, elapsed, refusals>>

-----------------------------------------------------------------------------
\* OSPI_test_receive: as many bytes as DLR says, and one.

OSPI_test_receive ==
  /\ Calls("OSPI_test_receive")
  /\ cnt' = (DLR + 1) % Byte
  /\ at' = "FTF_or_TCF" /\ i' = 0 /\ elapsed' = 0
  /\ UNCHANGED <<script, polled, DLR, result, refusals>>
ReadByte_PostDecrement ==
  /\ at = "FTF_or_TCF"
  /\ i' = i + 1
  /\ cnt' = (cnt + Byte - 1) % Byte
  /\ at' = IF cnt = 0 THEN "TCF" ELSE "FTF_or_TCF"
  /\ UNCHANGED <<script, polled, DLR, elapsed, result, refusals>>
ReadByte ==
  /\ at = "FTF_or_TCF"
  /\ i' = i + 1
  /\ cnt' = (cnt + Byte - 1) % Byte
  /\ at' = IF cnt' = 0 THEN "TCF" ELSE "FTF_or_TCF"
  /\ UNCHANGED <<script, polled, DLR, elapsed, result, refusals>>
Received ==
  /\ at = "TCF"
  /\ Returns(0)
  /\ UNCHANGED <<i, cnt, DLR, elapsed, refusals>>

\* The code of OSPI_transmit; OSPI_test_receive goes on when a flag lets it.
Code == OSPI_transmit \/ OSPI_test_receive \/ NotReady \/ StillTime \/ GiveUp

Next == SysTick \/ Code \/ Program \/ WriteByte \/ Transmitted \/ ReadByte \/ Received

Spec == Init /\ [][Next]_vars

\* The code runs and the time passes; no flag need ever be as hoped.
FairSpec == Spec /\ WF_vars(Code) /\ WF_vars(SysTick)

-----------------------------------------------------------------------------
\* Properties.

\* A reception stores within its variable (W25Q64.c 20, 32 to 38, 77), although it
\* takes the number of bytes from a register that the transmission before it may not
\* have written: the one transmission of data would have to be followed by four, the
\* write-disable and all three of W25Q64_stat, that find the peripheral busy.
ReadFits == at \in ReceiveWaits /\ i > Head(script).room => refusals >= 4

\* The initialisation ends, whatever the flags do, unless a reception waits for ever:
\* the timeouts of OSPI_transmit are the only ones.
OnlyReadsHang == <>(script = <<>>) \/ <>[](at \in ReceiveWaits)

=============================================================================
