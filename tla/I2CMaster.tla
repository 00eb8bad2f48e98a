------------------------------ MODULE I2CMaster ------------------------------
(***************************************************************************)
(* The I2C master of i2c.c: writing and reading, with and without a        *)
(* register address, by polling the flags of the peripheral.  Every wait   *)
(* tests a flag and, while it is clear, compares the time with the         *)
(* timeout; the flag may be set in between.  A transfer of more than one   *)
(* block is continued when the peripheral asks for it (TCR).               *)
(*                                                                         *)
(* The peripheral, with the target at the other end of the bus, and the    *)
(* tick are the environment.  There is no other master.                    *)
(***************************************************************************)
EXTENDS Integers

CONSTANTS Functions,    \* the functions that are called
          Sizes,        \* the sizes they are called with
          RegSizes,     \* sizes of a register address
          Timeouts,     \* timeouts
          Block,        \* 255, the largest NBYTES
          Word,         \* 2^32
          HoldOff,      \* I2C_HOLD_OFF_TIME
          MaxTick       \* ticks since the start of a call are counted up to here

ASSUME I2CAssumption ==
  /\ Functions \subseteq {"write", "read", "write_reg", "read_reg"}
  /\ Block \in Nat \ {0} /\ RegSizes \subseteq 1..(Block - 1)
  /\ Word \in Nat /\ Block < Word /\ Sizes \subseteq 0..(Word - 1 - Block)
  /\ HoldOff \in Nat /\ MaxTick \in 0..(Word - 1)
  /\ Timeouts \subseteq 0..(Word - 1) /\ \A t \in Timeouts : t < MaxTick

VARIABLES
  fn,         \* the function that runs
  at,         \* where: "idle", "hold_off", the head of a loop, or the wait it is in
  polled,     \* the flag was clear, the time has still to be compared
  size, n_bytes, reg,         \* bytes after this block, in it, and of the address
  left,       \* bytes of the buffer that have not been moved
  result,     \* of the last call
  timeout, granted,           \* argument of the function that runs, of the caller
  elapsed, since,             \* tick - start, tick - last
  CR2,        \* NBYTES, RELOAD and RD_WRN
  ISR,        \* flags of the peripheral; BUSY is bus # "free"
  bus, rd, expects,           \* its transfer: state, direction, bytes left in the block
  stale,      \* the byte in RXDR is of a call that has ended
  past        \* history: "read" once a read has timed out, "unfinished" once any call
              \* has before its transfer had ended, "early" once a call has taken the
              \* end of such a transfer for its own

codeVars == <<fn, at, polled>>
countVars == <<size, n_bytes, reg, left, result>>
timeVars == <<timeout, granted, elapsed, since>>
coreVars == <<ISR, bus, rd, expects, stale>>
vars == <<codeVars, countVars, timeVars, CR2, coreVars, past>>

Waits == {"busy", "register", "byte", "reload", "stop"}

Flags == {"TXIS", "RXNE", "TCR", "STOPF"}

CodeOK ==
  /\ fn \in {"write", "read", "write_reg", "read_reg"}
  /\ at \in {"idle", "hold_off", "registers", "bytes"} \cup Waits
  /\ polled \in BOOLEAN /\ (polled => at \in Waits)
CountOK ==
  /\ size \in 0..(Word - 1) /\ n_bytes \in 0..Block /\ reg \in 0..Block
  /\ left \in 0..(Word - 1) /\ result \in 0..(Word - 1)
TimeOK ==
  /\ timeout \in 0..(Word - 1) /\ granted \in 0..(Word - 1)
  /\ elapsed \in 0..MaxTick /\ since \in 0..HoldOff
CoreOK ==
  /\ CR2 \in [NBYTES : 0..Block, RELOAD : BOOLEAN, RD : BOOLEAN]
  /\ ISR \subseteq Flags
  /\ bus \in {"free", "address", "data", "stopping"}
  /\ rd \in BOOLEAN /\ expects \in 0..Block
  /\ stale \in BOOLEAN /\ past \subseteq {"read", "unfinished", "early"}

TypeOK == CodeOK /\ CountOK /\ TimeOK /\ CoreOK

Init ==
  /\ fn = "write" /\ at = "idle" /\ polled = FALSE
  /\ size = 0 /\ n_bytes = 0 /\ reg = 0 /\ left = 0 /\ result = 0
  /\ timeout = 0 /\ granted = 0 /\ elapsed = 0 /\ since = 0
  /\ CR2 = [NBYTES |-> 0, RELOAD |-> FALSE, RD |-> FALSE]
  /\ ISR = {} /\ bus = "free" /\ rd = FALSE /\ expects = 0
  /\ stale = FALSE /\ past = {}

-----------------------------------------------------------------------------
\* The tick, the peripheral and the target.

SysTick ==
  /\ elapsed < MaxTick \/ since < HoldOff
  /\ elapsed' = IF elapsed < MaxTick THEN elapsed + 1 ELSE elapsed
  /\ since' = IF since < HoldOff THEN since + 1 ELSE since
  /\ UNCHANGED <<codeVars, countVars, timeout, granted, CR2, coreVars, past>>

notCore == <<codeVars, countVars, timeVars, CR2, past>>

\* The target answers to its address, or nobody does.
Acknowledge ==
  /\ bus = "address" /\ bus' = "data"
  /\ expects' = CR2.NBYTES
  /\ UNCHANGED <<ISR, rd, stale, notCore>>
Refuse ==
  /\ bus = "address" \/ (bus = "data" /\ ~rd /\ ISR \cap {"TXIS", "TCR"} = {})
  /\ bus' = "stopping" /\ expects' = 0
  /\ UNCHANGED <<ISR, rd, stale, notCore>>

\* The peripheral asks for a byte, or has received one.
AskByte ==
  /\ bus = "data" /\ ~rd /\ expects > 0 /\ "TXIS" \notin ISR
  /\ ISR' = ISR \cup {"TXIS"}
  /\ UNCHANGED <<bus, rd, expects, stale, notCore>>
Receive ==
  /\ bus \in {"data", "stopping"} /\ rd /\ expects > 0 /\ "RXNE" \notin ISR
  /\ ISR' = ISR \cup {"RXNE"} /\ stale' = (bus = "stopping")
  /\ expects' = expects - 1
  /\ UNCHANGED <<bus, rd, notCore>>

\* A block is complete: the peripheral waits for the next, or ends the transfer.
BlockDone ==
  /\ bus = "data" /\ expects = 0 /\ ISR \cap {"TXIS", "TCR"} = {}
  /\ IF CR2.RELOAD THEN ISR' = ISR \cup {"TCR"} /\ UNCHANGED bus
                   ELSE bus' = "stopping" /\ UNCHANGED ISR
  /\ UNCHANGED <<rd, expects, stale, notCore>>

StopDone ==
  /\ bus = "stopping" /\ bus' = "free"
  /\ ISR' = ISR \cup {"STOPF"} /\ expects' = 0
  /\ UNCHANGED <<rd, stale, notCore>>

Core == Acknowledge \/ Refuse \/ AskByte \/ Receive \/ BlockDone \/ StopDone

-----------------------------------------------------------------------------
\* The four functions.

Call ==
  /\ at = "idle" /\ at' = "hold_off"
  /\ fn' \in Functions /\ reg' \in RegSizes
  /\ left' \in Sizes /\ size' = left'
  /\ granted' \in Timeouts /\ timeout' = granted'
  /\ UNCHANGED <<polled, n_bytes, result, elapsed, since, CR2, coreVars, past>>

\* config_tx_size: what a block takes of n bytes, and what that leaves in CR2.  It is
\* set with |=, on an NBYTES of 0 or of a full block.
BlockSize_Unclamped(n) == n
BlockSize(n) == IF n > Block THEN Block ELSE n
config_tx_size(r, n) ==
  [r EXCEPT !.NBYTES = IF @ = 0 THEN BlockSize(n) ELSE @, !.RELOAD = @ \/ n > Block]

\* reset_tx, which leaves NBYTES and RELOAD at 0, and config_tx.
reset_tx_KeepsDirection == [NBYTES |-> 0, RELOAD |-> FALSE, RD |-> CR2.RD \/ fn = "read"]
reset_tx == [NBYTES |-> 0, RELOAD |-> FALSE, RD |-> fn = "read"]
ResetFlags_Forgotten == {}
ResetFlags == {"STOPF"}

\* The bytes of the transfer: a register address counts.
Total == IF fn = "write_reg" THEN size + reg ELSE size

\* After the hold-off time the transfer is set up.  read_reg starts with a transfer
\* of the address alone; its size waits.
SetUp ==
  /\ at = "hold_off" /\ since = HoldOff /\ at' = "busy"
  /\ elapsed' = 0
  /\ ISR' = ISR \ ResetFlags
  /\ IF fn = "read_reg"
     THEN /\ CR2' = [reset_tx EXCEPT !.NBYTES = reg]
          /\ n_bytes' = 0 /\ UNCHANGED size
     ELSE /\ CR2' = config_tx_size(reset_tx, Total)
          /\ n_bytes' = BlockSize(Total) - (IF fn = "write_reg" THEN reg ELSE 0)
          /\ size' = Total - BlockSize(Total)
  /\ UNCHANGED <<fn, polled, reg, left, result, timeout, granted, since, bus, rd, expects,
                 stale, past>>

\* The condition each wait is for.
Ready ==
  CASE at = "busy" -> bus = "free"
    [] at = "register" -> "TXIS" \in ISR
    [] at = "byte" -> (IF fn = "read" THEN "RXNE" ELSE "TXIS") \in ISR
    [] at = "reload" -> "TCR" \in ISR
    [] at = "stop" -> "STOPF" \in ISR
    [] OTHER -> FALSE

NotReady_KeepsPolling ==
  /\ at \in Waits /\ ~polled /\ ~Ready
  /\ UNCHANGED vars
NotReady ==
  /\ at \in Waits /\ ~polled /\ ~Ready
  /\ polled' = TRUE
  /\ UNCHANGED <<fn, at, countVars, timeVars, CR2, coreVars, past>>

StillTime ==
  /\ polled /\ elapsed <= timeout
  /\ polled' = FALSE
  /\ UNCHANGED <<fn, at, countVars, timeVars, CR2, coreVars, past>>

\* What is left according to the code.
Unprocessed_ThisBlock == IF at = "stop" THEN 0 ELSE n_bytes
Unprocessed == IF at = "stop" THEN 0 ELSE size + n_bytes

\* CR2.STOP, on giving up: the current transfer ends after the byte it is at.
BusAfterStop_Forgotten == bus
BusAfterStop == IF bus \in {"address", "data"} THEN "stopping" ELSE bus

\* The timeout has passed.  When START has not been set, the bus and last are left alone.
GiveUp ==
  /\ polled /\ elapsed > timeout
  /\ polled' = FALSE /\ at' = "idle"
  /\ result' = Unprocessed
  /\ IF at = "busy"
     THEN UNCHANGED <<bus, ISR, since>>
     ELSE /\ bus' = BusAfterStop
          /\ ISR' = IF bus \in {"address", "data"} THEN ISR \ {"TXIS", "TCR"} ELSE ISR
          /\ since' = 0
  /\ stale' = (stale \/ "RXNE" \in ISR)
  /\ past' = past \cup (IF fn = "read" THEN {"read"} ELSE {})
                      \cup (IF bus # "free" THEN {"unfinished"} ELSE {})
  /\ UNCHANGED <<fn, size, n_bytes, reg, left, timeout, granted, elapsed, CR2, rd, expects>>

\* CR2.START
Start ==
  /\ at = "busy" /\ ~polled /\ Ready
  /\ at' = IF fn \in {"write_reg", "read_reg"} THEN "registers" ELSE "bytes"
  /\ bus' = "address" /\ rd' = CR2.RD /\ expects' = 0
  /\ UNCHANGED <<fn, polled, countVars, timeVars, CR2, ISR, stale, past>>

\* `while (reg_address_size--)`, its last decrement ignored as nothing reads it.
NextRegister ==
  /\ at = "registers"
  /\ IF reg > 0 THEN at' = "register" /\ reg' = reg - 1
                ELSE at' = (IF fn = "read_reg" THEN "stop" ELSE "bytes") /\ UNCHANGED reg
  /\ UNCHANGED <<fn, polled, size, n_bytes, left, result, timeVars, CR2, coreVars, past>>

WriteRegister ==
  /\ at = "register" /\ ~polled /\ Ready /\ at' = "registers"
  /\ ISR' = ISR \ {"TXIS"} /\ expects' = expects - 1
  /\ UNCHANGED <<fn, polled, countVars, timeVars, CR2, bus, rd, stale, past>>

\* `while (n_bytes--)`, which leaves n_bytes at 255.
NextByte_DoWhile ==
  /\ at = "bytes" /\ at' = "byte"
  /\ n_bytes' = IF n_bytes > 0 THEN n_bytes - 1 ELSE Block
  /\ UNCHANGED <<fn, polled, size, reg, left, result, timeVars, CR2, coreVars, past>>
NextByte ==
  /\ at = "bytes"
  /\ IF n_bytes > 0 THEN at' = "byte" /\ n_bytes' = n_bytes - 1
                    ELSE at' = "stop" /\ n_bytes' = Block
  /\ UNCHANGED <<fn, polled, size, reg, left, result, timeVars, CR2, coreVars, past>>

\* TXDR is written or RXDR read, either of which clears the flag.
MoveByte ==
  /\ at = "byte" /\ ~polled /\ Ready
  /\ at' = IF n_bytes = 0 /\ size > 0 THEN "reload" ELSE "bytes"
  /\ left' = left - 1
  /\ IF fn = "read" THEN ISR' = ISR \ {"RXNE"} /\ stale' = FALSE /\ UNCHANGED expects
                    ELSE ISR' = ISR \ {"TXIS"} /\ expects' = expects - 1 /\ UNCHANGED stale
  /\ UNCHANGED <<fn, polled, size, n_bytes, reg, result, timeVars, CR2, bus, rd, past>>

\* The next block: writing NBYTES clears TCR and lets the transfer go on.
Reload ==
  /\ at = "reload" /\ ~polled /\ Ready /\ at' = "bytes"
  /\ CR2' = config_tx_size(CR2, size)
  /\ n_bytes' = BlockSize(size) /\ size' = size - BlockSize(size)
  /\ ISR' = ISR \ {"TCR"} /\ expects' = CR2'.NBYTES
  /\ UNCHANGED <<fn, polled, reg, left, result, timeVars, bus, rd, stale, past>>

\* What read_reg leaves to the read it ends with: an unsigned difference.
TimeLeft == IF elapsed <= timeout THEN timeout - elapsed ELSE Word + timeout - elapsed

\* The transfer has ended.  read_reg goes on as read; the others return.
Stopped ==
  /\ at = "stop" /\ ~polled /\ Ready
  /\ ISR' = ISR \ {"STOPF"} /\ stale' = (stale \/ "RXNE" \in ISR)
  /\ past' = past \cup (IF bus # "free" THEN {"early"} ELSE {})
  /\ IF fn = "read_reg"
     THEN /\ fn' = "read" /\ at' = "hold_off" /\ timeout' = TimeLeft
          /\ UNCHANGED <<result, since>>
     ELSE /\ at' = "idle" /\ result' = 0 /\ since' = 0
          /\ UNCHANGED <<fn, timeout>>
  /\ UNCHANGED <<polled, size, n_bytes, reg, left, granted, elapsed, CR2, bus, rd, expects>>

Code ==
  \/ SetUp \/ NotReady \/ StillTime \/ GiveUp \/ Start \/ NextRegister \/ WriteRegister
  \/ NextByte \/ MoveByte \/ Reload \/ Stopped

Next == SysTick \/ Core \/ Call \/ Code

Spec == Init /\ [][Next]_vars

\* A call goes on, and so does the time.
FairSpec == Spec /\ WF_vars(Code) /\ WF_vars(SysTick)

-----------------------------------------------------------------------------
\* Properties.

Returns == at # "idle" /\ at' = "idle"

\* The comment on all four functions (i2c.c 143, 167, 195, 229): "-> n unprocessed".
NUnprocessed == [][Returns => result' = left]_vars

\* What they return is that, or one less when a byte was being waited for.  The one
\* exception is a register read whose address never ended: it returns 0.
OffByOne ==
  [][Returns => \/ result' = left
                \/ at = "byte" /\ result' = left - 1
                \/ at = "stop" /\ fn = "read_reg" /\ result' = 0]_vars

\* A call that has seen its transfer end returns on a free bus: STOPF is its own, as
\* long as no call has been given up in the middle of a transfer.
EndedOnBus == [][Stopped /\ bus # "free" => "unfinished" \in past]_vars

\* A read returns the bytes the target sent for it, as long as no earlier call has
\* left one in RXDR: a read that timed out, or a call that returned early.
FreshBytes == [][MoveByte /\ fn = "read" /\ stale => past \cap {"read", "early"} # {}]_vars

\* RELOAD is never cleared for the last block, so the end of a read of several blocks
\* is never seen: it takes all of its timeout.
LongReadTimesOut ==
  [][Stopped /\ fn = "read" /\ CR2.RELOAD => "unfinished" \in past]_vars

\* The time left for the second half of a register read has wrapped.
TimeWrapped == timeout > granted

\* A call returns, whatever the target does.
CallReturns == at # "idle" ~> at = "idle" \/ TimeWrapped

\* If the target answers, one way or the other, the bus does not stay taken, whatever
\* the timeouts are, as long as no call returns early: the next one would change CR2
\* under a transfer, and it gives up without a STOP when the bus is busy.
BusReleased == WF_vars(Core) => (bus # "free" ~> bus = "free" \/ TimeWrapped \/ "early" \in past)

\* The calls are polled transfers: no byte outside the buffer, and a result that is
\* off by one at most, except for the address half of a register read.
Transfer ==
  INSTANCE PolledTransfer WITH excused <- fn = "read_reg", calling <- at # "idle",
                               MaxSize <- Word - 1,
                               left <- IF at # "idle" THEN left ELSE 0
ImplementsTransfer == Transfer!SpecPolled

=============================================================================
