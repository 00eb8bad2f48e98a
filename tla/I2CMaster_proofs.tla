--------------------------- MODULE I2CMaster_proofs ---------------------------
(***************************************************************************)
(* What the I2C functions return, which bytes a read receives, and that    *)
(* they implement PolledTransfer, for every block size, width, size of     *)
(* buffer, register and timeout.                                           *)
(***************************************************************************)
EXTENDS I2CMaster, TLAPS

\* The count of the code against what is left of the buffer, wait by wait.
Counting ==
  /\ at = "hold_off" => size = left /\ size <= Word - 1 - Block
  /\ at = "hold_off" /\ fn = "write_reg" => reg < Block
  /\ at \in {"busy", "registers", "register"} => size + n_bytes = left
  /\ at \in {"busy", "registers", "register"} /\ fn = "read_reg" => n_bytes = 0
  /\ at \in {"busy", "registers", "register", "bytes"} /\ fn # "read_reg" =>
       (n_bytes = 0 => size = 0)
  /\ at \in {"bytes", "byte", "reload"} => fn # "read_reg"
  /\ at = "bytes" => size + n_bytes = left
  /\ at = "byte" => size + n_bytes = left - 1
  /\ at = "reload" => size = left /\ n_bytes = 0 /\ size > 0
  /\ at = "stop" => left = (IF fn = "read_reg" THEN size ELSE 0)
  /\ at # "idle" /\ fn = "read_reg" => size <= Word - 1 - Block

\* The peripheral asks for a byte only when its block has one left, and for a block
\* only when it has none.
Asking ==
  /\ "TXIS" \in ISR => bus = "data" /\ ~rd /\ expects > 0
  /\ "TCR" \in ISR => bus = "data" /\ expects = 0

I2CInv == TypeOK /\ Counting /\ Asking

USE I2CAssumption

LEMMA BlockSizeType ==
  ASSUME NEW n \in Nat
  PROVE  /\ BlockSize(n) \in 0..Block /\ BlockSize(n) <= n
         /\ BlockSize(n) = 0 => n = 0
         /\ n > BlockSize(n) => BlockSize(n) = Block
BY DEF BlockSize

LEMMA SizeRegisterType ==
  ASSUME NEW r \in [NBYTES : 0..Block, RELOAD : BOOLEAN, RD : BOOLEAN], NEW n \in Nat
  PROVE  config_tx_size(r, n) \in [NBYTES : 0..Block, RELOAD : BOOLEAN, RD : BOOLEAN]
<1>1. BlockSize(n) \in 0..Block
  BY BlockSizeType
<1>2. (n > Block) \in BOOLEAN
  OBVIOUS
<1> QED
  BY <1>1, <1>2 DEF config_tx_size

LEMMA InitI2C == Init => I2CInv
<1> SUFFICES ASSUME Init
             PROVE  I2CInv
  OBVIOUS
<1>1. CodeOK
  BY DEF Init, CodeOK
<1>2. CountOK /\ TimeOK
  BY DEF Init, CountOK, TimeOK
<1>3. ISR \subseteq Flags /\ past \subseteq {"read", "unfinished", "early"}
  BY DEF Init
<1>4. CR2 \in [NBYTES : 0..Block, RELOAD : BOOLEAN, RD : BOOLEAN]
  BY DEF Init
<1>5. CoreOK
  BY <1>3, <1>4 DEF Init, CoreOK
<1>6. Counting /\ Asking
  BY DEF Init, Counting, Asking
<1> QED
  BY <1>1, <1>2, <1>5, <1>6 DEF I2CInv, TypeOK

-----------------------------------------------------------------------------
\* The tick and the peripheral.

LEMMA TickStep ==
  ASSUME I2CInv, SysTick
  PROVE  I2CInv'
<1> USE DEF SysTick, codeVars, countVars, coreVars
<1>1. CodeOK' /\ CountOK' /\ CoreOK'
  BY DEF I2CInv, TypeOK, CodeOK, CountOK, CoreOK
<1>2. TimeOK'
  BY DEF I2CInv, TypeOK, TimeOK
<1>3. Counting' /\ Asking'
  BY DEF I2CInv, Counting, Asking
<1> QED
  BY <1>1, <1>2, <1>3 DEF I2CInv, TypeOK

LEMMA CoreStep ==
  ASSUME I2CInv, Core
  PROVE  I2CInv'
<1>1. UNCHANGED notCore /\ UNCHANGED rd
  BY DEF Core, Acknowledge, Refuse, AskByte, Receive, BlockDone, StopDone
<1>2. CodeOK' /\ CountOK' /\ TimeOK' /\ Counting'
  BY <1>1 DEF I2CInv, TypeOK, CodeOK, CountOK, TimeOK, Counting, notCore, codeVars, countVars,
     timeVars
<1>3. ISR' \subseteq Flags
  <2>1. ISR' \in {ISR, ISR \cup {"TXIS"}, ISR \cup {"RXNE"}, ISR \cup {"TCR"},
                ISR \cup {"STOPF"}}
    BY DEF Core, Acknowledge, Refuse, AskByte, Receive, BlockDone, StopDone
  <2>2. ISR \subseteq Flags
    BY DEF I2CInv, TypeOK, CoreOK
  <2>3. \A f \in Flags : ISR \cup {f} \subseteq Flags
    BY <2>2
  <2>4. /\ "TXIS" \in Flags /\ "RXNE" \in Flags
        /\ "TCR" \in Flags /\ "STOPF" \in Flags
    BY DEF Flags
  <2> QED
    BY <2>1, <2>2, <2>3, <2>4
<1>4. /\ bus' \in {"free", "address", "data", "stopping"}
      /\ expects' \in 0..Block /\ stale' \in BOOLEAN
  <2> USE DEF I2CInv, TypeOK, CoreOK
  <2>1. CASE Acknowledge
    BY <2>1 DEF Acknowledge
  <2>2. CASE Refuse \/ AskByte \/ StopDone
    BY <2>2 DEF Refuse, AskByte, StopDone
  <2>3. CASE Receive
    <3>1. stale' \in BOOLEAN
      BY <2>3 DEF Receive
    <3>2. expects' \in 0..Block /\ bus' = bus
      BY <2>3 DEF Receive
    <3> QED
      BY <3>1, <3>2
  <2>4. CASE BlockDone
    BY <2>4 DEF BlockDone
  <2> QED
    BY <2>1, <2>2, <2>3, <2>4 DEF Core
<1>5. CoreOK'
  BY <1>1, <1>3, <1>4 DEF I2CInv, TypeOK, CoreOK, notCore
<1>6. Asking'
  BY <1>1 DEF Core, Acknowledge, Refuse, AskByte, Receive, BlockDone, StopDone, I2CInv, TypeOK,
     CoreOK, Asking
<1> QED
  BY <1>2, <1>5, <1>6 DEF I2CInv, TypeOK

-----------------------------------------------------------------------------
\* The code: its own variables first, then the peripheral's.

LEMMA CallStep ==
  ASSUME I2CInv, Call
  PROVE  I2CInv'
<1>1. CodeOK' /\ CountOK' /\ TimeOK'
  BY DEF Call, I2CInv, TypeOK, CodeOK, CountOK, TimeOK, Waits
<1>2. CoreOK' /\ Asking'
  BY DEF Call, I2CInv, TypeOK, CoreOK, Asking, coreVars
<1>3. Counting'
  BY DEF Call, Counting
<1> QED
  BY <1>1, <1>2, <1>3 DEF I2CInv, TypeOK

LEMMA SetUpStep ==
  ASSUME I2CInv, SetUp
  PROVE  I2CInv'
<1> USE DEF I2CInv, TypeOK
<1>1. CodeOK' /\ TimeOK'
  BY DEF SetUp, CodeOK, TimeOK, Waits
<1>2. Total \in Nat /\ Total < Word /\ (fn = "write_reg" => Total >= reg /\ reg < Block)
      /\ Total = size + (IF fn = "write_reg" THEN reg ELSE 0)
  BY DEF SetUp, Total, CountOK, Counting
<1>3. BlockSize(Total) \in 0..Block /\ BlockSize(Total) <= Total
      /\ (Total > BlockSize(Total) => BlockSize(Total) = Block)
  BY <1>2, BlockSizeType
<1>4. CASE fn = "read_reg"
  <2>1. CountOK' /\ Counting'
    BY <1>4 DEF SetUp, CountOK, Counting
  <2>2. CR2' \in [NBYTES : 0..Block, RELOAD : BOOLEAN, RD : BOOLEAN]
    BY <1>4 DEF SetUp, CountOK, reset_tx
  <2> QED
    BY <1>1, <2>1, <2>2 DEF SetUp, CoreOK, Asking, ResetFlags
<1>5. CASE fn # "read_reg"
  <2> DEFINE address == IF fn = "write_reg" THEN reg ELSE 0
  <2>1. n_bytes' = BlockSize(Total) - address /\ size' = Total - BlockSize(Total)
    BY <1>5 DEF SetUp
  <2>2. address \in Nat /\ address <= BlockSize(Total) /\ (Total > Block => address < Block)
    BY <1>2, <1>3 DEF CountOK, BlockSize
  <2>3. CountOK'
    BY <1>2, <1>3, <2>1, <2>2 DEF SetUp, CountOK
  <2>4. size' + n_bytes' = left /\ (n_bytes' = 0 => size' = 0)
    BY <1>2, <1>3, <2>1, <2>2 DEF SetUp, CountOK, Counting
  <2>5. Counting'
    BY <1>5, <2>4 DEF SetUp, Counting
  <2>6. reset_tx \in [NBYTES : 0..Block, RELOAD : BOOLEAN, RD : BOOLEAN]
    BY DEF reset_tx
  <2>7. CR2' \in [NBYTES : 0..Block, RELOAD : BOOLEAN, RD : BOOLEAN]
    BY <1>2, <1>5, <2>6, SizeRegisterType DEF SetUp
  <2> QED
    BY <1>1, <2>3, <2>5, <2>7 DEF SetUp, CoreOK, Asking, ResetFlags
<1> QED
  BY <1>4, <1>5

\* The steps that change neither the counts nor the peripheral's registers.
LEMMA WaitingSteps ==
  ASSUME I2CInv, NotReady \/ StillTime
  PROVE  I2CInv'
<1> USE DEF NotReady, StillTime, countVars, timeVars, coreVars
<1>1. CodeOK' /\ CountOK' /\ TimeOK' /\ CoreOK'
  BY DEF I2CInv, TypeOK, CodeOK, CountOK, TimeOK, CoreOK
<1>2. Counting' /\ Asking'
  BY DEF I2CInv, Counting, Asking
<1> QED
  BY <1>1, <1>2 DEF I2CInv, TypeOK

\* What giving up returns.
LEMMA UnprocessedValue ==
  ASSUME I2CInv, at \in Waits
  PROVE  /\ Unprocessed \in 0..(Word - 1)
         /\ \/ Unprocessed = left
            \/ at = "byte" /\ Unprocessed = left - 1 /\ left > 0
            \/ at = "stop" /\ fn = "read_reg" /\ Unprocessed = 0
BY DEF I2CInv, TypeOK, CodeOK, CountOK, Counting, Unprocessed, Waits

LEMMA GiveUpStep ==
  ASSUME I2CInv, GiveUp
  PROVE  I2CInv'
<1> USE DEF I2CInv, TypeOK
<1>1. at \in Waits
  BY DEF GiveUp, CodeOK
<1>2. CodeOK' /\ CountOK'
  BY <1>1, UnprocessedValue DEF GiveUp, CodeOK, CountOK
<1>3. TimeOK' /\ Counting'
  BY DEF GiveUp, TimeOK, Counting
<1>4. ISR' \subseteq Flags /\ bus' \in {"free", "address", "data", "stopping"}
  BY DEF GiveUp, CoreOK, BusAfterStop
<1>5. stale' \in BOOLEAN /\ past' \subseteq {"read", "unfinished", "early"}
  BY DEF GiveUp, CoreOK
<1>6. CoreOK'
  BY <1>4, <1>5 DEF GiveUp, CoreOK
<1>7. Asking'
  BY DEF GiveUp, Asking, BusAfterStop, CoreOK
<1> QED
  BY <1>2, <1>3, <1>6, <1>7

LEMMA AddressSteps ==
  ASSUME I2CInv, Start \/ NextRegister \/ WriteRegister \/ NextByte
  PROVE  I2CInv'
<1> USE DEF I2CInv, TypeOK
<1>1. CASE Start
  BY <1>1 DEF Start, Ready, CodeOK, CountOK, TimeOK, CoreOK, Counting, Asking, Waits, countVars,
     timeVars
<1>2. CASE NextRegister
  BY <1>2 DEF NextRegister, CodeOK, CountOK, TimeOK, CoreOK, Counting, Asking, Waits, timeVars,
     coreVars
<1>3. CASE WriteRegister
  <2>1. "TXIS" \in ISR /\ ISR' \subseteq Flags
    BY <1>3 DEF WriteRegister, Ready, CoreOK
  <2>2. CoreOK' /\ Asking'
    BY <1>3, <2>1 DEF WriteRegister, CoreOK, Asking
  <2> QED
    BY <1>3, <2>2 DEF WriteRegister, CodeOK, CountOK, TimeOK, Counting, Waits, countVars,
     timeVars
<1>4. CASE NextByte
  BY <1>4 DEF NextByte, CodeOK, CountOK, TimeOK, CoreOK, Counting, Asking, Waits, timeVars,
     coreVars
<1> QED
  BY <1>1, <1>2, <1>3, <1>4

LEMMA MoveStep ==
  ASSUME I2CInv, MoveByte
  PROVE  I2CInv' /\ left > 0
<1> USE DEF I2CInv, TypeOK
<1>1. left > 0 /\ left' = left - 1 /\ size + n_bytes = left'
  BY DEF MoveByte, Counting, CountOK
<1>2. CodeOK' /\ CountOK' /\ TimeOK'
  BY <1>1 DEF MoveByte, CodeOK, CountOK, TimeOK, Waits, timeVars
<1>3. Counting'
  BY <1>1 DEF MoveByte, Counting, CountOK
<1>4. ISR' \subseteq Flags
  BY DEF MoveByte, CoreOK
<1>5. fn # "read" => "TXIS" \in ISR
  BY DEF MoveByte, Ready
<1>6. CASE fn = "read"
  <2>1. CoreOK'
    BY <1>4, <1>6 DEF MoveByte, CoreOK
  <2>2. Asking'
    BY <1>6 DEF MoveByte, Asking
  <2> QED
    BY <1>1, <1>2, <1>3, <2>1, <2>2
<1>7. CASE fn # "read"
  <2>1. bus = "data" /\ ~rd /\ expects > 0 /\ "TCR" \notin ISR
    BY <1>5, <1>7 DEF Asking
  <2>2. expects' = expects - 1 /\ expects' \in 0..Block
    BY <1>7, <2>1 DEF MoveByte, CoreOK
  <2>3. CoreOK'
    BY <1>4, <1>7, <2>2 DEF MoveByte, CoreOK
  <2>4. "TXIS" \notin ISR' /\ "TCR" \notin ISR'
    BY <1>7, <2>1 DEF MoveByte
  <2>5. Asking'
    BY <2>4 DEF Asking
  <2> QED
    BY <1>1, <1>2, <1>3, <2>3, <2>5
<1> QED
  BY <1>6, <1>7

LEMMA ReloadStep ==
  ASSUME I2CInv, Reload
  PROVE  I2CInv'
<1> USE DEF I2CInv, TypeOK
<1>1. size \in Nat /\ BlockSize(size) \in 0..Block /\ BlockSize(size) <= size
      /\ BlockSize(size) > 0
  BY BlockSizeType DEF CountOK, Reload, Counting
<1>2. CodeOK' /\ CountOK' /\ TimeOK'
  BY <1>1 DEF Reload, CodeOK, CountOK, TimeOK, Waits, timeVars
<1>3. Counting'
  BY <1>1 DEF Reload, Counting, CountOK
<1>4. CR2' \in [NBYTES : 0..Block, RELOAD : BOOLEAN, RD : BOOLEAN]
  BY <1>1, SizeRegisterType DEF Reload, CoreOK
<1>5. ISR' \subseteq Flags /\ "TCR" \in ISR
  BY DEF Reload, Ready, CoreOK
<1>6. CoreOK' /\ Asking'
  BY <1>4, <1>5 DEF Reload, CoreOK, Asking
<1> QED
  BY <1>2, <1>3, <1>6

LEMMA StoppedStep ==
  ASSUME I2CInv, Stopped
  PROVE  I2CInv'
<1> USE DEF I2CInv, TypeOK
<1>1. TimeLeft \in 0..(Word - 1)
  BY DEF TimeOK, TimeLeft
<1>2. CodeOK' /\ CountOK' /\ TimeOK'
  BY <1>1 DEF Stopped, CodeOK, CountOK, TimeOK, Waits
<1>3. Counting'
  BY DEF Stopped, Counting, CountOK
<1>4. ISR' \subseteq Flags /\ past' \subseteq {"read", "unfinished", "early"}
  BY DEF Stopped, CoreOK
<1>5. CoreOK' /\ Asking'
  BY <1>4 DEF Stopped, CoreOK, Asking
<1> QED
  BY <1>2, <1>3, <1>5

LEMMA I2CStep == I2CInv /\ [Next]_vars => I2CInv'
<1> SUFFICES ASSUME I2CInv, [Next]_vars
             PROVE  I2CInv'
  OBVIOUS
<1>1. CASE UNCHANGED vars
  BY <1>1 DEF vars, codeVars, countVars, timeVars, coreVars, I2CInv, TypeOK, CodeOK, CountOK,
     TimeOK, CoreOK, Counting, Asking
<1>2. CASE Code
  BY <1>2, SetUpStep, WaitingSteps, GiveUpStep, AddressSteps, MoveStep, ReloadStep, StoppedStep
     DEF Code
<1> QED
  BY <1>1, <1>2, TickStep, CoreStep, CallStep DEF Next

-----------------------------------------------------------------------------
\* The theorems.

\* Every variable keeps its type: no count leaves its width, and the peripheral is
\* given no more bytes than it asked for.
THEOREM I2CTypeCorrect == Spec => []TypeOK
<1>1. I2CInv => TypeOK
  BY DEF I2CInv
<1> QED
  BY <1>1, InitI2C, I2CStep, PTL DEF Spec

\* Which exits return the true count, which one less, and that a register read may
\* return 0 with nothing read, for every size, block and timeout.
THEOREM OffByOneCorrect == Spec => OffByOne
<1> DEFINE Told == Returns => \/ result' = left
                              \/ at = "byte" /\ result' = left - 1
                              \/ at = "stop" /\ fn = "read_reg" /\ result' = 0
<1>1. I2CInv /\ [Next]_vars => [Told]_vars
  <2> SUFFICES ASSUME I2CInv, Next, Returns
               PROVE  Told
    OBVIOUS
  <2>1. GiveUp \/ Stopped
    BY DEF Next, Returns, SysTick, Core, Acknowledge, Refuse, AskByte, Receive, BlockDone,
       StopDone, notCore, Call, Code, SetUp, NotReady, StillTime, Start, NextRegister,
       WriteRegister, NextByte, MoveByte, Reload, codeVars, I2CInv, TypeOK, CodeOK
  <2>2. CASE GiveUp
    <3>1. at \in Waits
      BY <2>2 DEF GiveUp, I2CInv, TypeOK, CodeOK
    <3> QED
      BY <2>2, <3>1, UnprocessedValue DEF GiveUp
  <2>3. CASE Stopped
    BY <2>3 DEF Stopped, Returns, I2CInv, Counting
  <2> QED
    BY <2>1, <2>2, <2>3
<1> QED
  BY <1>1, InitI2C, I2CStep, PTL DEF Spec, OffByOne

\* As long as no transfer has been left unfinished, the bus is free outside of the
\* calls' own transfers, and STOPF says so.
OwnBus ==
  "unfinished" \notin past =>
    /\ at \in {"idle", "hold_off", "busy"} => bus = "free"
    /\ at = "busy" => "STOPF" \notin ISR
    /\ "STOPF" \in ISR => bus = "free"

LEMMA OwnBusStep ==
  ASSUME OwnBus, [Next]_vars
  PROVE  OwnBus'
<1> USE DEF OwnBus
<1>1. CASE UNCHANGED vars \/ SysTick
  BY <1>1 DEF vars, SysTick, codeVars, coreVars
<1>2. CASE Core
  BY <1>2 DEF Core, Acknowledge, Refuse, AskByte, Receive, BlockDone, StopDone, notCore, codeVars
<1>3. CASE Call \/ SetUp \/ NotReady \/ StillTime
  BY <1>3 DEF Call, SetUp, ResetFlags, NotReady, StillTime, coreVars
<1>4. CASE GiveUp
  <2>1. bus # "free" => "unfinished" \in past'
    BY <1>4 DEF GiveUp
  <2>2. bus = "free" => bus' = "free" /\ at' = "idle"
    BY <1>4 DEF GiveUp, BusAfterStop
  <2> QED
    BY <2>1, <2>2
<1>5. CASE Start \/ NextRegister \/ WriteRegister \/ NextByte \/ MoveByte \/ Reload
  BY <1>5 DEF Start, NextRegister, WriteRegister, NextByte, MoveByte, Reload, coreVars
<1>6. CASE Stopped
  BY <1>6 DEF Stopped, Ready
<1> QED
  BY <1>1, <1>2, <1>3, <1>4, <1>5, <1>6 DEF Next, Code

\* A call takes the end of its own transfer for its end, unless an earlier one was
\* given up in the middle: for every block size, buffer, hold-off time and timeout.
THEOREM EndedOnBusCorrect == Spec => EndedOnBus
<1>1. Init => OwnBus
  BY DEF Init, OwnBus
<1>2. OwnBus /\ [Next]_vars => [Stopped /\ bus # "free" => "unfinished" \in past]_vars
  BY DEF OwnBus, Stopped, Ready
<1> QED
  BY <1>1, <1>2, OwnBusStep, PTL DEF Spec, EndedOnBus

-----------------------------------------------------------------------------
(* What a call finds in RXDR, and how a long read ends *)

\* From START to the return.
Started == {"registers", "register", "bytes", "byte", "reload", "stop"}

\* The size register of a transfer about to start.
Prepared ==
  at = "busy" =>
    /\ CR2.RD <=> fn = "read"
    /\ fn = "read" /\ CR2.RELOAD => left > Block
    /\ fn = "read" /\ ~CR2.RELOAD => left = CR2.NBYTES

\* A call that has set START sees a transfer in its own direction only, and is asked
\* for a block only if there was more than one.
OwnTransfer ==
  at \in Started =>
    /\ rd <=> fn = "read"
    /\ bus # "data" => expects = 0
    /\ "TCR" \in ISR => CR2.RELOAD

\* A read of several blocks whose transfer has ended, which takes a refused address,
\* waits for bytes that never come: RXDR holds one at most, of an earlier call.
LongRead ==
  at \in Started /\ fn = "read" /\ CR2.RELOAD /\ bus # "data" =>
    left > 0 /\ ("RXNE" \in ISR => left > 1)

\* As long as no read has timed out and no call has returned early, RXDR holds bytes of
\* the read that runs, which counts them as the peripheral does.
FreshData ==
  past \cap {"read", "early"} = {} =>
    /\ ~stale
    /\ at \notin Started =>
         /\ bus \in {"free", "stopping"} /\ (bus = "free" \/ expects = 0 \/ ~rd)
         /\ "RXNE" \notin ISR
    /\ at \in Started /\ fn # "read" => "RXNE" \notin ISR
    /\ at \in Started /\ fn = "read" /\ ~CR2.RELOAD =>
         /\ bus = "address" => "RXNE" \notin ISR /\ left = CR2.NBYTES
         /\ bus = "data" => left = expects + (IF "RXNE" \in ISR THEN 1 ELSE 0)
         /\ "RXNE" \in ISR => left > 0

ReadInv == Prepared /\ OwnTransfer /\ LongRead /\ FreshData

\* RELOAD and NBYTES after config_tx_size on a cleared register, and on one that runs.
LEMMA SizeRegisterValue ==
  ASSUME NEW n \in Nat
  PROVE  /\ config_tx_size(reset_tx, n).RELOAD <=> n > Block
         /\ n <= Block => config_tx_size(reset_tx, n).NBYTES = n
         /\ config_tx_size(reset_tx, n).RD <=> fn = "read"
<1> DEFINE r == config_tx_size(reset_tx, n)
<1>1. reset_tx \in [NBYTES : {0}, RELOAD : {FALSE}, RD : BOOLEAN]
  BY DEF reset_tx
<1>2. r.NBYTES = BlockSize(n) /\ r.RELOAD = (FALSE \/ n > Block) /\ r.RD = reset_tx.RD
  BY <1>1 DEF config_tx_size, reset_tx
<1>3. reset_tx.RD = (fn = "read")
  BY DEF reset_tx
<1>4. n <= Block => BlockSize(n) = n
  BY DEF BlockSize
<1> HIDE DEF r
<1>5. (r.RELOAD <=> n > Block) /\ (r.RD <=> fn = "read")
  BY <1>2, <1>3, Zenon
<1> QED
  BY <1>2, <1>4, <1>5 DEF r

LEMMA ReloadStays ==
  ASSUME NEW n \in Nat, CR2 \in [NBYTES : 0..Block, RELOAD : BOOLEAN, RD : BOOLEAN], CR2.RELOAD
  PROVE  config_tx_size(CR2, n).RELOAD
BY DEF config_tx_size

LEMMA InitRead == Init => ReadInv
BY DEF Init, ReadInv, Prepared, OwnTransfer, LongRead, FreshData, Started

\* The peripheral and the target, flag by flag.
LEMMA ReadCoreStep ==
  ASSUME I2CInv, ReadInv, Core
  PROVE  ReadInv'
<1> USE DEF ReadInv
<1>1. UNCHANGED notCore /\ UNCHANGED rd
  BY DEF Core, Acknowledge, Refuse, AskByte, Receive, BlockDone, StopDone
<1>2. UNCHANGED <<fn, at, left, CR2, past, rd>>
  BY <1>1 DEF notCore, codeVars, countVars
<1>3. Prepared'
  BY <1>2 DEF Prepared
<1>4. /\ expects \in Nat /\ CR2.NBYTES \in Nat /\ left \in Nat
      /\ "TCR" \in ISR => bus = "data"
  BY DEF I2CInv, TypeOK, CoreOK, CountOK, Asking
<1>5. CASE Acknowledge
  BY <1>2, <1>3, <1>4, <1>5 DEF Acknowledge, OwnTransfer, LongRead, FreshData, Started
<1>6. CASE Refuse
  BY <1>2, <1>3, <1>4, <1>6 DEF Refuse, OwnTransfer, LongRead, FreshData, Started
<1>7. CASE AskByte
  BY <1>2, <1>3, <1>4, <1>7 DEF AskByte, OwnTransfer, LongRead, FreshData, Started
<1>8. CASE Receive
  <2>1. /\ expects' = expects - 1 /\ bus' = bus /\ ISR' = ISR \cup {"RXNE"}
        /\ "RXNE" \notin ISR /\ rd /\ expects > 0 /\ bus \in {"data", "stopping"}
        /\ stale' <=> bus = "stopping"
    BY <1>8 DEF Receive
  <2>2. at \in Started => bus = "data" /\ fn = "read"
    BY <2>1 DEF OwnTransfer
  <2>3. past \cap {"read", "early"} = {} => at \in Started
    BY <2>1, <1>4 DEF FreshData
  <2>4. FreshData'
    BY <1>2, <1>4, <2>1, <2>2, <2>3 DEF FreshData
  <2> QED
    BY <1>2, <1>3, <1>4, <2>1, <2>2, <2>4 DEF OwnTransfer, LongRead
<1>9. CASE BlockDone
  <2>1. CASE CR2.RELOAD
    <3>1. ISR' = ISR \cup {"TCR"} /\ UNCHANGED <<bus, expects, stale>> /\ bus = "data"
      BY <1>9, <2>1 DEF BlockDone
    <3> QED
      BY <1>2, <1>3, <1>4, <2>1, <3>1 DEF OwnTransfer, LongRead, FreshData, Started
  <2>2. CASE ~CR2.RELOAD
    <3>1. bus' = "stopping" /\ UNCHANGED <<ISR, expects, stale>> /\ bus = "data" /\ expects = 0
      BY <1>9, <2>2 DEF BlockDone
    <3> QED
      BY <1>2, <1>3, <1>4, <2>2, <3>1 DEF OwnTransfer, LongRead, FreshData, Started
  <2> QED
    BY <2>1, <2>2
<1>10. CASE StopDone
  BY <1>2, <1>3, <1>4, <1>10 DEF StopDone, OwnTransfer, LongRead, FreshData, Started
<1> QED
  BY <1>5, <1>6, <1>7, <1>8, <1>9, <1>10 DEF Core

\* What a call does before START.
LEMMA ReadPrepareStep ==
  ASSUME I2CInv, ReadInv, Call \/ SetUp \/ Start
  PROVE  ReadInv'
<1> USE DEF ReadInv
<1>1. CASE Call
  BY <1>1 DEF Call, coreVars, Prepared, OwnTransfer, LongRead, FreshData, Started
<1>2. CASE SetUp
  <2>1. /\ at = "hold_off" /\ at' = "busy" /\ ISR' = ISR \ ResetFlags
        /\ UNCHANGED <<fn, left, bus, rd, expects, stale, past>>
    BY <1>2 DEF SetUp
  <2>2. CASE fn = "read"
    <3>1. CR2' = config_tx_size(reset_tx, left) /\ left \in Nat
      BY <1>2, <2>1, <2>2 DEF SetUp, Total, I2CInv, TypeOK, CountOK, Counting
    <3> QED
      BY <2>1, <2>2, <3>1, SizeRegisterValue DEF Prepared, OwnTransfer, LongRead, FreshData, Started
  <2>3. CASE fn # "read"
    <3>1. ~CR2'.RD
      <4>1. CASE fn = "read_reg"
        BY <1>2, <2>3, <4>1 DEF SetUp, reset_tx
      <4>2. CASE fn # "read_reg"
        <5>1. Total \in Nat
          BY DEF Total, I2CInv, TypeOK, CountOK
        <5> QED
          BY <1>2, <2>3, <4>2, <5>1, SizeRegisterValue DEF SetUp
      <4> QED
        BY <4>1, <4>2
    <3> QED
      BY <2>1, <2>3, <3>1 DEF Prepared, OwnTransfer, LongRead, FreshData, Started
  <2> QED
    BY <2>2, <2>3
<1>3. CASE Start
  <2>1. /\ at = "busy" /\ at' \in {"registers", "bytes"} /\ bus = "free" /\ bus' = "address"
        /\ (rd' <=> CR2.RD) /\ expects' = 0 /\ UNCHANGED <<fn, left, CR2, ISR, stale, past>>
    BY <1>3 DEF Start, Ready, countVars
  <2>2. "TCR" \notin ISR /\ left \in Nat
    BY <2>1 DEF I2CInv, TypeOK, CountOK, Asking
  <2> QED
    BY <2>1, <2>2 DEF Prepared, OwnTransfer, LongRead, FreshData, Started
<1> QED
  BY <1>1, <1>2, <1>3

\* The steps that move nothing, and those of the address and the blocks.
LEMMA ReadWaitStep ==
  ASSUME I2CInv, ReadInv,
         SysTick \/ NotReady \/ StillTime \/ NextRegister \/ NextByte \/ WriteRegister \/ Reload
  PROVE  ReadInv'
<1> USE DEF ReadInv
<1>1. CASE SysTick \/ NotReady \/ StillTime
  BY <1>1 DEF SysTick, NotReady, StillTime, codeVars, countVars, coreVars,
     Prepared, OwnTransfer, LongRead, FreshData
<1>2. CASE NextRegister \/ NextByte
  BY <1>2 DEF NextRegister, NextByte, coreVars, Prepared, OwnTransfer, LongRead, FreshData, Started
<1>3. CASE WriteRegister
  <2>1. /\ at = "register" /\ at' = "registers" /\ ISR' = ISR \ {"TXIS"} /\ bus = "data" /\ ~rd
        /\ UNCHANGED <<fn, left, CR2, bus, rd, stale, past>>
    BY <1>3 DEF WriteRegister, Ready, I2CInv, Asking, countVars
  <2> QED
    BY <2>1 DEF Prepared, OwnTransfer, LongRead, FreshData, Started
<1>4. CASE Reload
  <2>1. /\ at = "reload" /\ at' = "bytes" /\ ISR' = ISR \ {"TCR"} /\ bus = "data" /\ "TCR" \in ISR
        /\ UNCHANGED <<fn, left, bus, rd, stale, past>> /\ CR2' = config_tx_size(CR2, size)
    BY <1>4 DEF Reload, Ready, I2CInv, Asking
  <2>2. CR2'.RELOAD
    BY <2>1, ReloadStays DEF OwnTransfer, Started, I2CInv, TypeOK, CountOK, CoreOK
  <2> QED
    BY <2>1, <2>2 DEF Prepared, OwnTransfer, LongRead, FreshData, Started
<1> QED
  BY <1>1, <1>2, <1>3, <1>4

\* A byte that is read leaves RXDR, and is one less to come.
LEMMA ReadMoveStep ==
  ASSUME I2CInv, ReadInv, MoveByte
  PROVE  ReadInv'
<1> USE DEF ReadInv
<1>1. /\ at = "byte" /\ at' \in {"reload", "bytes"} /\ left' = left - 1 /\ left \in Nat /\ left > 0
      /\ expects \in Nat /\ UNCHANGED <<fn, CR2, bus, rd, past>>
  <2>1. left > 0
    BY MoveStep
  <2>2. left \in Nat /\ expects \in Nat
    BY DEF I2CInv, TypeOK, CountOK, CoreOK
  <2> QED
    BY <2>1, <2>2 DEF MoveByte
<1>2. CASE fn = "read"
  <2>1. ISR' = ISR \ {"RXNE"} /\ ~stale' /\ expects' = expects /\ "RXNE" \in ISR
    BY <1>2 DEF MoveByte, Ready
  <2> QED
    BY <1>1, <1>2, <2>1 DEF Prepared, OwnTransfer, LongRead, FreshData, Started
<1>3. CASE fn # "read"
  <2>1. ISR' = ISR \ {"TXIS"} /\ stale' = stale /\ bus = "data"
    BY <1>3 DEF MoveByte, Ready, I2CInv, Asking
  <2> QED
    BY <1>1, <1>3, <2>1 DEF Prepared, OwnTransfer, LongRead, FreshData, Started
<1> QED
  BY <1>2, <1>3

\* A call that gives up, and is not a read, leaves no byte.
LEMMA ReadGiveUpStep ==
  ASSUME I2CInv, ReadInv, GiveUp
  PROVE  ReadInv'
<1> USE DEF ReadInv
<1>1. /\ at \in Waits /\ at' = "idle" /\ (stale' <=> stale \/ "RXNE" \in ISR)
      /\ ISR' \subseteq ISR /\ expects' = expects /\ rd' = rd
      /\ past \subseteq past' /\ (fn = "read" => "read" \in past')
  BY DEF GiveUp, I2CInv, TypeOK, CodeOK
<1>2. IF at = "busy" THEN bus' = bus ELSE bus' = BusAfterStop
  BY DEF GiveUp
<1>3. SUFFICES ASSUME past' \cap {"read", "early"} = {}
               PROVE  /\ ~stale' /\ "RXNE" \notin ISR'
                      /\ bus' \in {"free", "stopping"} /\ (bus' = "free" \/ expects' = 0 \/ ~rd')
  BY <1>1 DEF Prepared, OwnTransfer, LongRead, FreshData, Started
<1>4. fn # "read" /\ past \cap {"read", "early"} = {}
  BY <1>1, <1>3
<1>5. CASE at = "busy"
  BY <1>1, <1>2, <1>4, <1>5 DEF FreshData, Started
<1>6. CASE at # "busy"
  <2>1. at \in Started
    BY <1>1, <1>6 DEF Waits, Started
  <2>2. bus' \in {"free", "stopping"}
    BY <1>2, <1>6 DEF BusAfterStop, I2CInv, TypeOK, CoreOK
  <2> QED
    BY <1>1, <1>4, <2>1, <2>2 DEF OwnTransfer, FreshData
<1> QED
  BY <1>5, <1>6

\* Nor does a read that has all its bytes.
LEMMA ReadStoppedStep ==
  ASSUME I2CInv, ReadInv, Stopped
  PROVE  ReadInv'
<1> USE DEF ReadInv
<1>1. /\ at = "stop" /\ at' \in {"idle", "hold_off"} /\ (stale' <=> stale \/ "RXNE" \in ISR)
      /\ ISR' \subseteq ISR /\ bus' = bus /\ past \subseteq past'
      /\ (bus # "free" => "early" \in past')
  BY DEF Stopped
<1>2. fn = "read" => left = 0
  BY <1>1 DEF I2CInv, Counting
<1>3. SUFFICES ASSUME past' \cap {"read", "early"} = {}
               PROVE  ~stale' /\ "RXNE" \notin ISR' /\ bus' = "free"
  BY <1>1 DEF Prepared, OwnTransfer, LongRead, FreshData, Started
<1>4. past \cap {"read", "early"} = {} /\ bus = "free" /\ at \in Started
  BY <1>1, <1>3 DEF Started
<1>5. "RXNE" \notin ISR
  BY <1>2, <1>4 DEF LongRead, FreshData
<1> QED
  BY <1>1, <1>4, <1>5 DEF FreshData

LEMMA ReadStep ==
  ASSUME I2CInv, ReadInv, [Next]_vars
  PROVE  ReadInv'
<1>1. CASE UNCHANGED vars
  BY <1>1 DEF vars, codeVars, countVars, coreVars, ReadInv, Prepared, OwnTransfer, LongRead, FreshData
<1> QED
  BY <1>1, ReadCoreStep, ReadPrepareStep, ReadWaitStep, ReadMoveStep, ReadGiveUpStep, ReadStoppedStep
     DEF Next, Code

\* A read gets no byte of another call, as long as no read has timed out and no call
\* has returned early.
THEOREM FreshBytesCorrect == Spec => FreshBytes
<1>1. ReadInv /\ [Next]_vars =>
        [MoveByte /\ fn = "read" /\ stale => past \cap {"read", "early"} # {}]_vars
  BY DEF ReadInv, FreshData
<1> QED
  BY <1>1, InitI2C, I2CStep, InitRead, ReadStep, PTL DEF Spec, FreshBytes

\* The end of a read of several blocks is never seen, unless a call was given up in the
\* middle of a transfer: for every block size, buffer and timeout.
THEOREM LongReadTimesOutCorrect == Spec => LongReadTimesOut
<1>1. Init => OwnBus
  BY DEF Init, OwnBus
<1>2. I2CInv /\ ReadInv /\ OwnBus /\ [Next]_vars =>
        [Stopped /\ fn = "read" /\ CR2.RELOAD => "unfinished" \in past]_vars
  <2> SUFFICES ASSUME I2CInv, ReadInv, OwnBus, Stopped, fn = "read", CR2.RELOAD,
                      "unfinished" \notin past
               PROVE  FALSE
    OBVIOUS
  <2>1. at = "stop" /\ bus = "free"
    BY DEF OwnBus, Stopped, Ready
  <2>2. left = 0
    BY <2>1 DEF I2CInv, Counting
  <2> QED
    BY <2>1, <2>2 DEF ReadInv, LongRead, Started
<1> QED
  BY <1>1, <1>2, InitI2C, I2CStep, InitRead, ReadStep, OwnBusStep, PTL DEF Spec, LongReadTimesOut

-----------------------------------------------------------------------------
(* The abstract transfer *)

LEMMA TransferInit == Init => Transfer!InitPolled
BY DEF Init, Transfer!InitPolled

\* Every step is one of the abstract transfer, or one it does not see.
LEMMA TransferStep ==
  ASSUME I2CInv, [Next]_vars
  PROVE  [Transfer!Begin \/ Transfer!Move \/ Transfer!Return]_Transfer!polledVars
<1> USE DEF Transfer!polledVars
<1>1. CASE UNCHANGED vars \/ SysTick \/ Core
  BY <1>1 DEF vars, SysTick, Core, Acknowledge, Refuse, AskByte, Receive, BlockDone, StopDone,
     notCore, codeVars, countVars
<1>2. CASE Call
  BY <1>2 DEF Call, Transfer!Begin
<1>3. CASE SetUp \/ NotReady \/ StillTime \/ Start \/ NextRegister \/ WriteRegister \/ NextByte
           \/ Reload
  BY <1>3 DEF SetUp, NotReady, StillTime, Start, Ready, NextRegister, WriteRegister, NextByte,
     Reload, codeVars, countVars, I2CInv, TypeOK, CodeOK, Waits
<1>4. CASE MoveByte
  BY <1>4, MoveStep DEF MoveByte, Transfer!Move
<1>5. CASE GiveUp
  <2>1. at \in Waits
    BY <1>5 DEF GiveUp, I2CInv, TypeOK, CodeOK
  <2>2. \/ Unprocessed \in {left, Transfer!Decrement(left)}
        \/ fn = "read_reg" /\ Unprocessed = 0
    BY <2>1, UnprocessedValue DEF Transfer!Decrement
  <2> QED
    BY <1>5, <2>1, <2>2 DEF GiveUp, Transfer!Return, Waits
<1>6. CASE Stopped /\ fn = "read_reg"
  BY <1>6 DEF Stopped
<1>7. CASE Stopped /\ fn # "read_reg"
  BY <1>7 DEF Stopped, Transfer!Return, I2CInv, Counting
<1> QED
  BY <1>1, <1>2, <1>3, <1>4, <1>5, <1>6, <1>7 DEF Next, Code

\* No call leaves its buffer or returns a count that is off by more than one, except
\* in the address half of a register read: for every block size, buffer and timeout.
THEOREM I2CTransferCorrect == Spec => ImplementsTransfer
BY InitI2C, I2CStep, TransferInit, TransferStep, PTL
   DEF Spec, ImplementsTransfer, Transfer!SpecPolled

=============================================================================
