# A formal model of the STM32H7B0 library

TLA+ modules, TLC runs and TLAPS proofs for the bare-metal library and its
demo program in this repository (`src/`, `include/`). Paths below are relative
to the repository. It covers the parts that have state and more than one actor:
the USB device driver with the HID class and the main loop that types through it;
the drivers that poll a peripheral until it is done or a timeout has passed (UART,
I2C, SPI); the driver of the flash chip; and the clock tree with the frequency
variables that all drivers compute with. What is left is named under "Not modelled".

## Inventory

| Part | Files | State it keeps | Operations |
|---|---|---|---|
| USB device driver | `src/usb/usb_int.c`, `src/usb/usb.c`, `src/usb/desc.c`, `include/usb/usb.h` | `USB_handle` (device state and the one to resume to, stage of EP0, SETUP packet, header, configuration, endpoint records), the registers of the OTG core (endpoint control, interrupt flags and masks, address) | `config_USB`, the interrupt handler and the 12 handlers it calls, `IN_transfer`, `OUT_transfer`, open, close, stall, unstall, the standard requests |
| HID class | `src/usb/hid.c` | `HID_handle` (idle or busy, protocol, idle rate, alternate setting) | `HID_init`, `HID_deinit`, `HID_setup`, `HID_in_transfer` (callbacks of the driver), `send_HID_report` |
| Keyboard main loop | `src/main.c` | `HID_buffer`, `GO` | composes a report and sends it |
| I2C master | `src/i2c.c` | `last` (time of the last transfer), the transfer in CR2 | write, read, write and read of a register, all polled with a timeout |
| UART | `src/usart.c` | none beside the peripheral | polled read, write, print; baud-rate divisor |
| SPI master | `src/spi/spi.c` | the peripheral and the slave-select pin | polled transmit with a timeout |
| OCTOSPI and flash | `src/spi/ospi.c`, `src/spi/W25Q64.c` | CCR, DLR, functional mode | transmit, test receive |
| Clock tree and tick | `src/sys.c` | `sys_config`, the frequency variables, `tick`, the registers of RCC, PWR and FLASH | setters, `sys_clock_init`, SysTick, `delay_ms` |
| Kernel clocks | a `config_*_kernel_clock` in most drivers | one frequency variable per peripheral, the selections in six shared registers | select a source and copy its frequency |
| Device ids and buffers | `src/base.c` | none | id to address and back, enable, disable, `new_buffer` |
| Hash, RNG, CRYP, CRC | `src/hash.c`, `src/rng.c`, `src/cryp.c`, `src/crc.c` | the peripherals | process a message, wait for a number |
| Timers, GPIO, EXTI, NVIC, watchdog, MCO | one file each | the peripherals | configuration, start, stop |
| Clock-only files | `src/adc.c`, `can.c`, `dfsdm.c`, `fmc.c`, `hdmi.c`, `sd_mmc.c`, `swpmi.c` | one frequency variable | select a kernel clock |

How they interact. `main` runs in thread mode and calls everything else. The
USB interrupt preempts it at any instruction; the driver calls the class through
the function pointers of `class_handle_t`, and `send_HID_report` calls the
driver's `IN_transfer` from thread mode, so the records of the HID endpoint, its
control register and the shared mask `DIEPEMPMSK` have two writers. The host
drives the driver through the core: bus events set flags, SETUP and OUT packets
go through one receive FIFO, data leaves through one transmit FIFO per endpoint.
The polled drivers depend on `tick`, which SysTick advances, and all of them on
the frequency variables `sys_clock_init` leaves. The USB wake-up handler calls
`sys_clock_init` again, over a clock tree that a sleep has stopped.

What is hard in it:
- the handler works on a snapshot of the pending interrupts, in a fixed order,
  while core and host go on;
- every acknowledgement is `GINTSTS |= bit` on a register whose bits are cleared
  by writing ones, so it discards all the flags that are set at that moment;
- a bus reset, a suspend or a resume can come at any point of a transfer, and
  the state that a request acts on depends on which of them were handled;
- a transfer is prepared by one handler, copied by a second, completed by a
  third, and may be disabled in between by a fourth;
- thread mode and interrupt modify the same registers by read and write;
- the polled drivers return a count from several exits, with timeouts;
- `sys_clock_init` changes prescalers, flash latency and the source of the system
  clock one by one, waits without a timeout in between, and may start from a tree that runs;
- the kernel clocks are fields of registers that several drivers write, and their
  frequencies are copies of variables that are computed apart from the registers.

What makes each part correct: the driver is a device of chapter 9 of USB 2.0
(state, address and open endpoints agree, it answers with what was asked, and
leaves no request hanging); the class knows whether a report is on its way; the
keyboard sends the last report it submitted and does not get stuck; a polled
transfer returns how much it left undone, on every exit; the frequency
variables are those of the clock tree that runs, the flash keeps up with the AXI
clock at every moment of a reconfiguration, and the initialisations end.

`PROJECT.json` lists every component with its status, and under "hazards" the
places where those behaviours bite.

## Modules

| Module | What it is |
|---|---|
| `UsbEndpoint` | the endpoint records and control registers, and what transfer, open, close, stall and unstall do to them (operators) |
| `UsbRequest` | SETUP headers, descriptors, the replies to a control request, `HID_setup` (operators) |
| `UsbDevice` | the state machine: host and core, one pass of the handler, every handler and every request |
| `Chapter9` | the abstract device: its visible state, whether it sleeps, whether its interrupt endpoint is open |
| `UsbKeyboard` | composes `UsbDevice` with the main loop, register access by register access |
| `MCUsbDevice`, `MCUsbKeyboard` | the sets of requests for TLC |
| `UsbDevice_proofs` | types of the results of the operators, type correctness of `UsbDevice`, the endpoint follows the configuration, `UsbDevice` implements `Chapter9` |
| `UsbControl_proofs` | control transfers: every request is replied to, with what was asked for; the address and the halt of the HID endpoint |
| `UsbKeyboard_proofs` | the same beside the main loop, and the reports |
| `PolledTransfer` | the abstract polled transfer: what a call may move and may return |
| `PolledUart` | `UART_read`, `UART_write`, `UART_print`, the line and the tick |
| `I2CMaster` | the four master functions of `i2c.c`, the peripheral, the target and the tick |
| `SpiMaster` | `SPI_master_transmit`, its peripheral, the slave-select pin and the tick |
| `PolledUart_proofs`, `I2CMaster_proofs`, `SpiMaster_proofs` | the counts, what the target, the slave or the buffer has received, and that each implements `PolledTransfer` |
| `FlashDriver` | `W25Q64_init` as its sequence of `OSPI_transmit` and `OSPI_test_receive`, both poll by poll |
| `FlashDriver_proofs` | what a reception stores fits its variable |
| `ClockTree` | `sys_config`, its setters, `sys_clock_init` from wait to wait, the oscillators and PLLs, sleep |
| `KernelClocks` | the config function of every kernel clock, clock output and timer clock |
| `MCClocks` | the configurations for TLC, that of `main` among them, and which peripherals are in use together |
| `ClockTree_proofs` | types, frequencies, flash latency and returns of `ClockTree`, and the kernel clocks of `KernelClocks` |

`UsbKeyboard` EXTENDS `UsbDevice`, which EXTENDS `UsbEndpoint` and `UsbRequest`.
`UsbDevice` instantiates `Chapter9` with its refinement mapping (`Device9`), and the
three polled drivers instantiate `PolledTransfer` with theirs (`Transfer`). `KernelClocks`
EXTENDS `ClockTree`: its steps are those of the tree and those of the config functions.
Operators named `X_Something` right before an operator `X` are `X` with one slip
of the pen; `PROJECT.json` pairs each with the property that tells it from `X`.

### The USB modules and the code

`dev_state`, `dev_old_state`, `dev_config`, `remote_wakeup`, `ep0_state`, `setup`
and `header` are the fields of `USB_handle_t`. `IN_ep[n]` and `OUT_ep[n]` join
the record `EP_handle_t` with the bits of `DIEPCTL` or `DOEPCTL` the code
touches (`USBAEP`, `EPENA`, `EPDIS`, `STALL`). `DAINTMSK`, `DIEPEMPMSK` and `DAD`
are registers, `GINTSTS`, `DIEPINT` and `DOEPINT` the flags. `hid_state` is
`HID_handle.state`. `fifo[n]` holds the buffers whose bytes are in the transmit
FIFO, `rx` the entries of the receive FIFO. `bus`, `stage` and `req` are the
host's: they are the environment, and external in the map.

`calls` is the program counter of the interrupt handler: the handler calls the
current pass has still to make. `USB_common_handler` takes the snapshot,
`IEP_interrupts` and `OEP_interrupts` read `DAINT` at their place in the pass,
`IEP_common_handler` and `OEP_common_handler` take the snapshot of one endpoint,
and every `*_IRQ` is one action named after its function. `Order` gives the order of
the calls in the source, and `Calling(c)` says that `c` is next. `USB_suspend_IRQ`
is two actions, since a wake-up may come between its test of the bus and its
acknowledgement. Within every other handler nothing the environment does could
be seen, so one action is as good as many.

A request is a reply (`Data`, `Status`, `Stall`, ...) computed from the header,
and the changes of `set_device_address`, `set_device_configuration` and the
endpoint features beside it. `Answer` applies a reply to EP0.

Abstractions:
- a transfer enters the FIFO as one entry. The code copies packet by packet
  while there is room; the 8-byte report is two packets of `HID_MPS` = 4, and
  the sizes of the FIFOs (`usb.c` 170-172) hold it whole;
- receive-FIFO entries are the SETUP packet, the end of a setup stage and the
  end of an OUT transfer; data bytes are not kept, as no request handled by HID
  has a data stage from the host that the driver accepts;
- a buffer is a name. What `get_device_status` and the like compute into one is
  not looked at;
- endpoints are `0..1`; the others are never opened.

`UsbDevice` has `send_HID_report` as one action that runs while no interrupt is
pending, so that the HID endpoint is in use while the requests come in.
`UsbKeyboard` has the same call in steps. It
splits the thread-mode `IN_transfer` where the interrupt can tell:
the record and the size (`Start`), the read and the write of `DIEPCTL`, the read
and the write of `DIEPEMPMSK`. The main loop moves only while no interrupt is
pending (`Thread`), because the interrupt preempts it. `delay_ms` is any number
of steps of the others, and a report that is dropped because the class is busy
is a step of `Compose` back to itself. `wire` and `submitted` are history
variables for `FreshReport`.

### The polled drivers and the code

The three modules have the same shape. `at` is the place in the function that
runs: `"idle"`, the head of a loop, or the `while` it waits in. `Call` chooses the
arguments. Every `while (!flag) { if (tick - start > timeout) ... }` is two
steps, because the flag and the tick change between the test and the
comparison: `NotReady` finds the flag clear and sets `polled`, then `StillTime`
goes back to the test or `GiveUp` takes the exit, with everything that exit does
(`PolledUart` has the same two as `"poll"` and `"compare"`). `elapsed` is
`tick - start`, `since` in `I2CMaster` is `tick - last`. `size`, `n_bytes` and
`reg` are the counters of the code, with their post-decrements and their wrap at
0 (`Word` stands for 2^32, `Block` for 255, `Counter` for 2^16); `left` counts
the bytes of the buffer that have not been moved, and is what the properties
compare the results with.

- `I2CMaster`: `CR2` has NBYTES, RELOAD and the direction, set with `|=` as in the
  code; `ISR` the flags the code polls; `bus`, `rd` and `expects` the transfer on
  the bus, whose STOP condition takes time. `SetUp` is everything between the
  hold-off loop and the wait for BUSY. `read_reg` runs `I2C_master_read` as the
  code does, in the same variables and with `timeout - (tick - start)` cut to 32
  bits (`TimeLeft`). `stale` says that the byte in RXDR is of a call that has
  ended, `past` is history.
- `SpiMaster`: `SizeRegister` is the clear and the set of TSIZE, where the bits
  from 16 up land in TSER. `SPI_end_transfer` is part of both exits. `heard` is
  what the slave has received since its pin went low.
- `PolledUart`: `UART_print` has no count; it stops at the end of the string.

Abstractions: one call at a time, as the library has no locks and the demo calls
from thread mode only; a single I2C master; the values of bytes and addresses;
a target or a line may answer at any time or never. The mode fault of
`SPI_end_transfer` is left out, as SSI keeps it from occurring.
The peripheral takes TSER for a new TSIZE once, as its reference manual has it
and the code never writes TSER on purpose.

### The flash driver and the code

`FlashDriver` runs `script`, the calls that one `W25Q64_init` still has to make, with
the branch of an unset QE bit or without it. `at` and `polled` are as in the polled
drivers. `Program` is everything `OSPI_transmit` writes once BUSY is clear, of which
the count DLR is kept, because `OSPI_test_receive` takes the number of bytes to store
from it (`ospi.c` 291). `room` is the size of the variable that the caller passes.

Every flag may have any value at every poll. That is weaker than what the chip does,
on purpose: the code shifts `dmode` to the place of `imode` (318), waits for FTF and TCF
to be clear where they should be set (337, 340), and leaves the peripheral in read
mode (292-293), and what it does then is not in the sources. `ReadFits` and
`OnlyReadsHang` hold all the same. `refusals`, the transmissions in a row that found
the peripheral busy, is history.

### The clock modules and the code

`config` is `sys_config`, filled in once before the first call; `MainConfig` is what `main`
fills in. `pc` is the place in `sys_clock_init`: each step waits for what the code waits
for there and then writes up to the next wait, except that `ClearLatency` and
`SetLatency` are two, as `FlashKeepsUp` can tell. Several registers are joined:
`on` and `running` are the enable and ready bits of CR, CSR, BDCR; `SWS`, `HSIDIV`, `PLL`,
`PRE`, `VOS`, `LATENCY` and `LOAD` are fields of the same names. `freq` holds the
`*_clock_frequency` variables, `kernel` in `KernelClocks` the `*_kernel_frequency` ones,
`sel` the selection fields.

The hardware starts and stops oscillators and PLLs when it likes (`Starts`, `Stops`) and
has the rules of its reference manual that the code runs into:
- a write to CR does not stop a PLL that is the system clock, nor the HSI while it is
  needed, and HSIDIV stays while a PLL runs from the HSI (`HsiHeld`, `HsiNeeded`);
- BDCR cannot be written, as nothing sets `PWR_CR1.DBP`: the LSE never starts;
- Stop mode (`Sleep`) switches everything off but LSI and LSE and returns to the HSI.

The properties compare two computations: the rates the registers stand for, with the
divisors that the enumerations of `sys.h` name (`AHB_CLK_PRE`, ...), and the variables, computed
with the shifts of `sys.c` (`ShiftAHB`, ...). Rates are cut to whole Hz at each divider, as
in the code. `Reliable` names the sources whose variables are not to be trusted.

In `KernelClocks`, `Select` writes fields, `Copy` the variables. `ClearedBySys` and
`SpoiledBySPI` are the fields that others clear: `sys_clock_init`, which assigns to
CFGR and the four selection registers, and `config_SPI_kernel_clocks`. `OrCode` is the `|` on
codes of three bits. `configured`, the fields
that still hold what their own function chose, is history.

## Assumptions about time

The code answers some interrupts correctly only if they come one at a time.
The constant `Prompt` names the events the host keeps back until the driver has
nothing left to do (`Quiet`): USB gives a driver 10 ms or more for each of them,
and the handler needs microseconds, unless another interrupt or the debugger
holds it up. "poll" is the 10 ms of recovery after a resume before the first
interrupt IN token. Which property depends on which assumption was explored
with TLC by taking events out of `Prompt`, beyond the runs below:

| The host does not wait with | What goes wrong |
|---|---|
| reset | `AddressFollowsState`, `FreshAnswer`: `USB_reset_IRQ` flushes no receive FIFO (`usb_int.c` 652), so a SETUP from before the reset is acted upon after it |
| enumeration | `EndpointFollowsConfiguration`, `AddressFollowsState`, `NoHang`: the acknowledgement of the reset (676) discards ENUMDNE, and the driver never returns to Default |
| suspend and setup | `EndpointFollowsConfiguration`, `NoHang`, `StagesAgree`: a request reaches a driver that takes the device to be asleep |
| resume | `EndpointFollowsConfiguration`: the acknowledgement of the suspend (642) discards WKUINT; the driver sleeps on and `SET_CONFIGURATION` closes the endpoint (421) |
| abort | `FreshAnswer`: a host that gives up on an answer finds it in the FIFO before the next one |
| poll | `StateTellsTransfer`, `NeverStuck`: a report that leaves while the state is still SUSPENDED is not reported to the class (751), which stays busy |

Each run names the `Prompt` it uses. The proofs name what they need of it: `Unhurried` is
enumeration, suspend and resume; `Patient` is reset, enumeration, setup and abort; the
reports need all events. `device_racing` is within `Unhurried`, the other USB runs
within all three.

`Undisturbed` in `UsbKeyboard` keeps bus events out of `send_HID_report`. Without it
`FreshReport`, `StateTellsTransfer` and `EndpointFollowsConfiguration` fail: a
bus reset between the read and the write of `DIEPCTL` (65) is undone by the
write, which opens the closed endpoint again; the code does nothing against that.
`keyboard_racing` runs without `Undisturbed` and shows what remains: endpoint 0 is unaffected
(`DescriptorsServed`), and `SpoiltByWriting`: that write is the only step after which the
HID endpoint does not match the configuration, it spoils `DIEPCTL` alone (use, interrupt mask and
number of the configuration still follow the state), and the next change of the configuration repairs it.

## Runs

All of them check for deadlock, except those of clocks and flash, which may really
stop: the host can always reset the bus, and a polled driver can always be called or
wait, but `sys_clock_init` waits for ever for some configurations (`InitReturns` says
for which), and `W25Q64_init` ends.

| Run | Requests, Prompt, bounds | Shows |
|---|---|---|
| `device_requests` | `AnyRequest` (26 requests: enumeration, chapter 9, HID, and those no ordinary host sends), all events prompt, FIFO of 2 | `TypeOK`; `AddressFollowsState`; `FreshAnswer`: the data the host is about to read is what its last request asked for, and not longer; `NoHang`: when the driver is done there is data, status or a stall, and `Unanswered` is the exact list of requests that are swallowed; `StagesAgree` |
| `device_racing` | `Enumeration`: configuring the device and leaving the configuration, resets and aborts at any time, `FairSpec` | `EndpointFollowsConfiguration`, `ImplementsChapter9`, `TransferEnds` |
| `keyboard` | configuring the device, leaving the configuration, halting endpoints, all events prompt, `Undisturbed`, `FairKeyboardSpec` | `KeyboardTypeOK`, `FreshReport`, `StateTellsTransfer`, `NeverStuck`; `NoHang` with halts; `HaltEndsWithReset`: the driver acknowledges CLEAR_FEATURE(ENDPOINT_HALT) but only a bus reset ends a halt |
| `keyboard_racing` | a control read, configuring the device and leaving the configuration, bus events between any two register accesses of `IN_transfer` | `DescriptorsServed`: a control read is never mistaken for a report, and thread mode's writes of a stale `DIEPEMPMSK` or `DIEPCTL` do not reach endpoint 0; `SpoiltByWriting`: the extent of what they do to the HID endpoint |
| `uart` | buffers of 0 to 3 bytes, timeouts 0 and 2, `FairSpec` | `TypeOK`; `PrintedAll`: OK means the whole string; `ImplementsTransfer`: never outside the buffer; `CallReturns` |
| `uart_unprocessed` | one byte, a timeout of 0 | finding: `UART_write` and `UART_read` return one less than the number of bytes they have not processed (`usart.c` 178, 186), 0xFFFFFFFF after a complete transfer |
| `i2c` | all four functions, buffers of 0, 1 and 5 bytes with blocks of 3, `FairSpec` | `TypeOK`; `OffByOne`: which exit is wrong by how much; `EndedOnBus`, `FreshBytes`: what one call leaves to the next; `LongReadTimesOut`; `ImplementsTransfer`; `CallReturns`; `BusReleased` |
| `i2c_unprocessed` | register reads of one byte | finding: a register read may return 0 with nothing read (`i2c.c` 245) |
| `spi` | buffers of 0 to 5 bytes with a TSIZE below 4, a FIFO of 2, `FairSpec` | `TypeOK`; `WholeMessages`: a released slave has the whole message; `TooLong`: a buffer beyond TSIZE never ends well; `ImplementsTransfer`; `CallReturns` |
| `flash` | both branches of `W25Q64_init`, a timeout of 1 tick, `FairSpec` | `ReadFits`: a reception stays within its variable unless four transmissions in a row were refused; `OnlyReadsHang`: nothing but a reception can wait for ever |
| `clocks` | ten configurations, five of which never complete, any order of calls, sleeps and config functions | `TypeOK`; `FlashKeepsUp`; `FrequenciesFollow`; `KernelFollows`; `InitReturns`: from which configurations it returns, and that it does |
| `clocks_flash` | the lowest core voltage, 64 MHz | finding: latency 0 between the two writes of the latency (`sys.c` 315) is below what `sys.h` 113 asks for |

`HaltEndsWithReset` and `Unanswered` describe what the code does, where chapter 9
asks for more: they are there so that a change of that behaviour is noticed.
`OffByOne` and `LongReadTimesOut` do the same for the polled drivers.

### What the runs found in the polled drivers

- The counts. `size--` and `n_bytes--` come before the wait, so a timeout returns
  one less than what is left: a single I2C byte whose address nobody answers
  returns 0 (`i2c.c` 154, 178), a complete UART transfer returns 0xFFFFFFFF
  (`usart.c` 180). A register read whose address does not end returns 0 with
  nothing read (`i2c.c` 245).
- `config_tx_size` (`i2c.c` 47) never clears RELOAD, so a transfer of more than one
  block that is not refused never ends by itself: it takes its whole timeout, then returns 0.
- STOPF of a transfer that was given up may come after the next call has
  cleared the flag (`i2c.c` 146); that call then returns before its own transfer has
  ended, and the one after it changes CR2 under a running transfer. `EndedOnBus`,
  `FreshBytes` and `BusReleased` name what comes before, in `past`, and hold otherwise.
- A byte that arrives as a read gives up stays in RXDR and becomes the first byte of
  the next read (`i2c.c` 178); nothing empties RXDR.
- The time left for the second half of a register read can wrap (`i2c.c` 248):
  `TimeWrapped` is the one way a call does not return.
- A timeout of `SPI_master_transmit` leaves the slave selected (`spi.c` 142): a retry
  continues the message the slave has part of. `WholeMessages` exempts that by `cutOff`.
- The comments of `usart.c` (175, 183) and `i2c.c` say "-> n unprocessed". `NUnprocessed` states
  that, and `uart_unprocessed` and `i2c_unprocessed` refute it. For the UART it fails on every exit;
  `OneShort` says by how much, and is proved as the extent of that finding.
  `spi.c` 133 says the same of a loop that counts in the same way: `NUnprocessed` of `SpiMaster` is
  violated too, by both timeouts (one less, and 0xFFFFFFFF after the last byte); a complete
  transmission returns 0. It has no run of its own, as that would show nothing beyond that of the UART.

### What the runs found in the clocks and the flash driver

- The flash latency goes by way of 0 while the system runs from the HSI (`sys.c` 315). At the
  highest core voltage, which `main` chooses, 64 MHz are within the table; at the lowest
  they are not.
- The voltage level is ORed into that of reset and then waited for (`sys.c` 165):
  `CORE_VOS_2` is never reached and `sys_clock_init` does not return. The same is true of
  the LSE, of a PLL whose source is off, and of a system clock from an output that is not enabled.
- The frequencies of PLL2 and PLL3 are computed with the divider M of PLL1 (261).
  The HSI variable is multiplied by 1 - its enable bit, so it is 0 when the HSI is
  left on, and the variables of RTC from LSE and LSI are swapped. `Reliable` exempts the first two;
  no property is about the RTC's.
- A second run of `sys_clock_init` resets the kernel clock selections (359) but not the
  variables: after a wake-up the peripherals run from their defaults, the USB core from no
  clock at all. A comment of `main.c` (146) says that low power does not work.
- The mask of SRDCCIPR is not inverted (`spi.c` 47): configuring the SPI clocks clears the
  selections of LPUART1, I2C4, LPTIM2, LPTIM3 and ADC, and ORs the new code of SPI6 into the old.
- `main` gets 140 MHz on the AXI and 70 on the APBs; its comments (`main.c` 87-88) say 280 and 140.
- A reception takes its number of bytes from DLR, whatever the transmission before it
  did; a transmission that finds the peripheral busy leaves DLR, and the results are
  not looked at. After the one write of a byte, four refusals in a row make a one-byte variable
  receive two. `OSPI_test_receive` has no timeout.

### Bounds and why they are enough

- `RxBound` = 3: a setup stage needs two entries and the status stage that ends
  the transfer before it one, so a SETUP can overtake an unhandled status. More
  would need two unhandled transfers, and the host starts the second only after
  the driver has answered the first.
- `FifoDepth` = 1 or 2: with 1 a stale transfer blocks the next one, with 2 it is
  sent before it. The two ways a stale FIFO can hurt are both reached.
- The requests: one for each kind of branch of the request handlers that differs in state or
  in the reply. Values the code does not compare are not varied, nor are all the requests
  that get the same reply. Halts are in `keyboard` and not in `device_requests`, where they
  multiply the states. No run halts endpoint 1 OUT, which nobody uses, or sets another
  feature of an endpoint, which is acknowledged and changes nothing once the device is
  configured: the theorems of `UsbControl_proofs` are about these too.
- Two endpoints: the driver opens no others.
- Reports are "press" and "release", the two the loop composes.
- `Block` = 3 for 255 and 16 for 2^32: a buffer of 5 bytes takes several blocks, one
  of them not full, and a register address of 2 leaves room for one byte in the first.
- `MaxTick` is more than every timeout: what comes later is like it. A timeout that has
  wrapped is more than `MaxTick`, so it never ends in the model; the code would wait
  49 days.
- `Counter` = 4 for 2^16 and a FIFO of 2: buffers below, at and above TSIZE, and above
  the FIFO.
- `HoldOff` = 1: a call may come before it is over and wait, or after.
- `Configurations`: that of `main`; PLL1 from the divided HSI, the system clock from the crystal,
  a reference that is switched off, the CSI; and one for each way of never completing.
  Between them they take every branch of `sys_clock_init`. The theorems are for every set.
  The products of the frequencies stay below 2^31 (`ClockAssumption`), so nothing wraps.
- `Chosen` = {0, 1}: two codes of each field, so that a field can be changed and confused
  with another. `Programs`: each peripheral alone, what `main` uses, and those that share
  SRDCCIPR; the other pairs share no state but the clock tree.
- `FlashDriver`: a timeout of 1 tick and `MaxTick` = 2 are below, at and above it. `Byte` = 4 for
  256 and `Word` = 16 for 2^32: DLR is 0 or 1 in this driver, so the counts 1 and 2 do not wrap.

### Fairness

`FairSpec` has weak fairness of `Driver` (the handler is entered while an
interrupt is pending and not masked, and returns), and of the host steps that
take what the device offers (`HostReadsData`, `HostReadsStatus`,
`HostSendsStatus`, `HostSeesStall`): a host retries a NAKed stage until it is
served. Nothing obliges the host to reset, to suspend, to ask or to give up. `FairKeyboardSpec` has weak
fairness of the driver, of the host's polls of the interrupt endpoint, which a
configured USB host schedules every interval, and of the main loop, which is
enabled whenever no interrupt is pending. A bus that is not active, a device
that is not configured and a halted endpoint are exempt in `NeverStuck`.

`FairSpec` of the polled drivers has weak fairness of `Code`, as nothing but interrupts
runs beside it, and of `SysTick`. The line, the target and the SPI peripheral
owe nothing, so `CallReturns` rests on the timeouts alone. `BusReleased` is about
targets that answer in the end: it has weak fairness of `Core` as its premise. That of `FlashDriver` has
weak fairness of the code that does not wait for the peripheral, and of `SysTick`; the flags owe nothing.

`Fairness` of the clocks has weak fairness of `Code`, the steps of `sys_clock_init` that are not
the call, and of the start and stop of each oscillator and PLL: an oscillator that
never becomes ready is a defect of the board. Nothing obliges anyone to call, to sleep or to configure.

## Theorems

TLAPS proves these for every value of the constants within the named assumptions
of the modules and those stated in the table, of which a reader should know what they say of
the host and the timing (`Unhurried`, `Patient`: above; `RegularRequests`: below):

| Theorem | States |
|---|---|
| `UsbDevice_proofs!TypeCorrect` | `Spec => []TypeOK /\ []PacketWaits` |
| `UsbDevice_proofs!SleepCorrect` | `Unhurried` implies `Spec => []SleepInv` |
| `UsbDevice_proofs!ConfigurationCorrect` | `Unhurried` implies `Spec => []EndpointFollowsConfiguration` |
| `UsbDevice_proofs!Chapter9Correct` | `Unhurried` implies `Spec => ImplementsChapter9` |
| `UsbControl_proofs!ControlCorrect`, `RequestsReplied` | `Patient` and `RegularRequests` imply `Spec => []ControlInv`, `Spec => []Replied` |
| `UsbControl_proofs!DescriptorsAlwaysServed`, `AnswersAreFresh`, `NobodyHangs`, `StagesAlwaysAgree` | the same imply `Spec => []DescriptorsServed`, `[]FreshAnswer`, `[]NoHang`, `[]StagesAgree` |
| `UsbControl_proofs!AddressCorrect` | the same and `Unhurried` imply `Spec => []AddressFollowsState` |
| `UsbControl_proofs!HaltCorrect` | `Spec => HaltEndsWithReset` |
| `UsbKeyboard_proofs!KeyboardTypeCorrect` | `KeyboardSpec => []KeyboardTypeOK /\ []PacketWaits` |
| `UsbKeyboard_proofs!ControlBesideMain` | `Patient` and `RegularRequests` imply `KeyboardSpec => []` of `DescriptorsServed`, `FreshAnswer`, `NoHang`, `StagesAgree` |
| `UsbKeyboard_proofs!ReportsAreFresh`, `StateTellsCorrectly` | `Prompt = Events`, `Undisturbed` and `RegularRequests` imply `KeyboardSpec => []` of `FreshReport`, of `StateTellsTransfer` |
| `UsbKeyboard_proofs!ConfigurationBesideMain` | `Unhurried` implies `KeyboardSpec => SpoiltByWriting`, bus events inside `IN_transfer` included |
| `UsbKeyboard_proofs!AddressBesideMain` | `Unhurried`, `Patient` and `RegularRequests` imply `KeyboardSpec => []AddressFollowsState`, with the same interference |
| `FlashDriver_proofs!FlashCorrect`, `ReadsFit` | `Spec => []FlashInv`, `Spec => []ReadFits` |
| `PolledUart_proofs!UartTypeCorrect`, `OneShortCorrect`, `PrintedAllCorrect` | `Spec` implies `[]TypeOK`, `OneShort`, `PrintedAll` |
| `I2CMaster_proofs!I2CTypeCorrect`, `OffByOneCorrect`, `EndedOnBusCorrect` | `Spec` implies `[]TypeOK`, `OffByOne`, `EndedOnBus` |
| `I2CMaster_proofs!FreshBytesCorrect`, `LongReadTimesOutCorrect` | `Spec` implies `FreshBytes`, `LongReadTimesOut` |
| `SpiMaster_proofs!SpiTypeCorrect`, `WholeMessagesCorrect`, `TooLongCorrect` | `Spec` implies `[]TypeOK`, `WholeMessages`, `TooLong` |
| `ClockTree_proofs!TypeCorrect` | `Spec => []TypeOK` |
| `ClockTree_proofs!FrequenciesCorrect` | `Spec => []FrequenciesFollow` |
| `ClockTree_proofs!FlashCorrect` | `FlashMargins` implies `Spec => []FlashKeepsUp` |
| `ClockTree_proofs!NeverReturns` | `Spec => []NeverDone`, the safety half of `InitReturns` |
| `ClockTree_proofs!SelectionsCorrect` | `KernelSpec => []SelectionsFollow` once `sys_clock_init` has returned |
| `ClockTree_proofs!KernelsCorrect` | `WholeTimers` implies `KernelSpec => []KernelFollows` |
| `UartTransferCorrect`, `I2CTransferCorrect`, `SpiTransferCorrect` | `Spec => ImplementsTransfer` |

`TypeOK` is not inductive by itself: `USB_receive_packet_IRQ` takes the head of
the receive FIFO, so `PacketWaits` adds that a pending call of it finds an entry.

`EndpointFollowsConfiguration` is broken by a request that is handled while the
driver takes the device to be asleep. The proof is about requests on their way.
`SleepInv` says:
- `Asleep`: while the bus is suspended there is no packet in the receive FIFO
  and no setup stage to be handled;
- `Rising`: when the bus is awake and the driver still believes it sleeps, the
  wake-up or the end of the enumeration is due, in this pass or the next, and the next
  packet to be popped does not end a setup stage, so the wake-up is handled before one is;
- `IdleBus`: no transfer is in progress on a bus that is reset or suspended;
- `Booting`: before the first reset the interrupts of EP0 are masked, and
  nothing has happened that they would have reported.

`Unhurried` is used where suspend, resume and enumeration are guarded by
`Quiet`, and lemma `QuietMeans` turns that into an empty FIFO and no flag. From
`SleepInv`, lemma `AwakeForRequests` gives that a request is handled only by a
driver that knows it is awake; every other step keeps the endpoint and the
state, and the handlers of requests and of the enumeration change both
together. The refinement uses the same facts: handlers
of requests map to `Address9`, `Configure9` or `Unconfigure9`, the end of the enumeration to `Reset9`, suspend and
wake-up to `Suspend9` and `Resume9`, everything else, reports included, to a stutter.

Control transfers. `NoHang`, `FreshAnswer` and `StagesAgree` speak of the moments at which
nothing is pending, but a transfer gets there through four handlers: the receive FIFO is
emptied, the setup stage is acted upon, the FIFO is filled, the completion is handled. So the
invariant follows it through all of them. `ControlInv` says:
- `Arrival`: the setup packet of the current request is in the receive FIFO, or has been
  copied and waits, and until then both directions of EP0 are at rest; or it has ended;
- `Loaded`, `Pending`: the transmit FIFO of EP0 holds the one answer that is armed, and the
  FIFO-empty interrupt is unmasked only for an answer that has still to be copied (or was just
  copied, in this pass);
- `Armed`, `StatusStage`, `Completion`: which direction is armed in which stage, and
  in which two situations a completion of EP0 may wait to be handled;
- `Busy`, `Opening`, `Unmasked`, `Never`: a transfer runs only on an active bus that has been
  enumerated; EP0 is open and its interrupts enabled from the enumeration on; what never
  happens to EP0 (it is not disabled, no request gets a data stage from the host).

`Replied` is the other half: once the setup stage has been acted upon, EP0 has the data
(`DataReplied`), the status (`StatusReplied`) or is halted (`Refused`). Lemma `RequestOutcome`
gives it for each of the requests: `Outcome` lists what a request may leave on
EP0, and `Fit` that it is right for that header. The three properties follow from `ControlInv`
and `Replied` by the definitions. Two assumptions are needed. `Patient`, because the table above
shows what the others lose. `RegularRequests`, because the code takes the direction and the
presence of a data stage from the request, not from the header: a `SET_ADDRESS` with a length would
be answered with a status in the middle of a data stage. `Regular` is what USB 2.0 and HID 1.11 say
of both; TLC evaluates it for the requests of the runs, the unusual ones included
(`RegularAssumption`).

`AddressInv` adds to `AddressFollowsState` that a reset which has cleared the address but
has not been enumerated finds the end of the enumeration pending. `HaltEndsWithReset` is an action
property and needs only types: every handler and every request is one step, and lemma
`HaltKept` has a case for each.

The keyboard. `KeyboardNext` is the steps of `UsbDevice` and those of the main loop, so the
proofs reuse the step lemmas and add the main loop: `MaskInv` says that the copy of `DIEPEMPMSK`
the main loop holds never has the bit of EP0, which is all that `ControlInv` and `Replied` need, and
so they hold with the bus at its worst. The configuration does so but for one write.
`KeyboardSleep` is `SleepInv` beside the main loop, which touches neither the bus nor the device state.
What a handler does to the HID endpoint depends on the configuration it finds: if that stands, the
endpoint is left as it is, whatever state the main loop has put it in (`Standing`, `KeptStands`); if it
is begun or ended, all of the endpoint is set to match (`StandingRequest`, `ConfigurationOutcome`). So
only the write of `DIEPCTL` can make a mismatch (`MainWrites`), and it lasts as long as the configuration
stands. The reports need `Undisturbed`. `ReportInv` says
of the HID endpoint: while the main loop is inside `send_HID_report` or a copy is pending,
no bus event is (`SentAlone`); an armed endpoint is to be given the report
that was submitted last, or has it in its FIFO (`ArmedOnce`); one that is not armed has neither a copy
pending nor, unless it is being closed, anything in its FIFO (`NothingLeft`); a transfer does not both
complete and get disabled (`EndsOnce`); a busy class has a transfer, and hears of
its end (`BusyMeans`, `ClassHears`); a device that is reset in its sleep has an empty FIFO
(`FlushedAsleep`). It is inductive together with `ControlInv`, `SleepInv`,
`EndpointFollowsConfiguration` and `AddressInv`, and `ReportHolds` proves them at once.

The flash driver. A reception takes its length from what another call has left in DLR, so
`FlashInv` says where in the initialisation the driver is (`LeftOver`), that DLR is 1
only from the write of the status register on, and that the transmissions since then, counted
by `Since`, have all been refused; `Counted` ties the bytes stored to the count down modulo `Byte`. The
last reception of one byte comes after four transmissions: that is the 4 of `ReadFits`. It holds
for every width of the count.

The polled drivers. That a result is right, or one less, is a statement about two
counters, so each proof has an invariant that says how they go together at
every place of the function: `SizeCounts` for the UART, `Counting` for SPI and
I2C (there: what is left is `size + n_bytes`, plus the byte that is being waited for,
and all of the buffer while the address half of a register read runs). For the types of
I2C, `Asking` adds that the peripheral asks for no more bytes than its block has, so
`expects` does not go below 0. `EndedOnBus` rests on `OwnBus`: as long as no
call has returned in the middle of a transfer, the bus is free until a call sets
START, STOPF is clear when it does, and STOPF means that the bus is free again.
`Waiting` for SPI says that the time is compared only in a wait.

What went over the wires needs the peripheral too. `SpiInv` follows the bytes that have
left the FIFO: `Countdown` ties them to TSIZE and TSER, `Heard` to what the slave has
received since it was selected. A size beyond TSIZE therefore never ends well: the
countdown expires when more of the buffer is left than the FIFO can hold. `ReadInv` of the I2C master
says that the size register is written before START (`Prepared`), that the direction is
that of the call and TCR is set only with RELOAD (`OwnTransfer`), that a read of several
blocks whose transfer is over still waits for bytes (`LongRead`), and that RXDR holds
only bytes of the running read, as many as the peripheral has counted (`FreshData`).

The
refinements map `Call` to `Begin`, the moves of a byte to `Move`, the exits to
`Return` and everything else to a stutter.

The clock tree. All four theorems are about every step that `sys_clock_init`, the hardware
and a sleep may take, so the invariant says which register holds what from which step on.
`TreeInv` joins `VoltageSet`, `HsiDivided`, `OnlyEnabled`, `Sourced`, `RegistersSet` and
`SystemClock`; the last is the heart of it: as long as the system runs from PLL1, the PLL, the
prescalers and the latency are the configured ones, although the code that rewrites them
has begun, because `BackToHSI` comes before any of those writes. `VariablesSet` says the same of the frequency
variables, as functions of the configuration (`ConfiguredPll`, `ConfiguredAhb`, ...), and
`ShiftAHBDivides` and `ShiftAPBDivides` that the shifts of the code are the divisors of
the enumerations. `Reached` collects the conditions of `Completes` one wait at a time.
`FlashMargins` is what a configuration must leave: the highest core voltage after the
level has been ORed in; a crystal that may run the system at latency 0; and from the PLL an AXI
clock within the configured latency. The configuration of `main` has it. The finding
shows that the first part is needed.

The kernel clocks. Every step of `KernelClocks` is one of the tree or leaves it alone
(`KernelBesideTree`), so the results on the tree hold beside the config functions. `KernelInv`
says that a configured field goes with a copy of its source's variable as it is now
(`Copies`, `TimerCopies`), as long as `sys_clock_init` is not running, and that CFGR has been
cleared when its last steps begin: it changes the variables only while nothing can be
configured, and returns with nothing configured. `FrequenciesFollow` makes a copy a rate
(`SourceFollows`). The timers need `WholeTimers`: at an APB prescaler of 4 and `TIM_MUL_4` the hardware
takes the AXI clock itself, the code (`tim.c` 53-56) multiplies the quotient, which is up to
3 Hz less if the AXI clock cannot be divided by 4. All configurations of the
run, that of `main` among them (140 MHz), can; the proof found it, as no run had one that cannot.

The assumptions on constants (`RequestsAssumption`, `PromptAssumption`,
`BoundsAssumption`, `UndisturbedAssumption`, `UartAssumption`, `I2CAssumption`,
`SpiAssumption`, `ClockAssumption`, `FlashAssumption`, and `RegularAssumption` of the MC modules)
are evaluated by TLC in every run of their module.
`SleepInv` was checked with TLC, with exactly the events of `Unhurried` prompt,
before it was proved.

`ControlInv`, `Replied`, `AddressInv`, `ReportInv`, `FlashInv` and `KernelInv` were each checked
with TLC on the instances of the runs before they were proved.

Only model-checked: the liveness properties (`TransferEnds`, `NeverStuck`, `CallReturns`, `BusReleased`,
`InitReturns`, `OnlyReadsHang`), as the prover handles neither fairness nor ENABLED.

## Plan

What could come next, in this order:
1. `UsbIrqFlags`: the start-of-frame, OTG and isochronous handlers and the flags
   they acknowledge, with SOF enabled and a class that opens such endpoints.
2. Proofs: the safety halves of `NeverStuck` and `TransferEnds`.

## Not modelled

- USB: the isochronous, OTG, global-NAK and connection handlers: HID opens no isochronous
  endpoint and the masks (`usb.c` 153-163) leave OTG, global NAK and connection off. The
  low-power wake-up (`usb_int.c` 1031-1041), which its comment says does not work, and the stopped
  core clock; `ClockTree` has its call of `sys_clock_init`.
- Clocks: the failure of a crystal, after which `RCC_IRQHandler` halts; the fraction of the
  PLLs, which the hardware gets and the frequencies leave out; a `sys_config` that changes after the
  first call; the rate of the PER clock (its variable is kept, and not compared); the clock of SysTick is
  the AXI clock, as the names of `SYSTICK_CLK_SRC_t` have it. `delay_ms` reads the 64-bit
  `tick` in two halves; a tick between them is not modelled.
- `UART_division` (`usart.c` 30-37), whose two frequencies look swapped, and the rest of the
  configuration of UART, I2C and SPI (baud rate, timing): register contents without state.
- OCTOSPI: the configuration of pins and registers, the memory-mapped mode, which nothing enters,
  and the bytes on the wire.
- `base.c`: that the offset of a peripheral is its enable bit is a fact of the memory map
  of the vendor's header; `disable_dev`, which sets a reset bit that nothing releases, and
  `new_buffer` have no caller in the program.
- Register configuration without state (timers, GPIO, EXTI, NVIC, watchdog), the waits
  of hash and random numbers on what is computed in their peripherals, the emulator
  mocks in `test/` and the scripts in `doc/tools`.
