# A verification project for plak1a

plak1a is the software of an LPC2294 (ARM7) board: small programs that bring up
one peripheral each, with the drivers they need. This directory holds TLA+
models of those drivers, TLC configurations that check them on small instances,
and TLAPS proofs of the properties that matter most. `PROJECT.json` lists
components, runs, hazards, findings, theorems and, for every definition, the
source lines it models.

## 1. The system

The repository's own code is about 5000 lines of C under `software/`. It has no
operating system: every program is a main loop, with an interrupt routine
beside it in `camera`, `uip-1.0` and `barcode`.

| Part | State it keeps | Operations | What makes it correct |
|---|---|---|---|
| `camera/uart.c`, `isr.c` | two ring buffers with insert and extract index, `tx_running` | `uartNPutch/Puts/Write/Space/TxEmpty/TxFlush/Getch/Init`, `uartNISR` | each direction is a FIFO; no wake-up is lost; no index leaves its buffer |
| `camera/vic.c`, `irqh.S` | interrupt vectors | set-up, IRQ entry | one interrupt at a time |
| `accelerometer`, `touchscreen` | transfer position, remaining bytes, receive buffer, direction | `i2c_transfer`, `LIS3L*`, `GetADC`, `polarize`, `GetTS` | a transfer does what was asked, fits its buffer, ends, frees the bus |
| `uip-1.0/smsc9118.c`, `lan/smsc9118.c` | receive buffer indices and queue, `lastTxTag`; in the chip two receive and two transmit FIFOs | `lan9118_open/read/write`, `sendToNet`, MAC and PHY register access | data stay in step with statuses; a write reports on its own frame; no call hangs |
| `uip-1.0/main.c` | tick counter, two timers | main loop, `Timer0Handler` | the loop never stops, timers are served |
| `camera/c328r.c`, `main.c`, `systime.c` | session with the camera, baud rate, timeouts | sync, initial, get picture, set baud rate, reset | an answer belongs to its command; both sides agree on the rate |
| `sdcard/mmc.c`, `fat.c` | card state, directory and cluster chain | init, read and write sector, search and read file | the right sectors, in the order of the chain, to its end |
| `barcode/main.c` | edge times, decoded digits | `hand_barcode`, `Decode` | a clean scan decodes to its digits, other scans are refused |
| `memory`, `startup`, `gpio`, `glcd`, `uart`, `pythonweb` | next to none | demonstrations and tests | straight-line code |

How the parts interact. The main program and the interrupt routine of a UART
share the ring buffers and `tx_running`; nothing but the THRE enable bit and the
one-writer rule for each index protects them. The camera session sits on
`uart0Putch` and `uart0Getch`. The LAN driver and the I2C driver poll their
chips, which advance on their own between any two register accesses. uIP (not in
the repository) is called from its main loop and calls the LAN driver through
`tapdev_*`. `accelerometer` and `touchscreen` have a copy of `i2c_transfer` each,
`uip-1.0` and `lan` a copy of the LAN driver, and UART0 and UART1 are two copies
of one driver.

What is hard here: the interleaving of program, interrupt routine and hardware
(UART); retries and missing acknowledgements in the middle of a transfer (I2C);
two FIFOs that must stay in step, and answers that arrive after their timeout
(LAN, camera); waiting loops that may not end; counters and indices at their
limits. `hazards` in `PROJECT.json` lists each case at its line.

Not modelled, and why. u-boot, uClinux, busybox and eCos, nearly all of the
files, are ports of third-party systems, and `hardware/` and `docs/` hold no
programs: the models are of plak1a's own code. The polled UARTs, `printf_P`, the
GPIO and LCD demonstrations and the Python page are input and output without
state worth a model. Functions of modelled parts that nothing calls are left out:
`GetJpegPicture`, `Reset` and `PowerOff` of the camera, `mmc_write_sector` and the
reading of CID and CSD, FAT directories other than the root. Set-up of pins,
vectors and direct registers is straight-line code without an answer to wait for.

## 2. Plan

1. **UART** (`ByteFifo`, `Uart`, `UartProofs`): done, every safety property proved.
2. **I2C** (`I2c`, `I2cProofs`): done, every safety property proved.
3. **LAN data path** (`LanRx` and `LanRxProofs`, `LanTx` with its proofs in
   `LanProofs`): done, every safety property proved.
4. **LAN bring-up** (`LanOpen`, in `LanProofs` too): done, every safety property proved.
5. **Time on wrapping counters** (`Clock`, in `BarcodeProofs`): done, proved.
6. **SD card and FAT16** (`SdCard`, `SdCardProofs`): done, every safety property proved.
7. **Camera session** (`Camera`, `CameraProofs`): done; `TypeOK` proved. `FreshAck` and
   `PictureWhole` are statements about a bounded number of faults (section 4).
8. **Bar code pen** (`Barcode` on `Clock`, `BarcodeProofs`): done, every safety property
   proved.
9. **Touch screen** (`TouchScreen`, `TouchScreenProofs`): done, every safety property
   proved.
10. Left: the SRAM test and the PLL feed sequence, both straight-line.

## 3. Modules

### ByteFifo
The promise a serial driver makes for one direction: bytes on offer (`src`)
enter `q` in order, leave as `out` in order, each once; the next byte on offer
disappears only when the driver is `full`; bytes in `q` disappear only while the
caller is resetting the port. `Live` adds that bytes keep leaving.

### Uart
One port. The program (`pc`) advances one shared-memory or register access at a
time through `uart0Putch` (`PutchFull` ... `PutchUnmask`), `uart0Getch`,
`uart0TxFlush` and `uart0Init`; `uart0ISR` (`isr`) starts between any two of
these steps when IIR reports an interrupt, and the program waits while it runs;
`HwLoad`, `HwShift` and `HwReceive` move bytes at any time. The hardware is
modelled from how the driver uses it, with two points where the code depends on
more than it says:

- `ReArm`: whether enabling ETBEI with an empty THR raises the THRE interrupt, as
  the 16550 does. The transmit FIFO needs it only to go on after `uart0TxFlush`,
  which leaves `tx_running` at 1; the proofs hold without it too.
- `SplitExtract`: `uart0Getch` writes the extract index twice (`extract_idx++`
  and `extract_idx %= SIZE`). The index is a plain `unsigned short` (`uart.c:22`,
  `isr.c:13`), so a compiler may or may not merge the stores, and both builds are
  checked; merged, the second step only returns.
- `uart0TxFlush` says `FCR |= ...`; FCR is write-only and shares its address with
  IIR. The model reads IIR there, with the effects a read has.
- `uart0Init` is called by `main.c` only with the transmitter drained; that is
  the guard of `uartInit`.

No run has both directions at once: they share only the processor and the
interrupt routine, and the proofs are of the whole module.

`Tx` and `Rx` are two instances of `ByteFifo`. For `Tx` the queue is `Due`:
shift register, THR and ring buffer together; `src` is what the call has still to
pass on. For `Rx` the queue is the ring buffer and `src` the UART's receive FIFO.

### I2c
`i2c_transfer` as one step per status it handles: the controller holds the bus
until SI is cleared, so nothing interferes within a step. The exception is the
first `I2C_SEND_START`, a read-modify-write while the STOP of the transfer before
may still be under way, which is two steps. The slave has registers, a sub-address
and the auto-increment bit. `refused` and `lost` record a byte the slave did not
acknowledge and arbitration lost after a byte was sent. `GetADC` is the touch screen's copy, which always
sends its address with the read bit.

### LanRx, LanTx
`LanRx` is `lan9118_read`. The data of a frame is its number, once per word, so a
packet made of other words than its own shows. `seen` records a fast forward that
timed out, a frame drained by hand, and the "read buffers full!" branch. Both
copies are in the module: `copy` is chosen in `Init`.

`LanTx` is `lan9118_write` and its callers. `waited` counts ticks since
`startTime` and stops counting one past the timeout. A call of `lan9118_read` is
abstracted to whether it finds a packet. The main loop's second loop, over the UDP
connections, is left out: `uip-conf.h` sets `UIP_CONF_UDP` to 0, so it is not compiled
(it would be `Periodic` once more). Its `TxInit`, `TxNext`, `TxSpec`, `TxTypeOK`
and `txPc` have the prefix because `LanProofs` extends it together with `LanOpen`.

A frame is copied, and a short one drained, in one step: between two reads of the
data port the chip can only append.

### LanOpen
`lan9118_open` with `GetMacReg`, `SetMacReg`, `GetPhyReg`, `SetPhyReg` and their
busy loops; `pc` is the place in `lan9118_open`, `call` the place in a PHY access,
which takes several MAC accesses. A MAC access is one step with three outcomes:
it finds the command before it still under way, it succeeds, or it times out and
leaves its command in the chip (`csr`), to complete later or never. A register is
the set of its bits that matter; `All` is the 0xffffffff or 0xffff a timed-out
read returns, which the callers take for a value. `slow` counts timeouts, up to
`MaxSlow`, which stands for that many or more; it must tell one from several. A PHY
in reset takes no writes. The direct registers answer at once and are left out.
The result is TRUE or FALSE as in the code. A PHY whose ID registers do not match
(an unknown chip, or a known one with a timed-out ID read) makes `open` skip
everything else and return with `RetVal` still TRUE; `pc` is then `unidentified`
instead of `done`, so that the properties can tell this TRUE from the other.

### Camera
`pc` names the command that `camera/main.c` sends next or the answer it waits for;
`buf`, `want` and `short` are `WaitForResponse`. The port is its receive queue,
whose correctness is `Uart`'s matter. Commands, bytes of answers and the camera's
state can go wrong up to `MaxFaults` times: a command or byte lost, a command
refused, an answer later than the second `WaitForResponse` waits or the pause
before it, the camera switched off and on. A byte received at another rate than
it was sent at is `Junk`. Each byte carries whether it answers the last command
(`new`), which no guard looks at. `ACK`s that the program sends are not answered,
and are no steps. The three bytes of a size are one.

### SdCard
`mmc_init` (`Cmd0`, `Cmd1`) with its limited repetitions, then
`Cluster_Data_Store`, the listing of `main`, `Search_File` and `Read_File`. One
step per sector read. `mmc_read_sector` reports success when the card refuses a
command and leaves the buffer as it was, so the buffer is followed byte for byte:
on stacks of old data at the start (`Stack`), through `Read_Dir_Ent`, which writes
the name into the sector it reads from (`StoreName`), and through `Load_FAT`, which
keeps the last FAT sector there. A card that has accepted a read may never send the
start byte (`HwSilent`); `MMC_Read_Block` waits for it without a limit, so the
program then stays where it is. The card refuses at most `MaxFails` reads.

A sector is scaled down to two entries of nine bytes, the base of a name to two
characters, cluster and sector numbers to a byte that wraps where the code's 16 bits
do. An extension keeps its three characters, because the copying loop treats the
first differently from the others: `Read_Dir_Ent` writes the name to the start of the
buffer it reads it from, and in the first entry of a sector, behind a full base, the
dot lands on the first character of the extension before that is read. The dot is
then read for it and for each that follows, so the base and four dots come back and
the attribute is a dot too, whatever the length of the extension (`OverName`). Without
that, a name as long as its field still ends in the attribute (`OverAttr`). Both are
the same at 8 + 3 characters.

`Read_Dir_Ent` returns the cluster of the entry, or 0xFFFF for the end of the
directory; both callers stop at 0xFFFF, also when an entry holds it (`Return`,
`ReturnNone`). `ImageAssumption` is a card in order: a file's clusters are in the FAT
and on the card, none of them twice, and the characters of a name hold neither a zero,
which would end the directory or the string, nor a dot, which FAT does not store. For
the properties, `Used` are the slots of the root directory with an entry, `Rank(j)` how
many of them there are up to slot j, `Files` those before the first with the cluster
0xFFFF, and `Describes(x, j)` says that a listed entry is that of slot j, except for
what `Read_Dir_Ent` has overwritten.
`main.c` holds the calls of `Search_File` and `Read_File` in a comment; `Client`
makes them in any order once the listing is done.

### Clock, Barcode
`Clock` has the three ways the programs measure time on counters that wrap, as
operators for any width. `Barcode` uses those of `barcode/main.c`. Between two
edges `hand_barcode` polls; only the last poll before an edge counts, and it may
be a tick old (`late`), so an element of the code is one step. `Encode` is EAN-13
from the standard: a digit is the four runs (`Widths`) whose modules (`Modules`) are
the bits of set A, or their reverse; `Decode` has the tables of the program.
They are written independently of each other, and `ReadRight` compares them.
(One row of the program's `right` table is not the standard's; `Decode` never
gets to it, because the pattern is in `leftOdd`.)

### TouchScreen
`GetTS` as one step per sample: a polarization, the settling time and `GetADC`,
whose transfer is in `I2c`. `out` and `high` are the four lines of the panel in
IO1DIR and the output latch. The finger moves or is lifted between any two steps.
The panel answers to what the lines really are: a plate that is not driven shows
the position of the finger on the other, a driven line its own level. Which line
of a plate the converter hangs on is not in the repository, so both are tried
(`wire`). Sums, minimum and maximum have the signedness of the code, with `Word`
for 2^32; a reading that fails is -1. `IO1SET |= XL` reads the latch and sets the
line; `IO1CLR |= XR`, whose read has no defined value, is taken to clear the line
it names.

## 4. Runs

| Run | Instance | Shows |
|---|---|---|
| `uart_tx` | two bytes, queue of 2 (`TX_SIZE` 3), strings of 1 and 2, FIFO depth 2 | `TxRefines`, `TxLive`, `WriteNeverShort`, `ThrNeverOverwritten`, `NoLostWakeup` and the inductive invariant `TxInv`: all calls that send, flush and re-init, against interrupts at every point |
| `uart_rx` | two bytes, queue of 3, FIFO depth 3, overruns | `RxRefines` when the extract index is updated in one store |
| `uart_rx_split` | as `uart_rx`, stores apart | **violated**: `RxRefines` |
| `i2c` | four registers, two values, two bytes per reading, missing acknowledgements, arbitration lost at any point | `TransferDone`, `RxFits`, `TransferEnds`, `BusReleased` |
| `lan_rx` | two buffers, two frames in the chip, frames of 3, 6 and 9 bytes with a limit of 8 and fast forward from 5 | `RxInStep`, `NeverFull`, `ReadReturns` |
| `lan_tx` | two frames in each transmit FIFO, four tags, timeout of 1 tick | `OwnStatus`, `MainLoopLive`, `TimersServed` |
| `lan_tx_status` | the same | **violated**: `NoOldStatus` |
| `lan_open` | two known chips and an unknown one, partners with and without full duplex or none, PHY awake or asleep, two tries per PHY wait, one for the negotiation, timeouts told apart up to two | `OpenRight`, `OneSlow`, `OpenReturns` |
| `camera` | pictures of 2 bytes, a receive queue of 12, two commands waiting, three faults | `FreshAck`, `PictureWhole`, `Recovers` |
| `sdcard` | root directories of up to three slots of six kinds (a long name, a deleted slot, a full base with a short extension, a short base with a full one, no extension, the cluster 0xFFFF), files of one to four clusters over two FAT sectors, one refused read, a card that stops answering, limits of 3 listed and 2 searched | `ListRight`, `SearchRight`, `FileRight`, `ListingEnds` |
| `barcode` | thirty numbers, both directions, 24 to 27 ticks per module, one number with drifting speed, counters of 128 and 256 ticks started at 0 and 200, scans broken off anywhere and up to three edges too many | `ReadRight`, `BitTimeClose` |
| `touchscreen` | two samples of four readings, four places on the panel with both sides of the limit for a touch, two other levels on a plate nobody touches, two failed readings | `StillRight`; `TypeOK` holds the range of the means |

Why the bounds are enough. A ring buffer of three slots wraps, is full, empty and
in between; two byte values tell order and duplication apart; a string of two
bytes takes the direct path and the queue in one call. The proofs remove the
bounds for the UART. For I2C, two bytes per reading have a first and a last one,
and every status is reached. For the LAN, two buffers let `rxNdx` and `rxNdxIn`
drift apart and wrap; the lengths give one frame of each class (kept, short,
fast-forwarded, too long) and one whose last word is partial; two frames in
flight are the least that can be out of step or taken for one another. The
sixteen-bit tag is a counter modulo four.

For `lan_open` (1.4 million states), one timeout decides `OneSlow` and two are the
least that fake a link of an identified PHY; the PHY waits need a first and a last
turn. For the camera, three faults
let one spoil the answer to a command, the second the recovery and the third the
next try (`FreshAck` and `PictureWhole` were also checked with six; with a camera
that is late twelve times in a row `FreshAck` fails, because `Sync` cannot tell the
answer to its SYNC from that to an earlier one, so that the driver stays a command
behind until an old acknowledgement fits); the queue holds one answer with a picture, so a late one and the next
overflow it. For the card (534 thousand states), a sector of two slots and three slots in use have an
entry in the first slot (where the name overwrites it), in the second, and in
the next sector; the chains stay in a FAT sector, cross it, and go back. Directory
and file are varied separately, because no call uses both. For the touch screen, two
samples have a first and a last turn of the loop in which a line is left over from
the turn before, and one failed reading would make a sum of zeros negative
if the mirrored readings did not make up for it. For the pen, thirty numbers have every first digit and every digit at every place; the counter wraps
several times in a scan. The speeds are those at which the code reads reliably: at
12 ticks per module a poll one tick late already turns four modules into five.
`PenAssumption` asks for more than 20, for an edge within the 5000 ticks that end a
scan, and for these to be less than a round of the counter.

Fairness. `Uart`: the processor finishes the call and the routine it has begun,
and the UART shifts out what it holds. Interrupts may preempt a call again and
again, so `Continue` is strongly fair; so is `HwLoad`, which a flush can
disable. Nobody has to call the driver or to send to it. `I2c`: the loop polls,
the controller goes on, and a slave addressed again and again answers at last
(strong fairness of `Answer`); without that `TransferEnds` is false, because the
code retries without a limit. `LanRx`, `LanTx`: only the processor and the timer
are fair; the chip need not finish a fast forward or produce a status.
`LanOpen`: only the processor. `Camera`: the program goes on, and so does the
camera (weak fairness each); `Recovers` also assumes that no byte was lost and
that camera and port do not stay at different rates, and the code gets over
neither. `SdCard`: the program goes on, and a card that is told to initialise
itself again and again gets ready at last; that is strong fairness of `HwReady`,
because `mmc_init` gives up and its CMD0 resets the card. Nothing makes a card answer
a read it has accepted, so `ListingEnds` ends in the listing or in a silent card; and
it assumes that no more than `MaxFails` reads are refused, so of a card that is pulled
out during the listing and refuses everything it says nothing. `Barcode` and
`TouchScreen` have safety properties only, and a run of `Barcode` is one scan from
any state of the clock that scans before it leave.

Deadlock is checked except in `sdcard`, `lan_open` and `barcode`: `main` ends in an
empty loop, `lan9118_open` returns, a scan ends.

What the violations show: `uart_rx_split`, a receive queue that loses everything
when an interrupt falls between two stores, in a build that makes both of them (one
without optimisation does; where the compiler merges them, `uart_rx` is the behaviour
and the trace does not exist); `lan_tx_status`, a loop that is to
drain old statuses and drains none. The other findings in `PROJECT.json` have no
run of their own; the models contain what the code does there, and the
properties state exactly what is left: `TransferDone` excepts a transfer that lost
arbitration in the middle, `RxInStep` a frame drained by hand, `ListRight` the name
or attribute that `Read_Dir_Ent` overwrites, `OpenRight` an access that timed out,
`OneSlow` the TRUE that `lan9118_open` returns for a PHY it has not identified,
`TypeOK` of `Barcode` allows the element stored past the end of `code`, and
`StillRight` says nothing of the Y axis, which `polarizeYy` and `polarizeyY` never
drive.

## 5. Proofs

Every theorem holds for every value of the constants under the named assumptions
of its module: sizes are positive, buffers have at least two slots where one is kept
free, frame lengths, calls and faults are any. Safety properties are proved as
`Spec => []P` along one pattern: an invariant `I` that says more than `P`, with
`Init => I` and `I /\ [Next]_vars => I'`, one lemma per action; TLC checked each `I`
before its proof (types apart, which it would have to enumerate).

**UartProofs.**

- `TypeCorrect`: `Spec => [](TypeOK /\ CallInv)`. `CallInv` is what the code takes
  for granted at a point: `uart0Putch` has a byte, the routine reads RBR only when
  it holds one, no interrupt is served inside `uart0Init`.
- `TxInvariant`, `WriteNeverShortHolds`, `ThrNeverOverwrittenHolds`. The two
  properties are not inductive. That THR is never overwritten needs that
  `uart0Putch` writes it only with `tx_running` at 0, that this means THR is
  empty, and that the routine cannot change it in between because THRE is masked;
  that `uart0Write` is never cut short needs that the room left only grows while
  it runs. `TxInv` collects these.
- `NoLostWakeupHolds`, assuming `ReArm`. `Wakeup` says what holds also inside calls:
  outside the masked stretch of `uart0Putch` and the THRE branch of the routine, a
  non-empty queue has its interrupt enabled and pending, or a byte in THR that will
  raise it. Without `ReArm` the unmasking after a flush raises nothing.
- `TxCorrect`: `Spec => TxRefines`. Lemmas about the ring buffer (`HeldAppend`,
  `HeldTail`, `Count`) turn index arithmetic modulo the size into `Append` and
  `Tail`; `TxStep` then maps every action to one of `ByteFifo` or a stutter.
- `RxInvariant`, `RxCorrect`: the same for the receive side, assuming
  `~SplitExtract`. That assumption is necessary: `uart_rx_split` refutes the
  theorem without it.

**I2cProofs.** `Control` has the types, `Counts` (bytes sent and left make up the
buffer, bytes received and left what was asked for), `QuietBus` (between transfers
there is only a STOP) and `BusInStep` (each status agrees with what the driver is
doing). `RxFits` follows from it: the controller reads a byte more than was asked
for only with AA off, and reports that one with the status that is not stored. For
`TransferDone`, `DataInStep` adds that, while nothing was refused or lost, the bytes
of `i2c_buffer` have reached the slave up to `i2c_pos` (`Sending`) and the slave's
sub-address follows `i2c_rxWrPos` (`Receiving`).

**LanRxProofs.** `Ring`: the packets of one call fill adjacent slots of the queue,
at most one per turn of the loop, and none is left when the call returns; that is
why `NeverFull` holds. For `RxInStep`, `Buffers` says that waiting packets and the
one being read have different buffers, and `Aligned(off)` that the data FIFO is
the concatenation of the frames the status FIFO announces: the words of frame k lie
between two offsets, behind what a fast forward has still to skip. The offsets are
quantified in `InStep`, and every action supplies the next ones. Frames are told
apart by number, so `Chain` keeps neighbours different. How far the words of a frame
reach (`MaxRight`) is found with the least number of a set of naturals, which
follows from well-foundedness without an operator parameter.

**LanProofs** has two chapters. *Bring-up.* `OneSlow` rests on `Tested`: after the
negotiation has been started the PHY is only read (`Purpose`), a PHY in reset has no
link (`ResetNoLink`), a read of BSR brings back what the PHY says (`Fetch`), and each of
the two tests after the wait is passed because there is a link or at the cost of a
timeout (`Cost`): two tests cannot both be paid for by one. The one TRUE that passes
neither test is that of the `unidentified` exit, which `OneSlow` names. `OpenRight` rests on
`Quick`, about runs without a timeout: commands are carried out before the next one
(`Prompt`), the MAC registers by where `lan9118_open` is (`MacSet`), a link found at
the end is negotiated with what is advertised now (`NegotiatedAnew`), the
duplex mode `open` computes is the one both ends have (`BothEnds`), and the ID reads of
a known PHY bring back its ID, so that the `unidentified` exit is not taken
(`Identified`).
*Transmit path.* `OneFrame`: until a write times out the chip holds nothing but the
frame being waited for, its data or else its status. `OwnStatus` follows; after a
timeout it is false, which is what `lan_tx_status` shows.

**SdCardProofs.** `TypeCorrect` follows the buffer through `StoreName`, and ties the
length of the list to `main`'s count (`Listing`). `FileRightHolds` needs `Geometry`
(what `Cluster_Data_Store` found is what the boot sector says) and `Walk`: `Load_FAT`
is at cluster number `link` of the file, and the FAT sector it believes to be in the
shared buffer is there. Then the link it takes from the buffer is the next cluster
(`FatSector`, `NextLink`, for which no cluster may come twice) and the sector it
computes is the right one and on the card (`Quotient`, `DataSector`).

`ListRightHolds` and `SearchRightHolds` follow from `DirInv`, which counts. While
`Read_Dir_Ent` is at block `blk`, `TMP_Entry_Count` is the `Rank` of the last slot of
the block before and no more than the number of the entry asked for (`RankOrder`,
`LiveCount`: what a block adds to the count is its live slots); so the slot at which it
stops is the one of the rank asked for, and what is listed so far has the ranks 1 to
n. Slots are counted over `Used`; that none of those returned before had the cluster
0xFFFF makes the next one a file or the end (`IsFile`), and `FilesBelow` and
`RankLimit` turn the rank reached into the number of files.

That the entry returned describes the slot needs what the buffer holds after the
name was written over it. `Stored(b, j, i)` is the state of the copying loop after i
characters; `AddIs` and `DottedIs` say what one turn does, `BaseStored` and `RestStored`
put the turns together, and `StoredIs` gives the result: the characters themselves, or
the base and dots when the dot has got ahead of the reading (`Over`, `Taken`).
`ReadWritten` says that a place behind the ones written still holds what it held, and
`Returned` that cluster and size are out of reach. A file whose name was destroyed is
returned with a name that ends in a dot (`DotAtEnd`, `NameEnd`); no name that is
searched for does, so `Search_File` may miss such a file but takes it for no other.
Directories, limits, chains and cluster sizes are any here; the layout of a sector (two
entries, names of 2 + 3 characters) is that of the model.

**CameraProofs.** `TypeCorrect`: `WaitForResponse` stores no more than it was asked
for. It needs that every byte on its way is a byte, because the size of the picture
is one of them.

**BarcodeProofs.** *The clock*, for counters of every width (`WrapAssumption`). `T` is
the true time and `d` the ticks since; everything follows from what a reading is after
`d` ticks (`NextReading`: it has wrapped once or not at all) and what the unsigned
difference of two readings is (`Difference`), which rest on quotient and remainder
(`DivMod`, `ModUnique`).

- `ElapsedRight`, `SysTICsRight`: `systime.c` is right across the wrap, if it is
  called once per round.
- `UdelayNearlyRight`: `lan9118_udelay` counts one tick too much once the counter
  has wrapped, and is never off by more.
- `CounterReadRight`, `MeasuredRight`: the software extension of the 16-bit tick
  count, and the times `hand_barcode` takes from it, are exact across both wraps.

*The code.* `ReadForward` and `ReadBackward`: `Decode` of what EAN-13 prints is the
number, for all of the 10^13 and in both directions. It needs that the rows of the
tables are different and that none is in both of the left ones (`OddDistinct`,
`EvenDistinct`, `TablesDisjoint`), that they are the standard's (`OddIs`, `EvenIs`),
that an odd row read backwards is the even one (`ReverseEven`), and that the sets of
even places are different (`FirstDigitRead`).

*The pen.* `IInv`: the tick count is the low part of the extended counter and the timer
its last reading (`ClockInv`); the widths stored are the elements passed (`CodeInv`); and
the estimate of a module is within two ticks of the speed, three beyond the code, and
closer once two elements have passed since the speed changed (`TimeInv`, `Close`). `WidthRight` then shows that rounding gives the
right width and `EstimateClose` that the next estimate is as good, for every speed
above 20 ticks per module and a drift of a tick every fourth element.
`PenTypeCorrect`, `EstimateFollowsPen` and `NumberReadRight` follow.

**TouchScreenProofs.** `Sum` and `Delta` are recursive functions of the number of
samples. `Induct` (a set with 0 and the successor of each member has them all, from the
least number that is missing) and `Recursion` (a step for each number defines a
function; the step is a function too, not an operator) take no operator as parameter,
so `SumIs` and `DeltaIs` can say what the functions compute. `SumBound`: a pair of
samples adds between 0 and twice the range to the sum, the -1 of a failed reading
included (`Added`), so the unsigned sum never wraps below zero; that is the
range in `TypeCorrect`. `StillRightHolds` needs `Still`: the samples of a finger that
has not moved are its place and the mirrored place in turn (`XSamples`), because
`Panel` has the X plate driven from the side that `polarizeXx` and `polarizexX` say
however the Y polarizations left the lines, and those for Y are the level of a driven
line (`YSamples`). Steady samples have a mean and a range that can be computed
(`SteadyMean`, `SteadyDelta`); the two low bits that `GetADC` drops make the
difference of 2.

**Only model-checked.** Everything that says "eventually" (`TxLive`, `TransferEnds`,
`BusReleased`, `ReadReturns`, `MainLoopLive`, `TimersServed`, `OpenReturns`,
`Recovers`, `ListingEnds`): liveness under fairness is outside the prover's reach.
`FreshAck` and `PictureWhole` of the camera: the first is false for a number of
faults that is large enough, so that no theorem for every `MaxFaults` exists, and the
second is not known beyond the bounds checked.
