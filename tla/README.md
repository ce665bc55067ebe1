# Verification of the W800/W806 flash stub

`w800_raw_stub.c` is a program that is loaded into the RAM of a W800 or W806
and serves flash commands over a UART. `w800_custom_stub_probe.py` is the host
side that uploads and tests it. This directory holds TLA+ models of both sides,
TLC configurations that check them on small instances, and proofs, checked by
TLAPS, of what the raw and the compressed flash commands, reads and raw and
compressed writes over a faulty line, the command dispatcher, the CRC command, the
entry into the download mode and the runs of the probe promise.

Paths below are relative to the repository: `S` is `src/w800_raw_stub.c`, `P` is
`w800_custom_stub_probe.py`, `Z` is `src/w800_miniz.c`. `PROJECT.json` maps every
definition to the lines it stands for.

## 1. The system

The stub is one polling thread without interrupts. It keeps no state between
commands except the flash, the baud rate, the flash size (read once from the
JEDEC id) and whether it still prompts. The probe is one thread that opens the
port, sends a command, reads the reply, and for transfers goes on with XMODEM.
The two share only the serial line: no flow control, no DMA, a FIFO in the UART.
Nothing is persisted except the flash itself.

| Component | State | Operations | Talks to | Hard part | What makes it correct |
|---|---|---|---|---|---|
| Flash driver (S 243-338) | the chip | erase sector or block, program page, three read-back checks | external NOR flash | a program only clears bits and wraps in its page; erase or program may fail; addresses are masked | a unit reported as verified holds what was asked |
| Raw flash commands 0x04, 0x05, 0x91 (S 340-356, 892-976, 1034-1068, 1121-1132) | range, erase cursor, block number, bytes written | erase a range, receive blocks, verify and program page by page | flash driver, UART, peer | any peer, blocks of two sizes, failures half way | nothing outside the range's sectors changes; success means complete |
| XMODEM sender of the probe (P 902-987) | block, attempt | invite, send, repeat, EOT | raw and compressed write | lost and surplus answers, timeouts on both sides | success means written, both come back |
| Read 0x92, 0x98 (S 535-601, P 425-476) | block, tries, output | send blocks, repeat, EOT | UART, probe | late and lost answers; the probe's deadline | the probe gets each byte once and in order |
| Compressed write 0x97 (S 719-890, Z 40-85) | packet, decoder, page buffer | receive, inflate, erase and program as the output reaches each sector | flash driver, miniz, UART | packets, pieces of output, pages and sectors end at different places | the flash holds the output so far; success means complete |
| Compressed read 0x96 (S 603-717, Z 21-38) | packet, deflate state | deflate into packets | miniz, UART, probe | output ends inside or at the end of a packet | the stream is sent once, in order and whole |
| Dispatcher (S 978-1162, P 395-409, 726-735) | frame, prompts, rate | prompt, read a frame, check, dispatch, reply, change rate | all commands, probe | frames cut short or damaged, two rates, prompts racing the first reply, late replies | only what was sent is executed; both sides agree on the rate |
| CRC32 0x8f (S 392-466, 519-533) | two buffers, DMA engine, whether it may be used | test the engine, fill one buffer while the engine reads the other, fall back to software | CRC engine | a buffer reused too early, a chunk seeded wrongly, a timeout half way | the CRC of the range, in the end |
| Identification 0x00, 0x90, 0x95 | none | one reply | dispatcher | MAC record validity | - |
| Memory functions (`w800_libc.c`) | none | memcpy, memset, by words where aligned | everything | boundaries | equal to byte-wise loops |
| miniz (`third_party`) | decoder, encoder | DEFLATE | compressed commands | - | vendored |
| Download mode and upload (P 265-393, 900-918, 1095-1125) | prompts counted, reply read so far | find out who prompts, reset a secondary downloader, catch the mask ROM with ESC, upload | firmware, boot window, mask ROM, secondary downloader, stub | prompts early, late or from somebody else; replies that race prompts | the image goes to the mask ROM only; the entry ends |
| Probe test cycles (P 478-898, 1131-1214) | backup files, what was read, the rate | backup, erase, restore, compare, change the rate | all of the above | any step may be the last one of the run; another run follows, which may overwrite the files of the last | what is owed to the user is in the flash or in a complete file; a run that passes has restored the flash |
| Start-up, image packing | - | straight-line | - | - | - |

The hazards this code is exposed to, each at its line and with the properties
that would catch it, are listed in `PROJECT.json`.

## 2. The modules

Every module of a component EXTENDS the ones it is built from; two instances
(`Sender`, `Link`) are shared by the two write sessions.

| Module | Models |
|---|---|
| `Multiples` | the page, sector or block of an address. |
| `W800Flash` | the flash driver and the chip. A chip is a function from addresses to units; programming is `And` inside the page of the address, erasing sets a sector or a block to `FF`. Any of the addresses in `Flaky` may not react to an operation, which the driver notices when it reads back. |
| `Xmodem` | markers, block numbers modulo `NumberMod`, packets and the acceptance test. |
| `Stub` | what the flash commands share: the UART seen by one thread, the range checks on `uint32_t`, statuses. |
| `SerialLine` | faults of the line: lost and damaged bytes, lost replies, FIFO overrun, of the kinds that `conditions` allows. |
| `RawFlash` | 0x04, 0x05 and 0x91, one action per step between two reads of the line or two operations of the chip. `pc` is the place in the code: `erase`, `invite`/`first` (the wait for the sender), `marker`, `packet`, `program`. |
| `FlashUpdate` | the abstract specification of a command that changes the flash: erase only in the sectors of the range, fill upwards, succeed only when complete. |
| `AddressableFlash` | `W800Flash` on a chip that the 25-bit address mask reaches. |
| `RawWrite`, `XmodemSend` | `RawFlash` against `Probe.xmodem_send` over a faulty line. |
| `XmodemRead` | `xmodem_send_memory` (0x92, 0x98) and `xmodem_send_compressed_memory` (0x96) against `Probe.xmodem_receive` over a faulty line; `source` says which of the two it is. |
| `XmodemReceive` | `Probe.xmodem_receive`, the receiver that `XmodemRead` instantiates with `expectedLen`, 0 for a stream whose length the probe does not know. |
| `CompressedFlash` | 0x97: `xmodem_rx_next_packet`, the loop of `w800_miniz_inflate_raw`, the page writer and `xmodem_rx_finish`. |
| `CompressedWrite` | `CompressedFlash` against `Probe.xmodem_send`. |
| `Dispatcher` | main and `handle_obk_frame`, byte by byte, against `execute_obk_command` and `change_obk_baud`, with restarts of the probe. |
| `Crc32` | 0x8f: the CPU, which copies cell by cell, and the crypto engine, which reads cell by cell, as two actors that share two buffers. |
| `DownloadEntry` | `sync_w800_download_mode`, `rom_preflight`, the upload as its outcome, and `sync_after_stub_upload`, against a board that may be doing any of six things. |
| `Session` | `main` and the test functions: runs as scripts of commands, over a flash that counts in sectors, with the backup files, which have fixed names in the directory of `--out`; interrupted anywhere and followed by other runs, with the same `--out` or another. The history variable `owed` records what the user is to have in the end. It composes the other modules by what they show: a transfer is the outcomes they leave possible. |
| `MC*` | the instances TLC checks, and peers that send anything. |
| `RawWriteProofs` | the theorems about `RawFlash` (types, safety, refinement), then those about `RawWrite`; before them, which cells an erase or a program can change, and packets and their numbers. |
| `XmodemReadProofs` | those about `XmodemRead`. |
| `CompressedWriteProofs` | those about `CompressedFlash`, then those about `CompressedWrite`, laid out in the same way. |
| `DispatcherProofs` | those about `Dispatcher`, after lemmas about sums, frames and replies. |
| `Crc32Proofs`, `DownloadEntryProofs` | the one about `Crc32`, and the one about `DownloadEntry`. |
| `SessionProofs` | those about `Session`. |
| `SequenceLemmas` | what the proofs share: induction and recursion over numbers, how sequences are cut and joined, what flattening does, the arithmetic of pages, sectors and blocks, and of numbers that wrap. |

Definitions marked "Mutant:" are wrong versions of the definition that follows
them. No specification uses them; each shows that some property notices the
mistake when it is put in place of the right version.

### Abstractions

* A payload byte is a unit whose values are few; an address range of the model
  is a few sectors. All comparisons and all arithmetic on offsets are those of the
  code, with 2^32 as `Word`.
* The two CRC bytes of a packet are one element and the CRC is a function of the
  payload; the instances choose an injective one. A damaged packet that passes
  its CRC is therefore not considered. In `Dispatcher` the sum of a frame is the
  real one.
* In `RawFlash` and `CompressedFlash` a command arrives as one step
  (`StartCommand`, `RejectCommand`), with nothing else waiting in the line; how a
  frame is read is the subject of `Dispatcher`, which in turn ends each command
  without following its transfer. A 0xA5 among bytes that a failed transfer
  leaves in the line is therefore considered in neither write session.
* The DEFLATE decoder is abstracted to what its caller sees: every byte of a
  stream stands for a fixed piece of output (`Expand`), some byte ends the stream
  (`Ends`), some bytes are refused (`Invalid`); a call stops when the input is
  used up, when the dictionary (`DictSize`) is full or at the end. The contents of
  the dictionary are not modelled. The early return of
  `w800_miniz_inflate_raw` for a call that consumes and produces nothing cannot
  happen, since a call always finds input or room.
* The DEFLATE encoder of 0x96 is abstracted to the pieces of a stream that it
  hands over, of any length; the stream itself is given.
* A fault model is a record, `conditions`, chosen at the start and fixed: which
  kinds of faults there are, how patient the other side is, whether the chip is
  good. So one run covers both "anything may happen" and "only what the retries
  are made for"; properties that need the second say so by `Repairable`.
* In `Crc32` a cell of memory holds its address and a CRC is the sequence of
  cells that went into it, so that every mistake in range, order or seed shows.
  The stores of `memcpy` and the accesses to the volatile registers happen in
  program order. An engine that passes its test is taken to be right in every
  chunk; the test itself, one chunk whose seed is its own reversal, would not
  notice a wrong seed.
* In `DownloadEntry` a command is one element of the line to the board, and a reply
  one element for each byte that the probe counts. The mask ROM, the
  secondary downloader, the firmware and the boot window are not in the
  repository: they are modelled as what P takes them for. A prompt may be sent
  while a command is on its way, once per command.
* In `Session` reads are right (`TakesRangeInOrder`), writes stop anywhere, and
  `xmodem_send` may report as sent what was not taken, which costs two of the
  allowed disturbances (`SentMeansWritten`). The two cycles write their backups
  under one fixed name each in the directory of `--out` (P 1040, 1159-1165), so that a
  run overwrites what an earlier one with the same `--out` has left. A save has two
  steps: the file is truncated, then it is complete.
* The checksum mode of `xmodem_send` is not reached with this stub, which only
  invites with `C`; `XmodemRead` does model both modes of the read.
* A baud rate is the four bytes that name it; the divisor arithmetic is left out.
  Bytes that are sent at one rate and read at another arrive as garbage.
* A timeout of the stub passes only while no byte waits for it. Between the
  timeouts of the two sides only those orders are excluded that the waits, by
  orders of magnitude, exclude; they are named in the comments of the actions
  (`NoInvitation`, `NoResponse`, `StubGivesUp`, `PromptAgain`, `ReplyTimeout`).

## 3. The runs

The geometry is 2 units per page, 4 per sector, 8 per block, 16 in all, with the
first sector protected: pages, sectors and blocks nest as on the chip, a block
erase may or may not fit, and a range can start at the protected area, end at the
end of the chip, and end inside a page, a sector or a block. Block numbers wrap
after 3 or 4. An SOH packet is smaller than a page and an STX packet larger in
the raw runs (as 128, 256 and 1024 bytes are).

| Run | Question | Bounds, and why they are enough |
|---|---|---|
| `raw_flash` | Do 0x04, 0x05 and 0x91 keep their promises, and implement `FlashUpdate`, against any peer? | Two admitted transfers (5 units: pages of both kinds, a short last page, two sectors; 4 units at the end of the chip), offsets and lengths on both sides of every comparison, every block number, damaged and truncated packets, one flaky address. One command per behaviour; what an earlier one leaves is among the initial states. |
| `raw_write` | Which success reports of a raw write can be relied on, do both programs come back, and are damaged packets and lost replies made good? | Three STX blocks, the last short; every pair of faults of six kinds plus one surplus prompt, on a chip that may fail; and two repairable faults, fewer than the three transmissions, on a good one. |
| `raw_write_large_chip` | (violation) Is the protected area safe on a chip beyond the address mask? | A mask of half the chip. |
| `xmodem_read` | Does the probe read each byte once and in order, do both come back, and are damaged packets and lost or damaged answers made good for a patient probe? Plain and compressed. | A range, or a stream, of two and a half STX blocks whose bytes include control characters; pieces of any length; two faults and one late answer; garbage that may be CAN; two repairable faults. |
| `compressed_flash` | Does the page writer put every stream where it belongs, against any peer? | Streams over an alphabet of bytes that expand to nothing, one, several units, more than the dictionary, that end, or that are refused; ranges that start at a sector, inside a page, at the end of the chip, and two that are refused. |
| `compressed_write` | The questions of `raw_write` for a compressed image. | Three packets, with pieces of output that end inside a packet and between two; every pair of faults and one surplus prompt, on a chip that may fail; and two repairable faults on a good one. |
| `compressed_unaligned` | (violation) Does done mean written for any admitted offset? | A range inside a sector that holds old data. |
| `compressed_full_packets` | (violation) Is every whole stream accepted on a perfect line? | No fault; the stream fills its last packet and owes output at its last byte. |
| `dispatcher` | Is only that executed, answered and agreed which was sent? | Eight commands (two changes of rate, one refused, an erase, a data reply, an unknown command, a short one), every pair of faults, two restarts; garbled bytes may be the one that starts a frame. The sizes of frames and `cmd_buf` are real. |
| `crc32` | Is every CRC that is answered the CRC of just that range, and is every command answered, whatever the engine does? | Chunks of two cells, ranges of up to three chunks, the last one full or not, every offset and length up to the largest word; two commands, so that the second one finds the engine tested, given up, or fails in it. |
| `entry` | Does the image go only to the mask ROM, and does the entry end? | Every state of the board, every set of options; two things that go wrong, of six kinds; up to two prompts waiting. |
| `session` | What may be relied on after a run, whatever interrupted it? | Three sectors: protected, the user's, scratch, erased or not at first. Each test option, alone or with a second one; two directories, so that a cycle may overwrite a backup of an earlier run, a complete one or a broken one, or leave it; three runs, so that a broken one is followed by another and by a restore; two interruptions. |

### Properties, by what they say

* **Flash contents.** `VerifiedPrefix` and `FlushedPrefix`: while a write runs the
  flash holds exactly what was accepted so far, and erased units in front of it.
  `DoneMeansComplete`: success means the whole range. `OutsideUntouched`,
  `UnreachedUntouched`: what a command may change. `ProtectedNeverWritten`: no step
  changes the first 0x2000 bytes. `ThreadState`: what each point of the code
  relies on.
* **End to end.** `TakesImageInOrder`, `TakesRangeInOrder`, `OutputIsPrefix`: each
  byte is taken once and in its place. `AcceptedMeansWritten`: when the stub ends
  a transfer with ACK the image is in the flash, whatever went wrong.
  `SentMeansWritten`, `DoneMeansRead`: the same for the other side's success.
  These two hold for at most one disturbance, and the bound is part of the
  property: every copy of a block is acknowledged, so a repetition that was not
  needed puts one ACK too many on the line, and the sender may count on it
  blocks, and then EOT, that the receiver has not seen. TLC shows this with two
  disturbances.
* **Commands.** `OnlySentExecuted` (for one damaged or lost byte, which is what an
  additive sum can detect; two may cancel out), `AnsweredWereExecuted`,
  `RatesAgree`. Besides the sum the first rests on the lengths: a length byte that
  is damaged downwards leaves a frame whose sum is compared with a payload byte.
* **Runs of the probe.** `UserDataKept`: at every moment, what is owed to the user in a
  sector is there or in a complete backup file. Owed is what the flash held at first,
  until the user replaces it: by restoring a backup, with what that holds, or by a
  cycle whose `--out` has a complete backup of the same name, with what that cycle
  finds. Without this condition it does not hold of the program. A cycle that was
  interrupted with the flash erased, and is then started again with the same options,
  reads the erased flash and writes it over the only complete backup (P 748, 822);
  nothing in P stands against that, and TLC shows it as soon as `StartSave` leaves
  `owed` alone. What brings the flash back after an interrupted cycle is
  `--restore-compressed-backup`, not the same cycle once more.
  `PassedMeansRestored`: a run that passes has left the flash as it found it, or as the
  backup has it that it was to restore, whatever `xmodem_send` believed.
  `RestoreRecovers`: with a complete backup a restore succeeds from whatever an
  earlier run has left.
* **Entry.** `ImageGoesToRom`, as long as nothing goes wrong on the line. The condition is
  needed: the loop that sends ESC (P 346-367) takes any four prompts for the
  ROM's, so if the first check misses the prompts of the secondary downloader, the
  image goes there.
* **CRC.** `CrcOfRange`.
* **Returning.** `BothReturn`, `StubReturns`, `EntryEnds`, `Answered`; `WriteLands`,
  `ReadLands`, `StreamLands`, `ServedInTheEnd`: what the retries are for.

`WriteLands` says that the image is in the flash and the stub is content; the
probe itself fails when the reply to EOT is the byte that is lost, since that
ACK is sent once. In a compressed write the same happens with the ACK of the
last packet: the stub then takes nothing but EOT and cancels a write that is
already in the flash. A lost reply to 0x07 can leave the two sides at different
rates, and a restarted probe then finds no stub; `ServedInTheEnd` is stated for a
good line only. It allows one failed run because a prompt that was sent after
`reset_input_buffer` becomes the first byte of the first reply.

### Fairness

Both programs are loops that always take their next step, and each wait of each
program has a limit in the code, so the liveness properties assume weak fairness
of the steps of the stub, of the steps of the probe and of their timeouts. No
fairness is assumed of the line: faults may or may not happen. A prompt that
nobody answers is repeated at most `MaxPrompts` (100 in the code) times.

In `Crc32` the engine is fair unless it is one that may be late. In `DownloadEntry` the
board reads and prompts, neither at the expense of the other, and so does the
probe with reading and sending ESC, which its loop alternates; a user who
was asked to reset the board does so. In `Session` nobody has to start a run.

## 4. Disagreements between the code and what is said of it

1. On chips beyond 32 MiB the address mask (S 253, 261, 273) makes a write to a
   high offset erase the protected area, which README.md:22 says is protected
   (`raw_write_large_chip`). The chips in use have 1 or 2 MiB. Everything proved
   assumes `ReachAssumption`.
2. 0x97 accepts any offset but erases only from a sector's first byte and skips
   pages of 0xFF without reading the flash (S 829-832, 848), so that a write may be
   reported as done with old data left in the range (`compressed_unaligned`). The
   properties of `CompressedFlash` about contents are stated for offsets at a
   sector boundary, which is what the probe uses.
3. `w800_miniz_inflate_raw` asks for the next packet before it fetches pending
   output (Z 64), and refuses a valid stream whose last byte is the last of its
   packet while output past the end of the dictionary is owed
   (`compressed_full_packets`). XMODEM padding usually hides this.

## 5. What is proved

TLAPS checks these for every value of the constants that satisfies the named
assumptions; TLC has checked each of them on an instance.

| Module | Theorem | Says |
|---|---|---|
| `RawFlash` | `TypeCorrect`, `ThreadCorrect` | `[]TypeOK`, `[]ThreadState` |
| | `ProtectedArea` | `ProtectedNeverWritten` |
| | `Prefix`, `Completeness`, `Containment` | `[]VerifiedPrefix`, `[]DoneMeansComplete`, `[]OutsideUntouched` |
| | `Refinement` | `RawFlash` implements `FlashUpdate` |
| `RawWrite` | `Implementation` | every session is a behaviour of `RawFlash` |
| | `Acceptance` | `[](TakesImageInOrder => AcceptedMeansWritten)` |
| | `Order` | `[](WholePackets => TakesImageInOrder /\ AcceptedMeansWritten)` |
| | `Delivery` | `[](WholePackets => (hpc = "ok" => InPlace) /\ SentMeansWritten)` |
| `CompressedFlash` | `TypeCorrect`, `ThreadCorrect` | `[]TypeOK`, `[]ThreadState` |
| | `Prefix`, `Completeness`, `Containment` | `[]FlushedPrefix`, `[]DoneMeansComplete`, `[]UnreachedUntouched` |
| `CompressedWrite` | `Implementation` | every session is a behaviour of `CompressedFlash` |
| | `Acceptance` | `[](OutputIsPrefix => AcceptedMeansWritten)` |
| | `Order` | `[](OneAtATime => OutputIsPrefix /\ AcceptedMeansWritten)` |
| | `Delivery` | `[](OneAtATime => (hpc = "ok" => InPlace) /\ SentMeansWritten)` |
| `XmodemRead` | `TypeCorrect` | `[]TypeOK` |
| | `Order` | `[](WholePackets => TakesRangeInOrder)` |
| | `Completeness` | `[](WholePackets => (result = "done" \/ hpc = "ok" => Len(output) >= Len(Image)) /\ DoneMeansRead)` |
| `Dispatcher` | `TypeCorrect` | `[]TypeOK` |
| | `CommandsKept` | `[](Clear => Within(executed, asked) /\ OnlySentExecuted)` |
| | `AnswersTrue` | `[](Clear => AnsweredWereExecuted)` |
| | `RatesKept` | `[](Clear => RatesAgree)` |
| `Crc32` | `CrcCorrect` | `[]CrcOfRange` |
| `DownloadEntry` | `EntrySafety` | `[]ImageGoesToRom` |
| `Session` | `DataSafety` | `[]UserDataKept` |
| | `Restoration` | `[]PassedMeansRestored` |

### Raw flash commands

The theorems hold for any bytes on the line at any time (`Environment`) and any
failures of the chip.

Assumptions: `FF` is neutral for `And` (`AndAssumption`; nothing else about a
program is used), pages divide sectors and sectors divide blocks and the chip
(`GeometryAssumption`), `WriteMin` is at a sector boundary, the flash size is below
2^32, and the mask reaches the chip (`ReachAssumption`).

The argument. `Typed` (types and `ThreadState`) is inductive: the erase cursor is
always at a sector of the range and an erase unit never reaches past the
sectors of the range; the page part of a packet never leaves its page. From
`Typed` alone follows which cells a step can change (`EraseStaysInside`,
`ProgramStaysInside`), hence `ProtectedArea`. The contents need
`Safe = Typed /\ VerifiedPrefix /\ DoneMeansComplete /\ OutsideUntouched`: a page
can only be programmed to the wanted value because the prefix invariant says
that the cells in front of the cursor are erased, and it says so only because
the erase phase ended with the whole range verified; completeness at EOT is the
prefix at the length of the range. No part is inductive without the others.
The refinement uses `Safe` for the initial states of each abstract step and maps
`erase` to "erasing", all states of the transfer to "filling", and `idle` to "idle".

### Raw write session

For every image, every block size and number of blocks, every chip, any number of
faults and retries. Assumptions: those of the raw commands; that the packets of the
image consist of bytes and that the CRC tells a damaged packet from the one
that was sent (`PacketBytes`, `DamageShows`); that the target is a sector of the
writable part and the image fits (`LinkAssumption`), which are the checks of
0x91.

`Implementation` needs nothing of the protocol: each step of a session is a step of
`RawFlash` among any peers (`LinkStep`), so `Safe` and with it all theorems about the
commands hold in every session. `Acceptance` follows: when the stub ends the
transfer with ACK, what it has taken is in the flash, and what it has taken is the image
if it came in order. So the stub's word is as good as the order of the bytes,
on any line.

That order is not kept on every line. After a lost byte the stub waits for a
marker inside the rest of a packet, and an image may contain what looks like a
packet with the number that is due; a damaged marker does the same, and a surplus prompt
makes the probe count an answer too many. (One such fault does not yet make the
probe's report wrong, as `SentMeansWritten` says; that is checked, not proved.)
`Order` and `Delivery` are therefore stated under `WholePackets`: whole packets, damaged anywhere behind their
marker, any number of times; replies and prompts lost; the erase
slower than the probe's patience; either side giving up first; erases and programs that
fail. There the bound on faults in `SentMeansWritten` is not needed.

The argument. The two sides are always at one of ten stations (`InTurn`): the stub
erases and invites, the probe's turn, a packet on its way, the block being
programmed, an answer on its way, EOT on its way, and four ends. At each, what is on
the line is known up to damage, and the block number that the stub expects and the
number of bytes it has written say that it has the block the probe is at
(`Taken`) or is due to get it (`Fresh`): one bit, which is what an alternating-bit
protocol needs, and which block numbers modulo any number from two on can tell
(`Numbering`). There is one lemma per station (`FromPacketComing` and so on) that
names where a step can lead. A timeout passes only in silence, which is why no reply
can be one too many (`TimeAt`). `LinkInv`, the invariant, is `Safe`, what the command of
the session fixes (`Served`), and under `WholePackets` the stations and
`TakesImageInOrder`; TLC has checked it on the instance of `raw_write` and on one with SOH
packets and two block numbers.

### Compressed flash write

The theorems hold for every geometry, every stream and decoder (`Expand`, `Ends`,
`Invalid` and the size of the dictionary are constants), any bytes on the line and
any failures of the chip. Assumptions: those of the raw commands, and
`StreamAssumption`: a byte of the stream stands for a sequence of bytes, the
dictionary has room for one at least.

The argument. `Typed` adds to the types and `ThreadState` what the page writer's
two counters have to do with each other (`WriterState`): the page buffer never
holds more than has been written, it is flushed full or as the last one, and the
last one only when the whole range is written. Typing already needs that
what a call of the decoder delivers is a sequence of bytes, which is a fact about
flattening (`InflatedTyped`). `Safe` is `Typed`, `PageAligned` (for a range that
starts at a sector the page buffer starts at a page), `FlushedPrefix`,
`DoneMeansComplete` and `UnreachedUntouched`. Again no part stands alone: a page
of `FF` may be skipped only because the prefix invariant says that the flash is
already erased there, which it is only if the sector was erased when the output
reached its first byte; and that this erase destroys nothing that was flushed
follows from the offset being at a sector boundary. `EraseReach` and
`ProgramReach` bound what one operation of the chip can change;
`FlashStepUnreached` turns that into `UnreachedUntouched`, and does not need the
sector boundary for the protected area.

### Compressed write session

For every stream, dictionary and decoder of `StreamAssumption`, every size of packets
and pages, every chip, any number of faults and retries. Assumptions: those of the
command; that the image is one whole stream, which ends at its last byte and has no
byte that the decoder refuses (`ImageAssumption`); `PacketBytes`, `DamageShows` and
`LinkAssumption` as for the raw session.

`Implementation` and `Acceptance` are as for the raw session, and so are the stations of
`InTurn`, which know up to damage what is on the line. What differs is what the stub
does with a packet, and that it answers it only when the decoder wants another one. So
being "past block b" is not a number of bytes written but a state of three buffers,
`Fed(b)`: there is a place c in the image such that what the page writer has taken,
what it has been called with and what the decoder owes make up, one after the other,
what the first c bytes stand for; and the bytes from c on, as far as blocks 0 to
b - 1 reach, are the decoder's unread input. Every step of the decoder and the page
writer keeps `Fed` wherever a call stops (`FedInflate`, `FedFill`), a packet moves it on by one
block (`FedNext`), for which the decoder must have used up its input (`InputUsed`), and it
says that the output so far is a prefix (`FedPrefix`). All of these are facts about
joining and flattening sequences (`InflatedJoins`, `ImageParts`). The padding of the last packet
is never reached, since the stream ends before it.

`Order` and `Delivery` are stated under `OneAtATime`: packets arrive whole, damaged
anywhere behind their marker, any number of times; replies are lost; either side gives
up; erases and programs fail; and the flash is not slower than the probe's patience. The
last is needed because the stub acknowledges a packet only when its output is
in the flash: a packet repeated meanwhile is acknowledged a second time, and
the probe counts that for the next one. TLC has checked `LinkInv` on the instance of
`compressed_write` and on one with packets of one byte and two block numbers.

### Read

For every range of bytes and every stream, every way in which the compressor hands the
stream over, all block sizes, numbers of blocks and limits of the retries. Assumptions:
the image consists of bytes and is not empty, and an SOH packet is not larger than an STX
packet (`ReadAssumption`); the ranges of the constants (`ConditionsAssumption`,
`PacketAssumption`); the CRC tells a damaged packet from the one that was sent
(`DamageShows`).

`TypeCorrect` holds on any line. What it needs beyond types is `Staging`: which part of
the packet the stub has filled when it asks the compressor for more, and that a packet
of a stream is complete, or the last one, when it is sent.

`Order` and `Completeness` are stated under `WholePackets`: no byte to the probe is lost
and no marker damaged, no damage makes an ACK of a reply or a NAK of the request, and no
reply is late. What is left is damage anywhere behind the marker, any number of times,
requests and replies that are lost, the one to EOT included, and either side giving up
first. The bound on faults in `DoneMeansRead` is not needed there. Outside of the
condition other reasons are at work: after a lost byte the probe may take a byte of
the data for a marker, a late reply is counted for the next block, and after a
damaged request the packets carry a sum instead of a CRC.

The argument. The two sides are at one of eight stations (`InTurn`): the probe asks, its
request is on the way, the stub fills or sends a packet, the packet is coming, it is
answered, EOT is coming, the stub is back with a failure, the probe is back. As for writes,
what is on the line is known up to damage, and one bit, whether the block the stub
is at is still to be taken (`Fresh`) or is in the output (`Taken`), is told by block
numbers modulo any number from two on (`Numbers`). The probe asks once and then only
answers; the stub repeats a block only after an answer or when none is due, hence never
while a copy is on its way. A packet that is intact is the one that was sent
(`IntactIsSent`). The last block is padded, so that the output is the image and what fills its
last block. TLC has checked the invariant `ReadInv` on the instance of `xmodem_read`
with three faults, and under more conditions than that run has.

### Commands and replies

For every session of the probe (any commands but those with a transfer, any data),
any set of supported rates, any number of faults and restarts. Assumptions: a session
starts with 0x00, as `test_obk_protocol` does, and a frame's data are at most 255 bytes,
while the probe never sends more than nine (`ScriptAssumption`); `cmd_buf` holds
such a frame and the stub starts at a rate it supports (`LineAssumption`).

`TypeCorrect` holds on any line. That a frame never outgrows `cmd_buf` follows from
what the stub has checked by the time it reads on (`TypedStub`): the length is
compared once, when both its bytes are there, and each later byte is below it.

The other three are stated while the line is `Clear`: no byte to the stub is lost or
damaged, no reply is damaged or late, and if the probe may be started again, at the first
rate while the stub is at another, what the stub then hears contains no magic byte.
What is left is what the retries and restarts are for: bytes of replies are lost,
commands fail, rates change, the probe gives up anywhere and another run follows, and
prompts arrive in front of or instead of the first reply. Outside of the condition the
properties depend on the bytes of the session: a sum of bytes cannot tell every
damaged frame, a length byte damaged downwards leaves a frame whose sum is
compared with one of its data, and a reply that comes after the probe's timeout is
taken for that of the next command if it has the same type. `OnlySentExecuted` for one
damaged or lost byte is therefore checked by TLC, on a session whose bytes are given.

The argument. A command is at one of four stations: the stub hears it (`Hearing`: what it
has of the frame and what is on the line make up the frame), works on it
(`Working`), has replied and is about to change its rate (`Switching`), or has nothing
before it (`Quiet`). In each the three histories `asked`, `executed` and `answered` are in
step (`Histories`), up to the last command. While the probe waits, the command is not
answered (`Unanswered`: nothing but prompts is underway) or it is (`Answered`), and then
what the probe has read and what is still underway are together what a line that loses
bytes has left of prompts and that reply (`Underway`). The core is the lemma `Genuine`: what
is left of a reply is never taken for a reply unless it is whole. A cut reply is
too short for its length field, or its fields have moved; the replies that a
moved field could fit consist of zeros there, and then their sum is wrong. So
success at the probe is success at the stub. What `Result` says of the rates then
gives `RatesAgree`: the probe follows only a reply that it has read, and a stub that
has changed its rate although the reply was lost hears nothing that it understands.
TLC has checked the invariant `IInv` on the instance of the `dispatcher` run, and with three
lost replies and failed commands.

### CRC

For buffers and flashes of every size, any number of commands, and engines that
finish, stop anywhere or compute something else. Assumed is only that the flash
ends below the greatest word (`CrcAssumption`).

The argument. While the engine works (`NextChunk`), its buffer holds the cells in
front of `addr`, the other one the cells from `addr` on as far as they are
copied, and what it has digested is the range up to the cell it has come to.
Each part needs the others: the engine's next cell is the right one because its
buffer is not the one that the CPU copies into, and a buffer that becomes the
engine's continues what has been digested because nothing of it is left when the
engine is done. A wrong engine does not get past its test, so an answer that
comes from the engine is a range (`Underway`); an engine that is given up leaves
nothing behind that the software uses.

### Download-mode entry

For whatever the board was doing, any number of prompts that wait for the probe, prompts
that cross a command or survive `reset_buffers`, all options and a user who presses
reset at any moment of the ESC loop: as long as nothing goes wrong on the line, the image
goes to the mask ROM and to nobody else. Assumed are only the ranges of the constants
(`ConditionsAssumption`, `EntryBounds`).

The argument. The probe learns in two ways who is there. A version names its
sender (`Named`): of the bytes that are read or still on the line, `8` comes from the mask
ROM only, `W` from a secondary downloader that has read the question. The other way is
four prompts in a row after ESC, which name nobody. There `TooFew` counts: as long
as the mask ROM does not run, the prompts already counted and those on the line, with
the one that the secondary downloader may still send in front of its reset (`Surplus`), are
at most three; that one prompt is taken for the acknowledgement of 0x3F leaves one
less to be counted. `Entered` is what the places after that rely on. The
invariant `Inv` demands these three only while no fault has happened, and it could not demand
more: a lost 0x3F leaves the secondary downloader prompting in the ESC loop. TLC has
checked `Inv` with up to four waiting prompts.

### Runs of the probe

For a chip of any size, any scratch area, any options and directories, any number of
runs one after the other and any number of interruptions and disturbances. Assumed is
that the chip has more than the protected sector and that the scratch area is
writable (`SizeAssumption`), and that `--out` has a default (`DirAssumption`). `DataSafety`
says what `UserDataKept` says, with its condition: it is about what is owed, and a cycle
that overwrites a complete backup changes that.

A run is a script, a sequence of calls that `Tasks` builds from the options, and the
chip may have any number of sectors, so a script has no fixed length. The argument
is therefore one of annotated programs. `Notes` are what is known between two
calls: whether the stub has answered, whether a backup has been loaded, which sectors
may be lost (`granted`), which sectors the probe has in memory (`keeps`) and
which may differ from what they should be (`dirty`), and the rate. `Permits` says
what a call needs to be known and `Follows` what is known after it. `Leads` says of
a script that it goes from some notes to others with every call permitted; there is a
lemma for each kind of call, for each test function, for the ascending loops
(`InOrder`), and for the script of any set of options (`ScriptLeads`).

That a note is true of a state is `InRun`: what is granted may indeed be lost
(`Knows`), what the probe has in memory is
what is to be restored and lacks nothing that is owed (`KeepsSafe`), the
loaded file is a complete one (`Loaded`), a file that is being written is not complete
(`Saving`), what is not dirty is as it should be
(`Restoring`), and both sides are at the noted rate (`RateKnown`). `Inv` adds the
types, the two properties, and that what the stub still has to erase or program
after its run was interrupted may be lost (`WorkSafe`): the next run begins
while the stub is still at the work of the last.

The step on which the condition bears is the save. It truncates a file, and that file may
be the complete one that alone has what is owed. A save is permitted only where nothing
is granted or dirty and the probe has the whole flash in memory (`BeforeSave`). If the
file was complete, what is owed from now on is what the probe has in memory, and that is
what the flash holds. If it was not, nothing that was kept relied on it. Each step of the board, of the probe and of the user preserves it. The two
properties come out of it in this way: a sector is erased or written only when
`granted` has it, and then nothing is owed in it or a complete file has it; a script
that is over with `dirty` empty has put back everything, since each sector leaves
`dirty` only by a comparison (`read` with `want = "kept"`), never by a write.

### Lemmas about data

A theorem of the library that takes an operator as a parameter cannot be used with
these provers. `SequenceLemmas` states induction about sets instead: a set of numbers that has 0
and is closed under successor has all (`Induction`), and the functions that satisfy
a recursive definition up to some number are never none (`Recursion`).
With it `FlattenTyped` says what `FlattenSeq` of the community modules delivers and
`FlattenJoins` that it turns two sequences joined into two results joined, for
sequences of every length.

### Only model-checked

* All liveness: TLAPS does not reason about fairness and ENABLED here.
* Writes on a line that loses bytes, damages markers or brings surplus prompts, and
  compressed writes to a flash slower than the probe's patience: what `TakesImageInOrder`,
  `OutputIsPrefix` and `SentMeansWritten` say there depends on the bytes of the image and on
  the number of faults.
* Reads outside `WholePackets`: on a line that loses bytes to the probe or damages
  markers, with late replies, or in the checksum mode.
* The dispatcher where the line is not `Clear`: commands that lose bytes or are damaged on
  the way, replies that are damaged or come after the probe's timeout, as said above.

## 6. Where it stands

Everything of the stub and of the probe that section 7 does not list is modelled
and checked. Each safety property that a passing run checks is the subject of a
theorem, for the sessions and the dispatcher under a condition on the line that the
theorem names. What would come next, in this order: the write sessions and
the reads after a single lost byte, for which the images that look like packets
would have to be excluded; and the dispatcher with one damaged byte, for sessions in
which no part of a frame looks like a frame.

## 7. Not modelled

* miniz itself: vendored.
* `w800_libc.c`: `memcpy` and `memset` by words and bytes, pure functions of their
  arguments. `tools/test_w800_libc.c` compares them with byte-wise loops for every
  alignment and every length up to 512, which leaves no order of events to check.
* The identification replies 0x00, 0x90 and 0x95: one reply each, of constants or of
  two flash records. `Dispatcher` has them as commands.
* The divisor of the baud rate, GPIO and clock set-up, start-up code, linker
  script, and the image packer, a script that runs straight through.
* Of the probe: the parsing of arguments and images, the analysis of dumps, reports
  and time measurement; `--skip-obk-tests` and the dumps at the end of a run, which
  read only.
