# Verification of the Caliptra MCU firmware (C++)

TLA+ models of the MCU boot ROM and of the drivers it is built on, with TLC
runs on small instances and TLAPS proofs for instances of any size. Paths are
relative to the repository root. `PROJECT.json` lists, for every definition,
the source lines it models, and for every property a mutant of the model that
breaks it.

## 1. The system

The repository is the firmware of a management controller (MCU) that boots next
to Caliptra, a root of trust. The MCU has one thread; interrupts are off in the
ROM. What makes it hard is what runs beside it: Caliptra, the OTP controller,
other agents on the bus, and resets.

| Component | State | Operations | Hard part |
|---|---|---|---|
| Mailbox driver, `romtime/src/soc_manager.cpp` (`CaliptraSoC`) | the mailbox registers LOCK, CMD, DLEN, DATAIN/OUT, STATUS, EXECUTE | `start_mailbox_req`, `initiate_request`, `lock_mailbox`, `set_command`, `write_data`, `execute_command`, `finish_mailbox_resp`, `exec_mailbox_req_u32` | shared lock that nothing but LOCK = 1 guards, late or missing answers, timeouts that leave a request behind |
| Response object, same file (`CaliptraMailboxResponse`), `include/common/error.hpp` (`McuResult`) | position, checksum, duty to release | moves, destruction, `next`, `reset`, wrapping in results | exactly-once release through moves |
| Boot, `rom/src/rom.cpp`, `cold_boot.cpp`, `warm_boot.cpp`, `fw_boot.cpp`, `fw_hitless_update.cpp`, `device_ownership_transfer.cpp` | flow status register (checkpoint, milestones), the flow being run | `rom_start`, four flows, `fatal_error`, `exception_handler` | resets and traps between any two steps, waits on devices, partial failure |
| MCI driver, `romtime/src/mci.cpp` | registers of the MCI block | flow status, reset reason, AXI users, sticky bits, watchdog, interrupts | read-modify-write of shared registers |
| OTP driver, `rom/src/otp.cpp` | controller registers, the fuses | `init`, `read_words`, `write_words`, `lock_partition`, `clear_error` | commands that outlive the call that timed out |
| AXI users, `rom/src/rom.cpp` | user and lock registers of two mailboxes | `configure_mcu_mbox_axi_users`, `verify_mcu_mbox_axi_users` | other agents writing between two accesses |
| Caliptra set-up, `rom/src/rom.cpp` (`Soc`) | SoC interface registers, fuse registers | `set_axi_users`, `populate_fuses`, `wait_for_firmware_ready`, hash verification | unbounded wait; called by no flow yet |
| I3C, `rom/src/i3c.cpp` | control register, two FIFOs, interrupts | `init`, `write`, `read`, `handle_interrupt` | waits without timeout, interrupts between two accesses |
| Lifecycle, recovery, flash (`rom/src/`) | peripheral registers | state transitions, word access | decodings that have to agree, 32-bit bounds |
| Start-up, `platforms/emulator/rom/` (`start.S`, `rom.ld`, `libc_stubs.cpp`) | SRAM | zero `.bss`, copy `.data`, memory routines | section ends that are no word ends, overlap |
| romtime support, kernel capsules (`romtime/src/`, `runtime/kernel/`) | almost none; many are stubs | printing, crc8, cycle counter, delays | two-word counter reads |

How they interact: the flows call MCI to report progress, I3C and OTP to
initialise, and poll the mailbox through `CaliptraSoC`. Drivers share nothing
but registers; `MemoryMap` checks that their registers do not overlap. Results
travel as `McuResult`, which also carries the response
object. Every failure is a return value; `rom_start` ignores the one of a flow.

What makes the parts correct:

* mailbox: a call acts on the transaction its client started and on no other; a
  request is the caller's and nobody's leftovers; it never disturbs another
  user; every call returns; the mailbox is given back;
* response: released exactly once; what it read and summed survives moves;
* boot: what the status register says of the hardware is true whenever a reset
  hits, and no milestone is lost; a failed step ends a flow; every boot ends;
* OTP: a read returns its own words; an interrupted write leaves a prefix;
* AXI users: an accepted verification holds from then on; a rejected one has a
  cause;
* Caliptra set-up: the users programmed are locked as they were programmed,
  Caliptra's readiness or failure is noticed, the hash verdict is right;
* MCI: no reset request is lost, the watchdog is neither early nor late;
* I3C: no byte is lost or reordered, transfers end while the peer responds;
* flash, delays, crc, memory routines, start-up: the result is the one of a
  reference definition, at the edges of their arithmetic too.

## 2. Modules

| Module | Models | Main state |
|---|---|---|
| `MailboxProtocol` | what the mailbox promises: one owner, load, submit, answer, release | `owner`, `phase`, `request`, whether its users keep the order |
| `CaliptraMailbox` | `CaliptraSoC` against mailbox hardware, Caliptra and other users | `mbox` registers, `pc`, `call`, `resp`, the client's `req` |
| `CaliptraMailboxProofs` | invariants, action properties, refinement, bound on a call | |
| `MailboxResponse` | the response as a C++ value in variables and results | `obj` per slot, the flag of `value() &&`, release counts |
| `MailboxResponseProofs` | exactly-once release, checksum of the words returned | |
| `RomBoot` | `main`, `rom_start`, the flows, fatal errors, devices, resets | bits of the status register, rest of the flow, wait count, devices |
| `RomBootProofs` | truth and keeping of the status register, failed flows, reset reasons, bound on a boot | |
| `Otp` | `Otp` against the controller and the fuses | controller, fuses, call in progress |
| `OtpMemory` | what the OTP driver promises: calls that go through a memory of fuses word by word | `fuses`, the write under way, the call, words done |
| `OtpProofs` | whose words a read returns, order of writes, refinement, bound on a call | |
| `AxiUsers` | configuration and verification of the AXI users | registers, loop position, config |
| `AxiUsersProofs` | what a verification guarantees | |
| `CaliptraSetup` | class `Soc`: users, fuses, wait for firmware | Soc registers, writes still to be made |
| `ProdDebugHash` | `verify_prod_debug_unlock_pk_hash` | hash registers, loop position, verdict |
| `SetupProofs` | what set-up and hash verification leave and mean | |
| `I3c` | `I3c`, its interrupt handler, a peer; `execute_i3c_recovery` | control register, FIFOs, call in progress |
| `MciControl` | `handle_interrupt`, reset request, watchdog of `Mci` | notification register, handler step, timer |
| `FlashMemory` | `FlashMemory` above the flash interface | access in progress, address asked for |
| `Delay` | `platform_mcycle`, `SystemCapsule` time and delay | cycle counter, half read, start |
| `Libc` | `memset`, `memcpy`, `memmove`, `memcmp`, `strlen` | memory, pointers, count |
| `StartUp` | loops of `start.S` on the layout of `rom.ld` | SRAM bytes, loop registers |
| `Crc8` | both `platform_crc8` | the two CRCs, turns of the host's loop |
| `Lifecycle` | `Lifecycle`: decoding, token, transition | state register, token, command |
| `Support`, `Bitflags`, `MemoryMap` | checksums, hexadecimal output, error codes; flag sets; register tables | none: operators |
| `PlatformProofs` | theorems about `MciControl`, `FlashMemory`, `Lifecycle`, `Crc8`, `Support`, and the composition `MCPlatform` | |
| `RoutineProofs` | theorems about `I3c`, `Delay`, `StartUp`, `Libc` | |
| `MCCaliptraMailbox`, `MCMailboxResponse`, `MCSetup`, `MCPlatform` | small instances, and compositions of parts that share no state | `task`, `unit` |
| `MCRom` | `MCSetup`, `AxiUsers` and `RomBoot`, one task at a time | |
| `MCUnits` | `MCPlatform`, `MCMailboxResponse` and `Bitflags`, one unit at a time | |

### CaliptraMailbox

One action per register access that another party can observe or disturb:
`lock_mailbox`, `set_command`, `WriteRequestWord`, `StartExecution` are the
steps of a request, `PollBusy`/`PollNotBusy` the wait of `finish_mailbox_resp`,
`Status...` the four ways it ends, `CopyWord`/`CopyDone` the copy loop of
`exec_mailbox_req_u32`. `ClientCall` offers every public operation, at any time
the driver is idle: the requests, with any length and any number of words, and
the calls a client streams a request with, `ClientLock`, `ClientSetCommand`,
`write_data`, `execute_command`, whether or not it has a request staged. The
last three take a mailbox they find free and keep it, and act on one they find
taken whoever holds it (`Direct`). A client that has made one of them without a
request of its own has `strayed`; what is promised to it is less, and each
property says how much. Two things are asked of every client: it calls
`finish_mailbox_resp` for a request it has sent, and keeps one response object
at a time. It may abandon requests, retry after any error and start new ones.

The hardware is external, modelled from how the driver relies on it: reading
LOCK as 0 grants it, EXECUTE := 1 hands the request over, EXECUTE := 0 ends the
transaction and frees the lock. Writes go through `WriteReg(offset, value)`, so
that a write to a wrong offset has the effect of that register. Payload words
are counted, not kept; the error registers read after a failure and the
request checksum are data no property depends on. Transactions are numbered
modulo `NumTxns` by a ghost, to tell whose answer a call looks at.

### MailboxResponse

Slots are the places an object can live in: plain variables, and `McuResult`
storage with its `has_value_` flag. Each special member and each member of
`McuResult` that moves or destroys is an action, `unwrap` and `unwrap_or`
included. `value() &&` is two steps, as in the code: it clears `has_value_` and
hands out a reference (`value`), from which the caller moves (`MoveOut`) or does
not (`Forget`, which no destructor notices). `next()` is modelled down to
the bytes: masking of the last word, byte sum, wrap at the word size.

### RomBoot

A flow is the sequence of its status writes and calls, in source order; a call
that fails empties it, as the early returns do. `Reset` may hit between any two
steps, with any set of reason bits; without a bit it is a power cycle. The reset
predicates of `Mci` are operators on these bits. The status register is the set
of its 32 bits; `set_flow_checkpoint` and `set_flow_milestone` read it, shift,
put it together with their argument's code and write all of it back. The codes
are those of `boot_status.hpp`. The register and the devices survive other
resets. An exception may come at
any step, also before `main` has installed the fatal error handler (`start.S`
sets the trap vector first). Stubs that only return Ok are calls that succeed;
`determine_owner` always answers NoOwner, so the transfer branch is written
down but not taken.

### Otp

`read_word` and `write_word` are `read_words` and `write_words` of one word.
The controller is external: one command at a time, a command written while busy
is dropped, a failed command sets an error bit that stays until `clear_error`,
a failed write leaves the old or the merged word, a write that clears a bit or
hits a locked partition fails. It completes a command in its own time, also
after the driver's `TIMEOUT`. Addresses stay inside the memory.

`OtpMemory` forgets polls, registers and the error bit. What it keeps is the
part of the hazard a caller has to know: a write may outlive the call that gave
up on it, and while it does no word is counted as read or written. `Otp` maps
its write command in the controller to the write under way (`Pending`), its call
to a job (`Job`) and its position and result to `busy`, `OK` or `failed`
(`Status`).

### AxiUsers

Both functions run the same loop body for mailbox 0 and mailbox 1, so slots are
numbered through. Every register access is a step. External: a register is open
to every agent until its lock or SS_CONFIG_DONE_STICKY is set. No flow calls
these functions yet, so the caller may use any order.

### CaliptraSetup and ProdDebugHash

Registers are one function from offsets to values, as in the code, so an index
nobody checks reaches another register: `set_cptra_wdt_cfg` takes any index, and
the runs use one that lands on FUSE_LOCK and one on FUSE_WR_DONE. An operation
of `Soc` is the list of its writes; `Write` makes one, and between two of them
other agents, Caliptra and resets may act. The caller may call the operations in
any order, `fuse_write_done` included. A slot without a user is `nullopt`; user
0 is a user. The ghost `taint` holds the user registers that `set_axi_users`
found locked, or that another agent took before it had locked them.
The hash verification reads OTP and register of each word in two steps; an OTP
read may fail. In the code the length check compares 96 with 12 and always fails
(finding 6); the `rom` run gives both the same length only so that the loop
behind the check is walked through and typed.

### I3c, MciControl

Interrupt handlers preempt the driver at any register access; the peer, the
timer and the notifications do not stand still meanwhile. External: a FIFO
drops what does not fit, a reset bit empties it; a bit written 1 to an interrupt
register is cleared; the watchdog's two period registers are one number, and
its restart clears the count.

### FlashMemory, Delay, Libc, StartUp, Crc8, Lifecycle

Arithmetic has its width: addresses modulo `AddressSpace` (2^32), the cycle
counter modulo `Half` squared, a register of `Crc8` is the set of its bits, cut
to its eight where the code stores it. Loops are a
step per byte or word, or per bit in the host's CRC. `StartUp` starts from junk in SRAM, for layouts whose
sections end on and off a word. In `Crc8` the operands of the target's `asm` are
not marked early-clobber, so which register the compiler gives `poly` is a
choice made once per behaviour, as by a build.
`Support`, `Bitflags` and `MemoryMap` have no state: what holds of their
operators is checked as an assumption over bounded inputs, of `MCPlatform` and,
for the flag sets, of `MCUnits`: `Bitflags` needs the bit operations of
the library, which no module that is proved about may reach.

## 3. Runs

| Run | Question | Bounds | Result |
|---|---|---|---|
| `mailbox` | whose transaction a call acts on, what a request hands over, what timeouts and errors leave behind, return of every call, refinement of the protocol | one other user, mailbox of one word, announced lengths of 3 and 5 bytes, 0 to 2 request words, buffers of 1 and 2 words, responses of 0 and 9 bytes, one word by `write_data`, 2 polls, 2 transaction numbers | passes, 734,814 states |
| `otp` | reads, multi-word writes, return of every call, refinement of `OtpMemory` | 3 words of one bit, partitions of 2, calls of 0 to 2 words, 2 polls | passes, 782,705 states |
| `rom` | boot: truth and keeping of the status register, failures, end of every boot; AXI users: what a verification means; set-up: what it leaves in Caliptra's registers, end of the wait for firmware | boot: 2 and 3 polls, 2 resets; AXI users: one slot per mailbox, own users 1 and 2, foreign users 1 and 3; set-up: slot 4 used, with user 0 or 1, one foreign user, one disturbance per power cycle, watchdog indices 4, 15, 20, user indices 4 and 16, 2 hashes of 2 words of one bit | passes, 344,696 states |
| `units` | peripheral drivers and support routines, each on its own; release and iteration of a response under moves | FIFOs of 2, 4 bytes, 2 interrupts; 2 notifications, periods 1 and 2; 16 addresses, region of 9 at 5; halves of 4 values; 4 bytes of memory; sections of 0 to 16 bytes; bytes 0 and 1; responses: 2 mailboxes, 2 variables, 2 results, 0, 4, 10 bytes, sums modulo 2 | passes, 424,771 states |
| `mailbox_release` | does destroying a response release the lock? | as `mailbox` | violated: finding 1 |
| `response_next` | does `next()` return the response? | as `units` | violated: finding 2 |
| `boot_ready` | does CaliptraReadyForMailbox mean ready? | as `rom` | violated: finding 3 |
| `boot_fatal` | is a fatal error recorded? | as `rom` | violated: finding 4 |
| `otp_lock` | does `lock_partition` lock? | as `otp` | violated: finding 5 |
| `hash` | is the verdict on the debug unlock hashes right? | 12 registers, 96 words, as in the code; words of one bit | violated: finding 6 |
| `delay` | does a delay last as long as asked? | as `units` | violated: finding 7 |
| `flash` | do flash reads stay in the region? | as `units` | violated: finding 8 |

Why the bounds are enough to be interesting. Two polls let a wait give up, go
on once and end, and let the answer arrive before, between and after. The
mailbox lengths include empty, partial words, full, and too long on both sides,
and lengths and counts that disagree; two transaction numbers tell a transaction
from the one after it (the proofs are for any number). For the response, two mailboxes and two slots of each kind let an object be assigned
over a live one of another mailbox; a modulus of 2 makes the sum wrap. Two
resets give a boot, an interrupted boot and the boot after it. In `otp`, three
words and two partitions let a two-word write start, stop and be followed by a
call on overlapping words; a bit has the two values that count, blank and
programmed. For the AXI users each table is exactly full, where an off-by-one
shows, and the two mailboxes are the first and the last turn of the loop; more
slots add turns, which the proofs cover. For the set-up the last slot is used,
contested and addressed past its end. In `units` a transfer is longer
than the FIFO, a second watchdog period follows a first, offsets and lengths
reach the end of the address space, delays are longer than half the counter and
start at each of its values, ranges overlap both ways. The proofs in section 4
lift all the safety results to all sizes.

`rom` and `units` hold several components that share no state. A behaviour is
about one of them, named by `task` or `unit`, while the others stand still: the
states add up instead of multiplying, and what is checked of each component is
its own specification. `MCPlatform` also evaluates the facts about pure
operators: `LifecycleViewsAgree` (every low byte of the state register),
`ChecksumsClose`, `HexRight` (every byte), `RegionRight` (`contains` against
`to_flash_offset`) and `TablesRight` (error codes distinct, no index an accessor
lets through reaches another register of its block); `MCUnits` evaluates
`FlagsRight` (flag operations are set operations).

Deadlock is checked in every passing run. A boot that is over spins (`Spin`);
when every response was made and destroyed, nothing is left to do (`AllGone`).

Fairness. `FairSpec` of `CaliptraMailbox` and `Otp` and `Spec` of `RomBoot`
assume weak fairness of the driver's own steps: the processor executes the next
instruction of a loop it is in. Nothing is assumed of Caliptra, the OTP
controller, other users, resets or the client, so `EveryCallReturns` and
`EveryBootEnds` rest on the counters of the waits alone. `SocSpec` and
`DelaySpec` make the same assumption: `FirmwareWaitEnds` is conditional on what
Caliptra says, a delay ends because the counter runs. I3C transfers have no
bound of their own, so `TransferEnds` needs more: weak fairness of a peer that
responds (and the conclusion is void once it has fallen silent), and of the end
of the interrupt handler; the transfer itself gets strong fairness, because
interrupts disable it again and again and the processor returns to it in
between.

### Properties

* `AnswerIsOurs`: the status, length and data a call uses belong to the
  transaction its client started, across timeouts, retries and new requests.
  (Of a client that never strayed, as is everything here that does not say
  otherwise.)
* `RequestComplete`: what a request hands to Caliptra is the words and the length
  its caller passed, with nothing left over from staged, stray or timed-out
  requests before it; for `exec_mailbox_req_u32` words and length agree. Of any
  client.
* `LockHeldForAReason`: between calls the MCU owns the mailbox for a request
  staged or sent, a response alive or destroyed (finding 1), or because
  `set_command`, `write_data` or `execute_command` found it free. A timeout and an
  unknown status leave the request sent and the mailbox with it. Of any client.
* `NoBufferOverrun`: no word is stored past the buffer. Of any client.
* `ForeignTransactionUntouched`: while another user owns the mailbox, a request
  changes no register of it, of any client; nor does any other call.
* `ImplementsProtocol`: refinement of `MailboxProtocol`; the mapping reads
  owner and phase off LOCK, EXECUTE and BUSY, and the protocol ends where the
  client strays (`orderly`, `Misuse`). `RequestFrozenWhileBusy`, that a
  request in execution is neither rewritten nor withdrawn, is a consequence the
  proofs state on its own.
* `ReleaseExactlyOnce`, `ChecksumOfWordsReturned` for the response object; the
  first names the one way a release is lost, a reference of `value() &&` that is
  never moved from.
* `ProgressTruthful`: what the status register says of boot go, of the MCU's own
  registers and of the cold boot as a whole has been done. It says nothing of the
  fuses, whose step is a stub, of CaliptraReadyForMailbox (finding 3) and of the
  flows that do nothing but report. `MilestonesNeverLost`: the writes of the whole
  register keep its upper half. `FailedFlowStops`, `EveryBootEnds`.
* `ReadsOwnWords`, `WritesInOrder`, `EveryCallReturns` for OTP.
  `ImplementsMemory`: refinement of `OtpMemory`, which says step by step what the
  first two say of the outcome, with late commands in the open.
* `VerifiedUsersInForce`, `VerifiedLocksExact`, `FailureHasCause` for the AXI
  users. The first needs no sticky bit, because the configuration has locked
  the slots it used; the second does.
* `UsersSealed`: after `set_axi_users` the mailbox users it was given, the fuse
  user and the TRNG user are locked and in place, whatever is called or written
  later, a watchdog setting with a stray index included; but for a register that
  was locked before or taken by another agent before it was. The DMA user has no
  lock. `FirmwareWaitEnds`. `HashVerdictRight` is finding 6.
* `TransfersFaithful`: what the peer got and what is in the FIFO is what was
  written, in order, likewise for reading, and no interrupt is cleared unread.
* `ResetRequestNotLost`: the read-modify-write in `handle_interrupt` drops other
  notifications, but only when a reset follows. `WatchdogOnTime`.
* `LibcRight`, `ImageInPlace`, `CrcRight`: the result of a reference definition.
  `WaitsEnd`: I3C transfers and delays. `DelayNotShort` and `ReadsInsideRegion`
  are findings 7 and 8.

### Findings

1. `~CaliptraMailboxResponse` ("Release the lock") writes 0 to offset 0x04, its
   own `MBOX_EXECUTE`; in `CaliptraSoC`'s table that is CMD and EXECUTE is
   0x18. After the first response the MCU owns the mailbox for good and every
   request ends in `MBOX_LOCK_FAILED`.
2. `next()` ("Read next word from response") reads offset 0x00, the LOCK
   register; DATAOUT is 0x10. Words after the first are the lock bit.
3. `wait_caliptra_ready` ("Wait for Caliptra to become ready for mailbox
   commands") waits for a mailbox that is not busy, which it is while Caliptra
   still boots.
4. The emulator's fatal error handler writes to MCI + 0x20, watchdog timer 2's
   period; FW_ERROR_FATAL is at 0x0C.
5. `lock_partition` ("Lock a partition") ignores its argument, does not wait
   before its command and does not look at the error bit.
6. `verify_prod_debug_unlock_pk_hash` ("384 bytes = 96 u32 words") wants 96
   registers, `Mci::PK_HASH_REG_COUNT` is 12: it fails whatever they hold, and
   compares nothing.
7. `platform_mcycle` reads `mcycle`, then `mcycleh`, once: a carry between the two
   puts the reading 2^32 cycles ahead and ends a delay ("Delay for specified
   microseconds") at once. Nothing else makes a delay short (proved:
   `DelayShortOnlyWhenTorn`).
8. The bounds check of `FlashMemory::read_word` adds in 32 bits: an offset of
   2^32 - 4 or more passes, and the read goes below the region. (`read` wraps
   likewise where `size_t` has 32 bits, as on the target.)

Findings 1 and 2 are relative to the offsets of `CaliptraSoC`: the repository
has two tables for one block, and the rest of the driver uses that one.

Remarks: places where a property has a precondition the code does not enforce,
or where two parts of the code disagree and no document says which is meant.

* `set_command`, `write_data` and `execute_command` take the mailbox by looking
  whether they hold it, and do not see who does (`LockHeldForAReason`,
  `ForeignTransactionUntouched`).
* `finish_mailbox_resp` leaves the mailbox held after an unknown status, and
  nothing says who is to give it back.
* `value() &&` of a result whose reference is not moved from loses the object;
  its one caller moves at once.
* `set_cptra_wdt_cfg` checks no index and can close the fuses or set a lock;
  `fuse_write_done` closes them whether or not they were populated, and a failed
  read of the SVN is passed over.
* CPTRA_FUSES_WRITTEN is reported after a stub that writes no fuse.
* `populate_fuses` tells Caliptra that the OTP's idle bit is 22 and its command
  register 0x60; `Otp` uses bit 0 and 0x08.
* `configure_wdt` on a running timer may let it expire before the restart is
  written (`WatchdogOnTime` is about a timer that is off).
* A flash region that ends at 2^32 contains no address (`ContainsAgrees`).
* `ROM_DATA_START` is not aligned, the load address of `.data` is: a `.text` that
  does not end on a word shifts `.data` (`ImageInPlace`).
* The operands of the `asm` in `platform_crc8` need early-clobber (`CrcRight`).
* An OTP error register with code 0 reads as no error while the error bit is set.
* `start.S` and `main.cpp` use different addresses for the emulator's exit.

## 4. Proofs

All obligations are checked by `tlapm`; no fact is taken on trust beyond the
named assumptions on the constants. The hardware is that of the models.

| Assumption | Says |
|---|---|
| `MailboxAssumption` | sizes are naturals, the timeout is positive, other users are neither "mcu" nor "none" |
| `ResponseAssumption` | variables and results are different places, lengths are naturals, the modulus of the sum is positive |
| `AxiAssumption` | 0 is no user; the ROM uses at most as many slots as Mci has |
| `OtpAssumption`, `BootAssumption` | memory and partitions are not empty; timeouts are positive |
| `StatusCodes` | the codes of checkpoints and milestones fit their half of the register and are distinct, a milestone is one bit: a fact about constants, which TLC evaluates |
| `SocAssumption` | users (or `nullopt`), values and indices are naturals; the SVN in the OTP is not 0 |
| `HashAssumption` | there is a hash and a word; the expected length is their product; OTP words are values of the registers |
| `I3cAssumption` | a FIFO of 1 to 31 bytes, as the five-bit level field allows; addresses are bytes |
| `DelayAssumption` | a half has two values or more, a step of time is shorter than the lower half wraps in, a delay is two lower halves short of the whole counter |
| `LibcAssumption`, `StartUpAssumption` | memory is not empty; section sizes are naturals |
| `MciAssumption`, `FlashAssumption`, `WordAssumption` | periods are positive and within the bound; the region lies in the address space; a word has more than one value |
| `LifecycleAssumption`, `DataAssumption` | register values, token words and indices are naturals; what the CRC is fed are bytes |

`CaliptraMailboxProofs`. None of the mailbox properties is inductive: whether
the status a call is about to read is its own depends on what earlier calls
left in the mailbox. `IndInv` adds `HardwareInv` (a free mailbox is not
executing, a busy one is), `CallInv` (what each stage of a call implies about
owner, EXECUTE, words and length), `HoldInv` (`LockHeldForAReason`, also while a
call is about to be refused), all of any client, and `ClientInv` (what each
state of the client's request implies about owner, EXECUTE, transaction number
and each stage of a call, of one that never strayed). One lemma per action shows that it is preserved
(`Inductive`); `TypeCorrect`, `AnswersAreOurs`, `RequestsAreComplete`,
`LockIsHeldForAReason` and `BufferIsNotOverrun` follow. For the action
properties and the refinement, `StepEffect` classifies the effect of every step
on the registers under `IndInv` while the client keeps the order;
`ForeignTransactionsAreUntouched`,
`RequestsAreFrozenWhileBusy` and `DriverImplementsProtocol` (initial states map
to initial states, steps to protocol steps or stutters) are read off it.
`MailboxCallsAreBounded` is the part of `EveryCallReturns` that needs no
fairness: every step of a call shortens it, and no step of Caliptra, of another
user or of the hardware lengthens it. The measure has two parts, because the
length of the response is known only once it is announced: up to the answer at
most the words of the request plus `MAX_WAIT_CYCLES` plus 4 steps are ahead, and
after it one per word to copy.

`MailboxResponseProofs`. `ReleaseInv` strengthens `ReleaseExactlyOnce` by the
shape of the slots and by `LiveIsMade`; the actions are grouped by what they do
to ownership: read, construct, move, release, forget. `ChecksumInv` adds what each
object has read (`GotOK`), that nothing was read of a response not yet made
(`Unread`) and that position and sum agree with it (`Tallies`); it takes
`ReleaseInv` with it, because only an object that exists once keeps its count
through moves (`ChecksumIsOfWordsReturned`). The sum of the words is a recursive
function. The library's induction theorems have an operator as parameter, so
induction is taken from the well-foundedness of < on the naturals in the form of
sets (`SetInduction`): with it the function is shown to exist (`SumsExist`,
`SumsValues`) and to grow by the word appended (`SumOfAppend`); `ModAdd` makes
that the wrapping addition of the code.

`AxiUsersProofs`. `IndInv` follows the two loops slot by slot: `Secured` (a
configured slot the configuration is past is locked or frozen) is why `Checked`
(what has been compared is still so) survives other agents; `Exact` is its
counterpart for the locks of free slots, `Clean` describes a run without
interference. `VerifiedUsers`, `VerifiedLocks` and `NoFalseAlarm` follow
(`AxiTypes` needs no more than the types).

`OtpProofs`. What a read returns depends on what is in the controller, and a
call that timed out leaves its command there. The invariant (`OtpInv`) says that
from its first command on a call shares the controller with nobody:
`OwnCommand` (a command still in it is the call's own, at the word at hand),
which holds because the wait before the first command outlasts an old one, and
`Landed` (a command that has ended without an error has done its work).
`ReadsAreOwnWords` and `WritesAreInOrder` follow, also for a write the
controller finishes after the call has given up. `OtpImplementsMemory` takes the
same invariant through the refinement, one lemma per action: it is `OwnCommand`
that makes the controller empty of writes whenever a word is counted, and
`Landed` that makes the word counted the one in the fuses. `CallsAreBounded` is
the part of `EveryCallReturns` that needs no fairness: a call has
2 * `TIMEOUT_CYCLES` + 2 steps for each word, each of its steps spends at least one,
and no step of the controller gives one back.

`RomBootProofs`. Whether the status register will tell the truth depends on the
rest of the flow. `InOrder` says of whatever is left of it that a step that
reports something comes after the step that does it, unless that has been
achieved, by this boot or by one before a reset; it is shown for the four flows
and kept by every step, reset and exception (`ProgressIsTruthful`). What the
register reports is read off its bits: `CheckpointSet` and `MilestoneSet` say
what each read-modify-write leaves of both halves, from `Halves` (the shifts do
not mix them) and `StatusCodes`. `MilestonesAccumulate` follows from them; `FailedFlowsStop`
needs `FailedIsOver`. `ResetReasonDecides` relates the predicates of `Mci` to the
flow `rom_start` takes, for every value of the reason register.
`BootsAreBounded`, the part of `EveryBootEnds` that needs no fairness: each step
of the ROM spends of a budget that the longest flow and the two timeouts
determine, devices do not add to it, a trap ends it, and only a reset starts it
anew.

`SetupProofs`. An operation of `Soc` is the list of its writes, so the
invariant `SocInv` is about what is left of the list: each register
`set_axi_users` is to program is sealed, or its lock is still to come, and its
value is there or comes before the lock, unless the register is tainted
(`Sealing`). That different registers have different offsets, and that a locked
register keeps value and lock under a write to any offset, are lemmas about the
table (`TableFacts`, `SealKept`). `UsersAreSealed` follows. `HashInv` follows the
double loop (`Looping`, `Accumulates`: what has been compared under the sticky
bit is still so). `HashNeverPasses` says what that means of the code's lengths,
`HashVerdictIsRight` what the comparison would be worth if they agreed.
`SetupTypes` is about the composition `SetupSpec` of the two, a part of `rom`.

`RoutineProofs`. The invariants say how far a loop has come. I3C: bytes are
numbered, and what has left a FIFO and what is in it count on (`Numbered`); the
level a transfer has read is still good when it moves its byte, because
interrupt and peer only change it to its favour (`LevelHolds`)
(`TransfersAreFaithful`). Delay: the difference of two readings is the time that
passed, or that modulo the counter, or more than any delay, as long as no reading
was torn (`Elapsing`, `DelayShortOnlyWhenTorn`). Start-up: the part zeroed and copied, and the stack
(`Zeroing`, `Copying`, `StackUntouched`, `ImageIsInPlace`). C library: the bytes
done and the bytes of the source not yet overwritten, direction by direction
(`CopyGoing`), the equal prefix (`CompareGoing`), the bytes without a zero
(`CountGoing`), up to `LibcIsRight`.

`PlatformProofs`. `ResetRequestNotLost` is inductive as it stands, one step per
action (`ResetNotLost`). `WatchdogOnTime` is not: that the timer is on time
depends on what the six writes have left behind. `WdtInv` says that a fresh
configuration is written with the timer off, period and count settling write by
write, and that afterwards the count is not ahead of the time since the call
(`WatchdogIsOnTime`). `LifecycleViews`, `ChecksumCloses` and `HexIsRight` lift
assumptions of `MCPlatform` to every register value and word size. `MciTypes`,
`FlashTypes` and `LifecycleTypes` are the types of the three components; the last
says that no index takes a write outside the token.

`CrcIsRight` treats a register as the polynomial it stands for. After n turns of
the host's loop the register is the remainder of the input times x^n: a turn
multiplies by x and, where the bit of x^8 comes out, adds the generator once, so
the quotient is doubled and gains that bit. After eight turns the host has the
remainder of the input times x^8. The target computes it at one stroke, from
the quotient its first multiplication leaves above the byte; both agree because
a polynomial below x^8 is a multiple of the generator only if it is 0.
`PlatformTypes` and `PlatformPromises` are about `PlatformSpec`, the composition of
which `units` checks the steps: its step is a step of one unit while the others stand
still, so each component's invariant carries over, those of `RoutineProofs`
included.

Only model-checked:

* liveness (`EveryCallReturns` twice, `EveryBootEnds`, `FirmwareWaitEnds`,
  `WaitsEnd`): the prover has no fairness and no ENABLED. For the first three,
  whose waits the code bounds, the bound itself is proved (`CallsAreBounded`,
  `MailboxCallsAreBounded`, `BootsAreBounded`); what TLC adds is that the step
  exists and is taken. The other two wait for Caliptra, a peer or the counter;
* the facts about tables that are assumptions of `MCPlatform` and `Otp`
  (`TablesRight`, `ErrorsNamed`): they have no parameter, TLC evaluates all there is of them;
* `FlagsRight`, for flags of four bits, since `Bitflags` rests on recursive bit
  operations.

## 5. Not modelled, and what comes next

Left out for good: the output of characters (I/O), fuse and partition layouts
(constant tables nobody reads), image verifier, flash and partition interfaces
(no code), kernel components, drivers and chip support and the capsules apart
from `SystemCapsule` (placeholders that return Ok), CSR set-up and emulator exit
in `start.S`, `jump_to_firmware` and the flash recovery (called by nobody).
`wait_for_idle(0)`, which wraps its counter, has no caller and would take 2^32
polls to show.

What would come next, when the code does: `Soc::populate_fuses` and
`fuse_write_done` as steps of the cold boot once it calls them (now a stub writes
nothing before CPTRA_FUSES_WRITTEN is reported), so that CPTRA_FUSES_WRITTEN
becomes a part of `ProgressTruthful`; the AXI users as steps of the flow that will configure them,
so that the order of configuration, sticky bit and verification is the code's
and not any; and the flash recovery once something follows its status writes.
