# TLA+ models of the M2354 smart meter firmware

The repository holds the firmware of an AMI electricity meter on a Nuvoton
M2354. The non-secure image, `src/nonsecure/src` (some 90,000 lines of C), is
the program itself; the rest is FreeRTOS, the board support package, a crypto
library, CMSIS, a loader and release images. There are no tests and no prose
documentation, only comments in Korean and English, so the models are
translated from the code alone, as it is compiled with
`predefines.h` (`METER_TYPE` `MT_1P2W_120A`, `FEATURE_SEC`; `M2354_CAN` and
`FEATURE_COMPILE_DM` are not defined; code under `#if 0` is not modelled).

Modelled are the components whose correctness depends on order and interleaving
and that everything a utility does remotely passes through:

- the **HDLC data link** (`Hdlc`, with `HdlcLink` and `Exchange` around it),
- the **sessions**: arbitration between the media, association, the timers that
  end it, and the clearing of the meter (`Session`),
- the **firmware image transfer** (`FwImage`),
- the **tariff programs**: download, reservation and activation, by SETs or by a
  TOU image, over turns of the loop and resets (`Programs`),
- the **load profiles**: rings of records with counters saved apart, over power
  failures and restarts, and their reading in blocks (`LoadProfile`),
- the **software timers** of the meter task (`SwTimer`).

Paths below are relative to `src/nonsecure/src/App` unless they begin with
`src`; `dlms/` is `platform/sec_meter/dlms/`.

## 1. Inventory

### How the parts work together

One task, the *meter task* (`platform/sec_meter/amg_meter_main.c:1116`), does
nearly everything. Each turn of its loop it waits up to two ticks for event
flags, serves the flagged events in a fixed order (timers, push notifications,
MTP, metering IC, RS485, internal modem, external modem, modem update, power),
then runs the background jobs, which call `amr_proc`, the foreground jobs
(display, keys) and sends what is queued for the UARTs. Interrupts fill byte
rings and set flags; the timer service of FreeRTOS, at the highest priority,
counts the software timers down every 10 ms. The other tasks do not touch the
state modelled here. Inside the meter task calls are atomic with
respect to each other; only interrupts and the timer service interleave with
them.

A request travels: UART interrupt -> byte ring -> port framing
(`amg_dlms_hdlc.c`) -> media arbitration (`amg_media_mnt.c`) -> receive queue
(`serial/ser1.c`) -> `phy.c` (flags, FCS) -> `dl.c` (HDLC) -> `appl.c`
(association, ciphering) -> the COSEM methods (`get_req.c`, `set_req.c`,
`act_req.c`). The response goes back through `dl.c` into `tx_buff` and leaves
at the end of the same `amr_proc` call.

### Components

For each: its state, its operations, what is hard about it, and what makes it
correct. "M" modelled, "P" partly, "-" not modelled; `PROJECT.json` lists the
files.

| | component | state | operations | hard, and what must hold |
|-|-|-|-|-|
| M | HDLC data link (`dlms/dl.c`) | connection, three sequence numbers, segment buffer with one offset used for requests and responses, copies of the last frame in and out | one handler per frame type, push, forced stop, init, restart | lost and repeated frames, two clients, NV failures, frames of other meters. Requests are executed whole and at most once, a repeated frame gets the answer of its original, nothing of one client reaches another |
| P | frame reception and transmission (`dlms/phy.c`, `dlms/comm.c`) | byte-wise reception, the frame to send, actions deferred to the end of a transmission | `amr_proc`, `phy_ser_in`, `amr_set_send_frame` | resynchronisation after a wrong length, deferred actions |
| P | firmware image transfer (`dlms/amg_imagetransfer.c`, `dlms/act_req.c`) | download record and status bits, page buffer, flash area, hash context, update state | initiate, block transfer, verify, activate, the timer that runs the image, reset key, restart | abandoned downloads, failing writes, static state that outlives a download. What is received is stored, what is verified was received, what is activated stays as it is |
| M | software timers (`utils/amg_sw_timer.c`) | the list, the counter of active timers, the OS timer | start, stop, tick, scan with callbacks | no lock between the task and the timer service. A started timer expires, a stopped one does not call back |
| P | meter task loop | event flags | the fixed order of events | events lost or served out of order |
| P | TOU image transfer | a second download record, kept over restarts | as for firmware | restore after a restart in the middle of a hash; an activation long after the initiation that chose the area |
| M | tariff programs (`app/program.c`, `app/nv.c`, `dlms/act_req.c`, `dlms/set_req.c`) | which of three EEPROM areas is of the active, of the reserved program and of the download; the same for holidays; the configuration in RAM and in the EEPROM | PGM_DL, SETs of tables, FUTPGM_WORK and _DEL, image activation, edits of holidays, keys, the time of a reserved program, saving, restart | an index chosen early and used late, a reset between two steps. No download writes over a program in use; what comes into force is what was reserved; a reset leaves a whole program in force |
| P | application layer and associations (`dlms/appl.c`, `aarq.c`) | IDLE, ASSOCIATED, CROSS_AUTH, KEY_AGREEMENT, ENC_SIGN; invocation counters; timeouts | AARQ, RLRQ, the authentication actions, disconnect | an association left over when the link changes hands; a session nothing ends; a clearing put off and carried out for somebody else |
| P | COSEM objects (`get_req.c`, `set_req.c`) | block-transfer cursors | get, set, action with and without lists | mostly formatting of data; the SETs of tariff tables are in `Programs`, the GETs of load profiles in `LoadProfile` |
| P | push notifications (`dlms/amg_push_datanoti.c`) | which scripts are due, retries | trigger, send, repeat | repetition without acknowledgement |
| P | media arbitration (`amg_media_mnt.c`) | which medium owns the link | one decision per received frame | a session taken over in the middle |
| - | port framing (`amg_dlms_hdlc.c`, `serial/`, `dev/amg_uart.c`) | byte rings and parsers of each port | receive interrupt, parse, timeout | ring overrun, timeouts in the middle of a frame |
| - | modems, metering IC (`amg_modemif_prtl.c`, `amg_mif_prtl.c`, `amg_mtp_process.c`) | dialogue states, retry counts, firmware upload | send, receive, timeout | late answers, uploads that race a download |
| P | NV manager (`app/nv.c`) | EEPROM items | read, write, choice of the download areas | partial writes |
| P | load profiles (`app/lp.c`, `dlms/get_req.c`), billing, event logs (`eob.c`, `whm_log.c`) | rings of records with counters in RAM that are saved apart; one cursor of block transfers for all profiles | append, save the counter, clear, read whole or by entries in blocks | a restart between a record and the saving of its counter, brown-outs, wrap-around, records saved in the middle of a transfer. The newest records are in the ring, a transfer gives what was asked for, a failure of the mains that was noticed costs no record |
| P | metering core (`app/whm.c`, `meter/`) | accumulators | accumulate, save, restore | arithmetic; the configuration saved at the end of a turn (`Programs`); the power-fail save (`LoadProfile`) |
| - | security services (`sec/`) | keys, handles | sign, agree, cipher, hash | an external library does the work |
| - | power management, stock mode (`pm/`) | power FSM | mains lost and back, battery | debouncing, order of shutdown |
| - | ISO-TP | - | - | compiled out |
| - | display, keys (`app/disp.c`, `key.c`) | user interface | - | the reset key appears in `Hdlc`, `Session` and `FwImage`, the keys of the tariff in `Programs` |
| - | OS wrapper (`sys/os_wrap`) | flags, timers | thin calls | FreeRTOS is assumed to do what it says |
| - | drivers, boot, shell | registers | - | pure I/O |

The hazards of the code, each at the line where it bites, are the list
`hazards` of `PROJECT.json`; those without a property have a note that says
why, most often because their component is still to come in the plan (section 2).

## 2. Plan

Modules in the order of writing; the first six are done.

1. `Hdlc`, `HdlcLink`, `Exchange` (abstract): the data link, its client, and
   what it promises. Theorems: types, retransmission copies, hand-over, buffer
   offsets; the numbers of the two ends; `HdlcLink` implements `Exchange`.
2. `FwImage`: the firmware download. Theorems: storage, verification,
   activation, hash.
3. `SwTimer`: the timers, at the grain of memory accesses. Theorems: types,
   silence after a stop, exactness of the counter.
4. `Session`: media, link, association and their timers, and the clearing of the
   meter. Theorems: types, no association left over, a session is timed, the
   clearing is the asker's, answers go where the SNRM came from.
5. `Programs`: the areas of the tariff programs. Theorems: types, the download
   area is free, active and reserved tables stay, a reset is survived.
6. `LoadProfile`: the rings of `lp.c` with the saving of their counters and the
   reading in blocks. Theorems: types, the window of records, the blocks, the
   power failure.
7. `ImageUpload`: the upload of the metering firmware by `amg_mtp_process.c`,
   composed with `FwImage` on the shared flash area, with retries and timeouts.
8. `PowerMode`: the FSM of `pm/` under `SagDetect` of `LoadProfile`, with the
   battery modes; and the rings of `eob.c` and `whm_log.c`, whose counters are
   written with the records.
9. `PushQueue` (`amg_push_datanoti.c`), `PortFraming` (rings and inter-frame
   timers).
10. Proofs: the invariants of 7 to 9.

## 3. The modules and the code

Names of variables and of fields are those of the C code. Data are abstract: a
unit of application data is a model value or a number, a firmware block is the
pair of its image and its number. Every definition that stands for code is
mapped to its lines in `PROJECT.json`. A definition whose comment begins with
"Fault:" is not part of any specification: it is a plausible bug in the
definition that follows it or that it is named after, and it serves to
see that the properties would notice.

### Hdlc

`dlms/dl.c` with the halves of `amr_proc` between which it runs. One step is one
call of `amr_proc`: `RcvFrame(f)` for a call that finds a whole frame,
`AmrProcIdle` for one that does not. `wire` is what that call transmits. The
other actions are `PushDataNoti` (`dl_send_appl_push_datanoti_msg`),
`StopForce` (`dl_stop_force`: the association timer, the reset key), `AmrInit`
and `Restart`.

- `RcvFrame` splits along the code's own branches: the address
  (`RcvForeign`, after `set_seg_status`, as in the code), control bytes nobody handles
  (`RcvUnhandled`), `RcvSnrm`, `RcvSnrmRefused`, `RcvDisc`, and for I and RR frames
  the expected, the repeated, the unexpected and the rejected.
- `ApplMsgProc` is `dl_appl_msg_proc`: the four segment states, and the one
  offset `dl_seg_frame_offs` that counts a request being reassembled *and* the
  response still to be sent.
- `Overlay` is the effect of a response and a push notification sharing
  `tx_buff`: the frame queued by the push is sent with what the response wrote.
- The application is the constant operator `Answers`: any answer it admits, or
  none.

### HdlcLink and Exchange

`HdlcLink` EXTENDS `Hdlc` and puts a client and a medium around it. The client
is not in the repository; it is a window-one HDLC client as the handlers expect
it, and it may repeat an outstanding frame at any moment. A request is an APDU
(`Requests`) that the client cuts into frames as it likes: each carries one of
`SegmentLengths` units behind the `acked` ones, or fewer at the end. The medium keeps order,
loses frames in both directions and carries at most `Capacity` frames each way.
`disturbed` is history: since the request was issued a frame of another meter was
heard, or a notification pushed. `Exchange` is the promise: a request is executed once,
whole, and answered by its own answer, or abandoned. `ImplementsExchange` is the refinement:
`asked` is `request`, and `executed` and `answer` are themselves.

`CleanBus`, `NvWorks` and `DataFits` name what the promise needs of the
surroundings; they are hypotheses of the theorems and not assumptions of the module.

### FwImage

The image transfer object for firmware: `ob_fwimage_transfer_cmd` and the methods
it dispatches to (`dlms/act_req.c`), and `dlms/amg_imagetransfer.c`. Every method
is split into its outcomes (`InitiateRefused`, `Initiate`, `InitiateMalformed`;
`BlockRefused`, `BlockOutOfTurn`, `BlockIgnored`, `BlockFailed`, `BlockTaken`; ...).
`ImageUpdateGoProc` is the timer that runs the activated image; `ResetKey` the key
and the association timeout, which both take the update state back. The static
variables that survive a download - page fill, flash address, hash context, line
buffer of the Intel-HEX check, status bits - are all variables of the module,
because it is their survival that matters. `transfer_enabled` is constantly true
(its setters are under `#if 0`), and the download record saved in NV memory is
never read back, so neither is a variable. `begun`, `received` and `intact` (the
flash writes of this download have all taken effect) are history.

Sizes are in transfer blocks. The flash page is `PageBlocks` blocks (2048 / 512).

### SwTimer

`utils/amg_sw_timer.c` between the task and the timer service. `Tick` is
`dsm_sw_timer_isr_proc`, one step because the service is the highest-priority
task. A start and a stop are sequences of steps, one per access to memory that a
tick may fall between: the counter is read, then written, then `bEnable`, and so on
(`at` is the program counter). `Pend`, `ScanTake`, `ScanClear`, `Callback`, `ScanOn`
are the loop of the task and `dsm_sw_timer_task_proc`. `armed`, `stopped` and
`torn` are history; `torn` says that a timer has expired in the middle of a start
or a stop.

Between tasks of one processor a plain access is atomic for these widths; the
compiler is taken not to reorder the accesses of a call.

### Session

Everything that decides who may talk to the meter, over *all* media, which share one
data link: `dsm_media_if_return_proc` (`Returned`), the reception by the loop
(`Receives`, with `Admit` and `Reject`), the frame that `amr_proc` takes
(`Takes` with `SnrmAccepted`, `Disc`, `Request`, ...), the association
(`Associate`, `ServeAuthentication`, `Ciphered`, `Serve`), the three timers
(`AssoTimeout`, `SiteTimeout`, `ResetTimeout`), the reset key (`R_CALL`) and the end
of a transmission (`Flush`, with `EndProc`). `turn` is how far the loop has come;
the media are served in its order. A frame is *admitted* on what the session is
when it arrives and *handled* when its turn comes: `rx` holds what lies between,
and `from` the media those frames have come from. The code keeps no such record: it
has one variable, `g_en_run_media_HDLC`, which the frame admitted *last* sets
(`amg_meter_main.c` 578, 846, 942) and to which the answer to the *first* is sent.
`phy_ser_in` reads ten bytes at a time and forgets what follows a whole frame in
them, so that a frame right behind another may be lost: that is `Drop`.

The data link is reduced to connected or not and to its client; sequence numbers and
segments are those of `Hdlc`. What a frame's contents decide (the parameters of an SNRM
or an AARQ, a signature, a decryption) is a choice. The clearing of the meter
is `act_devcmd`, the two flags that put it off to the end of a transmission
(`mt_init_delay`, `lab_clear_pending`), the reset timer, and `GoesDown`. `from`,
`asked`, `failed` and `cleared` are history, and so are `home`, the medium the SNRM of
the session has come from, and `crossed`: frames of other media were behind it.

### Programs

The areas that hold tariff tables. `mt_conf` is the configuration in RAM,
`nv_conf` its copy in the EEPROM; `aprog`, `pprog`, `ahol`, `phol` are the areas of the
active and the reserved program and of their holidays, and `prog_dl_idx`,
`hol_dl_idx` those a download writes. `turn` goes from `program_proc` to one request
of `amr_proc`, the keys and the saving of the configuration, the order of
`whm_proc` and `foreground`; `Restart` may come at any step.

- `ProgramDownload` (PGM_DL) and `Initiate` (an image) choose the download
  area; `SetCalendar`, `SetDays` and the unpacking of an image write it;
  `PutInForce` (`prog_cur_dl_proc`) and `Reserve` (`prog_fut_dl_proc`) give it to a program;
  `TakeEffect` puts the reserved program into force; `FutureDelete` drops it.
- `ChangeRateKind` is the tariff key, which installs the default tables in the
  download area as it stands (`dsm_touimage_default`).
- `fresh` and `exposed` are history. `fresh`: the area was chosen and not given to a
  program since. `exposed` becomes TRUE by one of three orders the code does not
  guard against, and what follows one is not claimed anything about except the types and the
  area of calendars: the download area is used again without being chosen anew (a
  SET without PGM_DL, a second FUTPGM_WORK, a second tariff key); the meter is reset between
  the write of `I_FUT_PROG_DL` and the saving of the configuration, so that the
  reserved program is paired with the holidays bit of another; and
  `I_FUT_PROG_DL` cannot be read when its time comes, whereupon the program is
  dropped. No comment of the code says what should happen then.
- `was` and `nv_was` are history: the tables as put into force or reserved,
  and the same at the last saving.

The season, week and day tables are one value. That the copying by PGM_DL is
left out for tables the program in force lacks is a choice. Edits of holidays are
always of the active program: the flag for the reserved one is never set
(`act_req.c:522`). Reads of tables return what was written; a failed write of
the calendar is a malformed image (`ActivateFails`).

### LoadProfile

A load profile is a ring that is filled from its end. Record `k` is at
`Slot(k)`; the ring has `Gap` places more than the profile holds records
(`LP_BUF_GAP`, `LPRT_BUF_GAP`). The rings of LP and LPAVG are in the EEPROM and
written at every record. `index` is the counter, in RAM, and `kept` its copy in
the EEPROM (in `whm_op` for LP, in `mt_accm` for LPAVG). LPRT is in RAM
altogether and empty after a restart. The check sums by which `whm_op_restore`
and `mt_accm_restore` would keep the RAM never match after a restart, since the
start-up code clears it (the scatter file has plain `+RW` and `+ZI` sections
only), so the counter falls back to `kept`.

- `Save` is a record at the end of an interval, `Backup` the saving of the
  counter, `SagDetect` what `sag_detect_proc` saves when the mains is off for
  the first time since it was on; the meter goes on while the supply holds.
- `Restart` may come at any time, `FirmwareRestart` is the restart for new
  firmware, `Clear` is `whm_clear_all`. `Boot` is what they have in common,
  `mt_data_restore`; `PowerReturn` is the end of the start, which makes a record
  of the interval that a power failure ended.
- `Get`, `LpRange`, `LprtRange`, `LpavgRange` begin a transfer and `NextBlock`
  goes on with it, by the cursor `getresp_LP_index`, `getresp_LP_len` that all
  profiles share. `GetOther` is the read of another profile, which takes the
  cursor. The three ranges differ in the code: LP counts its entries by places
  of a ring that begins anew when it is full, the others from the newest.

The profiles meet only in the cursor, so a behaviour looks at one of them
(`profile`). A record is its number and the *generation* it was written in: `gen`
counts the restarts that dropped records, and `hist` says of which generation each
record is that counts, so that a record of before a restart shows when it is taken
for one with the same number written after. `seen` and `off` are history for
`SagKeepsRecords`; `asked` and `block` are the request and what was sent for it.

Left out: the values in a record; the columns of a selective access;
the record kept aside while a change of the metering direction blocks LP, which
is constantly off (`get_req.c:15578`); the battery modes, in which the records of
a power failure are read but not written; the failure of a write to the EEPROM. The
delay that hides a failure of the mains after an update of the metering firmware is
part of `ac`.

## 4. The runs

| run | configuration | asks | states |
|-|-|-|-|
| `hdlc_any_frames` | `MCHdlc.cfg` | any order of frames of two clients, conforming or not | 37,140 |
| `hdlc_link` | `MCHdlcLink.cfg` | the refinement of `Exchange`, `NumbersInStep`, `NeverRejected`, `RequestAnswered` with a client, losses, frames for other meters, pushes | 403,825 |
| `hdlc_foreign` | `MCHdlcForeign.cfg` | finding 1 | |
| `session` | `MCSession.cfg` | clients of every kind on two media; frames behind a waiting SNRM; no association left over, sessions timed, where answers go, clearings | 469,931 |
| `fwimage_parts` | `MCFwImage.cfg` | downloads of three parts, abandoned, mixed, refused, with stray and corrupt blocks | 396,330 |
| `fwimage_write_fails` | `MCFwImageWrite.cfg` | finding 2 | |
| `fwimage_again` | `MCFwImageAgain.cfg` | finding 3 | |
| `programs` | `MCPrograms.cfg` | downloads, reservations, keys, turns and resets in any order | 1,642,374 |
| `load_profile` | `MCLoadProfile.cfg` | records, savings, brown-outs, restarts and reads of each profile in any order | 554,484 |
| `load_profile_range` | `MCLoadProfileRange.cfg` | finding 5 | |
| `sw_timer` | `MCSwTimer.cfg` | counter, list and OS timer agree; silence after a stop; expiries are served | 609,910 |
| `sw_timer_dead` | `MCSwTimerDead.cfg` | finding 4 | |

What the properties say:

- `KeptFrameIsCurrent`, `KeptFramesBelongToClient` - the frame kept for
  retransmission always carries the numbers of the link now and belongs to the
  client connected now, although an SNRM or DISC that is refused has overwritten the
  address by then.
- `SegOffsetInBuffer` - the shared offset stays inside `global_buff` whatever the
  order of segments, polls and responses. That it does rests on
  `TX_SEG_FRAME_SIZE` being below `GLOBAL_BUFF_SIZE` (a comment in `nv.h` asks for
  it): it is an assumption of the module.
- `HandOverIsFresh` - the connection passes to another client only with fresh
  numbers and nothing of the old response.
- `NumbersInStep`, `NeverRejected`, `ImplementsExchange`, `RequestAnswered` - the
  two ends never differ by more than one frame; the meter never rejects a
  conforming client; the promise; and its progress as long as the connection stands
  and nobody else speaks in the exchange. The last condition is needed: a frame of
  another meter just before the last segment of a request changes the segment
  state, and the meter then takes that segment for a whole request and drops it, and
  every repetition of it.
- `AssociationOfClient`, `SessionIsTimed`, `UnsecuredStays` - the association stands
  only over the link of its client; a ciphered session has the timer running
  that ends it, the site client's has two, although the timer of site sessions stops
  whatever session stands when it fires. A client without security is answered on the
  medium its SNRM has come from, and only frames of that medium wait for its session -
  unless a frame of *another* medium was admitted behind the SNRM before that
  was handled. Such a session is `crossed`: the run reaches it, and the property
  says that it is the only way. The code then sends the UA to the other medium,
  and, once the other frame is handled, refuses the session's own medium
  (`Returned` compares with the variable that has moved) until an SNRM or DISC of the
  other one, a timer or the key. No doc or comment of the repository
  says where an answer must go, so this is told here and not listed as a finding.
- `ClearingOfAsker`, `ClearingEnds` - a clearing that is put off to a later
  transmission on RS485 or to the reset timer is one that was asked for, of
  the asker's kind while no other client has come; and it is carried out, fails or is
  replaced although the client never comes back.
- `ReceivedIsStored`, `SysHashCoversDownload`, `VerifiedSysIsReceived`,
  `ActivatedIsFrozen` - what a download has received is in the flash or the page
  buffer at its place; its hash covers exactly it; a system image is called
  verified only when it is there as a whole, even though the status bits
  `LAST_TRFR` and `HASH_GEN` survive an initiation; and nothing changes between
  activation and the timer that runs it.
- `ExactUnlessTorn`, `StoppedIsSilent`, `ExpiryIsServed` - without a lock the
  counter, the list and the OS timer agree unless a timer expires in the middle of
  a start or a stop; a timer stopped while on is silent; an expiry is never
  forgotten.
- `WindowHeld` - the newest records are in the ring as they were saved last, whatever
  restarts took the counter back: those that then count again stand in the gap, where
  the records that are dropped may have been written over them.
- `BlockIsDue` - every record of every block is the one due at its place of the
  transfer, while records are saved between its blocks, up to as many as the gap
  holds. It leaves out the ranges of finding 5 and those of LPAVG that end
  behind the profile, which the code does not check.
- `SagKeepsRecords` - what was saved before the mains was first seen to be off survives
  every restart, however often the mains comes and goes.
- `DownloadAreaFree` - from its choice until it is given away, the download area is
  none in use, whatever comes into force or is dropped meanwhile: only the two areas in use
  at the choice can become active or reserved.
- `ActiveAsActivated`, `ReservedAsReserved`, `SurvivesReset` - the tables in force
  are those put into force, those reserved come into force as they were reserved,
  and a reset at any step leaves a whole program in force, although the EEPROM
  copy of the configuration lags behind the RAM within a turn while downloads write
  the tables at once.

### Bounds

- `MCHdlc`: two clients, of which one proposes more than the meter admits and may
  be refused; I frames with numbers 0 and 1, polls with 0 to 2, so that all four
  window cases (expected, repeated, unexpected, rejected) occur in several
  states; information fields of one unit, a segment buffer of two, `global_buff` of
  four and answers of one, two and four, so that an answer fits, is segmented
  or exceeds the buffer, and requests may exceed it as well; NV memory may fail at
  any access.
- `MCHdlcLink`: requests of one and of five units in frames of two, with answers
  of five and of one, so that each direction is segmented; two frames under way each way, so
  that an old frame can arrive after a new one was sent; one forced stop, `amr_init` or
  restart at any point; an unsegmented frame for another meter and a push of one unit
  at any point. Every unit of data is a distinct number: a segment lost,
  doubled or misplaced shows. Sequence numbers are modulo eight as in the code and
  wrap, since the number of requests is not bounded.
- `MCFwImage`: pages of two blocks; a system image of three blocks (a full and
  a forced write), a metering image of two, a modem image of one, and an image that no
  part takes; corrupt and stray blocks; room for four blocks, so that a second page
  can be filled, and at most three blocks hashed (`MaxHashed`). The flash writes succeed
  in this run: that a failed one of a metering block counts as done is finding 2,
  `fwimage_write_fails`, and the theorems hold for all outcomes.
- `SwTimer`: two timers, one-shot and periodic, intervals of zero (shorter than a
  tick) and two ticks; at most two expiries waiting per timer, at most one start
  or stop by one callback or by the rest of the loop. The bound on expiries holds
  ticks back that a meter would have: it limits how far the task can fall behind.
  `CountRange`, 256 in the code, is 4: still above the number of timers, as in the
  code.

- `MCSession`: RS485 and the external modem, so that each medium has the other to
  compete with; the built-in modem differs from the external one only in the order
  of the ports and in one preference, and three media are too many states. One client of
  each kind the arbitration tells apart (private, secure utility, secure site, a
  management client that only connects) and a frame of no client. Two
  frames fit the ring (`MaxRx`), and `Behind` says which may wait behind which: behind
  the SNRM of the private client the frame it sends next and the SNRM of the secure
  utility client, from either medium. So a frame is admitted between
  another's admission and its handling, before and after the link connects. Each
  further pair adds 70,000 to 190,000 states; other pairs (a DISC in front, a frame of no
  client behind, a secure SNRM in front) were explored one at a time. The theorems hold
  for every `Behind`, any number of frames and the three media.
- `MCPrograms`: two calendars and two holiday tables, the default one and one that was
  downloaded: enough to see that an area holds what it should not. One kind of
  table at a time differs from the default (`Bounds`), because the two lie in different
  areas under the same configuration; what follows `exposed` is cut off. The indices of a
  reserved program that does not exist are hidden (`View`), since no definition reads
  them. The number of areas is the code's own three; steps are not bounded.

- `MCLoadProfile`: profiles of two records (LPAVG three) with a gap of two, blocks
  of one (LPAVG two), so that the last block is shorter; five records, so that every
  place is written over, and up to two losses of records. `MaxUnsaved`, at most
  the gap, bounds the records between two savings of the counter: in the code the
  counter is saved every 15 minutes, in which at most 15 records of the shortest
  interval are made, and the gap is 20. Entries 0 to 3 are none, within the profile
  and behind it. The lengths are modulo 8 instead of 2^16. The theorems hold for any
  of these.

`CHECK_DEADLOCK` is left on in every run.

### Fairness

- `hdlc_link`: `MeterRcv` and `ClientRcv` are strongly fair and `Retransmit`
  weakly fair. The meter task polls its ports for ever and drops frames only while
  the display takes key input, which ends; frames are lost, but of those repeated
  for ever one arrives; and the client repeats while it waits. Nothing is assumed of the
  meter dropping the connection or of the client giving up, and the property allows
  for both.
- `sw_timer`: `WF_vars(Task)`: the loop of the meter task never ends and no task
  above it runs without end. Nothing is assumed of `Tick`.
- `session`: `WF` of `amr_proc`, `Flush` and `Restart`: the loop turns. `SF` of
  `ResetTimeout`: once started, the reset timer expires (a tick count that nothing
  stops), and the loop serves timers before ports; it is strong because the action
  is enabled only at the beginning of a turn. No client is assumed to send anything.

## 5. Findings

Disagreements between the code and what it says of itself, each shown by a
counterexample.

1. `hdlc_foreign` - `set_seg_status` (`dlms/dl.c:295`) runs before the address of
   the frame is looked at. After a segmented frame for another meter of the
   RS485 bus the next unsegmented request counts as the *last segment* of one:
   its LLC header is not checked and the application is given what an earlier
   exchange left in the segment buffer in front of the request. `dl.h:27` says that
   the data of an unsegmented frame is what follows the LLC header.
2. `fwimage_write_fails` - `dlms/amg_imagetransfer.c:1231` stores `0 : -1` in a
   `bool` and so reports a failed flash write of a metering block as success, against
   line 1244 ("true on success"); the retries of the caller never happen.
3. `fwimage_again` - a metering download that is stopped and begun again fails
   its integrity check though every block is intact, a case line 1285 names and handles
   for the other images only.
4. `sw_timer_dead` - a tick between the accesses of `dsm_sw_timer_start` expires the
   timer being started, after which the start wipes out the expiry: the timer is neither on
   nor will its handler ever be called. `ExactUnlessTorn` shows that this window
   is the only one.
5. `load_profile_range` - once LP is full, its entries are the places of a profile that
   is written over from its beginning, and a range from before the newest record to
   behind it lies in two runs of records. `ob_load_profile` (`dlms/get_req.c:12213`)
   looks at the last entry only and reads one run: for all entries, 1 to `LP_SIZE`, the
   newest records are left out and as many are given that are older than the 65 days
   `app/lp.h:50` speaks of, from the gap or from places written over.

## 6. Proofs

Checked by TLAPS for every value of the constants that meets the named
assumptions. None of the modules that are proved about uses a RECURSIVE operator.

**`Hdlc_proofs`** (from `HdlcAssumption`): `TypeCorrect`, `KeptFrameCurrent`,
`KeptFramesOfClient`, `SegOffsetBounded`, `HandOver`. The inductive invariant is
`SegInv /\ SendInv /\ ConnInv`: the segment buffer with its bound, the
frames built with the numbers they carry, and the connection. What the
properties lack to be inductive is mostly in `ConnInv`: in NDM nothing is kept
for retransmission, and in NRM the address register holds a client. The case
work follows the code: one lemma for each way of sending (`SendRR`,
`SendInfo`, nothing) and one for each handler on top of them. `HandOver` needs no
other fact than that only `RcvSnrm` connects.

Its lemmas about the handlers are stated for any frame `f \in InFrame` and not only for
those of `Frames`, so that they serve the next two modules.

**`HdlcLink_proofs`** (from `HdlcLinkAssumption` besides): `LinkInStep`,
`LinkNeverRejects`, and `LinkMeterSafe`, the invariants of the meter alone in this
surrounding. They hold for all requests and ways to cut them, any capacity of the
medium, any number of stops, any frames of other stations, and NV accesses that
fail. `NumbersInStep` says nothing of the frames under way, and a frame that is too
old or too new would break it. The inductive invariant `LinkInv` says of each of them
what it is, seen from the client: to the meter goes the frame outstanding
or, before it, an older one (`UpInv`); to the client goes an answer to the frame
outstanding (`Fresh`), the repetition of an older answer (`Late`), or a frame without
numbers (`DownInv`), and behind a fresh answer no late one. `InStep` ties them to the
meter: either it has accepted the frame outstanding (`Accepted`: its kept frame is
the fresh answer, and only repetitions of the frame outstanding are under way), or it has not (`Awaiting`:
no fresh answer exists, and if the client polls, a tail is left that continues with the
right number). `ConnectInv` is the same for the SNRM, whose answer has to find a
connection with fresh numbers.

The lemmas follow the steps: one for what a frame is to a meter that awaits one
or has taken one (`InfoInStep`, `PollInStep`; `HeardConnecting` and `HeardDropped`
outside a connection), and one for each step of the client. Among the branches of `RcvFrame`, the unexpected and the
rejected ones turn out to be unreachable for a conforming client; that is `NeverRejected`.

**`HdlcLinkPromise_proofs`**: `LinkKeepsPromise` (`LinkSpec => ImplementsExchange`) and
`ExecutesWhatIsAsked`. `LinkInv` knows the numbers but not the data. `DataInv` adds
`Follows`, which follows the data through the one segment buffer that serves both
directions:

- `ClientData`: the frame outstanding is cut out of the request behind the
  `acked` units, with the right segmentation bit and header; a poll is outstanding only
  for an executed request, part of whose answer has been collected.
- `DownData`, `GoodReply`: a fresh I frame continues what was collected.
- `MeterData`: before the request is whole, the buffer holds its first units
  (`Holds`) and nothing has been executed; after, it holds the rest of the answer
  (`Rest`), from the offset on, behind what was collected or is being sent.
- `SegData`: the meter believes to be in the middle of a message only when it is. It
  is needed because `set_seg_status` looks at each frame before anything is checked:
  a repeated segment of the previous exchange must not be able to arrive.

`NextData` has one lemma per step: `RcvInfoData` is the one that maps to
`Promise!Execute`, `AnsweredData` to `Complete`, `GiveUpData` to `Abandon`, `IssueData`
to `Issue`; all other steps stutter. `ExecutesWhatIsAsked` is then an invariant of
`Exchange`. The hypotheses (`Promising`) are:

- `CleanBus`: no segmented frame for another station. Finding 1 is what happens
  otherwise.
- `NvWorks`: the buffer is in the NV memory, and a write that fails is
  acknowledged like one that succeeds (`dl.c:1022-1044`): TLC then shows a request
  of three segments of which the last alone is executed.
- `DataFits`: requests of at most `TX_SEG_FRAME_SIZE` (600 bytes), answers of as much
  behind their first frame. A segment that does not fit is acknowledged and left out,
  and the rest is executed; `dl_seg_frame_over` records it and no code reads it. The
  comment at `dl.c:247` knows of this ("overflow is occured but voerflowed data is no
  problem"). The bound is sufficient; the last segment of a request needs no place in
  the buffer.

`MCHdlcLink` checks by an ASSUME that the hypotheses hold in the run `hdlc_link`.

**`FwImage_proofs`** (from `FwImageAssumption`): `TypeCorrect`,
`VerifiedReceived`, `ActivatedFrozen`, `SysHashCovers`, `ReceivedStored`. The
last is about downloads whose writes have all taken effect (`intact`): finding 2 is what
happens to the others. The invariant adds two
facts to the types. `CountInv`: the counters count the received blocks, and when
`LAST_TRFR` is set either all or none have come, which is why a stale bit cannot
pass a verification of a system image. `HashInv`: a system download under way
has a busy hash context over exactly its blocks. `ReceivedStored` uses `StoreInv`
besides, the relation of the flash address and the page fill to the number of
blocks for the two ways of writing.

**`SwTimer_proofs`** (from `SwTimerAssumption`): `TypeCorrect`, `StoppedSilent`,
`ExactUntilTorn`. The last is by `ExactInv == ~torn => Whole`, where `Whole` says of
every point *inside* a start or a stop by how much the counter is ahead of
the list (`CountInv`, with `On` and `Ahead`), what is known of the timer being
worked on (`CallInv`), when the OS timer runs (`OsInv`) and how every armed timer is
under way (`ArmedInv`). A tick that expires nothing preserves all four at any point;
one that expires something preserves them outside a call.

**`Session_proofs`** (from `SessionAssumption`): `TypeCorrect`,
`AssociationOfItsClient`, `SessionTimed`, `ClearingAsked`, `UnsecuredStay`, for any
frames, media and length of the ring. The invariant adds `LinkOfClient` (an
unconnected link has no association, a connected one is that of the application's
client), from which the first property follows, and `AskerKnown`: wherever a
clearing waits - in the command, in the flag of the end of a transmission, in
the reset timer - its asker is recorded and the kind kept with it is his. `LastSets`
carries `UnsecuredStays`: of the frames that wait, the last one's medium is where
answers go, so an SNRM with only frames of its own medium behind it is answered
there (`ConnectHome`), and what is admitted later comes from there (`AdmitInv`). One
lemma for each action of the loop.

**`Programs_proofs`** (from `ProgramsAssumption`): `TypeCorrect`,
`DownloadIsFree`, `ActiveKept`, `ReservedKept`, `ResetSurvived`, for any contents of
the tables. `FirstFreeIsFree` is the arithmetic of it: of three areas one is left when
at most two are in use. The invariant is the three properties with what the saved
configuration adds, for the EEPROM lags behind the RAM within a turn: `Saved` (at the
beginning of a turn they agree; after `program_proc` the saved reserved program is in
use in RAM, as reserved or as active), `NvFree` (a fresh download area is of no saved
program that a reset would bring back, except of the active one that was replaced in
this turn), `NvReserved`, `NvActive`, `NvDays` (what the saved areas hold at each
step), and `OwnHolidays`. A command that only writes the download area and one that moves
indices are separate lemmas (`WriteInv`, `ReserveInv`, `PutInForceInv`,
`ChooseInv`), used for each way they are reached.

**`LoadProfile_proofs`** (from `ProfileAssumption`): `TypeCorrect`, `WindowCorrect`,
`BlockCorrect`, `SagCorrect`, for any sizes of ring, gap and block. All of it rests on
`SlotsApart`: two records less than a ring apart are at different places. `Held` is the
window of records and, besides, that of the counter that was saved: as no more records
are saved than the gap holds before the counter is saved again, a restart finds its
window whole. `Power` ties the flags of the power failure to `seen` and `kept`, and
`Transfer` the cursor to the request: the record it points at is the one due next
(`CursorDue`), and as far as the gap allows it is still in the ring. The
three ways of counting entries come together in `CursorDue`, by one lemma each.

Only model-checked: liveness (`RequestAnswered`, `ExpiryIsServed`, `ClearingEnds`),
which is out of the prover's reach, and the counterexamples. Every other property of
the passing runs is a theorem.

## 7. What is not modelled, and why

- Byte-level reception and the FCS: `Hdlc` begins with whole, intact frames;
  damaged ones are lost frames of `HdlcLink`.
- The layout of frames, of APDUs and of image headers. The parameters of an SNRM
  are modelled by the outcome of their negotiation.
- The crypto library, the modem and the loader are nondeterministic: they succeed or
  not. The hash is the sequence of what was hashed.
- The application behind the data link: any answer that `Answers` admits.
- In `Session`, the change of the modem's speed at the end of a transmission
  (`dlms/comm.c`), the CAN bus (compiled out), and the medium of the AT commands; timers
  expire at any time while they run, real time is not represented.
- In `Programs`, which of its tables a program has, and what they contain; the
  hash and the verification of a TOU image, so that an image may be ready at any block; the names and
  counts of programs, which no step reads; a program with no tables at all,
  which is the meter before its first start.
- In `FwImage`, the image records of the two banks in NV memory, which no step of
  the transfer reads, and the upload of the metering image after its activation (item 7 of the plan).
- In `LoadProfile`, more than one profile at a time, and transfers during which more
  records are saved than the gap holds.
- That a client which connects and asks for nothing keeps the other media out until
  the next SNRM or DISC: `SessionIsTimed` is about ciphered sessions.
- In `SwTimer`, the number of ticks between two steps of the task is limited only by
  the waiting expiries; real time is not represented.
- Components marked "-" in section 1, in the order of the plan.
