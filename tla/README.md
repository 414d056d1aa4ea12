# TLA+ models of the K230 U-Boot burn and boot pipeline

Source tree: `src/canmv_k230/src/uboot/uboot/`. Paths below are relative to it.

## 1. The system and its parts

| Part | Code | State | Operations | Modelled in |
|---|---|---|---|---|
| USB Burn Protocol Engine | `drivers/usb/gadget/f_kburn.c`, `cmd/kburn.c` | `struct kburn_usb_t` (burner, offset, dl_size, dl_bytes, buf/buf_head); the OUT request (queued or not, its callback, its length); the IN request (the pending response) | `do_kburn` (start, exit through `kburn_unbind`), `kburn_set_alt`, `kburn_disable`, `rx_command_handler` → `cb_probe_device` / `cb_get_device_info` / `cb_write_lba` / `cb_erase_lba` / `cb_not_support`, `rx_write_lba_handler`, `kburn_tx_*` | `KBurnUsb`, refining `KBurnContract` |
| Storage Medium Abstraction | `drivers/kburn/kburn.c`, `kburn_mmc.c`, `kburn_sf.c`, `kburn_mtd.c`, `include/kburn.h` | the bound `struct kburn` and its `medium_info`; the content of each medium | `kburn_probe_media`, `kburn_mmc_probe`, `kburn_sf_probe`, `kburn_mtd_probe`, `kburn_get_medium_info` and the three `*_get_medium_info`, `mmc_op`, `sf_write_medium`, `sf_erase_medium`, `mtd_write_medium`, `mtd_erase_medium` | `KBurnMedium` (write/erase), `KBurnUsb` (probe, info) |
| Firmware Container Verifier | `board/kendryte/common/k230_boot.c` | header fields, the OTP policy bit and key hashes, `CONFIG_K230_PUFS` | `k230_boot_check_and_get_plain_data`, `k230_boot_check_and_get_plain_data_securiy` | `BootLoader` (`CheckPlain`, `CheckNone`, `CheckSecurity`) |
| Boot Orchestrator | `k230_boot.c`, `board_common.c/.h`, `k230_spl.c` | `g_boot_medium`, the static `pblk_desc`, the load and decrypt buffers, the image left in low RAM | `spl_board_init_f`, `do_k230_boot` with `k230_boot_prepare_args`, `k230_img_load_boot_sys`, `k230_load_sys_from_mmc_or_sd`, `k230_img_boot_sys_bin`, the auto target, the hand-off; `arch_env_get_location`, `mmc_get_env_dev` | `BootLoader`, refining `SecureBoot` |
| Hardware Decompression Engine | `lib/k230_gunzip.c` | DMA channel and decompressor status, the descriptor lists, the deadline, the reset registers | `k230_priv_unzip`, `ugzip_sdma_cfg`, `ugzip_llt_cal` | `Unzip`, refining `Inflate` |
| EFI boot manager bootmeth | `boot/bootmeth_efi_mgr.c` | none on hardware (`fake_dev` is a sandbox hook) | `efi_mgr_read_bootflow` (always -EINVAL), `efi_mgr_boot` | not modelled (section 4) |

How the parts interact. The host drives the burn engine over USB. Each request is a 64-byte packet and is answered by one response packet. `DEV_PROBE` binds a medium through `kburn_probe_media`, replacing and destroying any earlier binding. `DEV_GET_INFO` fills `medium_info`. `WRITE_LBA` checks the request against `medium_info` and switches the OUT callback to `rx_write_lba_handler`. From then on, every transfer is raw data, copied into one half of a double buffer and written through `kburn_write_medium` at `offset`. When `dl_bytes` reaches `dl_size`, the callback goes back to `rx_command_handler`. `ERASE_LBA` calls `kburn_erase_medium` once. The boot path reads an image from a medium, verifies or decrypts it, and may inflate it. It shares no state with the burn engine at run time.

Concurrency. `do_kburn` (`cmd/kburn.c` 42-48) polls the controller until Ctrl-C or a detach. The gadget stack runs one completion callback at a time, and each runs to completion. So every callback is one atomic step: the handler, the response it queues and the requeue of the OUT request. The host is the environment. It may reset the function (`kburn_disable`) or reconfigure it (`kburn_set_alt`) between any two callbacks.

Hard behaviours the code is exposed to (each is listed in `PROJECT.json` under `hazards` at its line):

- **Commands out of order.** `WRITE_LBA` can arrive with no medium bound (the NULL read in `cb_write_lba`). A probe can bind a device other than the one requested, because `kburn_mmc_probe` falls back to the last device visited.
- **Partial failure.** A chunk write fails in the middle of a download. The OUT request is then never requeued.
- **Bus errors.** An OUT transfer can complete with a bad status, in command mode or in data mode.
- **A reset in the middle of a download.**
- **NAND bad blocks.** The write window is pushed past the erased range, and the bad-block loop runs past the end of the device.
- **Alignment and rounding at boundaries.** `mmc_op` rounds the offset down and the length up. `rx_bytes_expected` rounds the last packet up to maxpacket. `transfer_size` is truncated to u32, so an image of 4 GiB or more never completes. `offset + size` can wrap.
- **Boot side.** A secured container accepted without PUFS (fail-open); a GCM_ONLY container decrypted with a key written in the source, whatever the OTP requires; a header length trusted before authentication; `length - 16` underflowing in u32; a static block descriptor cached across `k230_boot` commands naming different cards; `g_boot_medium` rewritten by a command, which moves the environment.
- **Decompression.** The engine's completion racing the tick deadline; descriptor lists freed while a timed-out channel still runs; a failed `malloc` of a list not propagated; the reset polls with no deadline.

The boot path does not share state with the burn engine. It loads a container from an SD host (`k230_load_sys_from_mmc_or_sd`), checks it (`k230_boot_check_and_get_plain_data`: digest, signature, decryption), reads the uImage in the plaintext and starts it: RT-Smart on the big core (the little core then waits in `wfi`) or a U-Boot image by a jump. SPL runs the same path once for U-Boot; U-Boot's `k230_boot` command runs it from the prompt. A gzip uImage is inflated through `gunzip`, which in the vendor tree calls `k230_priv_unzip`; that glue file is not in this tree, so the two modules are not composed (the boot model takes the inflate outcome as a field of the image).

## 2. Modules

- `KBurnMedium`: operators for the three back ends. A medium is a function from cells (scaled bytes) to what each cell holds. A cell holds a position of the host's stream, or one of the markers `Old` (earlier content), `Blank` (erased) or `Garbage` (bytes the host never sent, or NAND programmed without an erase). Each operator returns the C return code, the value left in `*len` and the new content. A loop of the driver that never exits yields the code `Hang`.
  - `MmcOp` stands for `mmc_op` and its wrappers.
  - `SfEraseOp` and `SfWrite` stand for `sf_erase_medium` and `sf_write_medium`, using the alignment rules of `spi_flash_erase`.
  - `MtdEraseOp` stands for `mtd_erase_medium`.
  - `MtdWrite`, `MtdFirstGood` and `MtdPages` stand for `mtd_write_medium` and its two bad-block loops.
- `KBurnUsb`: the burn engine. Its variables correspond to the code as follows.

  | Variable | Code it stands for |
  |---|---|
  | `session` | a `kburn` command is in its polling loop |
  | `enabled` | the function is set up: `kburn_set_alt` succeeded and `kburn_disable` has not run since |
  | `rxArmed` | `out_req` is queued |
  | `rxMode` | `out_req->complete` |
  | `reqLength` | `out_req->length` |
  | `burner` | `kburn_usb->burner` and its `medium_info.valid` |
  | `offset`, `dlSize`, `dlBytes` | the fields of the same names |
  | `bufHalf` | which half of `buf_head` `buf` points to |
  | `bufHead` | `buf_head` holds an allocated transfer buffer |
  | `txPkt` | the response on `in_req` that the host has not read |
  | `media` | the content of every device |
  | `hung` | a driver loop has not returned |

  Three history variables support the properties:
  - `lastProbe`: the medium type of the last probe;
  - `dlReq`: the range accepted by the last `WRITE_LBA`;
  - `hostSent`: how many bytes of that download the host has sent.

  `mediumOps` counts downloads started plus erases run, and is capped by the bound `MaxMediumOps`.

  `transfer_size` keeps its width: `TransferSize` takes the remainder `dl_size - dl_bytes` modulo the constant `UintMod`, which stands for 2^32 on the same scale as `EpBuf` for 128 KiB.

  Each callback is one action: `ProbeDevice`, `GetDeviceInfo`, `WriteLba`, `RxWriteLba`, `EraseLba`, `NotSupported`, `UnknownCommand`, `BufferOverflow` and `RxBadStatus`. The host's side consists of `HostReadsResponse`, `UsbDisable` and `UsbSetAlt`; `UsbSetAltFails` is `kburn_set_alt` failing after it enabled the OUT endpoint (a request not allocated, the IN endpoint not enabled, the queue refused), allowed when `UsbErrors` holds. `KburnStart` is `do_kburn` entering its loop; its registration runs `kburn_add`, whose `get_kburn_usb` (`GetKburnUsb`) allocates the transfer buffer when `buf_head` is NULL. A failed controller initialisation, registration or cable check changes nothing the model holds. Every callback with a handler calls `get_kburn_usb` again, so a buffer freed by a reset is allocated anew by the next command. `KburnExit` is the loop ending: the gadget core disconnects (`kburn_disable`, which frees the buffer, but only for a configured function) and `kburn_unbind` zeroes `*s_kburn`, `buf_head` included. Those failure paths end in `kburn_disable` on a function that stays unconfigured: it frees the transfer buffer and destroys the burner. A failure to enable the OUT endpoint returns before anything changes. `Spin` is the CPU stuck in a driver loop. A handler's inputs are drawn from small sets with `\E`. These are the medium code, the offset and size, whether the packet's `data_size` field is right, and the length of a data transfer.
- `KBurnContract`: what the burn engine promises the host, from spec.md sections 4.1 and 7, with no requests, buffers or drivers. While the host is attached (`link`), the engine is waiting for a command or downloading into an accepted range (`req`). A download step changes nothing outside the range (`Chunk`). The step that ends it leaves the range holding the image (`Complete`). An erase only blanks cells of one device (`Erase`). A detach abandons the download. `KBurnUsb` maps `enabled` to `link`, `rxMode` (while enabled) to the mode, `dlReq` to the range and `media` to itself, and `ImplementsKBurnContract` states the refinement.
- `MCKBurnUsb`: the model-checking instance. It provides the sequence constants: the uclass order of the block devices.

Undefined behaviour. With no burner bound, `cb_write_lba` reads `medium_info` through a NULL pointer. On this board, address 0 is DDR, so the model lets the valid bit be any value in the constant `NullValid` and the capacity be 0 or `Cap`. The passing runs fix `NullValid = {FALSE}`, a zeroed word. The run `null_burner` allows both values.

- `BootLoader`: the boot path. Everything runs on one hart without interruption, so SPL's load of U-Boot (`SplBoardInit`) and each `k230_boot` command (`K230Boot` with a medium and a system argument, `K230BootMem` for `k230_boot mem`) is one atomic action: load, check, uImage check, and either the hand-off or the error returned to the prompt. `Idle` is the prompt waiting, the little core in `wfi`, or the jumped-to code running.

  | Variable | Code it stands for |
  |---|---|
  | `gBootMedium` | `g_boot_medium` |
  | `pblkDesc` | the static `pblk_desc` of `k230_load_sys_from_mmc_or_sd` (`NoDesc` = NULL, else the mmc device) |
  | `decryptBuf` | the container at the decrypt address (`k230_boot mem` target) |
  | `lowRam` | the uImage header at address 4 |
  | `stage` | where control is: SPL, the SPL panic, the prompt, RT-Smart started, a U-Boot image jumped to |
  | `ret` | the code the last command returned |
  | `board` | the board, fixed at power-on: the containers on each card, what `mmc_init_device` returns, what `k230_boot mem` may be handed, the OTP policy bit and whether the key hashes are fused |

  History variables: `booted` (container and uImage of the last hand-off), `top` (the highest address the last command wrote), `lastRead` (requested and read mmc device), `strap` (`g_boot_medium` at power-on). `cmds` counts commands, capped by `MaxCmds`.

  The operators follow the call tree: `LoadFromMmc` and `LoadFromDev` (the two loaders, returning code, descriptor, highest address written and container), `CheckNone`, `CheckSecurity` and `CheckPlain` (the verifier, every early return kept with its code), `Decomp` and `RunImage` (the uImage boots), `BootSysBin` and `LoadBootSys` (the two entry points). A container is a record of the fields the checks read (`magic`, `length`, `crypto`, and the outcomes of the digest, key-hash, signature and tag comparisons); the cryptographic primitives are abstracted to these outcomes. Each call that can fail on hardware (`blk_dread` twice, `cb_pufs_read_otp`, `cb_pufs_hash`, the SM4 decryption) has a fault bit chosen per action. Sizes are scaled (`MemTotal = 48`, load address 32, decrypt address 16, `Blk = 2`, header 3 so `HD_BLK_NUM = 2`, tag 1), and lengths wrap at `LenMod = 64`, standing for 2^32.

  Undefined behaviour. `k230_boot_prepare_args` leaves `sys` uninitialised for an unknown system word; `K230Boot` then lets `sys` be any `en_boot_sys_t` value. Without PUFS a secured container leaves `plain_addr` at 0, and the uImage read at address 4 is whatever `lowRam` holds.
- `SecureBoot`: the boot contract from spec.md sections 4.2, 4.4 and 7. The loader fails for good or hands on; a command fails without effect or hands on for good; every hand-off runs the plaintext of an acceptable container (signed with the fused key, or intact while the OTP still allows unsigned images). `BootLoader` maps `stage` to its phase and `board`'s OTP words to its policy, and `ImplementsSecureBoot` states that `BootLoader`'s behaviours are `SecureBoot`'s.
- `MCBootLoader`: the containers, uImages and boards of the runs.
- `Unzip`: `k230_priv_unzip` as a program counter `pc` over the driver's steps: entry, the two `ugzip_sdma_cfg` calls, start, the two status reads and the decision of the poll loop, free, the two reset-and-wait sequences, clear. These interleave with hardware actions: the tick counter (`Tick`), a stopping channel going idle (`ChStopped`), the read channel finishing (`ReadDone`), the engine finishing with its CRC verdict (`EngineDone`), running on a NULL list (`EngineGarbage`) or stalling (`EngineStall`), and a reset completing (`ResetDone`). `ListNum` is the descriptor count of `ugzip_llt_cal` in u32 arithmetic; `ListNumMatches` compares it with the number of lines that cover a length; it holds for every length but 0 (reproduction `zerolen`).
- `Inflate`: the decompression contract of spec.md section 4.3. The call returns; success only for an intact stream, with the output in the destination; an integrity error only for a broken stream; a timeout at any time. `Unzip` maps `pc` and `ret` to the result and `out` to the destination, and `ImplementsInflate` states the refinement, liveness included.

## 3. Runs

`PROJECT.json` lists twelve runs: five that pass and seven that show a finding. Twelve is the most the project keeps, so some findings are reproduced by further configurations instead. Further configurations that reproduce other findings are kept beside them (end of this section).

### Burn engine (`MCKBurnUsb`)

The sizes are scaled:
- `EpBuf = 4` units stands for the 128 KiB endpoint buffer, and `MaxPacket = 2` for the packet size.
- `MmcBlk = 2`, `SfPage = 2`, `SfErase = 4`, `MtdPage = 2`, `MtdErase = 4`, and `Cap = 8` for each device.

These keep what the drivers' alignment checks see. A transfer can be one full buffer or a part-buffer tail. A tail can be page-aligned without being erase-aligned. There are two NAND blocks; `burn_flash` marks the last one bad and the reproduction `nandspill` the first.

| Run | cfg | Expect | Checks | What it shows |
|---|---|---|---|---|
| `burn_mmc` | `MCKBurnUsb_mmc.cfg` | pass | `TypeOK`, `ProbeBindsLiveRequested`, `ImplementsKBurnContract`, `DownloadTerminates` | On two initialised block devices, sizes 0/2/6 (6 = a full buffer plus a tail) and offsets 0/4, across `kburn` sessions: the engine implements `KBurnContract` (every completed download holds the exact stream, no step of a download writes outside its range, erases only blank), and a download ends while the function stays enabled. 290,091 states. |
| `burn_flash` | `MCKBurnUsb_flash.cfg` | pass | `ImplementsKBurnContract` | The same contract on NOR and on NAND. Offsets 0/2/4 and sizes 0/4/6 include unaligned requests; the host may cut transfers short, transfers may fail on the bus and `kburn_set_alt` may fail. On NOR this checks the read-erase-write of partial erase units. The last NAND block is bad: an erase over it skips it, and a write that reaches it searches past the end of the device and spins, so those downloads never complete and the check says nothing of them. A bad block skipped inside a range always moves the data out of the range; `MCKBurnUsb_nandspill.cfg` shows it. 578,175 states. |
| `null_burner` | `MCKBurnUsb_nullburner.cfg` | violation | `NoDownloadWithoutMedium` | A download starts with no medium bound. |
| `error_stall` | `MCKBurnUsb_errorstall.cfg` | violation | `ErrorsReturnToCommandLoop` | After WRITE ERROR the engine is stuck in download mode with no request queued. |
| `burn_leak` | `MCKBurnUsb_leak.cfg` | violation | `TransferBufferFreed` | A `kburn` command ended by Ctrl-C before the host configures the function: `kburn_unbind` sets `buf_head` to NULL with no `kburn_disable` having freed it, and the 256 KiB buffer is lost. Every such command (also one that finds no cable) leaks another, until `get_kburn_usb` returns NULL and `kburn_add` stores through it. 26 states. |
| `burn_4gib` | `MCKBurnUsb_4gib.cfg` | violation | `DownloadTerminates` | With `UintMod = 8` for 2^32 and an eMMC download of 10 units (4 GiB and half a 128 KiB chunk, on a 16-unit device), the first chunk writes 2 units of the 4 sent, then every chunk writes 0, and after the host has sent everything the engine waits in download mode for ever. 1,934 states. |

Bounds.
- `MaxMediumOps = 3` allows a download, a second download over it and an erase, in any order. This is enough to see one download overwrite another and a reset land in the middle of one.
- The offsets and sizes reach every branch of `cb_write_lba`: size 0, over capacity, and accepted. They also reach every outcome of the drivers: aligned, unaligned, and an erase-unaligned tail.
- `UintMod = 64` in the passing runs, above every size, so the truncation never bites there; `burn_4gib` sets it below the size.
- Between them, the two passing runs fire every action.

Fairness. The only fairness is weak fairness on `RxWriteLba`. Once START DL is answered, the host streams the image, and a queued OUT request completes when data arrives. Nothing else is fair: the host may stop sending commands, never read a response, or reset the function. `DownloadTerminates` is checked only in `burn_mmc`. In `burn_flash`, bus errors and erase-unaligned tails stall a download; that is the finding `error_stall` reports.

### Boot path (`MCBootLoader`)

| Run | cfg | Expect | Checks | What it shows |
|---|---|---|---|---|
| `boot` | `MCBootLoader.cfg` | pass | `TypeOK`, `HandOffVerified`, `ImplementsSecureBoot` | With PUFS built in, on a development board (OTP blank; mmc1 fails to initialise; unsigned, GCM, signed and broken containers on the cards and at hand for `k230_boot mem`) and on a product (OTP refusing unsigned images, key hashes fused, every card image signed): SPL and up to three `k230_boot` commands, with every medium and system argument and any hardware call failing, only ever run the checked plaintext of an acceptable container, and keep to the `SecureBoot` contract. 2,312 states. |
| `boot_nopufs` | `MCBootLoader_nopufs.cfg` | violation | `HandOffVerified` | Built without `CONFIG_K230_PUFS`, an SM2 container is accepted with `plain_addr` 0 and the RT-Smart image an earlier step left in low RAM is started. |
| `boot_gcmkey` | `MCBootLoader_gcmkey.cfg` | violation | `HandOffVerified` | With the OTP refusing unsigned images, SPL boots a GCM_ONLY U-Boot encrypted with the key in the source. |
| `boot_stalepblk` | `MCBootLoader_stalepblk.cfg` | violation | `ReadsRequestedMedium` | `k230_boot sdio0 ...` then `k230_boot sdio1 ...` reads the second image from the first card. |

Bounds. `MaxCmds = 3` commands after SPL reach every pair of media in both orders, `mem` after a failed load, and a command after a failed one. Every container has length 13, which fills the room behind the load address exactly. `WritesInsideRam` is not checked here: the loader trusts the header length, so the bound holds only for lengths that fit, and the reproductions `oversize` and `gcmshort` show it failing. The strap media cover NOR (no SD load at all) and both SD hosts; the command media add NAND.

### Decompression (`Unzip`)

All runs use `Deadline = 2` ticks, `Line = 4` units for the 128 KiB descriptor line, lengths modulo `LenMod = 64` for u32, source lengths 1, 4 and 5 (one partial line, exactly one line, one line and a bit; length 0 only in the reproduction `zerolen`) and a destination of 8 (two lines). Initial states include channels and completion bits left over from an earlier call that timed out.

| Run | cfg | Expect | Checks | What it shows |
|---|---|---|---|---|
| `unzip` | `MCUnzip.cfg` | pass | `TypeOK`, `ResultMatchesEngine`, `UnzipReturns`, `ImplementsInflate` | With allocations succeeding, intact and broken streams, an engine that may finish, stall or finish after the deadline: 0 is returned only for an intact stream decoded into `dst`, 1 only for a broken one, and the call returns; together, the driver implements `Inflate`. 4,968 states. |
| `unzip_nomem_live` | `MCUnzip_nomemlive.cfg` | pass | `UnzipReturns` | Even with a descriptor list `malloc` failing and the engine running on a NULL list, the call returns. 14,808 states. |

Fairness. The CPU spins in the driver and the tick counter runs (both weakly fair). A stopping channel stops and a requested reset completes (weakly fair): the code polls them with no deadline, so its return depends on exactly this hardware assumption, and spec.md section 9 flags it. The engine is not fair: it may stall for ever, and the deadline must end the loop.

### Mutants

Each property of a passing run is shown to catch a plausible bug in the code it is about. The bugs, as mutated definitions declared next to the originals:
- burn: the buffer cap dropped from `rx_bytes_expected`; the bus test dropped from `kburn_mmc_probe`; `offset` not advanced, and one erase unit too many in `sf_erase_medium` (both break the contract); a strict end-of-download test;
- boot: the u32 `-1` of an unsupported system kept unsigned; the digest comparison dropped for NONE_SECURITY; the RSA verification dropped; SPL carrying on after a failed load;
- decompression: a CRC error returned as -1; any interrupt bit ending the loop; the CRC bit not consulted; the deadline test dropped.

### Reproduction configurations

These cfgs reproduce findings that are not among the twelve runs. Each violates the property it names, and each was checked when it was written.
- `MCKBurnUsb_nandspill.cfg` (`DownloadConfinement`; also `ImplementsKBurnContract`, its `Chunk` step): a bad first NAND block makes `mtd_write_medium` move the write into the block after the range, which `mtd_erase_medium` did not erase (`kburn_mtd.c` 177).
- `MCKBurnUsb_probefallback.cfg` (`ProbeBindsLiveRequested`): with the eMMC failing `mmc_init`, an eMMC probe binds the SD card (`kburn_mmc.c` 149).
- `MCKBurnUsb_mmcunaligned.cfg` (`ImplementsKBurnContract`, its `Complete` step): an unaligned offset completes with the image one block early (`kburn_mmc.c` 85).
- `MCKBurnUsb_nandhang.cfg` (`NoDriverHang`): a write into a bad last block never returns (`kburn_mtd.c` 171). With `DownloadTerminates` in its place the same cfg shows the download never ending, the CPU spinning.
- `MCKBurnUsb_zeroerase.cfg` (`ZeroEraseIsOk`): a size-0 erase answers ERROR, where spec.md says OK (`f_kburn.c` 717).
- `MCBootLoader_oversize.cfg` (`WritesInsideRam`): a header declaring 20 units, where 16 fit behind the load address, makes the second `blk_dread` write past RAM before any check (`k230_boot.c` 214).
- `MCBootLoader_gcmshort.cfg` (`WritesInsideRam`): a GCM_ONLY length below the tag size wraps `pfh->length - 16` (`k230_boot.c` 432).
- `MCBootLoader_envmove.cfg` (`EnvStaysOnBootMedium`): strapped to sdio1, `k230_boot spinor ...` moves the environment to SPI NOR, even though the boot fails (`board_common.c` 163).
- `MCUnzip_nomem.cfg` (`ResultMatchesEngine`): with a list `malloc` failing, the engine runs on a NULL list and the call returns 0 with the output elsewhere (`k230_gunzip.c` 118, 183).
- `MCUnzip_zerolen.cfg` (`ListNumMatches`): a compressed length of 0 makes `(length - 1) / ZIP_LINE_SIZE + 1` wrap in u32, so the list has 16 lines at this scale (32768 lines covering 4 GiB on the board) where none cover the length (`k230_gunzip.c` 117). Whether a length 0 reaches the driver depends on `gunzip()`, its caller, which is not in this tree.
- `MCUnzip_freebusy.cfg` (`DescriptorsFreedIdle`): after a timeout, the lists are freed while the channels still run (`k230_gunzip.c` 243).

Also met while modelling, with no run: spec.md section 4.4 says the auto target retries once with a fallback target, but `k230_img_load_boot_sys_auot_boot` (`k230_boot.c` 240) tries RT-Smart once and returns its error.

## 4. Not modelled, and why

- Endpoint and descriptor set-up (`kburn_bind`, `kburn_start_ep`, `kburn_handle_setup`, the hooks `kburn_add` installs): their only effect on the model is a `kburn` command that fails to start, or an ep0 string.
- Memory exhaustion: the heap is not modelled, so `get_kburn_usb`, `kburn_start_ep` and `ugzip_llt_cal` always get memory in the burn runs (the decompression reproductions let `malloc` fail). The leak `burn_leak` shows is what would exhaust it.
- The order of responses on the IN endpoint (`kburn_tx_write` dequeues a response the host has not read, `f_kburn.c` 424): every response answers one OUT completion, so a response is replaced unread only when the host sends before reading; the engine cannot tell, and the protocol leaves it to the host.
- `sf_page_is_empty` compares one word past the page (`kburn_sf.c` 54): this can only make an all-0xFF page look non-empty, and programming 0xFF over erased NOR leaves the same content, so the medium operators abstract the skip away.
- The `kburn_bench_mmc` and `kburn_bench_sf` commands (`cmd/kburn.c` 58-218, built only with `CONFIG_CMD_KBURN_BENCHMARK`): timing of one fixed-pattern write.
- `boot/bootmeth_efi_mgr.c`: a generic standard-boot method. On hardware `efi_mgr_read_bootflow` always returns -EINVAL, so its boot is never reached; its only state is a sandbox test hook.
- `read_medium`: never called by the protocol (the NOR and NAND read functions only return -1).
- Device I/O errors below the drivers (`blk_dwrite` short count, `mtd_write_oob` failure) and `mtd_lock`/`mtd_unlock`: not modelled yet. They would be a further nondeterministic outcome of the operators.
- The u64 wrap of `offset + size` in `cb_write_lba` (`f_kburn.c` 678): it needs a host sending a sum of at least 2^64, and the drivers check the range again themselves; offsets stay below the capacity.
- Boot side, not modelled: `board_boot_order` (SPL's table of its own boot devices), `spl_device_disable` and `board_init` (register writes), `boot_baremetal` (jumps to a user-given address with no check, by design), and the NOR/NAND branch of `k230_img_load_sys_from_dev`, which is empty in this tree and returns -1 (modelled as that). A failing `spl_board_init_f` ends in the SPL panic (`splfail`), as the RISC-V SPL entry does on a non-zero return; that caller is not in this tree.
- The cryptography itself (SHA-256, RSA-2048, SM2, SM3, SM4, AES-GCM): each comparison is an outcome carried by the container.
- The descriptor contents of `ugzip_llt_cal` (addresses and sizes of each line) and the cache maintenance around the DMA: only the count of lines, and where the output lands, are modelled.
- Board glue (`cpu.c`: CPU tuning, PMP set-up and `cleanup_before_linux`; `k230_spl.c`: power-domain shut-down, DDR init, cache set-up): vendor register writes, out of scope of the specification. Only the strap read of `harts_early_init` and the environment location are modelled, as the functions that write and read `g_boot_medium`.

## 5. Plan

Done: `KBurnMedium`, `KBurnUsb` with `KBurnContract`, `BootLoader` with `SecureBoot`, `Unzip` with `Inflate`; the u32 width of `transfer_size`.

What is left, and why it is not done:
1. A medium operator check (`MtdWrite` with no bad blocks and `SfWrite` on aligned input equal a plain write, over all small inputs): the contract runs already check these operators inside every download.
2. The findings kept as reproduction configurations (section 3) would each need a run of their own; the project keeps twelve.
