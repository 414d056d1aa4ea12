------------------------------ MODULE KBurnUsb ------------------------------
(***************************************************************************)
(* The kburn USB burn protocol engine (drivers/usb/gadget/f_kburn.c) and   *)
(* the medium dispatch it drives (drivers/kburn/kburn.c).                  *)
(*                                                                         *)
(* The gadget stack runs one completion callback at a time from the        *)
(* polling loop of do_kburn, so every callback is one atomic action: the   *)
(* completion of a packet on the OUT endpoint together with the handler    *)
(* it runs, the response it queues on the IN endpoint and the requeue of   *)
(* the OUT request. The host is the environment: it configures and resets *)
(* the function, sends command packets, streams the data of a download     *)
(* and reads responses.                                                    *)
(***************************************************************************)
EXTENDS KBurnMedium, Sequences, FiniteSets

CONSTANTS
  Devices,        \* storage devices on the board: "mmc0", "mmc1", "sf", "mtd"
  MmcOrder,       \* the block devices in the order uclass_foreach_dev visits them
  MmcInitOk,      \* block devices on which mmc_init succeeds
  EpBuf,          \* KBURN_USB_EP_BUFFER_SZIE
  MaxPacket,      \* ep->maxpacket of the OUT endpoint
  MediaCodes,     \* medium types a DEV_PROBE may carry
  Offsets, Sizes, \* offsets and sizes a WRITE_LBA or ERASE_LBA may carry
  ShortTransfers, \* the host may end a data transfer early with a short packet
  UsbErrors,      \* an OUT transfer may complete with a non-zero status,
                  \* and kburn_set_alt may fail after enabling the OUT endpoint
  NullValid,      \* valid bits cb_write_lba may read through a NULL burner
  MaxMediumOps,   \* bound of the model: downloads started plus erases run
  UintMod,        \* 2^32 scaled: the range of the unsigned int transfer_size
  NoDevice, NoBurner, NoPkt

ASSUME /\ Devices \subseteq {"mmc0", "mmc1", "sf", "mtd"}
       /\ MmcOrder \in Seq({"mmc0", "mmc1"})
       \* with no block device, `mmc` of kburn_mmc_probe is never assigned
       /\ {"eMMC", "SDCARD"} \cap MediaCodes # {} => MmcOrder # <<>>
       /\ {MmcOrder[i] : i \in DOMAIN MmcOrder} = Devices \cap {"mmc0", "mmc1"}
       /\ MmcInitOk \subseteq Devices
       /\ EpBuf % MaxPacket = 0
       /\ Offsets \subseteq Nat /\ Sizes \subseteq Nat
       /\ ShortTransfers \in BOOLEAN /\ UsbErrors \in BOOLEAN
       /\ NullValid \subseteq BOOLEAN /\ NullValid # {}
       /\ MaxMediumOps \in Nat
       /\ UintMod \in Nat \ {0}

VARIABLES
  session,    \* "on" while a kburn command runs its polling loop, else "off"
  enabled,    \* kburn_set_alt succeeded and no kburn_disable since
  rxArmed,    \* out_req is queued on the OUT endpoint
  rxMode,     \* out_req->complete: "cmd" (rx_command_handler) or "data" (rx_write_lba_handler)
  reqLength,  \* out_req->length
  burner,     \* kburn_usb->burner: NoBurner or [dev, valid]
  offset,     \* kburn_usb->offset
  dlSize,     \* kburn_usb->dl_size
  dlBytes,    \* kburn_usb->dl_bytes
  bufHalf,    \* the half of buf_head that kburn_usb->buf points to
  bufHead,    \* kburn_usb->buf_head holds an allocated transfer buffer
  txPkt,      \* the response on in_req the host has not read yet, or NoPkt
  media,      \* the content of every device
  hung,       \* a driver loop that never exits has been entered
  lastProbe,  \* history: medium type of the last DEV_PROBE that probed
  dlReq,      \* history: [dev, off, size] of the last download accepted
  hostSent,   \* history: bytes of that download the host has sent
  mediumOps   \* downloads started plus erases run, capped by MaxMediumOps

vars == <<session, enabled, rxArmed, rxMode, reqLength, burner, offset, dlSize, dlBytes,
          bufHalf, bufHead, txPkt, media, hung, lastProbe, dlReq, hostSent, mediumOps>>

usbVars == <<session, enabled, rxArmed, rxMode, reqLength>>
dlVars  == <<offset, dlSize, dlBytes, bufHalf, dlReq, hostSent>>

-----------------------------------------------------------------------------
(* Devices and what probing them binds. *)

Kind(d) == IF d \in {"mmc0", "mmc1"} THEN "mmc" ELSE d

MmcBus(d) == IF d = "mmc0" THEN 0 ELSE 1

(* desc->lba: a block device whose mmc_init failed has no block count.     *)
Lba(d) == IF d \in MmcInitOk THEN Cap \div MmcBlk ELSE 0

(* medium_info.capacity as the get_medium_info of each back end sets it:  *)
(* desc->lba * desc->blksz for a block device, the flash size otherwise.   *)
MmcGetMediumInfo(d) == Lba(d) * MmcBlk

SfGetMediumInfo == Cap

MtdGetMediumInfo == Cap

(* kburn_get_medium_info: the call through the bound back end. *)
Capacity(d) ==
  CASE Kind(d) = "mmc" -> MmcGetMediumInfo(d)
    [] Kind(d) = "sf"  -> SfGetMediumInfo
    [] Kind(d) = "mtd" -> MtdGetMediumInfo

(* The loop of kburn_mmc_probe: it stops at an initialised device on the   *)
(* requested bus, and otherwise leaves `mmc` at the last device visited.   *)
(* Mutation of MmcScan: the dev_seq(dev_bus) != bus test dropped. *)
RECURSIVE MmcScanAnyBus(_, _, _)
MmcScanAnyBus(devs, bus, last) ==
  IF devs = <<>> THEN last
  ELSE IF Head(devs) \in MmcInitOk THEN Head(devs)
  ELSE MmcScanAnyBus(Tail(devs), bus, Head(devs))

RECURSIVE MmcScan(_, _, _)
MmcScan(devs, bus, last) ==
  IF devs = <<>> THEN last
  ELSE IF Head(devs) \in MmcInitOk /\ MmcBus(Head(devs)) = bus THEN Head(devs)
  ELSE MmcScan(Tail(devs), bus, Head(devs))

(* kburn_sf_probe and kburn_mtd_probe: the first device of the SPI flash  *)
(* or MTD uclass, or NULL when the uclass has none.                        *)
KburnSfProbe == IF "sf" \in Devices THEN "sf" ELSE NoDevice

KburnMtdProbe == IF "mtd" \in Devices THEN "mtd" ELSE NoDevice

KburnProbeMedia(type) ==
  CASE type = "eMMC"     -> MmcScan(MmcOrder, 0, NoDevice)
    [] type = "SDCARD"   -> MmcScan(MmcOrder, 1, NoDevice)
    [] type = "SPI_NOR"  -> KburnSfProbe
    [] type = "SPI_NAND" -> KburnMtdProbe
    [] OTHER             -> NoDevice

KburnWriteMedium(d, off, data, len) ==
  CASE Kind(d) = "mmc" -> MmcOp("write", media[d], Lba(d), off, data, len)
    [] Kind(d) = "sf"  -> SfWrite(media[d], off, data, len)
    [] Kind(d) = "mtd" -> MtdWrite(media[d], off, data, len)

KburnEraseMedium(d, off, len) ==
  CASE Kind(d) = "mmc" -> MmcOp("erase", media[d], Lba(d), off, <<>>, len)
    [] Kind(d) = "sf"  -> SfEraseOp(media[d], off, len)
    [] Kind(d) = "mtd" -> MtdEraseOp(media[d], off, len)

-----------------------------------------------------------------------------
(* Helpers of the download path. *)

(* Mutation of RxBytesExpected: the cap at the endpoint buffer dropped. *)
RxBytesExpectedUncapped(size, bytes) ==
  IF size - bytes <= 0 THEN 0 ELSE AlignUp(size - bytes, MaxPacket)

(* rx_bytes_expected: the length of the next OUT request of a download.    *)
RxBytesExpected(size, bytes) ==
  LET rem == size - bytes
  IN  IF rem <= 0 THEN 0
      ELSE IF rem > EpBuf THEN EpBuf
      ELSE AlignUp(rem, MaxPacket)

(* Mutation of DownloadDone: strict comparison. *)
DownloadDoneStrict(bytes, size) == bytes > size

(* The end-of-download test of rx_write_lba_handler. *)
DownloadDone(bytes, size) == bytes >= size

(* Mutation of NextOffset: the offset is not advanced. *)
NextOffsetStuck(off, n) == off

(* kburn_usb->offset after a chunk was written. *)
NextOffset(off, n) == off + n

Min2(a, b) == IF a < b THEN a ELSE b

(* rx_write_lba_handler: the u64 remainder dl_size - dl_bytes stored in    *)
(* the unsigned int transfer_size, which keeps it modulo 2^32.             *)
TransferSize(size, bytes) == (size - bytes) % UintMod

(* Bytes of the download the host still has to send. *)
HostRemain == dlReq.size - hostSent

(* req->actual of the next data transfer: the host sends the rest of its   *)
(* image and the request completes when req->length bytes arrived or at    *)
(* the short packet that ends the image, or earlier if it may cut a        *)
(* transfer short.                                                         *)
DataLengths ==
  IF HostRemain <= 0 THEN {}
  ELSE IF ShortTransfers THEN 1 .. Min2(reqLength, HostRemain)
  ELSE {Min2(reqLength, HostRemain)}

(* get_kburn_usb, called first by kburn_add, by every command callback    *)
(* that has a handler and by rx_write_lba_handler: a NULL buf_head gets a  *)
(* fresh transfer buffer, and buf points to its first half.               *)
GetKburnUsb == bufHead' = TRUE

(* kburn_add: get_kburn_usb, then the usb_function hooks; when             *)
(* usb_add_function fails it frees both and sets s_kburn to NULL, which    *)
(* ends the kburn command before its loop.                                 *)
KburnAdd == GetKburnUsb

(* kburn_tx_result / kburn_tx_error_string through kburn_tx_write: the     *)
(* response replaces whatever in_req still held (usb_ep_dequeue).          *)
Tx(cmd, result, msg, echo) ==
  txPkt' = [cmd |-> cmd, result |-> result, msg |-> msg, echo |-> echo]

-----------------------------------------------------------------------------
(* Initial state: at the prompt, before any kburn command; s_kburn is     *)
(* allocated and zeroed by the first get_kburn_usb.                        *)

Init ==
  /\ session = "off"
  /\ enabled = FALSE
  /\ rxArmed = FALSE
  /\ rxMode = "cmd"
  /\ reqLength = EpBuf
  /\ burner = NoBurner
  /\ offset = 0 /\ dlSize = 0 /\ dlBytes = 0
  /\ bufHalf = 0
  /\ bufHead = FALSE
  /\ txPkt = NoPkt
  /\ media = [d \in Devices |-> [u \in Cells |-> Old]]
  /\ hung = FALSE
  /\ lastProbe = "NONE"
  /\ dlReq = [dev |-> NoDevice, off |-> 0, size |-> 0]
  /\ hostSent = 0
  /\ mediumOps = 0

(* An OUT transfer completes while rx_command_handler is the callback.     *)
CommandArrives == ~hung /\ enabled /\ rxArmed /\ rxMode = "cmd"

(* An OUT transfer completes while rx_write_lba_handler is the callback.   *)
DataArrives == ~hung /\ enabled /\ rxArmed /\ rxMode = "data"

(* DEV_PROBE: cb_probe_device. A well-sized request destroys the bound     *)
(* medium first, then binds what kburn_probe_media returns, with its       *)
(* medium_info cleared.                                                    *)
ProbeDevice(type, sizeOk) ==
  /\ CommandArrives
  /\ GetKburnUsb
  /\ IF ~sizeOk
       THEN /\ Tx("PROBE", "ERROR_MSG", "ERROR DATA SIZE", <<>>)
            /\ UNCHANGED <<burner, lastProbe>>
       ELSE LET d == KburnProbeMedia(type)
            IN  /\ burner' = IF d = NoDevice THEN NoBurner ELSE [dev |-> d, valid |-> FALSE]
                /\ lastProbe' = type
                /\ IF d = NoDevice THEN Tx("PROBE", "ERROR_MSG", "PROBE FAILED", <<>>)
                                   ELSE Tx("PROBE", "OK", "", <<EpBuf>>)
  /\ UNCHANGED <<usbVars, dlVars, media, hung, mediumOps>>

(* DEV_GET_INFO: cb_get_device_info; get_medium_info sets medium_info.     *)
GetDeviceInfo ==
  /\ CommandArrives
  /\ GetKburnUsb
  /\ IF burner = NoBurner
       THEN /\ Tx("GET_INFO", "ERROR_MSG", "RUNTIME ERROR", <<>>)
            /\ UNCHANGED burner
       ELSE /\ burner' = [burner EXCEPT !.valid = TRUE]
            /\ Tx("GET_INFO", "OK", "", <<Capacity(burner.dev)>>)
  /\ UNCHANGED <<usbVars, dlVars, media, hung, lastProbe, mediumOps>>

(* What cb_write_lba reads as medium_info. It does not check that a medium *)
(* is bound: with none it reads memory near address 0, which on this board *)
(* is DDR, so the valid bit and the capacity are whatever lies there.      *)
InfoSeen ==
  IF burner = NoBurner
    THEN [valid : NullValid, capacity : {0, Cap}]
    ELSE {[valid |-> burner.valid, capacity |-> Capacity(burner.dev)]}

(* WRITE_LBA: cb_write_lba, then rx_command_handler requeues the request,  *)
(* now with rx_write_lba_handler as its callback if the download started.  *)
WriteLba(off, size, sizeOk) ==
  /\ CommandArrives
  /\ GetKburnUsb
  /\ \E info \in InfoSeen :
       LET reject(msg) == /\ Tx("WRITE", "ERROR_MSG", msg, <<>>)
                          /\ UNCHANGED <<rxMode, reqLength, dlVars, mediumOps>>
       IN  CASE ~sizeOk                     -> reject("ERROR DATA SIZE")
             [] ~info.valid                 -> reject("MEDIUM INFO INVALID")
             [] size = 0                    -> reject("DATA SIZE INVALID")
             [] off + size > info.capacity  -> reject("DATA SIZE EXCEED")
             [] OTHER ->
                  /\ mediumOps < MaxMediumOps
                  /\ mediumOps' = mediumOps + 1
                  /\ offset' = off
                  /\ dlSize' = size
                  /\ dlBytes' = 0
                  /\ Tx("WRITE", "OK", "START DL", <<>>)
                  /\ rxMode' = "data"
                  /\ reqLength' = RxBytesExpected(size, 0)
                  /\ dlReq' = [dev |-> IF burner = NoBurner THEN NoDevice ELSE burner.dev,
                               off |-> off, size |-> size]
                  /\ hostSent' = 0
                  /\ UNCHANGED bufHalf
  /\ UNCHANGED <<session, enabled, rxArmed, burner, media, hung, lastProbe>>

(* A data transfer of len bytes completes: rx_write_lba_handler. The chunk *)
(* is copied into the current half of the double buffer and written at     *)
(* kburn_usb->offset; on an error the handler returns without requeueing.  *)
RxWriteLba(len) ==
  /\ DataArrives
  /\ GetKburnUsb
  /\ LET ts   == Min2(len, TransferSize(dlSize, dlBytes))
         data == [i \in 0 .. ts - 1 |-> hostSent + i]
         w    == IF burner = NoBurner THEN Result(-1, ts, <<>>)
                 ELSE KburnWriteMedium(burner.dev, offset, data, ts)
     IN  /\ dlBytes' = dlBytes + ts
         /\ hostSent' = hostSent + len
         /\ media' = IF burner = NoBurner THEN media ELSE [media EXCEPT ![burner.dev] = w.cells]
         /\ CASE w.rc = Hang ->
                   /\ hung' = TRUE
                   /\ UNCHANGED <<rxArmed, rxMode, reqLength, offset, dlSize, bufHalf, txPkt>>
              [] w.rc # 0 \/ w.len # ts ->
                   /\ Tx("WRITE", "ERROR_MSG", "WRITE ERROR", <<>>)
                   /\ rxArmed' = FALSE
                   /\ UNCHANGED <<rxMode, reqLength, offset, dlSize, bufHalf, hung>>
              [] OTHER ->
                   /\ offset' = NextOffset(offset, ts)
                   /\ IF DownloadDone(dlBytes + ts, dlSize)
                        THEN /\ rxMode' = "cmd"
                             /\ reqLength' = EpBuf
                             /\ bufHalf' = 0
                             /\ dlSize' = 0
                             /\ Tx("WRITE", "OK", "WRITE DONE", <<>>)
                        ELSE /\ reqLength' = RxBytesExpected(dlSize, dlBytes + ts)
                             /\ bufHalf' = 1 - bufHalf
                             /\ UNCHANGED <<rxMode, dlSize, txPkt>>
                   /\ UNCHANGED <<rxArmed, hung>>
  /\ UNCHANGED <<session, enabled, burner, lastProbe, dlReq, mediumOps>>

(* The result code cb_erase_lba reports for a driver return code. *)
EraseResult(rc) == IF rc = 0 THEN "OK" ELSE "ERROR"

(* ERASE_LBA: cb_erase_lba. The erase is skipped for size 0, leaving the   *)
(* result at its initial -1; the response echoes offset and the size the  *)
(* driver left in *len.                                                    *)
EraseLba(off, size, sizeOk) ==
  /\ CommandArrives
  /\ GetKburnUsb
  /\ CASE ~sizeOk ->
            /\ Tx("ERASE", "ERROR_MSG", "ERROR DATA SIZE", <<>>)
            /\ UNCHANGED <<media, mediumOps>>
       [] burner = NoBurner ->
            /\ Tx("ERASE", "ERROR_MSG", "RUNTIME ERROR", <<>>)
            /\ UNCHANGED <<media, mediumOps>>
       [] size = 0 ->
            /\ Tx("ERASE", EraseResult(-1), "", <<off, size>>)
            /\ UNCHANGED <<media, mediumOps>>
       [] OTHER ->
            LET e == KburnEraseMedium(burner.dev, off, size)
            IN  /\ mediumOps < MaxMediumOps
                /\ mediumOps' = mediumOps + 1
                /\ media' = [media EXCEPT ![burner.dev] = e.cells]
                /\ Tx("ERASE", EraseResult(e.rc), "", <<off, e.len>>)
  /\ UNCHANGED <<usbVars, burner, dlVars, hung, lastProbe>>

(* Command codes KBURN_CMD_NONE and KBURN_CMD_MAX: cb_not_support.         *)
NotSupported ==
  /\ CommandArrives
  /\ Tx("NONE", "ERROR_MSG", "NOT SUPPORT FUNC", <<>>)
  /\ UNCHANGED <<usbVars, burner, dlVars, bufHead, media, hung, lastProbe, mediumOps>>

(* A command code with no entry in pkt_handlers. *)
UnknownCommand ==
  /\ CommandArrives
  /\ Tx("NONE", "ERROR_MSG", "FAILunknown command", <<>>)
  /\ UNCHANGED <<usbVars, burner, dlVars, bufHead, media, hung, lastProbe, mediumOps>>

(* A known command in a transfer that filled the whole request. *)
BufferOverflow ==
  /\ CommandArrives
  /\ Tx("NONE", "ERROR_MSG", "FAILbuffer overflow", <<>>)
  /\ UNCHANGED <<usbVars, burner, dlVars, bufHead, media, hung, lastProbe, mediumOps>>

(* An OUT transfer completes with a non-zero status. rx_command_handler    *)
(* returns at once and rx_write_lba_handler answers ERROR STATUS; neither  *)
(* requeues the request.                                                   *)
RxBadStatus ==
  /\ UsbErrors
  /\ ~hung /\ enabled /\ rxArmed
  /\ rxArmed' = FALSE
  /\ IF rxMode = "data" THEN /\ Tx("WRITE", "ERROR_MSG", "ERROR STATUS", <<>>)
                             /\ GetKburnUsb
                        ELSE UNCHANGED <<txPkt, bufHead>>
  /\ UNCHANGED <<session, enabled, rxMode, reqLength, burner, dlVars, media, hung, lastProbe, mediumOps>>

(* The host reads the response queued on the IN endpoint. *)
HostReadsResponse ==
  /\ txPkt # NoPkt
  /\ txPkt' = NoPkt
  /\ UNCHANGED <<usbVars, burner, dlVars, bufHead, media, hung, lastProbe, mediumOps>>

(* kburn_disable (host reset or deconfiguration): both requests and the    *)
(* transfer buffer are freed and the bound medium is destroyed.            *)
UsbDisable ==
  /\ ~hung /\ enabled
  /\ enabled' = FALSE
  /\ rxArmed' = FALSE
  /\ txPkt' = NoPkt
  /\ burner' = NoBurner
  /\ bufHalf' = 0
  /\ bufHead' = FALSE
  /\ UNCHANGED <<session, rxMode, reqLength, offset, dlSize, dlBytes, dlReq, hostSent,
                 media, hung, lastProbe, mediumOps>>

(* kburn_set_alt: fresh requests, rx_command_handler as the OUT callback,  *)
(* the OUT request queued.                                                 *)
UsbSetAlt ==
  /\ ~hung /\ session = "on" /\ ~enabled
  /\ enabled' = TRUE
  /\ rxArmed' = TRUE
  /\ rxMode' = "cmd"
  /\ reqLength' = EpBuf
  /\ UNCHANGED <<session, burner, dlVars, bufHead, txPkt, media, hung, lastProbe, mediumOps>>

(* kburn_set_alt failing once the OUT endpoint is enabled (a request not   *)
(* allocated, the IN endpoint not enabled, the queue refused): its err     *)
(* path runs kburn_disable, which frees the transfer buffer and destroys   *)
(* the burner while the function stays unconfigured.                       *)
UsbSetAltFails ==
  /\ UsbErrors
  /\ ~hung /\ session = "on" /\ ~enabled
  /\ txPkt' = NoPkt
  /\ burner' = NoBurner
  /\ bufHalf' = 0
  /\ bufHead' = FALSE
  /\ UNCHANGED <<session, enabled, rxArmed, rxMode, reqLength, offset, dlSize,
                 dlBytes, dlReq, hostSent, media, hung, lastProbe, mediumOps>>

(* do_kburn up to its polling loop: usb_gadget_initialize, g_dnl_register  *)
(* (kburn_add, then kburn_bind claiming the two endpoints) and the cable   *)
(* check. kburn_add calls get_kburn_usb, which allocates s_kburn on the    *)
(* first command and a transfer buffer whenever buf_head is NULL. A        *)
(* failure of any of these returns to the prompt with nothing enabled,     *)
(* through kburn_unbind when registration got that far: a step that        *)
(* changes no variable of the model.                                      *)
KburnStart ==
  /\ session = "off"
  /\ session' = "on"
  /\ KburnAdd
  /\ UNCHANGED <<enabled, rxArmed, rxMode, reqLength, burner, dlVars, txPkt,
                 media, hung, lastProbe, mediumOps>>

(* do_kburn leaves its loop on Ctrl-C or a DFU detach and calls            *)
(* g_dnl_unregister: the gadget core disconnects (kburn_disable, when the  *)
(* function is configured) and then runs kburn_unbind, whose memset clears *)
(* the whole of *s_kburn: burner, offset, dl_size, dl_bytes, and buf_head  *)
(* whether or not kburn_disable freed it.                                  *)
KburnExit ==
  /\ ~hung /\ session = "on"
  /\ session' = "off"
  /\ enabled' = FALSE
  /\ rxArmed' = FALSE
  /\ txPkt' = NoPkt
  /\ burner' = NoBurner
  /\ offset' = 0 /\ dlSize' = 0 /\ dlBytes' = 0
  /\ bufHalf' = 0
  /\ bufHead' = FALSE
  /\ UNCHANGED <<rxMode, reqLength, dlReq, hostSent, media, hung, lastProbe, mediumOps>>

(* A driver loop that never exits (the bad-block searches of             *)
(* mtd_write_medium past the end of the device) keeps the CPU forever.     *)
Spin ==
  /\ hung
  /\ UNCHANGED vars

Next ==
  \/ \E t \in MediaCodes, ok \in BOOLEAN : ProbeDevice(t, ok)
  \/ GetDeviceInfo
  \/ \E o \in Offsets, s \in Sizes, ok \in BOOLEAN : WriteLba(o, s, ok)
  \/ \E len \in DataLengths : RxWriteLba(len)
  \/ \E o \in Offsets, s \in Sizes, ok \in BOOLEAN : EraseLba(o, s, ok)
  \/ NotSupported
  \/ UnknownCommand
  \/ BufferOverflow
  \/ RxBadStatus
  \/ HostReadsResponse
  \/ UsbDisable
  \/ UsbSetAlt
  \/ UsbSetAltFails
  \/ KburnStart
  \/ KburnExit
  \/ Spin

(* The host streams the image once the download has started: weak fairness *)
(* on the data transfers, and on nothing the host may choose not to do.    *)
Spec == Init /\ [][Next]_vars /\ WF_vars(\E len \in DataLengths : RxWriteLba(len))

-----------------------------------------------------------------------------
(* Properties. *)

Values == Markers \cup (0 .. Cap)

TypeOK ==
  /\ session \in {"off", "on"}
  /\ enabled \in BOOLEAN /\ rxArmed \in BOOLEAN /\ hung \in BOOLEAN
  /\ rxMode \in {"cmd", "data"}
  /\ reqLength \in 0 .. EpBuf
  /\ burner \in {NoBurner} \cup [dev : Devices, valid : BOOLEAN]
  /\ offset \in Nat /\ dlSize \in Nat /\ dlBytes \in Nat
  /\ bufHalf \in {0, 1} /\ bufHead \in BOOLEAN
  /\ media \in [Devices -> [Cells -> Values]]
  /\ dlReq \in [dev : Devices \cup {NoDevice}, off : Nat, size : Nat]
  /\ mediumOps \in 0 .. MaxMediumOps

(* cb_probe_device / kburn_probe_media: a bound medium is the device the   *)
(* last probe asked for (eMMC on mmc0, SD card on mmc1, NOR, NAND), and   *)
(* one that is present and initialised.                                    *)
Serves(type) ==
  CASE type = "eMMC" -> "mmc0" [] type = "SDCARD" -> "mmc1"
    [] type = "SPI_NOR" -> "sf" [] type = "SPI_NAND" -> "mtd" [] OTHER -> NoDevice

ProbeBindsLiveRequested ==
  burner # NoBurner =>
    /\ burner.dev = Serves(lastProbe)
    /\ Kind(burner.dev) = "mmc" => burner.dev \in MmcInitOk

(* rx_write_lba_handler and the medium drivers: a step of a download       *)
(* changes no cell outside the range of the accepted WRITE_LBA.            *)
DownloadConfinement ==
  [][ rxMode = "data" =>
        \A d \in Devices, u \in Cells :
          media'[d][u] # media[d][u] =>
            d = dlReq.dev /\ dlReq.off <= u /\ u < dlReq.off + dlReq.size ]_vars

(* The engine implements the burn contract of KBurnContract: the host is *)
(* attached while the function is enabled, a download runs while the OUT   *)
(* request has rx_write_lba_handler as its callback, and the range is the  *)
(* one of the accepted WRITE_LBA. So a download changes only its range,    *)
(* ends with the range holding the image however many chunks and buffer   *)
(* halves it took, and an erase only blanks cells of one device.           *)
Contract == INSTANCE KBurnContract WITH
  link <- enabled,
  mode <- IF enabled /\ rxMode = "data" THEN "data" ELSE "cmd",
  req  <- dlReq,
  media <- media

ImplementsKBurnContract == Contract!Spec

(* A download that started ends: while the function stays enabled the      *)
(* engine gets back to command mode.                                       *)
DownloadTerminates ==
  (enabled /\ rxMode = "data") ~> (~enabled \/ rxMode = "cmd")

(* A download is accepted only with a medium bound: cb_write_lba answers   *)
(* every command issued without a medium with an error string.            *)
NoDownloadWithoutMedium ==
  enabled /\ rxMode = "data" => burner # NoBurner

(* cb_erase_lba: an ERASE_LBA of size 0 is a no-op answered with OK.       *)
ZeroEraseIsOk ==
  txPkt # NoPkt /\ txPkt.cmd = "ERASE" /\ txPkt.result # "ERROR_MSG" /\ txPkt.echo[2] = 0
    => txPkt.result = "OK"

(* The drivers never spin forever: mtd_write_medium surfaces a failure     *)
(* when skipping bad blocks exhausts the device.                           *)
NoDriverHang == ~hung

(* rx_command_handler and rx_write_lba_handler: after an error response    *)
(* the engine is back in its command loop, its OUT request queued for the *)
(* next command.                                                           *)
ErrorsReturnToCommandLoop ==
  enabled /\ ~hung /\ txPkt # NoPkt /\ txPkt.result = "ERROR_MSG"
    => rxArmed /\ rxMode = "cmd"

(* The transfer buffer is never orphaned: when a kburn command ends,       *)
(* kburn_unbind's memset clears buf_head, so at that point buf_head must   *)
(* already be NULL or the function must be configured, in which case the   *)
(* gadget core's kburn_disable frees the buffer first. Otherwise the       *)
(* buffer get_kburn_usb allocated is unreachable.                          *)
TransferBufferFreed ==
  [][session = "on" /\ session' = "off" => ~bufHead \/ enabled]_vars

=============================================================================
