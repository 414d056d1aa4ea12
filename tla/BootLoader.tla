----------------------------- MODULE BootLoader -----------------------------
(***************************************************************************)
(* The K230 firmware loader (board/kendryte/common/k230_boot.c), the       *)
(* k230_boot shell command that drives it (board_common.c) and the SPL     *)
(* entry that loads U-Boot with it (k230_spl.c).                           *)
(*                                                                         *)
(* Everything runs on one hart and nothing is interrupted, so the SPL      *)
(* entry and every k230_boot command is one atomic action: the load of the *)
(* container from the SD host, its check (magic, hash or signature,       *)
(* decryption), the uImage check and the hand-off or the error returned to *)
(* the prompt. The environment chooses the command arguments, the content  *)
(* of the cards, the OTP fuses and which hardware calls fail.              *)
(*                                                                         *)
(* Containers (firmware_head_s followed by the payload) and uImages are    *)
(* records of the fields the checks read; lengths and addresses are in     *)
(* scaled units: Blk stands for BLKSZ, HdrLen for sizeof(firmware_head_s), *)
(* TagLen for the 16-byte GCM tag, LenMod for 2^32 (a u32 length).         *)
(***************************************************************************)
EXTENDS Integers, FiniteSets

CONSTANTS
  StrapMedia,   \* g_boot_medium as harts_early_init or board_early_init_f set it
  CmdMedia,     \* boot_medium_e values the medium argument of k230_boot may name
  Boards,       \* the boards the loader may run on: cards, mmc bring-up, fuses
  LowRam,       \* uImage headers that may lie at address 4
  PufsEnabled,  \* CONFIG_K230_PUFS
  HwFaults,     \* block reads, OTP reads and PUFS calls may fail
  MemTotal, Blk, HdrLen, TagLen, LenMod,
  MaxCmds,      \* bound of the model: k230_boot commands typed at the prompt
  NoImage, NoDesc, InPlace

Media    == {"NORFLASH", "NANDFLASH", "SDIO0", "SDIO1"}
Cryptos  == {"NONE", "GCM_ONLY", "CHINESE", "INTERNATIONAL", "OTHER"}
\* en_boot_sys_t, with the types that have no image sector folded into LINUX
Systems  == {"LINUX", "RTT", "UBOOT", "ADDR", "AUTO"}
UImages  == [magic : BOOLEAN, name : {"rtt", "uboot", "linux"},
             comp : {"gzip", "none", "lzma"}, unzipOk : BOOLEAN]
Fws      == [magic : BOOLEAN, length : 0 .. LenMod - 1, crypto : Cryptos,
             hashOk : BOOLEAN, pukOk : BOOLEAN, sigOk : BOOLEAN,
             tagOk : BOOLEAN, plain : UImages]
\* the calls that may fail: the two blk_dread, the OTP read, the PUFS hash, the SM4 decryption
FaultPoints == {"hdr", "data", "otp", "hash", "cbc"}
\* A board: disk[d][s] is the container at the RTT or UBOOT sector of mmc
\* device d, initRc[d] what bringing up mmc device d returns (0 is
\* success), mem the containers `k230_boot mem` may copy from a user
\* address; noneOff is bit 0 of the OTP product misc word (NONE_SECURITY
\* refused), pukSet whether the public-key hashes are programmed in OTP.
Board == [disk : [{0, 1} -> [{"RTT", "UBOOT"} -> Fws]],
          initRc : [{0, 1} -> {0, 1, 2, 3}], mem : SUBSET Fws,
          noneOff : BOOLEAN, pukSet : BOOLEAN]

ASSUME /\ StrapMedia \subseteq Media /\ CmdMedia \subseteq Media
       /\ Boards \subseteq Board /\ Boards # {}
       /\ LowRam \subseteq UImages /\ LowRam # {}
       /\ {PufsEnabled, HwFaults} \subseteq BOOLEAN
       /\ HdrLen > Blk /\ TagLen > 0 /\ MaxCmds \in Nat

VARIABLES
  gBootMedium,  \* g_boot_medium
  pblkDesc,     \* the static pblk_desc of k230_load_sys_from_mmc_or_sd: NoDesc or a device
  decryptBuf,   \* the container at k230_get_encrypted_image_decrypt_addr, or NoImage
  lowRam,       \* the uImage header at address 4
  stage,        \* "spl", "splfail", "uboot" (prompt), "rtt" (big core runs, wfi), "jumped"
  booted,       \* history: [fw, img] of the last hand-off, or NoImage
  ret,          \* the code the last command returned
  top,          \* history: highest address the last command wrote
  lastRead,     \* history: [want, got] mmc devices of the last load, or NoDesc
  strap,        \* history: g_boot_medium as the board came up
  cmds,
  board         \* the board, fixed from power-on

vars == <<gBootMedium, pblkDesc, decryptBuf, lowRam, stage, booted, ret, top,
          lastRead, strap, cmds, board>>

LoadAddr    == MemTotal - MemTotal \div 3
DecryptAddr == MemTotal - (MemTotal \div 3) * 2
CeilDiv(a, b) == (a + b - 1) \div b
HdBlk == CeilDiv(HdrLen, Blk)
Faults == IF HwFaults THEN BOOLEAN ELSE {FALSE}

\* what the loader reads from the board: cards, mmc bring-up, OTP words
Disk       == board.disk
MmcInitRc  == board.initRc
MemImages  == board.mem
OtpNoneOff == board.noneOff
OtpPukSet  == board.pukSet

\* mmc device number of an SD host: g_boot_medium - BOOT_MEDIUM_SDIO0
MmcDev(m) == IF m = "SDIO0" THEN 0 ELSE 1

(***************************************************************************)
(* k230_load_sys_from_mmc_or_sd. pblk_desc is looked up once, from the     *)
(* g_boot_medium of that call; later calls read whatever device it names. *)
(* The payload read is sized by the header's length and nothing else.     *)
(***************************************************************************)
DataSect(fw) == CeilDiv(fw.length + HdrLen, Blk) - HdBlk

Loaded(rc, desc, top_, fw) == [rc |-> rc, desc |-> desc, top |-> top_, fw |-> fw]

\* mutant: IMG_PART_NOT_EXIT returned as the unsigned 0xFFFFFFFF (LenMod - 1)
LoadFromMmcUnsigned(m, sys, f) ==
  LET d   == IF pblkDesc = NoDesc THEN MmcDev(m) ELSE pblkDesc
      fw  == Disk[d][sys]
      hdr == LoadAddr + HdBlk * Blk
  IN CASE sys \notin {"RTT", "UBOOT"} -> Loaded(LenMod - 1, pblkDesc, 0, NoImage)
       [] pblkDesc = NoDesc /\ MmcInitRc[d] # 0 -> Loaded(MmcInitRc[d], NoDesc, 0, NoImage)
       [] f["hdr"]   -> Loaded(4, d, hdr, NoImage)
       [] ~fw.magic  -> Loaded(5, d, hdr, NoImage)
       [] f["data"]  -> Loaded(6, d, hdr + DataSect(fw) * Blk, NoImage)
       [] OTHER      -> Loaded(0, d, hdr + DataSect(fw) * Blk, fw)

LoadFromMmc(m, sys, f) ==
  LET d   == IF pblkDesc = NoDesc THEN MmcDev(m) ELSE pblkDesc
      fw  == Disk[d][sys]
      hdr == LoadAddr + HdBlk * Blk
  IN CASE sys \notin {"RTT", "UBOOT"} -> Loaded(-1, pblkDesc, 0, NoImage)
       [] pblkDesc = NoDesc /\ MmcInitRc[d] # 0 -> Loaded(MmcInitRc[d], NoDesc, 0, NoImage)
       [] f["hdr"]   -> Loaded(4, d, hdr, NoImage)
       [] ~fw.magic  -> Loaded(5, d, hdr, NoImage)
       [] f["data"]  -> Loaded(6, d, hdr + DataSect(fw) * Blk, NoImage)
       [] OTHER      -> Loaded(0, d, hdr + DataSect(fw) * Blk, fw)

\* k230_img_load_sys_from_dev: only the SD hosts have a loader
LoadFromDev(m, sys, f) ==
  IF m \in {"SDIO0", "SDIO1"} THEN LoadFromMmc(m, sys, f)
  ELSE Loaded(-1, pblkDesc, 0, NoImage)

(***************************************************************************)
(* k230_boot_check_and_get_plain_data and, with PUFS, its secured variant. *)
(* The result is the code, the uImage found at plain_addr + 4 and the      *)
(* highest address the decryption wrote. Without PUFS a secured type       *)
(* returns 0 with plain_addr still 0, so the uImage read is at address 4.  *)
(***************************************************************************)
Checked(rc, img, top_) == [rc |-> rc, img |-> img, top |-> top_]

\* the u32 pfh->length - 16 given to the GCM decryption
GcmLen(fw) == (fw.length - TagLen) % LenMod

\* mutant: the sha256 comparison left out
CheckNoneNoHash(fw, f) ==
  CASE PufsEnabled /\ f["otp"] -> Checked(-4, NoImage, 0)
    [] PufsEnabled /\ OtpNoneOff -> Checked(-5, NoImage, 0)
    [] OTHER -> Checked(0, fw.plain, 0)

CheckNone(fw, f) ==
  CASE PufsEnabled /\ f["otp"] -> Checked(-4, NoImage, 0)
    [] PufsEnabled /\ OtpNoneOff -> Checked(-5, NoImage, 0)
    [] ~fw.hashOk -> Checked(-3, NoImage, 0)
    [] OTHER -> Checked(0, fw.plain, 0)

\* mutant: the RSA verification of the tag left out
CheckSecurityNoRsa(fw, f) ==
  LET signed == fw.crypto \in {"INTERNATIONAL", "CHINESE"}
      gcmTop == DecryptAddr + GcmLen(fw)
  IN CASE signed /\ f["otp"]   -> Checked(-6, NoImage, 0)
       [] signed /\ ~OtpPukSet -> Checked(-18, NoImage, 0)
       [] signed /\ f["hash"]  -> Checked(-7, NoImage, 0)
       [] signed /\ ~fw.pukOk  -> Checked(-8, NoImage, 0)
       [] fw.crypto = "CHINESE" /\ ~fw.sigOk -> Checked(-11, NoImage, 0)
       [] fw.crypto = "CHINESE" /\ f["cbc"] ->
            Checked(-12, NoImage, DecryptAddr + fw.length)
       [] fw.crypto = "CHINESE" -> Checked(0, fw.plain, DecryptAddr + fw.length)
       [] ~fw.tagOk -> Checked(-10, NoImage, gcmTop)
       [] OTHER -> Checked(0, fw.plain, gcmTop)

CheckSecurity(fw, f) ==
  LET signed == fw.crypto \in {"INTERNATIONAL", "CHINESE"}
      gcmTop == DecryptAddr + GcmLen(fw)
  IN CASE signed /\ f["otp"]   -> Checked(-6, NoImage, 0)
       [] signed /\ ~OtpPukSet -> Checked(-18, NoImage, 0)
       [] signed /\ f["hash"]  -> Checked(-7, NoImage, 0)
       [] signed /\ ~fw.pukOk  -> Checked(-8, NoImage, 0)
       [] fw.crypto = "INTERNATIONAL" /\ ~fw.sigOk -> Checked(-9, NoImage, 0)
       [] fw.crypto = "CHINESE" /\ ~fw.sigOk -> Checked(-11, NoImage, 0)
       [] fw.crypto = "CHINESE" /\ f["cbc"] ->
            Checked(-12, NoImage, DecryptAddr + fw.length)
       [] fw.crypto = "CHINESE" -> Checked(0, fw.plain, DecryptAddr + fw.length)
       [] ~fw.tagOk -> Checked(-10, NoImage, gcmTop)
       [] OTHER -> Checked(0, fw.plain, gcmTop)

CheckPlain(fw, f) ==
  CASE fw = NoImage \/ ~fw.magic -> Checked(1, NoImage, 0)
    [] fw.crypto = "NONE" -> CheckNone(fw, f)
    [] fw.crypto \in {"GCM_ONLY", "CHINESE", "INTERNATIONAL"} ->
         IF PufsEnabled THEN CheckSecurity(fw, f) ELSE Checked(0, lowRam, 0)
    [] OTHER -> Checked(-9, NoImage, 0)

(***************************************************************************)
(* The rest of k230_img_boot_sys_bin: the uImage magic and name, then      *)
(* k230_boot_rtt_uimage (reset the big core, wfi forever) or               *)
(* k230_boot_uboot_uimage (jump); both return only when                    *)
(* k230_boot_decomp_to_load_addr fails.                                    *)
(***************************************************************************)
Decomp(img) ==
  CASE img.comp = "gzip" -> IF img.unzipOk THEN 0 ELSE -1
    [] img.comp = "none" -> 0
    [] OTHER -> -2

RunImage(img) ==
  CASE ~img.magic -> [rc |-> -3, to |-> "back"]
    [] img.name \notin {"rtt", "uboot"} -> [rc |-> -4, to |-> "back"]
    [] Decomp(img) # 0 -> [rc |-> Decomp(img), to |-> "back"]
    [] img.name = "rtt" -> [rc |-> 0, to |-> "rtt"]
    [] OTHER -> [rc |-> 0, to |-> "jumped"]

(***************************************************************************)
(* One k230_img_boot_sys_bin on the container fw and its effect: the       *)
(* stage after it (back = the caller's), the hand-off record, and the      *)
(* plaintext the decryption leaves at the decrypt address. A jump to a    *)
(* U-Boot image lands in stage jump.                                       *)
(***************************************************************************)
BootSysBin(fw, f, back, jump, buf, top0) ==
  LET ck  == CheckPlain(fw, f)
      run == RunImage(ck.img)
      to  == CASE ck.rc # 0 \/ run.to = "back" -> back
                [] run.to = "jumped" -> jump
                [] OTHER -> run.to
  IN /\ ret' = IF ck.rc # 0 THEN ck.rc ELSE run.rc
     /\ stage' = to
     /\ booted' = IF to # back THEN [fw |-> fw, img |-> ck.img] ELSE booted
     /\ decryptBuf' = IF ck.top > 0 THEN NoImage ELSE buf
     /\ top' = IF ck.top > top0 THEN ck.top ELSE top0

\* k230_img_load_boot_sys_auot_boot: the auto target tries RT-Smart only
Target(sys) == IF sys = "AUTO" THEN "RTT" ELSE sys

\* k230_img_load_boot_sys, but for the pblk_desc it leaves (LoadFromDev(..).desc),
\* with g_boot_medium = m
LoadBootSys(m, sys, f, back, jump) ==
  LET ld == LoadFromDev(m, Target(sys), f)
  IN /\ lastRead' = IF ld.top > 0
                      THEN [want |-> MmcDev(m), got |-> ld.desc]
                      ELSE NoDesc
     /\ IF ld.rc # 0
          THEN /\ ret' = ld.rc /\ stage' = back /\ top' = ld.top
               /\ UNCHANGED <<booted, decryptBuf>>
          ELSE BootSysBin(ld.fw, f, back, jump, decryptBuf, ld.top)

Init ==
  /\ gBootMedium \in StrapMedia
  /\ strap = gBootMedium
  /\ pblkDesc = NoDesc
  /\ decryptBuf = NoImage
  /\ lowRam \in LowRam
  /\ stage = "spl"
  /\ booted = NoImage
  /\ ret = 0
  /\ top = 0
  /\ lastRead = NoDesc
  /\ cmds = 0
  /\ board \in Boards

\* mutant: spl_board_init_f returns 0 after printing the failure, so the
\* caller goes on as if U-Boot had been loaded
SplBoardInitNoPanic ==
  /\ stage = "spl"
  /\ \E f \in [FaultPoints -> Faults] :
       /\ LoadBootSys(gBootMedium, "UBOOT", f, "uboot", "uboot")
       /\ UNCHANGED pblkDesc
  /\ UNCHANGED <<gBootMedium, lowRam, strap, cmds, board>>

\* spl_board_init_f: k230_img_load_boot_sys(BOOT_SYS_UBOOT); U-Boot proper
\* starts with a cleared BSS, so with no cached pblk_desc
SplBoardInit ==
  /\ stage = "spl"
  /\ \E f \in [FaultPoints -> Faults] :
       /\ LoadBootSys(gBootMedium, "UBOOT", f, "splfail", "uboot")
       /\ UNCHANGED pblkDesc
  /\ UNCHANGED <<gBootMedium, lowRam, strap, cmds, board>>


\* do_k230_boot with a medium argument (sdio0, sdio1, spinor, spinand, or
\* auto and any other word, which keep g_boot_medium) and a system
\* argument; an unknown system word leaves `sys` uninitialised, so any
\* en_boot_sys_t value, BOOT_SYS_ADDR included, may reach the loader
K230Boot(med, sysArg) ==
  /\ stage = "uboot" /\ cmds < MaxCmds
  /\ \E sys \in (IF sysArg = "unknown" THEN Systems ELSE {sysArg}),
        f \in [FaultPoints -> Faults] :
       LET m == IF med = "auto" THEN gBootMedium ELSE med
       IN /\ gBootMedium' = m
          /\ IF sys = "ADDR"
               THEN /\ BootSysBin(decryptBuf, f, "uboot", "jumped", decryptBuf, 0)
                    /\ UNCHANGED <<pblkDesc, lastRead>>
               ELSE /\ LoadBootSys(m, sys, f, "uboot", "jumped")
                    /\ pblkDesc' = LoadFromDev(m, Target(sys), f).desc
  /\ cmds' = cmds + 1
  /\ UNCHANGED <<lowRam, strap, board>>

\* do_k230_boot with `mem addr len`: the container is moved to the decrypt
\* address unless it is already there, then checked and booted in place
K230BootMem(src) ==
  /\ stage = "uboot" /\ cmds < MaxCmds
  /\ \E f \in [FaultPoints -> Faults] :
       LET buf == IF src = InPlace THEN decryptBuf ELSE src
       IN BootSysBin(buf, f, "uboot", "jumped", buf, 0)
  /\ cmds' = cmds + 1
  /\ UNCHANGED <<gBootMedium, pblkDesc, lowRam, lastRead, strap, board>>

\* The prompt waiting for input, the little core in wfi after RT-Smart
\* started, or the code U-Boot jumped to running: nothing changes here.
Idle ==
  /\ stage \in {"uboot", "rtt", "jumped", "splfail"}
  /\ UNCHANGED vars

MedArgs == CmdMedia \cup {"auto"}
SysArgs == {"RTT", "LINUX", "UBOOT", "AUTO", "unknown"}

Next ==
  \/ SplBoardInit
  \/ \E med \in MedArgs, sysArg \in SysArgs : K230Boot(med, sysArg)
  \/ \E src \in MemImages \cup {InPlace} : K230BootMem(src)
  \/ Idle

Spec == Init /\ [][Next]_vars

(***************************************************************************)
(* board_common.c: where the environment lives and which mmc device holds *)
(* it, both read from g_boot_medium whenever they are asked.               *)
(***************************************************************************)
EnvLocation(m) ==
  CASE m = "NORFLASH" -> "SPI_FLASH"
    [] m = "NANDFLASH" -> "SPINAND"
    [] OTHER -> "MMC"

MmcEnvDev(m) == IF m = "SDIO1" THEN 1 ELSE 0

-----------------------------------------------------------------------------
\* the int codes the loader functions return (IMG_PART_NOT_EXIT becomes -1)
RetCodes == -18 .. 6

TypeOK ==
  /\ gBootMedium \in Media /\ strap \in StrapMedia
  /\ pblkDesc \in {NoDesc, 0, 1}
  /\ decryptBuf \in Fws \cup {NoImage}
  /\ lowRam \in LowRam
  /\ stage \in {"spl", "splfail", "uboot", "rtt", "jumped"}
  /\ booted \in [fw : Fws, img : UImages] \cup {NoImage}
  /\ ret \in RetCodes /\ top \in Nat
  /\ lastRead \in [want : {0, 1}, got : {0, 1}] \cup {NoDesc}
  /\ cmds \in 0 .. MaxCmds
  /\ board \in Boards

\* A container is acceptable when it is signed by the key whose hash is in
\* OTP, or, while OTP still allows unsigned images, when its hash or GCM
\* tag is intact.
Signed(fw) ==
  fw.crypto \in {"INTERNATIONAL", "CHINESE"} /\ OtpPukSet /\ fw.pukOk /\ fw.sigOk
Intact(fw) ==
  \/ fw.crypto = "NONE" /\ fw.hashOk
  \/ fw.crypto = "GCM_ONLY" /\ fw.tagOk
Acceptable(fw) == Signed(fw) \/ (~OtpNoneOff /\ Intact(fw))

\* Secure boot: every hand-off (the SPL jumping to U-Boot, k230_boot
\* starting RT-Smart on the big core or jumping to a U-Boot image) runs the
\* plaintext of the container k230_img_boot_sys_bin checked, and that
\* container is acceptable under the OTP policy.
HandOffVerified ==
  booted # NoImage =>
    /\ booted.img = booted.fw.plain
    /\ Acceptable(booted.fw)

\* The loader implements SecureBoot: SPL either fails for good or hands on
\* to an acceptable image, a k230_boot command either changes nothing the
\* boot contract sees or hands control to an acceptable image for good,
\* and nothing runs after RT-Smart started or a U-Boot image was jumped to.
Phase ==
  CASE stage = "spl" -> "loader"
    [] stage = "uboot" -> "prompt"
    [] stage = "splfail" -> "failed"
    [] OTHER -> "running"

Contract == INSTANCE SecureBoot WITH
  phase <- Phase,
  otp <- [noneOff |-> OtpNoneOff, pukSet |-> OtpPukSet]

ImplementsSecureBoot == Contract!Spec

\* The reads and decryptions of a boot stay inside the DDR the loader
\* assumes (CONFIG_MEM_TOTAL_SIZE from CONFIG_MEM_BASE_ADDR), whatever
\* length the container header declares.
WritesInsideRam == top <= MemTotal

\* k230_load_sys_from_mmc_or_sd reads the image from the SD host that
\* g_boot_medium names when the command runs.
ReadsRequestedMedium == lastRead # NoDesc => lastRead.got = lastRead.want

\* The environment stays where the board booted from: neither its location
\* nor its mmc device changes because a k230_boot command named a medium.
EnvStaysOnBootMedium ==
  /\ EnvLocation(gBootMedium) = EnvLocation(strap)
  /\ MmcEnvDev(gBootMedium) = MmcEnvDev(strap)

====
