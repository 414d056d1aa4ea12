---------------------------- MODULE MCBootLoader ----------------------------
(***************************************************************************)
(* Model-checking instances of BootLoader. Addresses are scaled so that    *)
(* MemTotal = 48 units: the load address is 32 and the decrypt address 16, *)
(* as MEM_TOTAL - MEM_TOTAL/3 and MEM_TOTAL - 2*(MEM_TOTAL/3). A block is  *)
(* 2 units and the container header 3, so the header takes HD_BLK_NUM = 2  *)
(* blocks as the 528-byte firmware_head_s takes two 512-byte blocks; the   *)
(* u32 length wraps at LenMod = 64, beyond the end of memory as 2^32 is.   *)
(***************************************************************************)
EXTENDS BootLoader

UImg(nm, cp, ok) == [magic |-> TRUE, name |-> nm, comp |-> cp, unzipOk |-> ok]
RttGz    == UImg("rtt", "gzip", TRUE)
RttBadGz == UImg("rtt", "gzip", FALSE)
UbootRaw == UImg("uboot", "none", TRUE)
RttLzma  == UImg("rtt", "lzma", TRUE)
LinuxImg == UImg("linux", "none", TRUE)
Junk     == [magic |-> FALSE, name |-> "rtt", comp |-> "none", unzipOk |-> TRUE]

\* a container of the largest length the load buffer holds (13 units)
Fw(cr, len, hash, puk, sig, tag, img) ==
  [magic |-> TRUE, length |-> len, crypto |-> cr, hashOk |-> hash,
   pukOk |-> puk, sigOk |-> sig, tagOk |-> tag, plain |-> img]
NoneFw(img, hash)  == Fw("NONE", 13, hash, FALSE, FALSE, FALSE, img)
IntlFw(img, puk, sig) == Fw("INTERNATIONAL", 13, FALSE, puk, sig, TRUE, img)
SmFw(img, puk, sig)   == Fw("CHINESE", 13, FALSE, puk, sig, TRUE, img)
GcmFw(img, len, tag)  == Fw("GCM_ONLY", len, FALSE, FALSE, FALSE, tag, img)
BadMagicFw == [NoneFw(RttGz, TRUE) EXCEPT !.magic = FALSE]
OtherFw    == Fw("OTHER", 13, TRUE, TRUE, TRUE, TRUE, RttGz)

\* Cards: mmc0 with a signed RT-Smart and a plain U-Boot, mmc1 with an
\* SM2-signed RT-Smart whose gzip stream is broken and a GCM U-Boot.
MCDisk ==
  [d \in {0, 1} |->
     IF d = 0 THEN [s \in {"RTT", "UBOOT"} |->
                     IF s = "RTT" THEN IntlFw(RttGz, TRUE, TRUE) ELSE NoneFw(UbootRaw, TRUE)]
     ELSE [s \in {"RTT", "UBOOT"} |->
             IF s = "RTT" THEN SmFw(RttBadGz, TRUE, TRUE) ELSE GcmFw(UbootRaw, 13, TRUE)]]

\* The cards of a product: every image signed.
MCDiskFused ==
  [d \in {0, 1} |-> [s \in {"RTT", "UBOOT"} |->
     IF s = "RTT" THEN IntlFw(RttGz, TRUE, TRUE) ELSE SmFw(UbootRaw, TRUE, TRUE)]]

\* Both cards answer; mmc1 fails to initialise.
MCInitOk  == [d \in {0, 1} |-> 0]
MCInitBad == [d \in {0, 1} |-> IF d = 1 THEN 3 ELSE 0]

\* What a user may hand to `k230_boot mem`: every way a container can fail
\* its check, and images every check passes.
MCMemOpen ==
  {NoneFw(RttGz, FALSE), NoneFw(RttLzma, TRUE), NoneFw(LinuxImg, TRUE),
   NoneFw(Junk, TRUE), GcmFw(RttGz, 13, FALSE), GcmFw(RttGz, 13, TRUE),
   IntlFw(RttGz, TRUE, TRUE), BadMagicFw, OtherFw}

MCMemFused ==
  {NoneFw(RttGz, TRUE), IntlFw(RttGz, FALSE, TRUE), IntlFw(RttGz, TRUE, FALSE),
   SmFw(RttGz, TRUE, FALSE), SmFw(UbootRaw, TRUE, TRUE), IntlFw(RttLzma, TRUE, TRUE)}

MCLowRam == {Junk}

\* An RT-Smart image left in low memory by an earlier boot.
MCLowRamStale == {UImg("rtt", "none", TRUE)}

\* mmc1 with a U-Boot container declaring 20 units of payload: more than
\* the 16 units between the load address and the end of memory.
MCDiskOversize ==
  [MCDisk EXCEPT ![1]["UBOOT"] = [NoneFw(UbootRaw, TRUE) EXCEPT !.length = 20]]

\* A GCM container whose length is below the tag size.
MCMemShortGcm == {GcmFw(RttGz, 0, FALSE)}
MCMemBrokenGcm == {GcmFw(RttGz, 13, FALSE)}

\* Boards: cards, mmc bring-up results, what `k230_boot mem` may be given,
\* and the two OTP words the loader reads.
MkBoard(dk, rc, mem, noneOff, pukSet) ==
  [disk |-> dk, initRc |-> rc, mem |-> mem, noneOff |-> noneOff, pukSet |-> pukSet]

\* A development board (OTP blank, sdio1 card fails to initialise) and a
\* product (OTP refuses unsigned images and holds the key hashes).
MCBoardOpen  == MkBoard(MCDisk, MCInitBad, MCMemOpen, FALSE, FALSE)
MCBoardFused == MkBoard(MCDiskFused, MCInitOk, MCMemFused, TRUE, TRUE)
MCBoards     == {MCBoardOpen, MCBoardFused}

\* A fused product that still carries the development cards.
MCBoardsDevCards == {MkBoard(MCDisk, MCInitOk, MCMemFused, TRUE, TRUE)}
\* OTP holding the key hashes but allowing unsigned images.
MCBoardsPukOnly  == {MkBoard(MCDisk, MCInitOk, MCMemBrokenGcm, FALSE, TRUE)}
\* A development board whose sdio1 U-Boot container is oversized.
MCBoardsOversize == {MkBoard(MCDiskOversize, MCInitOk, MCMemOpen, FALSE, FALSE)}
\* A development board with a short GCM container at hand.
MCBoardsShortGcm == {MkBoard(MCDisk, MCInitBad, MCMemShortGcm, FALSE, FALSE)}
\* A development board whose two cards both initialise.
MCBoardsDev      == {MkBoard(MCDisk, MCInitOk, MCMemBrokenGcm, FALSE, FALSE)}

====
