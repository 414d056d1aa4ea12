------------------------------- MODULE Unzip -------------------------------
(***************************************************************************)
(* The K230 hardware gunzip driver (lib/k230_gunzip.c): k230_priv_unzip    *)
(* programs two SDMA channels (channel 0 moves the compressed stream from  *)
(* memory to SRAM, channel 1 the output from SRAM to memory) with          *)
(* descriptor lists built by ugzip_llt_cal, starts the ugzip engine, polls *)
(* the interrupt status against a deadline of get_ticks, frees the lists,  *)
(* resets the engine after a failure and clears its registers.             *)
(*                                                                         *)
(* The CPU runs the driver one register access at a time; the DMA          *)
(* channels, the engine, the reset logic and the tick counter are          *)
(* concurrent hardware, so each of their events is an action that may     *)
(* fall between any two CPU steps.                                         *)
(***************************************************************************)
EXTENDS Integers

CONSTANTS
  Deadline,      \* the 80000000 ticks added to get_ticks() at entry
  StreamGood,    \* whether the compressed stream decodes with a good CRC
  MallocFails,   \* malloc in ugzip_llt_cal may return NULL
  Line,          \* ZIP_LINE_SIZE
  SrcLens,       \* *lenp: lengths of the compressed stream
  DstLens,       \* dstlen: sizes of the output buffer
  LenMod         \* 2^32: lengths are uint32_t

ASSUME /\ Deadline \in Nat
       /\ StreamGood \subseteq BOOLEAN /\ StreamGood # {}
       /\ MallocFails \in BOOLEAN
       /\ Line > 0 /\ LenMod > Line
       /\ SrcLens \subseteq 0 .. LenMod - 1 /\ DstLens \subseteq 0 .. LenMod - 1

Chans == {0, 1}         \* ZIP_RD_CH, ZIP_WR_CH
Resets == {"ugzip", "sdma"}   \* the reset registers at 0x91101054 and 0x9110105c

VARIABLES
  pc,         \* the step of k230_priv_unzip the CPU is at
  now,        \* get_ticks()
  etime,      \* the deadline taken at entry
  ret,
  stream,     \* the stream being decoded: TRUE when it is intact
  chState,    \* chState[c]: "idle", "run" or "stopping" (ch_ctl 0x2 written)
  chList,     \* chList[c]: "list" or "null", the ch_llt_saddr programmed
  llt,        \* g_llt_list_r / g_llt_list_w: "list" (allocated) or "none" (NULL)
  engine,     \* "off", "run", "done" or "stalled"
  intStat,    \* channels whose completion bits are set in dma_int_stat
  crcOk,      \* bit 10 of decomp_intstat
  intSnap,    \* the int_stat the CPU read at line 216
  crcSnap,    \* the decomp_intstat bit the CPU read at line 217
  rst,        \* rst[r]: "idle", "pending" (reset requested) or "done" (done bit set)
  out,        \* where the engine's output went: "none", "dst" or "elsewhere"
  len,        \* len[c]: the length ugzip_sdma_cfg is given for channel c
  lines       \* lines[c]: the descriptors in the list of channel c

vars == <<pc, now, etime, ret, stream, chState, chList, llt, engine, intStat,
          crcOk, intSnap, crcSnap, rst, out, len, lines>>

(***************************************************************************)
(* ugzip_llt_cal: the number of 128 KiB descriptors for a length, computed *)
(* in uint32_t arithmetic.                                                 *)
(***************************************************************************)
ListNum(length) == ((length - 1) % LenMod) \div Line + 1

\* the number of lines that cover length bytes
LinesFor(length) == (length + Line - 1) \div Line

Transition(from, to) == pc = from /\ pc' = to

Init ==
  /\ pc = "enter"
  /\ now = 0 /\ etime = 0 /\ ret = 0
  /\ stream \in StreamGood
  \* a channel, and its completion bits, may be left over from an earlier
  \* call that timed out
  /\ chState \in [Chans -> {"idle", "run"}]
  /\ chList = [c \in Chans |-> "null"]
  /\ llt = [c \in Chans |-> "none"]
  /\ engine = "off" /\ intStat \in SUBSET Chans /\ crcOk = FALSE
  /\ intSnap = {} /\ crcSnap = FALSE
  /\ rst = [r \in Resets |-> "idle"]
  /\ out = "none"
  /\ \E s \in SrcLens, d \in DstLens : len = [c \in Chans |-> IF c = 0 THEN s ELSE d]
  /\ lines = [c \in Chans |-> 0]

(***************************************************************************)
(* CPU steps.                                                              *)
(***************************************************************************)
\* entry: ret = 3, the deadline, then ugzip_sdma_cfg(ZIP_RD_CH) writes 0x2
\* to ch_ctl to stop the channel
Enter ==
  /\ Transition("enter", "rd_wait")
  /\ ret' = 3 /\ etime' = now + Deadline
  /\ chState' = [chState EXCEPT ![0] = IF @ = "run" THEN "stopping" ELSE @]
  /\ UNCHANGED <<now, stream, chList, llt, engine, intStat, crcOk, intSnap,
                 crcSnap, rst, out, len, lines>>

\* the rest of ugzip_sdma_cfg for channel c once ch_status reads idle:
\* enable the channel, clear its interrupt bits, build its list (a NULL
\* from malloc is written to ch_llt_saddr as 0) and start it; for channel 0
\* the CPU goes on to stop channel 1
SdmaCfg(c, from, to) ==
  /\ Transition(from, to)
  /\ chState[c] = "idle"
  /\ \E ok \in IF MallocFails THEN BOOLEAN ELSE {TRUE} :
       /\ chList' = [chList EXCEPT ![c] = IF ok THEN "list" ELSE "null"]
       /\ llt' = [llt EXCEPT ![c] = IF ok THEN "list" ELSE @]
       /\ lines' = [lines EXCEPT ![c] = IF ok THEN ListNum(len[c]) ELSE 0]
  /\ intStat' = intStat \ {c}
  /\ chState' = [chState EXCEPT ![c] = "run",
                                ![1] = IF c = 0 /\ @ = "run" THEN "stopping" ELSE @]
  /\ UNCHANGED <<now, etime, ret, stream, engine, crcOk, intSnap, crcSnap, rst, out, len>>

\* the sizes written and decomp_start set
StartEngine ==
  /\ Transition("start", "poll_int")
  /\ engine' = "run"
  /\ UNCHANGED <<now, etime, ret, stream, chState, chList, llt, intStat, crcOk,
                 intSnap, crcSnap, rst, out, len, lines>>

PollInt ==
  /\ Transition("poll_int", "poll_decomp")
  /\ intSnap' = intStat
  /\ UNCHANGED <<now, etime, ret, stream, chState, chList, llt, engine, intStat,
                 crcOk, crcSnap, rst, out, len, lines>>

PollDecomp ==
  /\ Transition("poll_decomp", "decide")
  /\ crcSnap' = crcOk
  /\ UNCHANGED <<now, etime, ret, stream, chState, chList, llt, engine, intStat,
                 crcOk, intSnap, rst, out, len, lines>>

\* mutant: a CRC error returned as -1
DecideMinusOne ==
  /\ pc = "decide"
  /\ IF 1 \in intSnap
       THEN /\ ret' = IF crcSnap THEN 0 ELSE -1
            /\ intStat' = intStat \ intSnap
            /\ pc' = "free"
       ELSE IF etime < now
         THEN /\ ret' = 2 /\ intStat' = {} /\ pc' = "free"
         ELSE /\ intStat' = intStat \ intSnap /\ pc' = "poll_int" /\ UNCHANGED ret
  /\ UNCHANGED <<now, etime, stream, chState, chList, llt, engine, crcOk,
                 intSnap, crcSnap, rst, out, len, lines>>

\* mutant: any interrupt ends the loop, as `if (int_stat)` alone would
DecideAnyInt ==
  /\ pc = "decide"
  /\ IF intSnap # {}
       THEN /\ ret' = IF crcSnap THEN 0 ELSE 1
            /\ intStat' = intStat \ intSnap
            /\ pc' = "free"
       ELSE IF etime < now
         THEN /\ ret' = 2 /\ intStat' = {} /\ pc' = "free"
         ELSE /\ intStat' = intStat \ intSnap /\ pc' = "poll_int" /\ UNCHANGED ret
  /\ UNCHANGED <<now, etime, stream, chState, chList, llt, engine, crcOk,
                 intSnap, crcSnap, rst, out, len, lines>>

\* mutant: the deadline test left out
DecideNoDeadline ==
  /\ pc = "decide"
  /\ IF 1 \in intSnap
       THEN /\ ret' = IF crcSnap THEN 0 ELSE 1
            /\ intStat' = intStat \ intSnap
            /\ pc' = "free"
       ELSE /\ intStat' = intStat \ intSnap /\ pc' = "poll_int" /\ UNCHANGED ret
  /\ UNCHANGED <<now, etime, stream, chState, chList, llt, engine, crcOk,
                 intSnap, crcSnap, rst, out, len, lines>>

\* mutant: the CRC bit not consulted, completion always returns 0
DecideNoCrc ==
  /\ pc = "decide"
  /\ IF 1 \in intSnap
       THEN /\ ret' = 0
            /\ intStat' = intStat \ intSnap
            /\ pc' = "free"
       ELSE IF etime < now
         THEN /\ ret' = 2 /\ intStat' = {} /\ pc' = "free"
         ELSE /\ intStat' = intStat \ intSnap /\ pc' = "poll_int" /\ UNCHANGED ret
  /\ UNCHANGED <<now, etime, stream, chState, chList, llt, engine, crcOk,
                 intSnap, crcSnap, rst, out, len, lines>>

\* lines 218-242: clear the bits read; the write channel's completion
\* (bit 0x2) ends the loop with the CRC verdict read at line 217; otherwise
\* a passed deadline ends it with 2, clearing both channels' bits
Decide ==
  /\ pc = "decide"
  /\ IF 1 \in intSnap
       THEN /\ ret' = IF crcSnap THEN 0 ELSE 1
            /\ intStat' = intStat \ intSnap
            /\ pc' = "free"
       ELSE IF etime < now
         THEN /\ ret' = 2 /\ intStat' = {} /\ pc' = "free"
         ELSE /\ intStat' = intStat \ intSnap /\ pc' = "poll_int" /\ UNCHANGED ret
  /\ UNCHANGED <<now, etime, stream, chState, chList, llt, engine, crcOk,
                 intSnap, crcSnap, rst, out, len, lines>>

\* lines 243-253: both lists freed; the reset sequence only after a failure
Free ==
  /\ pc = "free"
  /\ pc' = IF ret # 0 THEN "rst_ugzip" ELSE "clear"
  /\ llt' = [c \in Chans |-> "none"]
  /\ UNCHANGED <<now, etime, ret, stream, chState, chList, engine, intStat,
                 crcOk, intSnap, crcSnap, rst, out, len, lines>>

\* write the reset request of register r
ResetReq(r, from, to) ==
  /\ Transition(from, to)
  /\ rst' = [rst EXCEPT ![r] = "pending"]
  /\ UNCHANGED <<now, etime, ret, stream, chState, chList, llt, engine, intStat,
                 crcOk, intSnap, crcSnap, out, len, lines>>

\* poll the done bit (BIT(29), BIT(31)) with no deadline, then write it back
ResetWait(r, from, to) ==
  /\ Transition(from, to)
  /\ rst[r] = "done"
  /\ rst' = [rst EXCEPT ![r] = "idle"]
  /\ UNCHANGED <<now, etime, ret, stream, chState, chList, llt, engine, intStat,
                 crcOk, intSnap, crcSnap, out, len, lines>>

\* lines 265-268: gzip_src_size and ch_cfg cleared, ret returned
Clear ==
  /\ Transition("clear", "done")
  /\ UNCHANGED <<now, etime, ret, stream, chState, chList, llt, engine, intStat,
                 crcOk, intSnap, crcSnap, rst, out, len, lines>>

CpuStep ==
  \/ Enter
  \/ SdmaCfg(0, "rd_wait", "wr_wait")
  \/ SdmaCfg(1, "wr_wait", "start")
  \/ StartEngine \/ PollInt \/ PollDecomp \/ Decide \/ Free
  \/ ResetReq("ugzip", "rst_ugzip", "wait_ugzip")
  \/ ResetWait("ugzip", "wait_ugzip", "rst_sdma")
  \/ ResetReq("sdma", "rst_sdma", "wait_sdma")
  \/ ResetWait("sdma", "wait_sdma", "clear")
  \/ Clear

(***************************************************************************)
(* Hardware events.                                                        *)
(***************************************************************************)
\* The counter stops one tick past the deadline (at entry, one tick past 0):
\* from there on every `etime < get_ticks()` the driver makes is TRUE, so
\* later ticks are not observable.
Tick ==
  /\ now <= etime
  /\ now' = now + 1
  /\ UNCHANGED <<pc, etime, ret, stream, chState, chList, llt, engine, intStat,
                 crcOk, intSnap, crcSnap, rst, out, len, lines>>

\* a channel asked to stop goes idle (ch_status bit 0 clears)
ChStopped(c) ==
  /\ chState[c] = "stopping"
  /\ chState' = [chState EXCEPT ![c] = "idle"]
  /\ UNCHANGED <<pc, now, etime, ret, stream, chList, llt, engine, intStat,
                 crcOk, intSnap, crcSnap, rst, out, len, lines>>

\* channel 0 has moved the whole stream into SRAM
ReadDone ==
  /\ engine = "run" /\ chState[0] = "run" /\ chList[0] = "list"
  /\ chState' = [chState EXCEPT ![0] = "idle"]
  /\ intStat' = intStat \cup {0}
  /\ UNCHANGED <<pc, now, etime, ret, stream, chList, llt, engine, crcOk,
                 intSnap, crcSnap, rst, out, len, lines>>

\* the engine has decoded the stream, set its CRC verdict, and channel 1
\* has written the output to dst
EngineDone ==
  /\ engine = "run" /\ chState = [c \in Chans |-> IF c = 0 THEN "idle" ELSE "run"]
  /\ chList = [c \in Chans |-> "list"]
  /\ crcOk' = stream
  /\ intStat' = intStat \cup {1}
  /\ chState' = [c \in Chans |-> "idle"]
  /\ engine' = "done" /\ out' = "dst"
  /\ UNCHANGED <<pc, now, etime, ret, stream, chList, llt, intSnap, crcSnap, rst, len, lines>>

\* a channel started on a NULL list walks descriptors read from address 0:
\* the transfer may end anywhere, with any status
EngineGarbage ==
  /\ engine = "run" /\ "null" \in {chList[c] : c \in Chans}
  /\ \E crc \in BOOLEAN : crcOk' = crc
  /\ intStat' = intStat \cup {1}
  /\ chState' = [c \in Chans |-> "idle"]
  /\ engine' = "done" /\ out' = "elsewhere"
  /\ UNCHANGED <<pc, now, etime, ret, stream, chList, llt, intSnap, crcSnap, rst, len, lines>>

\* the engine stops making progress
EngineStall ==
  /\ engine = "run"
  /\ engine' = "stalled"
  /\ UNCHANGED <<pc, now, etime, ret, stream, chState, chList, llt, intStat,
                 crcOk, intSnap, crcSnap, rst, out, len, lines>>

\* a requested reset completes; the ugzip reset returns the engine to off
ResetDone(r) ==
  /\ rst[r] = "pending"
  /\ rst' = [rst EXCEPT ![r] = "done"]
  /\ engine' = IF r = "ugzip" THEN "off" ELSE engine
  /\ crcOk' = IF r = "ugzip" THEN FALSE ELSE crcOk
  /\ UNCHANGED <<pc, now, etime, ret, stream, chState, chList, llt, intStat,
                 intSnap, crcSnap, out, len, lines>>

\* k230_priv_unzip has returned
Returned ==
  /\ pc = "done"
  /\ UNCHANGED vars

Next ==
  \/ CpuStep
  \/ Tick
  \/ \E c \in Chans : ChStopped(c)
  \/ ReadDone \/ EngineDone \/ EngineGarbage \/ EngineStall
  \/ \E r \in Resets : ResetDone(r)
  \/ Returned

\* The CPU spins in the driver, the tick counter runs, and a channel stop
\* or a reset, once requested, completes; the engine may stall for ever.
Fairness ==
  /\ WF_vars(CpuStep)
  /\ WF_vars(Tick)
  /\ \A c \in Chans : WF_vars(ChStopped(c))
  /\ \A r \in Resets : WF_vars(ResetDone(r))

Spec == Init /\ [][Next]_vars /\ Fairness

-----------------------------------------------------------------------------
TypeOK ==
  /\ pc \in {"enter", "rd_wait", "wr_wait", "start", "poll_int", "poll_decomp",
             "decide", "free", "rst_ugzip", "wait_ugzip", "rst_sdma",
             "wait_sdma", "clear", "done"}
  /\ now \in Nat /\ etime \in Nat
  /\ ret \in 0 .. 3 /\ stream \in BOOLEAN
  /\ chState \in [Chans -> {"idle", "run", "stopping"}]
  /\ chList \in [Chans -> {"list", "null"}]
  /\ llt \in [Chans -> {"list", "none"}]
  /\ engine \in {"off", "run", "done", "stalled"}
  /\ intStat \subseteq Chans /\ intSnap \subseteq Chans
  /\ crcOk \in BOOLEAN /\ crcSnap \in BOOLEAN
  /\ rst \in [Resets -> {"idle", "pending", "done"}]
  /\ out \in {"none", "dst", "elsewhere"}
  /\ len \in [Chans -> 0 .. LenMod - 1] /\ lines \in [Chans -> Nat]

\* What k230_priv_unzip returns says what the engine did: 0 only when the
\* output reached dst from an intact stream, 1 (CRC error) only for a
\* stream that is not intact.
ResultMatchesEngine ==
  pc = "done" =>
    /\ ret = 0 => out = "dst" /\ stream
    /\ ret = 1 => ~stream

\* The driver implements the inflate contract: mapping the call to "busy"
\* until k230_priv_unzip returns, its return code 0 / 1 / other to success,
\* integrity error and timeout, and the output it leaves in dst to the
\* destination, every behaviour of the driver and the hardware is a
\* behaviour of Inflate, which returns.
InflateResult ==
  IF pc # "done" THEN "busy"
  ELSE CASE ret = 0 -> "ok" [] ret = 1 -> "integrity" [] OTHER -> "timeout"

Contract == INSTANCE Inflate WITH
  Streams <- StreamGood,
  result <- InflateResult,
  intact <- stream,
  dst <- IF pc = "done" /\ out = "dst" THEN "inflated" ELSE "old"

ImplementsInflate == Contract!Spec

\* k230_priv_unzip returns, whether the engine completes or stalls: the
\* deadline ends the poll loop and the resets complete.
UnzipReturns == <>(pc = "done")

\* The descriptor lists are freed only once the DMA channel walking each
\* of them has stopped.
DescriptorsFreedIdle ==
  [][pc = "free" /\ pc' # "free" =>
       \A c \in Chans : llt[c] = "list" => chState[c] = "idle"]_vars

\* The descriptor list ugzip_llt_cal built for a channel has exactly the
\* lines that cover the length the channel was given.
ListNumMatches ==
  \A c \in Chans : chList[c] = "list" => lines[c] = LinesFor(len[c])

====
