---------------------------- MODULE KBurnContract ----------------------------
(***************************************************************************)
(* What the kburn burn engine promises the host, with no USB requests,     *)
(* buffers or drivers: while the host is attached, the engine is either   *)
(* waiting for a command or downloading one image into a range it          *)
(* accepted. A download changes nothing outside that range and, when it    *)
(* ends, the range holds the image; an erase only blanks cells of one      *)
(* device; a detach abandons the download. The image the host streams is  *)
(* the sequence 0, 1, 2, ... so that a cell names the byte it holds.       *)
(***************************************************************************)
EXTENDS Naturals

CONSTANTS Devices, Cap, Values, Blank, NoDevice

VARIABLES
  link,   \* the host has the function configured
  mode,   \* "cmd": waiting for a command; "data": downloading
  req,    \* [dev, off, size] of the download accepted last
  media   \* the content of every device

cvars == <<link, mode, req, media>>

Cells == 0 .. Cap - 1

Requests == [dev : Devices \cup {NoDevice}, off : Nat, size : Nat]

Init ==
  /\ link = FALSE
  /\ mode = "cmd"
  /\ req \in Requests
  /\ media \in [Devices -> [Cells -> Values]]

(* The cells that change in a step all lie in the accepted range. *)
OnlyInRange ==
  \A d \in Devices, u \in Cells :
    media'[d][u] # media[d][u] =>
      d = req.dev /\ req.off <= u /\ u < req.off + req.size

Attach ==
  /\ ~link /\ link' = TRUE
  /\ UNCHANGED <<mode, req, media>>

Detach ==
  /\ link /\ link' = FALSE
  /\ mode' = "cmd"
  /\ UNCHANGED <<req, media>>

Start ==
  /\ link /\ mode = "cmd" /\ mode' = "data"
  /\ req' \in Requests
  /\ UNCHANGED <<link, media>>

Chunk ==
  /\ link /\ mode = "data" /\ mode' = "data"
  /\ OnlyInRange
  /\ UNCHANGED <<link, req>>

Complete ==
  /\ link /\ mode = "data" /\ mode' = "cmd"
  /\ OnlyInRange
  /\ req.dev \in Devices =>
       \A i \in 0 .. req.size - 1 : media'[req.dev][req.off + i] = i
  /\ UNCHANGED <<link, req>>

Erase ==
  /\ link /\ mode = "cmd"
  /\ \E d \in Devices :
       /\ \A e \in Devices \ {d} : media'[e] = media[e]
       /\ \A u \in Cells : media'[d][u] \in {media[d][u], Blank}
  /\ UNCHANGED <<link, mode, req>>

Next == Attach \/ Detach \/ Start \/ Chunk \/ Complete \/ Erase

Spec == Init /\ [][Next]_cvars

=============================================================================
