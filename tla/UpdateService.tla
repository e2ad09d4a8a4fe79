---------------------------- MODULE UpdateService ----------------------------
(***************************************************************************)
(* What the bootloader and an operator may expect of an update, whatever   *)
(* the host sends and the flash does: an image is collected piece by piece *)
(* in an erased area, the bootloader is told of it at most once, of what   *)
(* is then in the area, and after that or after a failure only a restart   *)
(* makes the service ready again.                                          *)
(***************************************************************************)
EXTENDS Integers, Sequences

CONSTANT Pieces

VARIABLES
  phase,   \* "idle", "open" while an image is collected, "failed", or "done"
  image,   \* the pieces in the area
  record   \* the images the bootloader is told of: none or one

Init == phase = "idle" /\ image = <<>> /\ record = {}

Open ==
  /\ phase \in {"idle", "open"} /\ phase' = "open"
  /\ image' = <<>>
  /\ UNCHANGED record

Accept ==
  /\ phase = "open"
  /\ Len(image') = Len(image) + 1
  /\ image'[Len(image')] \in Pieces /\ image' = Append(image, image'[Len(image')])
  /\ UNCHANGED <<phase, record>>

\* An update that never began is committed as an empty image.
Commit ==
  /\ phase \in {"idle", "open"} /\ phase' = "done"
  /\ record' = IF phase = "open" THEN {image} ELSE {<<>>}
  /\ UNCHANGED image

\* The area may have been erased.  A start that overtakes the failure of an
\* idle service leaves it idle.
Fail ==
  /\ phase # "done"
  /\ phase' = "failed" \/ (phase' = "idle" /\ phase = "idle")
  /\ image' \in {<<>>, image}
  /\ UNCHANGED record

\* The bootloader takes the record.
Restart == phase' = "idle" /\ record' = {} /\ UNCHANGED image

Next == Open \/ Accept \/ Commit \/ Fail \/ Restart

Spec == Init /\ [][Next]_<<phase, image, record>>
==============================================================================
