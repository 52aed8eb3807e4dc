------------------------------- MODULE TrialBoot -------------------------------
(***************************************************************************)
(* What a firmware update promises of the ROMs: a new image is tried for    *)
(* one boot and replaces the old one only when it asks for that itself,     *)
(* from a boot of its own.  Until then every restart without a staged image *)
(* falls back to the image that was confirmed last.  The promise ends where *)
(* a confirmation is lost: the image goes on as if it were confirmed, and   *)
(* the one confirmed last may be written over.  OtaUpdate implements it.    *)
(***************************************************************************)
CONSTANT Runs(_)   \* an image that can be booted and takes calls

VARIABLES
  committed,   \* the image confirmed last
  running,     \* the image the device runs
  trial,       \* the running image has been booted to be tried
  lost,        \* a confirmation was lost: committed is not protected
  staged       \* the image the next boot is to try, in a set of at most one

vars == <<committed, running, trial, lost, staged>>

Init ==
  /\ Runs(committed) /\ running = committed
  /\ ~trial /\ ~lost /\ staged = {}

\* A whole image is staged, by an image that is not on trial itself.
Stage ==
  /\ ~trial /\ staged = {}
  /\ \E image \in staged' : Runs(image) /\ staged' = {image}
  /\ UNCHANGED <<committed, running, trial, lost>>

\* Until the restart a further update may write over the staged image.
Spoil ==
  /\ ~trial /\ staged # {}
  /\ \E image \in staged' : staged' = {image}
  /\ UNCHANGED <<committed, running, trial, lost>>

\* After a lost confirmation an update may write over the committed image, and
\* what is staged may be that same image.
Overwrite ==
  /\ ~trial /\ lost
  /\ staged' \in {staged, {committed'}}
  /\ UNCHANGED <<running, trial, lost>>

\* A restart boots the staged image, for once.
Try ==
  /\ running' \in staged /\ trial' = TRUE /\ staged' = {}
  /\ UNCHANGED <<committed, lost>>

\* A restart boots the confirmed image, whatever was staged or on trial.
FallBack ==
  /\ running' = committed /\ trial' = FALSE /\ staged' = {}
  /\ lost' \in {FALSE, lost}
  /\ UNCHANGED committed

\* The image that runs is confirmed.
Confirm ==
  /\ trial \/ lost
  /\ Runs(running)
  /\ committed' = running /\ trial' = FALSE /\ lost' = FALSE /\ staged' = {}
  /\ UNCHANGED running

\* It takes itself to be confirmed, and is not.
LoseConfirmation ==
  /\ trial \/ lost
  /\ trial' = FALSE /\ lost' = TRUE /\ staged' = {}
  /\ UNCHANGED <<committed, running>>

\* An update begun by the confirmed image itself leaves that one alone.
Settle ==
  /\ ~trial /\ lost /\ running = committed /\ Runs(committed)
  /\ lost' = FALSE
  /\ UNCHANGED <<committed, running, trial, staged>>

Next ==
  \/ Stage
  \/ Spoil
  \/ Overwrite
  \/ Try
  \/ FallBack
  \/ Confirm
  \/ LoseConfirmation
  \/ Settle

Spec == Init /\ [][Next]_vars
=============================================================================
