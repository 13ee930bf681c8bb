---------------------------- MODULE SafeInstall -----------------------------
(***************************************************************************)
(* What the firmware update promises of the application, in terms of two   *)
(* facts only: the image the device is going to run, and the one it runs.  *)
(* Choosing another image is a single step, taken by the running           *)
(* application.  From the moment the application stops until it runs again *)
(* the choice stands: no step of an installation, and no power cut in the  *)
(* middle of one, changes it or leaves the device without an application.  *)
(***************************************************************************)
CONSTANTS
  Apps,   \* the application images
  None    \* no application: not one of Apps

VARIABLES selected, running

vars == <<selected, running>>

Init == selected \in Apps /\ running = None

\* A reset, and whatever installation it takes, ends in the chosen application.
Boot == running = None /\ running' = selected /\ UNCHANGED selected

\* A reset or a power cut; one in the middle of a choice may fall before or
\* after the choice takes effect.
Stop(img) == running # None /\ running' = None /\ selected' = img

\* The running application chooses its successor.
Choose(img) == running # None /\ selected' = img /\ UNCHANGED running

Next == Boot \/ \E img \in Apps : Choose(img) \/ Stop(img)

Spec == Init /\ [][Next]_vars /\ WF_vars(Boot)
=============================================================================
