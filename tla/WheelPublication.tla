--------------------------- MODULE WheelPublication ---------------------------
(***************************************************************************)
(* What publication promises to somebody who installs from pypi.nvidia.com *)
(* (docs/woa-wheel-publishing.md, gate 7): this run lists a wheel only     *)
(* after every package was validated in a dry run, never over a file that  *)
(* is already there, and announces the release only when the index lists   *)
(* all of it.  KitmakerRelease is shown to implement this.                 *)
(***************************************************************************)
CONSTANTS Wheels, Packages

VARIABLES
  validated,  \* packages a dry run of this run validated
  index,      \* what the index lists for each wheel of the release
  announced   \* some output of the run says the wheels are published

Init ==
  /\ validated = {}
  /\ index = [w \in Wheels |-> "absent"]
  /\ announced = FALSE

Validate(p) ==
  /\ validated' = validated \union {p}
  /\ UNCHANGED <<index, announced>>

List(w) ==
  /\ validated = Packages
  /\ index[w] = "absent"
  /\ index' = [index EXCEPT ![w] = "present"]
  /\ UNCHANGED <<validated, announced>>

(* Somebody else lists other bytes under the wheel's filename.             *)
Taken(w) ==
  /\ index[w] = "absent"
  /\ index' = [index EXCEPT ![w] = "mismatch"]
  /\ UNCHANGED <<validated, announced>>

Announce ==
  /\ \A w \in Wheels : index[w] = "present"
  /\ announced' = TRUE
  /\ UNCHANGED <<validated, index>>

(* A re-run starts without the outputs of the attempt before it.           *)
Withdraw ==
  /\ announced' = FALSE
  /\ UNCHANGED <<validated, index>>

Next ==
  \/ \E p \in Packages : Validate(p)
  \/ \E w \in Wheels : List(w) \/ Taken(w)
  \/ Announce \/ Withdraw

Spec == Init /\ [][Next]_<<validated, index, announced>>
================================================================================
