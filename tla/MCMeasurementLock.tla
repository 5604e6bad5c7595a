-------------------------- MODULE MCMeasurementLock --------------------------
(***************************************************************************)
(* The workers with which TLC checks MeasurementLock.                      *)
(***************************************************************************)
EXTENDS MeasurementLock, TLC

CONSTANTS a, j, p, r, z

(* The wrappers that do something that the others do not; replicache's, zero's and
   anytype's look for a marker, as two of these do, and take the lock and go on, as the
   third does. *)
OneOfEach == a :> "atomic" @@ j :> "jazz" @@ p :> "powersync"

(* Two wrappers that wait for their commands. *)
Patient == r :> "replicache" @@ z :> "zero"

=============================================================================
