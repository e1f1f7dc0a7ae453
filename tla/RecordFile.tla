------------------------------- MODULE RecordFile -------------------------------
(***************************************************************************)
(* The record PER_PROCESS_TIMEOUT_LOG of the per-process bound: _record of *)
(* sitecustomize.py, called by hundreds of test-file processes on one file *)
(* of a Windows machine, where an append is a seek to the end and then a   *)
(* write.  A writer is one call: a process makes one when the bound is     *)
(* armed and one, on the timer's thread, when it fires.  Processes are     *)
(* killed at any point.                                                    *)
(*                                                                         *)
(* An operator named ...Mutant is a plausible bug of the definition that   *)
(* follows it; no specification uses it.                                   *)
(***************************************************************************)
EXTENDS Naturals, Sequences

CONSTANTS
  Writers,  \* calls of _record
  Nobody    \* who holds the lock when it is free

ASSUME WritersAssumption == Nobody \notin Writers

VARIABLES
  file,    \* the lines of the record, each named after its writer
  lock,    \* who holds the lock on the first byte
  at,      \* [Writers -> where the call is]
  offset,  \* [Writers -> the position it sought]
  result   \* [Writers -> what _record returned; "none" if it did not]

recordVars == <<file, lock, at, offset, result>>

Places == {"idle", "locking", "locked", "sought", "written", "over"}

RecordInit ==
  /\ file = <<>> /\ lock = Nobody
  /\ at = [w \in Writers |-> "idle"]
  /\ offset = [w \in Writers |-> 0]
  /\ result = [w \in Writers |-> "none"]

Go(w, from, to) == at[w] = from /\ at' = [at EXCEPT ![w] = to]

Release(w) == lock' = IF lock = w THEN Nobody ELSE lock

(* O_APPEND and O_CREAT: the file is never truncated.                      *)
Open(w) ==
  /\ Go(w, "idle", "locking")
  /\ UNCHANGED <<file, lock, offset, result>>

(* The directory is missing: run_test.py's step makes it, _record does not.*)
CannotOpen(w) ==
  /\ Go(w, "idle", "over") /\ result' = [result EXCEPT ![w] = "false"]
  /\ UNCHANGED <<file, lock, offset>>

(* msvcrt.locking(fd, LK_LOCK, 1) at position 0.                           *)
GetsMutant(w) == lock' = w
Gets(w) == lock = Nobody /\ lock' = w

Lock(w) ==
  /\ Go(w, "locking", "locked") /\ Gets(w)
  /\ UNCHANGED <<file, offset, result>>

(* LK_LOCK found the lock held for ten seconds; the exception ends the     *)
(* call, which has written nothing.                                        *)
GiveUpMutant(w) == Go(w, "locking", "locked")
GivesUp(w) == Go(w, "locking", "over")

TimeOut(w) ==
  /\ lock \notin {Nobody, w} /\ GivesUp(w)
  /\ result' = IF at'[w] = "over" THEN [result EXCEPT ![w] = "false"] ELSE result
  /\ UNCHANGED <<file, lock, offset>>

SeekEnd(w) ==
  /\ Go(w, "locked", "sought")
  /\ offset' = [offset EXCEPT ![w] = Len(file)]
  /\ UNCHANGED <<file, lock, result>>

(* A write at an offset: what stood there is gone.                         *)
TornMutant(n, w) == file \o <<w, Nobody>>
WrittenAt(n, w) ==
  IF n = Len(file) THEN Append(file, w) ELSE [file EXCEPT ![n + 1] = w]

Write(w) ==
  /\ Go(w, "sought", "written")
  /\ file' = WrittenAt(offset[w], w)
  /\ UNCHANGED <<lock, offset, result>>

(* LK_UNLCK and close.                                                     *)
Return(w) ==
  /\ Go(w, "written", "over") /\ Release(w)
  /\ result' = [result EXCEPT ![w] = "true"]
  /\ UNCHANGED <<file, offset>>

(* The process is killed; Windows closes its handles and frees its lock.   *)
Die(w) ==
  /\ at[w] /= "over" /\ at' = [at EXCEPT ![w] = "over"] /\ Release(w)
  /\ UNCHANGED <<file, offset, result>>

RecordNext ==
  \E w \in Writers :
    \/ Open(w) \/ CannotOpen(w) \/ Lock(w) \/ TimeOut(w)
    \/ SeekEnd(w) \/ Write(w) \/ Return(w) \/ Die(w)

RecordSpec == RecordInit /\ [][RecordNext]_recordVars

(***************************************************************************)
(* Properties.                                                             *)
(***************************************************************************)
RecordTypeOK ==
  /\ file \in Seq(Writers) /\ lock \in Writers \union {Nobody}
  /\ at \in [Writers -> Places] /\ offset \in [Writers -> Nat]
  /\ result \in [Writers -> {"none", "true", "false"}]

(* A record whose writer was told it is written is in the file, once and   *)
(* whole; one whose writer gave up is not there.                           *)
Recorded(w) == \E i \in 1..Len(file) : file[i] = w
TruthfullyRecorded ==
  \A w \in Writers :
    /\ result[w] = "true" => Recorded(w)
    /\ result[w] = "false" => ~ Recorded(w)
    /\ \A i, j \in 1..Len(file) : file[i] = w /\ file[j] = w => i = j

(* What the coverage step counts never shrinks or changes: no line is      *)
(* overwritten, neither by a writer at the same offset nor after a kill.   *)
OnlyAppended ==
  [][file' = file \/ \E w \in Writers : file' = Append(file, w)]_recordVars
================================================================================
