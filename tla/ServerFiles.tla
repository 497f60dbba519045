------------------------------ MODULE ServerFiles ------------------------------
(***************************************************************************)
(* Everything the server keeps on disk: the audit log and what is written  *)
(* of the races, by one process, which does one thing at a time, ends at   *)
(* any point and starts again from what the files hold.                    *)
(***************************************************************************)
EXTENDS AuditLog, RaceFiles

CONSTANTS
  RacesBeside, \* bound: races beside audit records
  MaxTrouble   \* bound: writes that fail and crashes, once there are both

ASSUME WorkAssumption == {RacesBeside, MaxTrouble} \subseteq Nat /\ MaxDay = Day(MaxSecond)

vars == <<auditVars, filesVars>>

Init == AuditInit /\ FilesInit

Bounded ==
  \/ records' = 0 \/ races' = <<>>
  \/ Len(races') <= RacesBeside /\ writeFaults' + faults' <= MaxTrouble

\* The moderation's steps come between two calls of the finished callback.
Idle == todo = <<>>

Moderate == Idle /\ AuditStep /\ UNCHANGED filesVars

Races == FilesStep /\ UNCHANGED auditVars

Clock == NextSecond /\ DayIs(Day(second'))

Restart == AuditRestart /\ FilesRestart

\* The process ends in the middle of a purge.
RestartInPurge == Idle /\ (\E n \in 0..MaxRecords, rest \in Pieces : PurgeCut(n, rest)) /\ FilesRestart

Next == (Moderate \/ Races \/ Clock \/ Restart \/ RestartInPurge) /\ Bounded

Spec == Init /\ [][Next]_vars
=============================================================================
