----------------------------- MODULE SecurityLock -----------------------------
(***************************************************************************)
(* SecurityLockComponent: what the lock says, from the status of the core  *)
(* and the worst failure of the subsystems.                                *)
(***************************************************************************)
EXTENDS Naturals, FiniteSetsExt

SecurityLevel == [Off |-> 0, Normal |-> 1, High |-> 2, Extreme |-> 4]
FailureStatus == [Operational |-> 0, Hint |-> 1, Warning |-> 2, Error |-> 3]

CoreStatus == [ActiveSecurityLevel   : {0, 1, 2, 4},
               ThreatMitigationLevel : {0, 1, 2, 4}]

Lock(level, text) == [level |-> level, displayText |-> text]
Secure   == Lock(SecurityLevel.Normal, "Secure")
Warning  == Lock(SecurityLevel.High, "Warning")
Insecure == Lock(SecurityLevel.Extreme, "Insecure")

\* The highest failure status of any subsystem.
worst(failures) == Max(failures \cup {FailureStatus.Operational})

\* Wrong: a higher level that the autopilot suggests is no more than a warning.
LockWarns(status, failures) ==
  IF status.ActiveSecurityLevel < status.ThreatMitigationLevel THEN Warning
  ELSE CASE worst(failures) = FailureStatus.Warning -> Warning
         [] worst(failures) = FailureStatus.Error -> Insecure
         [] OTHER -> Secure

\* A higher level that is suggested comes last, and lowers the level after an error.
lockLevel(status, failures) ==
  IF status.ActiveSecurityLevel < status.ThreatMitigationLevel
    THEN Lock(SecurityLevel.High, "Insecure")
  ELSE CASE worst(failures) = FailureStatus.Warning -> Warning
         [] worst(failures) = FailureStatus.Error -> Insecure
         [] OTHER -> Secure
=============================================================================
