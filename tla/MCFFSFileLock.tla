---------------------------- MODULE MCFFSFileLock ----------------------------
(* Instances for FFSFileLock: file objects and processes are compared for   *)
(* equality only.                                                           *)
EXTENDS FFSFileLock, TLC

(* To read, shared or not, cached or not; and for the attributes only.      *)
(* IoCheckShareAccess treats each mode apart, so one stands for all.        *)
Asked(a, s, u) == [access |-> a, share |-> s, uncached |-> u]
MCOpenKinds ==
  {Asked({"read"}, {"read"}, FALSE), Asked({"read"}, {"read"}, TRUE),
   Asked({"read"}, {}, FALSE), Asked({}, {}, FALSE)}

Symmetric == Permutations(FileObjects) \cup Permutations(Processes)
=============================================================================
