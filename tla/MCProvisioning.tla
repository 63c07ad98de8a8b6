---------------------------- MODULE MCProvisioning ----------------------------
(* Symmetry for Provisioning: commands and networks are interchangeable. *)
EXTENDS Provisioning, TLC

\* No flag, a maximum, a part, or both; the dialled part of -5 is -1, which is
\* also the value of an unset flag.
FlagsGiven ==
  {NoLimits, [NoLimits EXCEPT !.max = 7], [NoLimits EXCEPT !.max = -5],
   [NoLimits EXCEPT !.out = 7], [NoLimits EXCEPT !.in = 7, !.out = -5]}

Symmetry == Permutations(Cmds) \cup Permutations(Nets)

===============================================================================
