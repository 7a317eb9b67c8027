----------------------------- MODULE MCCpEntries -----------------------------
(* Model values and bounds for checking CpEntries.                         *)
EXTENDS CpEntries

\* One gift's points expire, the other's do not; a second entry needs both.
MCGrants == <<[points |-> 3, expires |-> 1], [points |-> 2, expires |-> Unset]>>
=============================================================================
