------------------------------ MODULE Options ------------------------------
(***************************************************************************)
(* The command line of the client and the server (src/src/options.cc): a   *)
(* record with a field per option letter, Absent if it is not given.  A    *)
(* number is what atoi makes of the text, and the last of several settings *)
(* of one option is the one that counts.                                   *)
(***************************************************************************)
EXTENDS Integers

CONSTANT Absent    \* no option, no address

\* getStringOption accepts v.
StringOption(v, required) == v = Absent => ~ required

\* parseIntOption accepts v.
IntOption(v, required, min, max) ==
  IF v = Absent THEN ~ required ELSE v \in min .. max

\* What parseIntOption returns.
IntValue(v) == IF v = Absent THEN 0 ELSE v
=============================================================================
