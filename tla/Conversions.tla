---------------------------- MODULE Conversions -----------------------------
(***************************************************************************)
(* The parts of the library that convert data: crypt/ and utils/ as in     *)
(* Codec, json/ as in JsonDocument.  They share nothing, so one of the two *)
(* is used at a time, while the other is as it was in the beginning.       *)
(***************************************************************************)
EXTENDS Codec, JsonProperties

conversionVars == <<codecVars, docVars>>

ConversionsInit == CodecInit /\ DocInit

ConversionsNext ==
  \/ DocInit /\ CodecNext /\ UNCHANGED docVars
  \/ CodecInit /\ DocNext /\ UNCHANGED codecVars

ConversionsSpec == ConversionsInit /\ [][ConversionsNext]_conversionVars
=============================================================================
