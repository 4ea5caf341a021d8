------------------------------ MODULE MCVenue ------------------------------
(***************************************************************************)
(* Instances of Venue for TLC: the image store, one attempt's guest inside *)
(* it, and a source mirror beside it, which predates object classes.       *)
(***************************************************************************)
EXTENDS Venue

CONSTANTS store, guest, mirror

MCObjects   == {store, guest, mirror}
MCAttempts  == {guest}
MCCacheDirs == {store}
MCNested    == {<<store, guest>>}
MCLegacy    == {mirror}
=============================================================================
