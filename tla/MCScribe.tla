------------------------------- MODULE MCScribe -------------------------------
(***************************************************************************)
(* Instance of Scribe for TLC.                                             *)
(***************************************************************************)
EXTENDS Scribe, TLC

CONSTANTS s1, s2, inc, none

Said(category, at, says) ==
    [incident |-> inc, category |-> category, at |-> at, says |-> says, stamp |-> "iso"]

(* An incident's story; chatter, and a message as the live workspace stamps*)
(* it, of which nothing is kept.                                           *)
MCMessages ==
    {Said("detection", 0, "nothing"), Said("observation", 1, "recovered"),
     Said("observation", 2, "not recovered"), Said("hypothesis", 2, "nothing"),
     [Said("action", 0, "nothing") EXCEPT !.category = none],
     [Said("action", 0, "nothing") EXCEPT !.stamp = "epoch"]}

TaskSymmetry == Permutations(Tasks)
=============================================================================
