--------------------------- MODULE ResultOfRecord ---------------------------
(***************************************************************************)
(* What the unblinding controller promises its readers.  A study is        *)
(* blinded until the clear assignment ledger is opened; it is exposed from *)
(* then on, and at most once the first run after the opening becomes the   *)
(* result of record: the unblind receipt and the analysis, together.       *)
(* Neither step is ever undone.                                            *)
(***************************************************************************)

VARIABLE study

Init == study = "blinded"

Expose == study = "blinded" /\ study' = "exposed"

Publish == study = "exposed" /\ study' = "published"

Next == Expose \/ Publish

Spec == Init /\ [][Next]_study
=============================================================================
