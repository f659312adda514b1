--------------------------- MODULE SegmentVerdict ---------------------------
(***************************************************************************)
(* What motion-gated recording promises about segments, whatever the        *)
(* detector does: a segment waits for its verdict until it gets exactly one, *)
(* kept or dropped, and no verdict is ever taken back.  A segment may leave   *)
(* the waiting set only with a verdict (docs/RECORDER-CORRECTNESS.md 20).    *)
(***************************************************************************)
EXTENDS FiniteSets, Naturals

VARIABLES waiting, kept, dropped
vars == <<waiting, kept, dropped>>

Init == waiting = {} /\ kept = {} /\ dropped = {}

Keeps == kept' \ kept
Drops == dropped' \ dropped
Arrives == (waiting' \cup Keeps \cup Drops) \ waiting

\* At most one segment arrives, and any waiting segments get their verdict.
Step ==
    /\ kept \subseteq kept' /\ dropped \subseteq dropped'
    /\ Keeps \cap Drops = {}
    /\ (Keeps \cup Drops) \cap waiting' = {}
    /\ waiting \subseteq waiting' \cup Keeps \cup Drops
    /\ Arrives \cap (kept \cup dropped) = {}
    /\ \A s, t \in Arrives : s = t

Spec == Init /\ [][Step]_vars
=============================================================================
