----------------------------- MODULE MCListings -----------------------------
(***************************************************************************)
(* The listings page for TLC: two parts, two operations, two announcements.*)
(* A behaviour either switches the pollers often, or brings many snapshots *)
(* and ticks, or opens many announcements, with the others kept small.     *)
(***************************************************************************)
EXTENDS ListingsPage

VARIABLE bounds

Operation(stage, start, recency) ==
    [stage |-> stage, start |-> start, recency |-> recency]

Coming(start) == Operation("coming", start, start)
Trading(start) == Operation("trading", start, start)

AllTimes == 1 .. 3

\* The second has a tie; the last two are without a mission.
AllSnapshots ==
    {<<Coming(2)>>, <<Coming(2), Coming(2)>>, <<Trading(2), Coming(3)>>,
     <<Operation("trading", 1, 3), Trading(2)>>, <<Operation("disabled", 1, 1)>>}

Bounds ==
    {[switches |-> 6, times |-> {1}, snapshots |-> {<<Coming(2)>>}, opens |-> 0],
     [switches |-> 3, times |-> AllTimes, snapshots |-> AllSnapshots, opens |-> 0],
     [switches |-> 2, times |-> {1}, snapshots |-> {<<Coming(2)>>}, opens |-> 3]}

MCInit == PageInit /\ bounds \in Bounds /\ radar.nowMs \in bounds.times

\* The bounds cut off switches, answers, ticks and openings, never a step that
\* fairness speaks of: a round may still fail.
WithinBounds ==
    /\ \A p \in Parts : pollers'[p].generation <= bounds.switches
    /\ radar'.nowMs \in bounds.times
    /\ radar'.operations \in bounds.snapshots \cup {<<>>}
    /\ drawer'.visible => drawer'.request <= bounds.opens
    /\ UNCHANGED bounds

MCNext == PageNext /\ WithinBounds

MCSpec == MCInit /\ [][MCNext]_<<allVars, bounds>> /\ PageFairness
=============================================================================
