------------------------ MODULE MCRoomViewSubscribers ------------------------
(* Model-checking instance of RoomViewSubscribers: observers, workers and *)
(* the UI thread are model values; observer ids and workers are           *)
(* interchangeable, so the runs that check safety only use symmetry.      *)
EXTENDS RoomViewSubscribers, TLC

Symmetry == Permutations(Observers) \cup Permutations(Workers)

=============================================================================
