----------------------------- MODULE MCRoomView -----------------------------
(* Model-checking instance of RoomView; the constants are set in the cfg. *)
EXTENDS RoomView

====
