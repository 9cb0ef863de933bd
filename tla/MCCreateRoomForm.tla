-------------------------- MODULE MCCreateRoomForm --------------------------
(* Model-checking instance of CreateRoomForm: an empty entry and one room. *)
EXTENDS CreateRoomForm

MCNames == {"", "r1"}

====
