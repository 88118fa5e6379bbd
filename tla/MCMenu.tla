------------------------------- MODULE MCMenu -------------------------------
(***************************************************************************)
(* Values for TLC.  Two items per page: key 3 is then what key 8 is in the *)
(* code, a key the game's menus have and the plugin's do not.              *)
(***************************************************************************)
EXTENDS Menu

Keys == {1, 3, 9, 10}

=============================================================================
