----------------------------- MODULE MCSpCache ------------------------------
(* Three short keys, of which two share a slot of the front cache, and three long
   ones, with an encoding longer than the budgets and with a key longer than them.
   An entry is 2 bytes, a token id 1, for 48 and 4. *)
EXTENDS SpCache

MCKeys == 1..6
MCKeyBytes == <<1, 2, 2, 4, 5, 12>>
MCEncoding == << <<1>>, <<1, 2>>, <<3>>, <<4, 1>>, <<5, 5, 5, 5, 5, 5, 5, 5, 5, 5, 5, 5>>, <<6>> >>
MCFrontIndex == <<1, 1, 2, 1, 1, 1>>
=============================================================================
