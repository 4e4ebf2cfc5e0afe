----------------------------- MODULE MCKeyboard -----------------------------
(* A plain and a shifted character on one key, another key, a character    *)
(* without a key (BEL) and one beyond the end of the map (e acute); packets *)
(* of three characters.                                                    *)
EXTENDS Keyboard

MCChar == {7, 65, 97, 98, 233}
MCKey == {4, 5}
MCAsciimap ==
    [c \in MCChar \ {233} |->
        [key |-> CASE c = 7 -> 0 [] c = 98 -> 5 [] OTHER -> 4,
         mods |-> IF c = 65 THEN {"shift"} ELSE {}]]
MCTexts == {<<65, 97, 97, 98>>, <<98, 65, 65>>, <<7, 233, 97>>, <<97>>}
=============================================================================
