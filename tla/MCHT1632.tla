------------------------------ MODULE MCHT1632 ------------------------------
(* Two chips with two words for each of two boards, of one row each, in    *)
(* the driver; the whole screen in the pure functions.                     *)
EXTENDS HT1632

MCBits == {0}
MCBrightness == {1, 16}
Garbage(rows, selected, address) ==
    [ram |-> [c \in Chip |-> [a \in ChipAddr |-> rows]], selected |-> selected,
     ptr |-> [c \in Chip |-> address],
     led |-> [c \in Chip |-> "off"], pwm |-> [c \in Chip |-> 16]]
MCNoise == { Garbage({0}, {1, 2}, 0), Garbage({}, {2}, NoAddr) }

\* Codes below, in and above the table, letters of both cases, and widths
\* that tell the glyphs apart.
MCChar == {31, 32, 65, 90, 96, 97, 122, 200}
MCFontWidth(g) == 1 + (g % 5)
=============================================================================
