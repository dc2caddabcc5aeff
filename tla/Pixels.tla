------------------------------- MODULE Pixels -------------------------------
(***************************************************************************)
(* Where the driver src/ht1632/HT1632.cpp puts a pixel: the address of a   *)
(* 4-bit word, the copying of an image whose rows do not fall on words,    *)
(* the columns of a text, and the order of the bits on the wire.  Pure     *)
(* functions over every input a screen of ComSize rows can tell apart.     *)
(*                                                                         *)
(* The copying never looks at a pixel, so it is modelled on symbolic ones: *)
(* a row of the column drawn to is Old, Off or the number of the row of    *)
(* the image that was copied there; what fills the last word of an image   *)
(* below its last row is Pad.                                              *)
(***************************************************************************)
EXTENDS Integers, Sequences, FiniteSets

CONSTANTS
    ComSize,    \* rows of the matrix, 16
    OutSize,    \* columns of the matrix, 128
    MinHeight, MaxHeight,  \* of fonts and images, 4 and 16
    Char, MaxLen,     \* the characters, as codes, and the length of texts
    FontWidth(_),     \* the width of a glyph
    MaxGutter         \* columns left between two characters, 1 in the program

ASSUME PixelsAssumption ==
    /\ ComSize = 16  \* a column of a unit is two chips of 8 rows
    /\ OutSize \in Nat \ {0} /\ OutSize % 32 = 0
    /\ MinHeight \in 4 .. MaxHeight
    /\ Char \subseteq 1 .. 255 /\ MaxLen \in Nat /\ MaxGutter \in Nat
    /\ \A g \in 0 .. 63 : FontWidth(g) \in Nat \ {0}

Row == 0 .. ComSize - 1
Column == 0 .. OutSize - 1
AddrSpaceSize == (ComSize * OutSize) \div 4

GetChipFromXY(x, y) == x \div 16 + (IF y > 7 THEN 2 ELSE 0) + (x \div 32) * 2
GetAddrFromXY(x, y) == (x % 16) * 2 + (y % 8) \div 4 + GetChipFromXY(x, y) * 32

-----------------------------------------------------------------------------
(* drawImage, for one column of an image of the given height at row y.     *)

Old == -1
Off == -2
Pad == -3
Mixed == -4  \* two pixels in one bit

\* Word k of the column of the image, and what is shifted out of words.
ImageBit(height, k, b) ==
    IF b < 0 \/ b > 3 THEN Off ELSE IF 4 * k + b < height THEN 4 * k + b ELSE Pad
Or(a, b) == IF a = Off THEN b ELSE IF b = Off THEN a ELSE Mixed

\* The bits of a word above the bottom of the image.
MaskBottom(height, loc_y, rest) ==
    {b \in 0 .. 3 : height - loc_y >= 4 \/ b < rest}

Word(s, loc_y, mask, bits(_)) ==
    [s EXCEPT !.column = [r \in Row |->
        IF r \div 4 = loc_y \div 4 /\ r % 4 \in mask THEN bits(r % 4) ELSE @[r]]]

CopyStart(s, height, y, j) ==
    LET c == y % 4
        mask == {b \in MaskBottom(height, j + y, height - j) : b >= c}
        bits(b) == ImageBit(height, j \div 4, b - c)
    IN  [(IF j + y > 0 THEN Word(s, j + y, mask, bits) ELSE s)
            EXCEPT !.valid = TRUE, !.carryover = j \div 4]

CopyMiddle(s, height, y, j) ==
    LET c == y % 4
        mask == MaskBottom(height, j + y, height + c - j)
        bits(b) == Or(ImageBit(height, j \div 4, b - c),
                      ImageBit(height, s.carryover, b + 4 - c))
    IN  [Word(s, j + y, mask, bits) EXCEPT !.carryover = j \div 4]

CopyEnd(s, height, y, j) ==
    LET c == y % 4
        bits(b) == ImageBit(height, s.carryover, b + 4 - c)
    IN  Word(s, j + y, {b \in 0 .. 3 : b < c}, bits)

CopyAligned(s, height, y, j) ==
    LET bits(b) == ImageBit(height, j \div 4, b)
    IN  Word(s, j + y, MaskBottom(height, j + y, height - j), bits)

\* Fault: the carry is not flushed below the last word of the image.
CopyWord_noFlush(s, height, y, j) ==
    IF j >= height \/ j + y <= -4 \/ j + y >= ComSize THEN s
    ELSE IF (j + y) % 4 = 0 THEN CopyAligned(s, height, y, j)
    ELSE IF ~s.valid THEN CopyStart(s, height, y, j)
    ELSE CopyMiddle(s, height, y, j)

\* One turn of the loop over the words of a column.
CopyWord(s, height, y, j) ==
    IF j >= (IF s.valid THEN height + 4 ELSE height) THEN s
    ELSE IF j + y <= -4 \/ j + y >= ComSize THEN s
    ELSE IF (j + y) % 4 = 0 THEN CopyAligned(s, height, y, j)
    ELSE IF ~s.valid THEN CopyStart(s, height, y, j)
    ELSE IF j >= height THEN CopyEnd(s, height, y, j)
    ELSE CopyMiddle(s, height, y, j)

\* drawImage: a column that is off the screen is skipped.
DrawImageColumn(height, x, y) ==
    LET words == (height + 7) \div 4
        copied[k \in 0 .. words] ==
            IF k = 0
            THEN [column |-> [r \in Row |-> Old], valid |-> FALSE, carryover |-> -1]
            ELSE CopyWord(copied[k - 1], height, y, 4 * (k - 1))
    IN  IF y + height < 0 \/ y > ComSize \/ x < 0 \/ x >= OutSize
        THEN copied[0].column ELSE copied[words].column

-----------------------------------------------------------------------------
(* drawText and getTextWidth.  A text is a sequence of codes; lower-case   *)
(* letters are drawn as upper-case ones, other codes without a glyph are   *)
(* skipped.                                                                *)

NoGlyph == -1
CurrChar(code) ==
    LET upper == IF code - 32 \in 65 .. 90 THEN code - 64 ELSE code - 32
    IN  IF upper \in 0 .. 63 THEN upper ELSE NoGlyph

Advance(code, gutter) ==
    IF CurrChar(code) = NoGlyph THEN 0 ELSE FontWidth(CurrChar(code)) + gutter

GetTextWidth(text, gutter) ==
    LET wd[i \in 0 .. Len(text)] ==
            IF i = 0 THEN 0 ELSE wd[i - 1] + Advance(text[i], gutter)
    IN  wd[Len(text)] - gutter

\* The columns of the screen that drawText writes for a character: those of the
\* glyph and the gutter after it, unless all of them are left of the screen; a
\* character that is right of the screen is the end of it.
DrawChar(s, code, gutter) ==
    LET next == s.x + Advance(code, gutter)
    IN  IF CurrChar(code) = NoGlyph \/ s.x >= OutSize THEN s
        ELSE [x |-> next,
              columns |-> s.columns \cup
                  (IF next >= 0 THEN (s.x .. next - 1) \cap Column ELSE {})]

DrawText(text, x, y, height, gutter) ==
    LET drawn[i \in 0 .. Len(text)] ==
            IF i = 0 THEN [x |-> x, columns |-> {}]
            ELSE DrawChar(drawn[i - 1], text[i], gutter)
    IN  IF y + height < 0 \/ y >= ComSize THEN {} ELSE drawn[Len(text)].columns

-----------------------------------------------------------------------------
(* The bits on the wire.                                                   *)

WriteData(data, len) == [k \in 1 .. len |-> (data \div 2 ^ (len - k)) % 2]
WriteDataRev(data, len) == [k \in 1 .. len |-> (data \div 2 ^ (k - 1)) % 2]

\* HT1632_CMD_PWM: the level goes to the low bits of the template.
CmdPWM(level) == 160 + (level - 1)

\* The chip reads commands and addresses from the highest bit, and the rows of
\* a word from the first.
ChipNumber(bits) ==
    LET n[k \in 0 .. Len(bits)] == IF k = 0 THEN 0 ELSE 2 * n[k - 1] + bits[k]
    IN  n[Len(bits)]
ChipRows(bits) == {k \in 0 .. 3 : bits[k + 1] = 1}

-----------------------------------------------------------------------------
(* Properties of the functions.                                            *)

\* Each pixel has a bit of its own, and together they fill the memory of the
\* chips: no two macros of different units, halves or rows meet.
PixelsHaveTheirOwnBit ==
    LET Bit == {<<GetAddrFromXY(x, y), y % 4>> : x \in Column, y \in Row}
    IN  Bit = (0 .. AddrSpaceSize - 1) \X (0 .. 3)

\* Wherever an image is put, also partly off the screen, each of its rows is
\* copied to its place, and nothing else changes but, at most, the rows the
\* last word of the image has below it.  If the image ends with a word, or is
\* put at the top of a word on the screen, not even those change.
ImageIsCopiedToItsPlace ==
    \A height \in MinHeight .. MaxHeight, y \in -(MaxHeight + 4) .. ComSize + 4 :
        LET column == DrawImageColumn(height, 0, y)
            padded == ((height + 3) \div 4) * 4
        IN  \A r \in Row :
                /\ r - y \in 0 .. height - 1 => column[r] = r - y
                /\ r - y \in height .. padded - 1 => column[r] \in {Old, Pad}
                /\ r - y \in height .. padded - 1 /\ y >= 0 /\ y % 4 = 0 => column[r] = Old
                /\ r - y \notin 0 .. padded - 1 => column[r] = Old

\* A text takes the columns from where it is put to where its width, which
\* ends the scrolling of a message, says that it ends, whatever characters it
\* holds and wherever the screen cuts it off.
TextIsAsWideAsComputed ==
    \A text \in UNION {[1 .. n -> Char] : n \in 0 .. MaxLen}, gutter \in 0 .. MaxGutter :
        LET width == GetTextWidth(text, gutter) + gutter
        IN  \A x \in {-width - 1, -width, -1, 0, OutSize - width, OutSize - 1, OutSize} :
                DrawText(text, x, 0, MinHeight, gutter) = (x .. x + width - 1) \cap Column

\* The rows a chip lights are those of the word in memory, flagged or not; it
\* gets the address and the level that were meant, which fit their fields.
ChipsReceiveWhatIsMeant ==
    /\ \A word \in 0 .. 15, flag \in {0, 16} :
          ChipRows(WriteDataRev(word + flag, 4)) = {b \in 0 .. 3 : (word \div 2 ^ b) % 2 = 1}
    /\ \A a \in 0 .. 63 : ChipNumber(WriteData(a, 7)) = a
    /\ \A level \in 1 .. 16 :
          LET received == ChipNumber(WriteData(CmdPWM(level), 8))
          IN  received \div 16 = 10 /\ received % 16 = level - 1
=============================================================================
