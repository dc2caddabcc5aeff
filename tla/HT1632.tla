------------------------------- MODULE HT1632 -------------------------------
(***************************************************************************)
(* The driver of the matrix, src/ht1632/HT1632.cpp, and the chips it       *)
(* drives.  Words of four pixels are kept in a buffer per color (board)    *)
(* and a secondary one; a word that was drawn to is flagged, a buffer that *)
(* changed as a whole is marked, and render() sends what is flagged or     *)
(* marked.  Chips are selected through a shift register, and a chip        *)
(* advances its own address with every word it receives, so that render()  *)
(* opens a session only when it skips a word or comes to the next chip.    *)
(* Each word is a step, because noise on the pins may change what the      *)
(* chips hold at any moment.                                               *)
(***************************************************************************)
EXTENDS Integers, Pixels

CONSTANTS
    NumActiveChips,   \* 16 in the program
    ChipWords,        \* words of a color in a chip, 32
    NumColors,        \* boards, 2; they share the secondary buffer
    Bits,             \* the rows of a word, 0 .. 3
    Brightness,       \* the levels used, out of 1 .. 16
    Noise,            \* what noise may leave in chips and shift register
    MaxCalls          \* bound: calls of the driver

Chip == 1 .. NumActiveChips
Addr == 0 .. NumActiveChips * ChipWords - 1
Board == 0 .. NumColors - 1
Secondary == NumColors
Buffer == 0 .. NumColors
ChipAddr == 0 .. NumColors * ChipWords - 1
NoAddr == -1      \* the chip is not in a writing session
NoTarget == -1

Chips ==
    [ram : [Chip -> [ChipAddr -> SUBSET Bits]], selected : SUBSET Chip,
     ptr : [Chip -> Nat \cup {NoAddr}],
     led : [Chip -> {"on", "off"}], pwm : [Chip -> 1 .. 16]]

ASSUME HT1632Assumption ==
    /\ NumActiveChips \in Nat \ {0} /\ ChipWords \in Nat \ {0} /\ NumColors \in Nat \ {0}
    /\ Brightness \subseteq 1 .. 16 /\ 16 \in Brightness
    /\ Noise \subseteq Chips
    /\ MaxCalls \in Nat

VARIABLES
    mem,                    \* the words of each buffer
    flagged,                \* the addresses with MASK_NEEDS_REWRITING
    globalNeedsRewriting,   \* the buffers marked as a whole
    tgtBuffer,
    brightness,
    chips,
    job,          \* the call that is being rendered, or "none"
    saveTarget,
    pos,          \* i in render(): the next address
    nChipOpen,    \* the chip of the open session, or -1
    brightnessSave,
    calls,
    disturbed     \* history: noise since the chips were last initialized
vars == <<mem, flagged, globalNeedsRewriting, tgtBuffer, brightness, chips, job,
          saveTarget, pos, nChipOpen, brightnessSave, calls, disturbed>>
bufferVars == <<mem, flagged, globalNeedsRewriting>>
renderVars == <<job, saveTarget, pos, nChipOpen, brightnessSave>>

-----------------------------------------------------------------------------
(* The wires.                                                              *)

\* Clock pulses with the given level at the head of the shift register: every
\* chip's select line takes the level of the one before it.
OutputCLK_Pulses(selected, n, level) ==
    {c \in Chip : c - n \in selected \/ (level = "low" /\ c <= n)}

Deselected(selected) == OutputCLK_Pulses(selected, NumActiveChips, "high")

\* select(): 0 for no chip, i for chip i.
Selected(selected, mask) ==
    IF mask = 0 THEN Deselected(selected)
    ELSE OutputCLK_Pulses(OutputCLK_Pulses(Deselected(selected), 1, "low"), mask - 1, "high")

\* The pulses pass every chip, and end the session of the one that had one.
Select(ch, mask) ==
    [ch EXCEPT !.selected = Selected(ch.selected, mask), !.ptr = [c \in Chip |-> NoAddr]]

\* writeData of the id of a write and an address: the selected chips listen.
OpenSession(ch, address) ==
    [ch EXCEPT !.ptr = [c \in Chip |-> IF c \in ch.selected THEN address ELSE @[c]]]

\* writeDataRev of a word: the selected chips in a session store it, and step
\* on; what lies behind the last word of a chip is not shown.
WriteWord(ch, word) ==
    LET writes == {c \in ch.selected : ch.ptr[c] # NoAddr}
    IN  [ch EXCEPT
          !.ram = [c \in Chip |-> [a \in ChipAddr |->
                     IF c \in writes /\ ch.ptr[c] = a THEN word ELSE @[c][a]]],
          !.ptr = [c \in Chip |-> IF c \in writes THEN @[c] + 1 ELSE @[c]]]

\* A loop that selects the chips one by one, sends the selected ones commands
\* for the LEDs or the PWM duty ("same" and 0: none), and ends with none
\* selected.
CommandEach(ch, led, pwm) ==
    LET reached == {c \in Chip : \E i \in Chip : c \in Selected(ch.selected, i)}
    IN  [Select(ch, 0) EXCEPT
           !.led = [c \in Chip |-> IF c \in reached /\ led # "same" THEN led ELSE @[c]],
           !.pwm = [c \in Chip |-> IF c \in reached /\ pwm # 0 THEN pwm ELSE @[c]]]

-----------------------------------------------------------------------------
(* Rendering.                                                              *)

Init ==
    /\ mem = [b \in Buffer |-> [a \in Addr |-> {}]]
    /\ flagged = [b \in Buffer |-> {}]
    /\ globalNeedsRewriting = {}
    /\ tgtBuffer = NoTarget
    /\ brightness = 16
    /\ chips \in Noise
    /\ job = "none" /\ saveTarget = NoTarget /\ pos = 0 /\ nChipOpen = -1
    /\ brightnessSave = 16
    /\ calls = 0
    /\ disturbed = "yes"

\* render() of a board begins with no chip selected.
StartRender(ch, board) ==
    /\ tgtBuffer' = board
    /\ chips' = Select(ch, 0)
    /\ pos' = 0
    /\ nChipOpen' = -1

NeedsRewriting(a) == tgtBuffer \in globalNeedsRewriting \/ a \in flagged[tgtBuffer]

\* Fault: a session goes on into the next chip.
Opens_once(chip) == nChipOpen = -1
Opens(chip) == nChipOpen # chip

\* A word that needs rewriting: in the open session, or in a new one.
RenderWord ==
    /\ job # "none" /\ pos \in Addr /\ NeedsRewriting(pos)
    /\ LET chip == pos \div ChipWords + 1
           address == (pos % ChipWords) + tgtBuffer * ChipWords
           open == IF Opens(chip) THEN OpenSession(Select(chips, chip), address) ELSE chips
       IN  /\ nChipOpen' = IF Opens(chip) THEN chip ELSE nChipOpen
           /\ chips' = WriteWord(open, mem[tgtBuffer][pos])
    /\ pos' = pos + 1
    /\ UNCHANGED <<bufferVars, tgtBuffer, brightness, job, saveTarget, brightnessSave, calls, disturbed>>

\* Fault: the session is left open over a word that is skipped.
SkipWord_keepsSession ==
    /\ job # "none" /\ pos \in Addr /\ ~NeedsRewriting(pos)
    /\ pos' = pos + 1
    /\ UNCHANGED <<bufferVars, tgtBuffer, chips, nChipOpen, brightness, job, saveTarget,
                   brightnessSave, calls, disturbed>>

\* A word that is skipped closes the session.
SkipWord ==
    /\ job # "none" /\ pos \in Addr /\ ~NeedsRewriting(pos)
    /\ chips' = IF nChipOpen = -1 THEN chips ELSE Select(chips, 0)
    /\ nChipOpen' = -1
    /\ pos' = pos + 1
    /\ UNCHANGED <<bufferVars, tgtBuffer, brightness, job, saveTarget, brightnessSave, calls, disturbed>>

\* The end of the loop closes the session and takes the mark off the board.
Rendered == job # "none" /\ pos \notin Addr
Closed == IF nChipOpen = -1 THEN chips ELSE Select(chips, 0)
Unmarked == globalNeedsRewriting \ {tgtBuffer}
Returns(target, ch) ==
    /\ job' = "none" /\ pos' = 0 /\ nChipOpen' = -1
    /\ tgtBuffer' = target
    /\ chips' = ch

\* The end of render() itself, and of renderAll() and reinit(), which go on to
\* the next board and give the target back when render() declines the
\* secondary buffer.
RenderReturns ==
    /\ Rendered /\ job = "render"
    /\ globalNeedsRewriting' = Unmarked
    /\ Returns(tgtBuffer, Closed)
    /\ UNCHANGED <<mem, flagged, brightness, saveTarget, brightnessSave, calls, disturbed>>

RenderAllGoesOn ==
    /\ Rendered /\ job = "renderAll"
    /\ globalNeedsRewriting' = Unmarked
    /\ IF tgtBuffer + 1 < Secondary
       THEN StartRender(Closed, tgtBuffer + 1) /\ UNCHANGED job
       ELSE Returns(saveTarget, Closed)
    /\ UNCHANGED <<mem, flagged, brightness, saveTarget, brightnessSave, calls, disturbed>>

\* clear() of a buffer.
Cleared(b) ==
    /\ mem' = [mem EXCEPT ![b] = [a \in Addr |-> {}]]
    /\ flagged' = [flagged EXCEPT ![b] = {}]

\* begin() clears each buffer before it renders it, the secondary one too.
BeginGoesOn ==
    /\ Rendered /\ job = "begin"
    /\ Cleared(tgtBuffer + 1)
    /\ globalNeedsRewriting' = Unmarked \cup {tgtBuffer + 1}
    /\ IF tgtBuffer + 1 < Secondary
       THEN StartRender(Closed, tgtBuffer + 1) /\ UNCHANGED job
       ELSE Returns(0, Closed)
    /\ UNCHANGED <<brightness, saveTarget, brightnessSave, calls, disturbed>>

Swapped ==
    /\ mem' = [mem EXCEPT ![tgtBuffer] = mem[Secondary], ![Secondary] = mem[tgtBuffer]]
    /\ flagged' = [flagged EXCEPT ![tgtBuffer] = flagged[Secondary],
                                  ![Secondary] = flagged[tgtBuffer]]
    /\ globalNeedsRewriting' = globalNeedsRewriting \cup {tgtBuffer}

\* The two renders of a fade: between them the buffers are swapped, after
\* them the brightness comes back.
FadeSwaps ==
    /\ Rendered /\ job = "fadeOut"
    /\ Swapped
    /\ StartRender(Closed, tgtBuffer)
    /\ job' = "fadeIn"
    /\ UNCHANGED <<brightness, saveTarget, brightnessSave, calls, disturbed>>

FadeReturns ==
    /\ Rendered /\ job = "fadeIn"
    /\ globalNeedsRewriting' = Unmarked
    /\ brightness' = brightnessSave
    /\ Returns(tgtBuffer, CommandEach(Closed, "same", brightnessSave))
    /\ UNCHANGED <<mem, flagged, saveTarget, brightnessSave, calls, disturbed>>

-----------------------------------------------------------------------------
(* The calls.  All of them but noise come from the display thread.         *)

Call == job = "none" /\ calls < MaxCalls /\ calls' = calls + 1
Begun == tgtBuffer # NoTarget

\* initialize(): all chips are configured anew and every buffer is marked.
Initialize ==
    /\ disturbed' = "no"
    /\ globalNeedsRewriting' = Buffer

Begin ==
    /\ Call /\ ~Begun
    /\ Initialize
    /\ Cleared(0)
    /\ StartRender(CommandEach(chips, "on", brightness), 0)
    /\ job' = "begin"
    /\ UNCHANGED <<brightness, saveTarget, brightnessSave>>

Reinit ==
    /\ Call /\ Begun
    /\ Initialize
    /\ StartRender(CommandEach(chips, "on", brightness), 0)
    /\ job' = "renderAll" /\ saveTarget' = tgtBuffer
    /\ UNCHANGED <<mem, flagged, brightness, brightnessSave>>

RenderAll ==
    /\ Call /\ Begun
    /\ StartRender(chips, 0)
    /\ job' = "renderAll" /\ saveTarget' = tgtBuffer
    /\ UNCHANGED <<bufferVars, brightness, brightnessSave, disturbed>>

Render ==
    /\ Call /\ tgtBuffer \in Board
    /\ StartRender(chips, tgtBuffer)
    /\ job' = "render"
    /\ UNCHANGED <<bufferVars, brightness, saveTarget, brightnessSave, disturbed>>

Blank ==
    /\ Call /\ Begun
    /\ chips' = CommandEach(chips, "off", 0)
    /\ UNCHANGED <<bufferVars, tgtBuffer, brightness, renderVars, disturbed>>

\* Fault: the level goes to the chips, and the driver keeps the old one.
SetBrightness_notStored(level) ==
    /\ Call /\ Begun
    /\ chips' = CommandEach(chips, "same", level)
    /\ UNCHANGED <<bufferVars, brightness, tgtBuffer, renderVars, disturbed>>
SetBrightness(level) ==
    /\ Call /\ Begun
    /\ brightness' = level
    /\ chips' = CommandEach(chips, "same", level)
    /\ UNCHANGED <<bufferVars, tgtBuffer, renderVars, disturbed>>

\* Calls that change buffers only.
BufferCall == Call /\ Begun /\ UNCHANGED <<tgtBuffer, brightness, chips, renderVars, disturbed>>

DrawTarget(b) ==
    /\ Call /\ Begun
    /\ tgtBuffer' = b
    /\ UNCHANGED <<bufferVars, brightness, chips, renderVars, disturbed>>

\* setPixel() of a pixel on the screen: every other one is ignored.
SetPixel(a, bit, datum) ==
    /\ BufferCall
    /\ mem' = [mem EXCEPT ![tgtBuffer][a] = IF datum THEN @ \cup {bit} ELSE @ \ {bit}]
    /\ flagged' = [flagged EXCEPT ![tgtBuffer] = @ \cup {a}]
    /\ UNCHANGED globalNeedsRewriting

\* A word stored by drawImage().
DrawWord(a, word) ==
    /\ BufferCall
    /\ mem' = [mem EXCEPT ![tgtBuffer][a] = word]
    /\ flagged' = [flagged EXCEPT ![tgtBuffer] = @ \cup {a}]
    /\ UNCHANGED globalNeedsRewriting

Clear ==
    /\ BufferCall
    /\ Cleared(tgtBuffer)
    /\ globalNeedsRewriting' = globalNeedsRewriting \cup {tgtBuffer}

ClearAll ==
    /\ BufferCall
    /\ mem' = [b \in Buffer |-> [a \in Addr |-> {}]]
    /\ flagged' = [b \in Buffer |-> {}]
    /\ globalNeedsRewriting' = Buffer

\* transition() of a board.  The operations are on whole words, flag included.
TransitionSwap == BufferCall /\ tgtBuffer \in Board /\ Swapped

TransitionSave ==
    /\ BufferCall /\ tgtBuffer \in Board
    /\ mem' = [mem EXCEPT ![Secondary] = mem[tgtBuffer]]
    /\ flagged' = [flagged EXCEPT ![Secondary] = flagged[tgtBuffer]]
    /\ UNCHANGED globalNeedsRewriting

Xor(A, B) == (A \ B) \cup (B \ A)
TransitionSaveXor ==
    /\ BufferCall /\ tgtBuffer \in Board
    /\ mem' = [mem EXCEPT ![Secondary] = [a \in Addr |-> Xor(@[a], mem[tgtBuffer][a])]]
    /\ flagged' = [flagged EXCEPT ![Secondary] = Xor(@, flagged[tgtBuffer])]
    /\ UNCHANGED globalNeedsRewriting

TransitionRemovePixels ==
    /\ BufferCall /\ tgtBuffer \in Board
    /\ mem' = [mem EXCEPT ![Secondary] = [a \in Addr |-> @[a] \ mem[tgtBuffer][a]]]
    /\ flagged' = [flagged EXCEPT ![Secondary] = @ \ flagged[tgtBuffer]]
    /\ UNCHANGED globalNeedsRewriting

TransitionRestore ==
    /\ BufferCall /\ tgtBuffer \in Board
    /\ mem' = [mem EXCEPT ![tgtBuffer] = mem[Secondary]]
    /\ flagged' = [flagged EXCEPT ![tgtBuffer] = flagged[Secondary]]
    /\ globalNeedsRewriting' = globalNeedsRewriting \cup {tgtBuffer}

TransitionRestoreOr ==
    /\ BufferCall /\ tgtBuffer \in Board
    /\ mem' = [mem EXCEPT ![tgtBuffer] = [a \in Addr |-> @[a] \cup mem[Secondary][a]]]
    /\ flagged' = [flagged EXCEPT ![tgtBuffer] = @ \cup flagged[Secondary]]
    /\ globalNeedsRewriting' = globalNeedsRewriting \cup {tgtBuffer}

\* The fade goes down to the lowest level before it clears the board.
TransitionFade ==
    /\ Call /\ tgtBuffer \in Board
    /\ brightnessSave' = brightness /\ brightness' = 1
    /\ Cleared(tgtBuffer)
    /\ globalNeedsRewriting' = globalNeedsRewriting \cup {tgtBuffer}
    /\ StartRender(CommandEach(chips, "same", 1), tgtBuffer)
    /\ job' = "fadeOut"
    /\ UNCHANGED <<saveTarget, disturbed>>

\* External: noise on the pins, at any moment.
Glitch(state) ==
    /\ calls < MaxCalls /\ calls' = calls + 1
    /\ chips' = state
    /\ disturbed' = "yes"
    /\ UNCHANGED <<bufferVars, tgtBuffer, brightness, renderVars>>

Rendering ==
    RenderWord \/ SkipWord \/ RenderReturns \/ RenderAllGoesOn \/ BeginGoesOn
        \/ FadeSwaps \/ FadeReturns

Transition ==
    TransitionSwap \/ TransitionSave \/ TransitionSaveXor \/ TransitionRemovePixels
        \/ TransitionRestore \/ TransitionRestoreOr \/ TransitionFade

Next ==
    \/ Rendering \/ Transition
    \/ Begin \/ Reinit \/ RenderAll \/ Render \/ Blank \/ Clear \/ ClearAll
    \/ \E level \in Brightness : SetBrightness(level)
    \/ \E b \in Buffer : DrawTarget(b)
    \/ \E a \in Addr, bit \in Bits, datum \in BOOLEAN : SetPixel(a, bit, datum)
    \/ \E a \in Addr, word \in SUBSET Bits : DrawWord(a, word)
    \/ \E state \in Noise : Glitch(state)

Spec == Init /\ [][Next]_vars

-----------------------------------------------------------------------------
(* Properties.                                                             *)

\* The types of the state; what is rendered is a board, never the secondary buffer.
TypeOK ==
    /\ mem \in [Buffer -> [Addr -> SUBSET Bits]]
    /\ flagged \in [Buffer -> SUBSET Addr]
    /\ globalNeedsRewriting \subseteq Buffer
    /\ tgtBuffer \in Buffer \cup {NoTarget} /\ saveTarget \in Buffer \cup {NoTarget}
    /\ brightness \in 1 .. 16 /\ brightnessSave \in 1 .. 16
    /\ chips \in Chips
    /\ job \in {"none", "begin", "render", "renderAll", "fadeOut", "fadeIn"}
    /\ job # "none" => tgtBuffer \in Board
    /\ pos \in 0 .. NumActiveChips * ChipWords
    /\ nChipOpen \in Chip \cup {-1}
    /\ calls \in Nat
    /\ disturbed \in {"yes", "no"}

\* What the chips show at an address of a board.
Shown(b, a) == chips.ram[a \div ChipWords + 1][(a % ChipWords) + b * ChipWords]

\* A word the chips show otherwise than the buffer says is flagged, or its
\* board is marked: no drawing, clearing or transition, in whatever order, and
\* no render of the other board, lets render() leave an old pixel behind.
StaleWordsAreMarked ==
    disturbed = "no" => \A b \in Board, a \in Addr :
        Shown(b, a) # mem[b][a] => b \in globalNeedsRewriting \/ a \in flagged[b]

\* When render() is through the addresses, the chips show the board, however
\* its sessions were opened and closed on the way.
RenderShowsTheBuffer ==
    disturbed = "no" /\ Rendered =>
        \A a \in Addr : Shown(tgtBuffer, a) = mem[tgtBuffer][a]

\* While a session is open its chip alone is selected and expects the word
\* render() comes to next; between the sessions no chip listens.
ChipsAreSelectedAlone ==
    disturbed = "no" =>
        IF nChipOpen = -1 THEN chips.selected = {}
        ELSE /\ chips.selected = {nChipOpen}
             /\ chips.ptr[nChipOpen] =
                  pos - (nChipOpen - 1) * ChipWords + tgtBuffer * ChipWords

\* The chips have the brightness the driver remembers, also in and after a
\* fade, so that a refresh does not change it, and are lit or blanked together.
ChipsKeepTheBrightness ==
    disturbed = "no" =>
        \E led \in {"on", "off"} : \A c \in Chip :
            chips.pwm[c] = brightness /\ chips.led[c] = led

\* No old pixel stays: what is shown wrongly is marked at any time, and shown
\* rightly when a render is through.
NoOldPixelStays == StaleWordsAreMarked /\ RenderShowsTheBuffer

\* From the pixel to the pins: what is drawn has a place of its own in the memory,
\* is put there, and is what the chips are sent.  The functions have no state:
\* before the first call is as good as at any time.
ScreenShowsWhatIsDrawn ==
    calls = 0 =>
        /\ PixelsHaveTheirOwnBit /\ ImageIsCopiedToItsPlace
        /\ TextIsAsWideAsComputed /\ ChipsReceiveWhatIsMeant
=============================================================================
