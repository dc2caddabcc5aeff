---------------------------- MODULE HT1632Proofs ----------------------------
(***************************************************************************)
(* Safety of the driver of the matrix for any number of chips, of words in *)
(* a chip, of boards, of rows, of levels and of calls, and any noise.  The *)
(* functions of Pixels are proved right for screens of every width, texts  *)
(* of every length and images of every height, by induction over their     *)
(* characters and words.                                                   *)
(***************************************************************************)
EXTENDS HT1632, WellFoundedInduction, TLAPS

-----------------------------------------------------------------------------
(* Addresses.                                                              *)

LEMMA Scaled ==
    ASSUME NEW m \in Nat, NEW n \in Nat, NEW c \in Nat \ {0}
    PROVE  /\ m * c \in Nat /\ (m + 1) * c = m * c + c
           /\ m < n => m * c + c <= n * c
<1>1. m * c \in Nat /\ n * c \in Nat /\ (m + 1) * c = m * c + c
  OBVIOUS
<1>2. ASSUME m < n PROVE m * c + c <= n * c
  <2>1. n - (m + 1) \in Nat
    BY <1>2
  <2>2. (n - (m + 1)) * c >= 0
    BY <2>1
  <2>3. (n - (m + 1)) * c = n * c - (m + 1) * c
    OBVIOUS
  <2>. QED BY <1>1, <2>2, <2>3
<1>. QED BY <1>1, <1>2

LEMMA Division ==
    ASSUME NEW a \in Nat, NEW c \in Nat \ {0}
    PROVE  /\ a \div c \in Nat /\ a % c \in 0 .. c - 1
           /\ a = (a \div c) * c + (a % c)
<1>1. a \div c \in Int /\ a % c \in 0 .. c - 1
  OBVIOUS
<1>2. a = c * (a \div c) + (a % c)
  OBVIOUS
<1>3. a \div c >= 0
  OBVIOUS
<1>. QED BY <1>1, <1>2, <1>3

\* A quotient is determined by its multiple and a remainder.
LEMMA SameQuotient ==
    ASSUME NEW m \in Nat, NEW n \in Nat, NEW c \in Nat \ {0},
           NEW r \in 0 .. c - 1, NEW s \in 0 .. c - 1, m * c + r = n * c + s
    PROVE  m = n /\ r = s
<1>1. ~(m < n)
  BY Scaled
<1>2. ~(n < m)
  BY Scaled
<1>3. m = n
  BY <1>1, <1>2
<1>. QED BY <1>3

ChipOf(a) == a \div ChipWords + 1
AddrIn(b, a) == (a % ChipWords) + b * ChipWords

LEMMA AddressesAreInRange ==
    ASSUME NEW b \in Board, NEW a \in Addr
    PROVE  /\ ChipOf(a) \in Chip /\ AddrIn(b, a) \in ChipAddr /\ AddrIn(b, a) \in Nat
           /\ a % ChipWords \in 0 .. ChipWords - 1
           /\ a = (ChipOf(a) - 1) * ChipWords + (a % ChipWords)
<1> USE HT1632Assumption
<1> DEFINE q == a \div ChipWords
           r == a % ChipWords
<1>1. a \in Nat /\ b \in Nat /\ b < NumColors /\ a < NumActiveChips * ChipWords
  BY DEF Board, Addr
<1>2. q \in Nat /\ r \in 0 .. ChipWords - 1 /\ a = q * ChipWords + r
  BY <1>1, Division
<1> HIDE DEF q, r
<1>3. q * ChipWords \in Nat /\ q * ChipWords <= a
  BY <1>1, <1>2
<1>4. q < NumActiveChips
  <2>1. CASE NumActiveChips < q
    BY <1>1, <1>2, <1>3, <2>1, Scaled
  <2>2. CASE NumActiveChips = q
    BY <1>1, <1>3, <2>2
  <2>. QED BY <1>2, <2>1, <2>2
<1>5. b * ChipWords + ChipWords <= NumColors * ChipWords /\ b * ChipWords \in Nat
  BY <1>1, Scaled
<1>6. r + b * ChipWords \in 0 .. NumColors * ChipWords - 1
  BY <1>2, <1>5
<1>. QED BY <1>1, <1>2, <1>4, <1>6 DEF q, r, ChipOf, AddrIn, Chip, ChipAddr

\* No two words of the boards share a place.
LEMMA PlacesDiffer ==
    ASSUME NEW b \in Board, NEW d \in Board, NEW a \in Addr, NEW e \in Addr,
           ChipOf(a) = ChipOf(e), AddrIn(b, a) = AddrIn(d, e)
    PROVE  b = d /\ a = e
<1>1. b \in Nat /\ d \in Nat /\ a % ChipWords \in 0 .. ChipWords - 1
        /\ e % ChipWords \in 0 .. ChipWords - 1
  BY AddressesAreInRange DEF Board
<1>2. b * ChipWords + (a % ChipWords) = d * ChipWords + (e % ChipWords)
  BY HT1632Assumption, <1>1 DEF AddrIn
<1>3. b = d /\ a % ChipWords = e % ChipWords
  BY <1>1, <1>2, HT1632Assumption, SameQuotient
<1>. QED BY <1>3, AddressesAreInRange

-----------------------------------------------------------------------------
(* Chips.                                                                  *)

LEMMA ChipNumbers == NumActiveChips \in Nat /\ \A c \in Chip : c \in Nat /\ c >= 1 /\ c <= NumActiveChips
BY HT1632Assumption DEF Chip

LEMMA DeselectedIsNone == ASSUME NEW S \in SUBSET Chip PROVE Deselected(S) = {}
BY ChipNumbers DEF Deselected, OutputCLK_Pulses

LEMMA SelectedIsOne ==
    ASSUME NEW S \in SUBSET Chip, NEW i \in Chip
    PROVE  Selected(S, i) = {i}
<1>1. i \in Nat /\ i >= 1 /\ 1 \in Chip
  BY ChipNumbers, HT1632Assumption DEF Chip
<1>2. OutputCLK_Pulses({}, 1, "low") = {1}
  <2>1. \A c \in Chip : c <= 1 <=> c = 1
    BY ChipNumbers
  <2>. QED BY <1>1, <2>1 DEF OutputCLK_Pulses
<1>3. OutputCLK_Pulses({1}, i - 1, "high") = {i}
  <2>1. \A c \in Chip : c - (i - 1) = 1 <=> c = i
    BY <1>1, ChipNumbers
  <2>. QED BY <2>1 DEF OutputCLK_Pulses
<1>. QED BY <1>1, <1>2, <1>3, DeselectedIsNone DEF Selected

\* select() moves nothing but select lines and sessions.
LEMMA SelectNone ==
    ASSUME NEW ch \in Chips
    PROVE  /\ Select(ch, 0) \in Chips
           /\ Select(ch, 0).selected = {}
           /\ Select(ch, 0).ram = ch.ram /\ Select(ch, 0).led = ch.led /\ Select(ch, 0).pwm = ch.pwm
BY DeselectedIsNone DEF Select, Selected, Chips

LEMMA SelectChip ==
    ASSUME NEW ch \in Chips, NEW i \in Chip
    PROVE  /\ Select(ch, i) \in Chips
           /\ Select(ch, i).selected = {i}
           /\ Select(ch, i).ram = ch.ram /\ Select(ch, i).led = ch.led /\ Select(ch, i).pwm = ch.pwm
<1>1. Selected(ch.selected, i) = {i} /\ {i} \in SUBSET Chip
  BY SelectedIsOne DEF Chips
<1> DEFINE P == [c \in Chip |-> NoAddr]
           new == Select(ch, i)
<1>2. P \in [Chip -> Nat \cup {NoAddr}]
  OBVIOUS
<1>3. new = [ch EXCEPT !.selected = {i}, !.ptr = P]
  BY <1>1 DEF Select
<1> HIDE DEF P, new
<1>4. /\ new \in Chips /\ new.selected = {i}
      /\ new.ram = ch.ram /\ new.led = ch.led /\ new.pwm = ch.pwm
  BY <1>1, <1>2, <1>3 DEF Chips
<1>. QED BY <1>4 DEF new

LEMMA OpenedSession ==
    ASSUME NEW ch \in Chips, NEW i \in Chip, NEW address \in Nat
    PROVE  /\ OpenSession(Select(ch, i), address) \in Chips
           /\ OpenSession(Select(ch, i), address).selected = {i}
           /\ OpenSession(Select(ch, i), address).ptr[i] = address
           /\ OpenSession(Select(ch, i), address).ram = ch.ram
           /\ OpenSession(Select(ch, i), address).led = ch.led
           /\ OpenSession(Select(ch, i), address).pwm = ch.pwm
<1> DEFINE se == Select(ch, i)
<1>1. /\ se \in Chips /\ se.selected = {i}
      /\ se.ram = ch.ram /\ se.led = ch.led /\ se.pwm = ch.pwm
  BY SelectChip
<1> HIDE DEF se
<1>2. /\ OpenSession(se, address) \in Chips
      /\ OpenSession(se, address).selected = {i}
      /\ OpenSession(se, address).ptr[i] = address
      /\ OpenSession(se, address).ram = se.ram
      /\ OpenSession(se, address).led = se.led
      /\ OpenSession(se, address).pwm = se.pwm
  BY <1>1 DEF OpenSession, Chips
<1>. QED BY <1>1, <1>2 DEF se

\* A word goes where the one selected chip expects it.
LEMMA WordWritten ==
    ASSUME NEW ch \in Chips, NEW word \in SUBSET Bits
    PROVE  /\ WriteWord(ch, word) \in Chips
           /\ WriteWord(ch, word).selected = ch.selected
           /\ WriteWord(ch, word).led = ch.led /\ WriteWord(ch, word).pwm = ch.pwm
           /\ \A i \in Chip : ch.selected = {i} /\ ch.ptr[i] \in Nat =>
                 /\ WriteWord(ch, word).ptr[i] = ch.ptr[i] + 1
                 /\ \A c \in Chip, a \in ChipAddr :
                      WriteWord(ch, word).ram[c][a] =
                        IF c = i /\ a = ch.ptr[i] THEN word ELSE ch.ram[c][a]
<1> DEFINE w == WriteWord(ch, word)
           writes == {c \in ch.selected : ch.ptr[c] # NoAddr}
           R == [c \in Chip |-> [a \in ChipAddr |->
                     IF c \in writes /\ ch.ptr[c] = a THEN word ELSE ch.ram[c][a]]]
           P == [c \in Chip |-> IF c \in writes THEN ch.ptr[c] + 1 ELSE ch.ptr[c]]
<1>1. /\ ch.ram \in [Chip -> [ChipAddr -> SUBSET Bits]] /\ ch.selected \subseteq Chip
      /\ ch.ptr \in [Chip -> Nat \cup {NoAddr}]
  BY DEF Chips
<1>2. w = [ch EXCEPT !.ram = R, !.ptr = P]
  BY DEF WriteWord
<1>3. \A c \in writes : c \in Chip /\ ch.ptr[c] \in Nat
  BY <1>1
<1>4. R \in [Chip -> [ChipAddr -> SUBSET Bits]]
  BY <1>1
<1>5. P \in [Chip -> Nat \cup {NoAddr}]
  BY <1>1, <1>3
<1> HIDE DEF w, R, P
<1>7. /\ w \in Chips /\ w.ram = R /\ w.ptr = P
      /\ w.selected = ch.selected /\ w.led = ch.led /\ w.pwm = ch.pwm
  BY <1>2, <1>4, <1>5 DEF Chips
<1>8. ASSUME NEW i \in Chip, ch.selected = {i}, ch.ptr[i] \in Nat
      PROVE  /\ w.ptr[i] = ch.ptr[i] + 1
             /\ \A c \in Chip, a \in ChipAddr :
                  w.ram[c][a] = IF c = i /\ a = ch.ptr[i] THEN word ELSE ch.ram[c][a]
  <2>1. writes = {i}
    BY <1>8 DEF NoAddr
  <2>. QED BY <1>7, <2>1 DEF R, P
<1>. QED BY <1>7, <1>8 DEF w

\* Commands reach every chip, and leave none selected.
LEMMA Commanded ==
    ASSUME NEW ch \in Chips, NEW led \in {"on", "off", "same"}, NEW pwm \in 0 .. 16
    PROVE  /\ CommandEach(ch, led, pwm) \in Chips
           /\ CommandEach(ch, led, pwm).selected = {}
           /\ CommandEach(ch, led, pwm).ram = ch.ram
           /\ \A c \in Chip :
                /\ CommandEach(ch, led, pwm).led[c] = IF led = "same" THEN ch.led[c] ELSE led
                /\ CommandEach(ch, led, pwm).pwm[c] = IF pwm = 0 THEN ch.pwm[c] ELSE pwm
<1> DEFINE se == Select(ch, 0)
           reached == {c \in Chip : \E i \in Chip : c \in Selected(ch.selected, i)}
           out == CommandEach(ch, led, pwm)
<1>1. /\ se \in Chips /\ se.selected = {}
      /\ se.ram = ch.ram /\ se.led = ch.led /\ se.pwm = ch.pwm
  BY SelectNone
<1>2. reached = Chip
  <2>1. ch.selected \in SUBSET Chip
    BY DEF Chips
  <2>. QED BY <2>1, SelectedIsOne
<1> DEFINE L == [c \in Chip |-> IF c \in reached /\ led # "same" THEN led ELSE se.led[c]]
           P == [c \in Chip |-> IF c \in reached /\ pwm # 0 THEN pwm ELSE se.pwm[c]]
<1>3. out = [se EXCEPT !.led = L, !.pwm = P]
  BY DEF CommandEach
<1> HIDE DEF se, reached, out
<1>4. se.led \in [Chip -> {"on", "off"}] /\ se.pwm \in [Chip -> 1 .. 16]
  BY <1>1 DEF Chips
<1>5. L \in [Chip -> {"on", "off"}] /\ P \in [Chip -> 1 .. 16]
  BY <1>2, <1>4
<1> HIDE DEF L, P
<1>7. /\ out \in Chips /\ out.led = L /\ out.pwm = P
      /\ out.ram = se.ram /\ out.selected = se.selected
  BY <1>1, <1>3, <1>5 DEF Chips
<1>8. \A c \in Chip : /\ out.led[c] = IF led = "same" THEN ch.led[c] ELSE led
                      /\ out.pwm[c] = IF pwm = 0 THEN ch.pwm[c] ELSE pwm
  BY <1>1, <1>2, <1>7 DEF L, P
<1>. QED BY <1>1, <1>7, <1>8 DEF out

-----------------------------------------------------------------------------
(* The inductive invariant.                                                *)

\* A session is open only while a board is rendered, for the chip the last
\* word was in.
SessionIsCurrent ==
    /\ job = "none" => nChipOpen = -1
    /\ nChipOpen # -1 => /\ (nChipOpen - 1) * ChipWords < pos
                         /\ pos <= (nChipOpen - 1) * ChipWords + ChipWords

\* The words render() is past show what the buffer says.
PastWordsAreShown ==
    disturbed = "no" /\ job # "none" =>
        \A a \in Addr : a < pos => Shown(tgtBuffer, a) = mem[tgtBuffer][a]

IInv ==
    /\ TypeOK /\ SessionIsCurrent /\ ChipsAreSelectedAlone
    /\ StaleWordsAreMarked /\ PastWordsAreShown /\ ChipsKeepTheBrightness

LEMMA BoardsAreBuffers ==
    /\ Board \subseteq Buffer /\ Secondary \in Buffer /\ Secondary \notin Board
    /\ NoTarget \notin Buffer /\ 0 \in Board
    /\ \A b \in Board : b + 1 \in Buffer /\ (b + 1 < Secondary => b + 1 \in Board)
BY HT1632Assumption DEF Board, Buffer, Secondary, NoTarget

LEMMA AddressBounds == \A a \in Addr : a \in Nat /\ a < NumActiveChips * ChipWords
BY HT1632Assumption, Scaled DEF Addr

LEMMA PositionsAreNat ==
    /\ NumActiveChips * ChipWords \in Nat
    /\ TypeOK => pos \in Nat /\ (pos \notin Addr => pos = NumActiveChips * ChipWords)
<1>1. NumActiveChips * ChipWords \in Nat
  BY HT1632Assumption, Scaled
<1>2. TypeOK => pos \in 0 .. NumActiveChips * ChipWords
  BY DEF TypeOK
<1> DEFINE z == NumActiveChips * ChipWords
<1>3. z \in Nat /\ (TypeOK => pos \in 0 .. z) /\ Addr = 0 .. z - 1
  BY <1>1, <1>2 DEF Addr
<1> HIDE DEF z
<1>4. z \in Nat /\ (TypeOK => pos \in Nat /\ (pos \notin Addr => pos = z))
  BY <1>3
<1>. QED BY <1>4 DEF z

LEMMA ShownDependsOnRam ==
    chips'.ram = chips.ram => \A b, a : Shown(b, a)' = Shown(b, a)
BY DEF Shown

LEMMA InitIsGood == Init => IInv
<1>1. SUFFICES ASSUME Init PROVE IInv
  OBVIOUS
<1>2. TypeOK
  BY <1>1, HT1632Assumption, PositionsAreNat DEF Init, TypeOK, NoTarget
<1>. QED BY <1>1, <1>2 DEF Init, IInv, SessionIsCurrent, ChipsAreSelectedAlone,
              StaleWordsAreMarked, PastWordsAreShown, ChipsKeepTheBrightness

\* What closing a session leaves as it was.
LEMMA ClosedChips ==
    ASSUME IInv
    PROVE  /\ Closed \in Chips /\ Closed.ram = chips.ram
           /\ Closed.led = chips.led /\ Closed.pwm = chips.pwm
           /\ disturbed = "no" => Closed.selected = {}
BY SelectNone DEF IInv, TypeOK, ChipsAreSelectedAlone, Closed

\* A render begins.
LEMMA StartsClean ==
    ASSUME NEW ch \in Chips, NEW b \in Board, StartRender(ch, b), job' # "none"
    PROVE  /\ SessionIsCurrent' /\ ChipsAreSelectedAlone' /\ PastWordsAreShown'
           /\ chips' \in Chips /\ chips'.ram = ch.ram
           /\ chips'.led = ch.led /\ chips'.pwm = ch.pwm
           /\ tgtBuffer' = b /\ pos' = 0 /\ nChipOpen' = -1
<1>1. /\ tgtBuffer' = b /\ pos' = 0 /\ nChipOpen' = -1 /\ chips' = Select(ch, 0)
  BY DEF StartRender
<1>2. SessionIsCurrent'
  BY <1>1 DEF SessionIsCurrent
<1>3. ChipsAreSelectedAlone'
  BY <1>1, SelectNone DEF ChipsAreSelectedAlone
<1>4. PastWordsAreShown'
  BY <1>1, AddressBounds DEF PastWordsAreShown
<1>. QED BY <1>1, <1>2, <1>3, <1>4, SelectNone

\* A call ends with no session open.
LEMMA ReturnsClean ==
    ASSUME NEW ch \in Chips, NEW target \in Buffer \cup {NoTarget}, Returns(target, ch),
           disturbed' = "no" => ch.selected = {}
    PROVE  SessionIsCurrent' /\ ChipsAreSelectedAlone' /\ PastWordsAreShown'
BY DEF Returns, SessionIsCurrent, ChipsAreSelectedAlone, PastWordsAreShown

-----------------------------------------------------------------------------
(* Rendering.                                                              *)

\* The whole of RenderWord: the word at pos is stored in its place.
LEMMA WordIsStored ==
    ASSUME IInv, RenderWord
    PROVE  /\ chips' \in Chips /\ nChipOpen' = ChipOf(pos)
           /\ chips'.led = chips.led /\ chips'.pwm = chips.pwm
           /\ disturbed = "no" =>
                /\ chips'.selected = {ChipOf(pos)}
                /\ chips'.ptr[ChipOf(pos)] = AddrIn(tgtBuffer, pos) + 1
                /\ \A c \in Chip, x \in ChipAddr :
                     chips'.ram[c][x] = IF c = ChipOf(pos) /\ x = AddrIn(tgtBuffer, pos)
                                        THEN mem[tgtBuffer][pos] ELSE chips.ram[c][x]
<1> DEFINE chip == ChipOf(pos)
           address == AddrIn(tgtBuffer, pos)
           open == IF Opens(chip) THEN OpenSession(Select(chips, chip), address) ELSE chips
           word == mem[tgtBuffer][pos]
<1>1. pos \in Addr /\ job # "none" /\ tgtBuffer \in Board /\ chips \in Chips
        /\ word \in SUBSET Bits
  BY BoardsAreBuffers DEF RenderWord, IInv, TypeOK
<1>2. chip \in Chip /\ address \in Nat /\ pos = (chip - 1) * ChipWords + (pos % ChipWords)
        /\ pos % ChipWords \in 0 .. ChipWords - 1
  BY <1>1, AddressesAreInRange
<1>3. nChipOpen' = chip /\ chips' = WriteWord(open, word)
  BY DEF RenderWord, ChipOf, AddrIn, Opens
<1>4. open \in Chips /\ open.led = chips.led /\ open.pwm = chips.pwm /\ open.ram = chips.ram
  BY <1>1, <1>2, OpenedSession
<1>5. disturbed = "no" => open.selected = {chip} /\ open.ptr[chip] = address
  <2>1. CASE Opens(chip)
    BY <1>1, <1>2, <2>1, OpenedSession
  <2>2. CASE ~Opens(chip)
    <3>1. nChipOpen = chip /\ chip # -1
      BY <1>2, <2>2, ChipNumbers DEF Opens
    <3>2. disturbed = "no" =>
            /\ chips.selected = {chip}
            /\ chips.ptr[chip] = pos - (chip - 1) * ChipWords + tgtBuffer * ChipWords
      BY <3>1 DEF IInv, ChipsAreSelectedAlone
    <3>3. pos - (chip - 1) * ChipWords + tgtBuffer * ChipWords = address
      <4> DEFINE z == (chip - 1) * ChipWords
      <4>1. z \in Int /\ tgtBuffer * ChipWords \in Int /\ pos \in Int
        BY <1>1, <1>2, HT1632Assumption, ChipNumbers DEF Addr, Board
      <4>2. pos = z + (pos % ChipWords)
        BY <1>2
      <4> HIDE DEF z
      <4>3. pos - z + tgtBuffer * ChipWords = (pos % ChipWords) + tgtBuffer * ChipWords
        BY <1>2, <4>1, <4>2
      <4>. QED BY <4>3 DEF z, AddrIn
    <3>. QED BY <2>2, <3>2, <3>3
  <2>. QED BY <2>1, <2>2
<1> HIDE DEF open, word, chip, address
<1>6. chips' \in Chips /\ chips'.led = chips.led /\ chips'.pwm = chips.pwm
  BY <1>1, <1>3, <1>4, WordWritten
<1>7. disturbed = "no" =>
        /\ chips'.selected = {chip}
        /\ chips'.ptr[chip] = address + 1
        /\ \A c \in Chip, x \in ChipAddr :
             chips'.ram[c][x] = IF c = chip /\ x = address THEN word ELSE chips.ram[c][x]
  BY <1>1, <1>2, <1>3, <1>4, <1>5, WordWritten
<1>. QED BY <1>3, <1>6, <1>7 DEF chip, address, word

LEMMA RenderWordStep == ASSUME IInv, RenderWord PROVE IInv'
<1>1. pos \in Addr /\ job # "none" /\ tgtBuffer \in Board /\ pos' = pos + 1
  BY DEF RenderWord, IInv, TypeOK
<1>2. UNCHANGED <<mem, flagged, globalNeedsRewriting, tgtBuffer, brightness, job, saveTarget,
                  brightnessSave, calls, disturbed>>
  BY DEF RenderWord, bufferVars
<1>3. /\ ChipOf(pos) \in Chip /\ ChipOf(pos) # -1
      /\ pos = (ChipOf(pos) - 1) * ChipWords + (pos % ChipWords)
      /\ pos % ChipWords \in 0 .. ChipWords - 1 /\ AddrIn(tgtBuffer, pos) \in Nat
      /\ (ChipOf(pos) - 1) * ChipWords \in Nat
  BY <1>1, AddressesAreInRange, ChipNumbers, HT1632Assumption, Scaled
<1>4. TypeOK'
  <2>1. pos' \in 0 .. NumActiveChips * ChipWords
    BY <1>1, AddressBounds, PositionsAreNat
  <2>. QED BY <1>1, <1>2, <1>3, <2>1, WordIsStored DEF IInv, TypeOK
<1>5. SessionIsCurrent'
  <2>1. (ChipOf(pos) - 1) * ChipWords < pos + 1
          /\ pos + 1 <= (ChipOf(pos) - 1) * ChipWords + ChipWords
    <3> DEFINE z == (ChipOf(pos) - 1) * ChipWords
    <3>1. z \in Nat /\ pos = z + (pos % ChipWords) /\ ChipWords \in Nat
      BY <1>3, HT1632Assumption
    <3> HIDE DEF z
    <3>2. z < pos + 1 /\ pos + 1 <= z + ChipWords
      BY <1>3, <3>1
    <3>. QED BY <3>2 DEF z
  <2>. QED BY <1>1, <1>2, <2>1, WordIsStored DEF SessionIsCurrent
<1>6. ChipsAreSelectedAlone'
  <2>1. pos + 1 - (ChipOf(pos) - 1) * ChipWords + tgtBuffer * ChipWords = AddrIn(tgtBuffer, pos) + 1
    <3> DEFINE z == (ChipOf(pos) - 1) * ChipWords
    <3>1. z \in Nat /\ pos = z + (pos % ChipWords) /\ tgtBuffer * ChipWords \in Int
      BY <1>1, <1>3, HT1632Assumption DEF Board
    <3> HIDE DEF z
    <3>2. pos + 1 - z + tgtBuffer * ChipWords = ((pos % ChipWords) + tgtBuffer * ChipWords) + 1
      BY <1>3, <3>1
    <3>. QED BY <3>2 DEF z, AddrIn
  <2>2. disturbed = "no" =>
          /\ nChipOpen' # -1 /\ chips'.selected = {nChipOpen'}
          /\ chips'.ptr[nChipOpen'] = pos' - (nChipOpen' - 1) * ChipWords + tgtBuffer' * ChipWords
    BY <1>1, <1>2, <1>3, <2>1, WordIsStored
  <2>. QED BY <1>2, <2>2 DEF ChipsAreSelectedAlone
<1>7. ASSUME disturbed = "no", NEW b \in Board, NEW a \in Addr
      PROVE  Shown(b, a)' = IF b = tgtBuffer /\ a = pos THEN mem[tgtBuffer][pos] ELSE Shown(b, a)
  <2>1. ChipOf(a) \in Chip /\ AddrIn(b, a) \in ChipAddr
    BY AddressesAreInRange
  <2>2. Shown(b, a) = chips.ram[ChipOf(a)][AddrIn(b, a)]
          /\ Shown(b, a)' = chips'.ram[ChipOf(a)][AddrIn(b, a)]
    BY DEF Shown, ChipOf, AddrIn
  <2>3. ChipOf(a) = ChipOf(pos) /\ AddrIn(b, a) = AddrIn(tgtBuffer, pos)
          <=> b = tgtBuffer /\ a = pos
    BY <1>1, PlacesDiffer
  <2>. QED BY <1>7, <2>1, <2>2, <2>3, WordIsStored
<1>8. StaleWordsAreMarked'
  BY <1>1, <1>2, <1>7 DEF IInv, StaleWordsAreMarked
<1>9. PastWordsAreShown'
  <2>1. \A a \in Addr : a < pos + 1 => a < pos \/ a = pos
    BY <1>1, AddressBounds
  <2>. QED BY <1>1, <1>2, <1>7, <2>1 DEF IInv, PastWordsAreShown
<1>10. ChipsKeepTheBrightness'
  BY <1>2, WordIsStored DEF IInv, ChipsKeepTheBrightness
<1>. QED BY <1>4, <1>5, <1>6, <1>8, <1>9, <1>10 DEF IInv

LEMMA SkipWordStep == ASSUME IInv, SkipWord PROVE IInv'
<1>1. pos \in Addr /\ job # "none" /\ tgtBuffer \in Board /\ pos' = pos + 1 /\ nChipOpen' = -1
        /\ ~NeedsRewriting(pos) /\ chips' = Closed
  BY DEF SkipWord, IInv, TypeOK, Closed
<1>2. UNCHANGED <<mem, flagged, globalNeedsRewriting, tgtBuffer, brightness, job, saveTarget,
                  brightnessSave, calls, disturbed>>
  BY DEF SkipWord, bufferVars
<1>3. TypeOK'
  <2>1. pos' \in 0 .. NumActiveChips * ChipWords
    BY <1>1, AddressBounds, PositionsAreNat
  <2>. QED BY <1>1, <1>2, <2>1, ClosedChips DEF IInv, TypeOK
<1>4. SessionIsCurrent' /\ ChipsAreSelectedAlone'
  BY <1>1, <1>2, ClosedChips DEF SessionIsCurrent, ChipsAreSelectedAlone
<1>5. \A b, a : Shown(b, a)' = Shown(b, a)
  BY <1>1, ClosedChips, ShownDependsOnRam
<1>6. StaleWordsAreMarked'
  BY <1>2, <1>5 DEF IInv, StaleWordsAreMarked
<1>7. disturbed = "no" => Shown(tgtBuffer, pos) = mem[tgtBuffer][pos]
  BY <1>1 DEF IInv, StaleWordsAreMarked, NeedsRewriting
<1>8. PastWordsAreShown'
  <2>1. \A a \in Addr : a < pos + 1 => a < pos \/ a = pos
    BY <1>1, AddressBounds
  <2>. QED BY <1>1, <1>2, <1>5, <1>7, <2>1 DEF IInv, PastWordsAreShown
<1>9. ChipsKeepTheBrightness'
  BY <1>1, <1>2, ClosedChips DEF IInv, ChipsKeepTheBrightness
<1>. QED BY <1>3, <1>4, <1>6, <1>8, <1>9 DEF IInv

\* A board keeps its marks as long as it is marked, or nothing about it
\* changes but that its mark goes when all of it is shown.
LEMMA MarksAreKept ==
    ASSUME IInv, chips'.ram = chips.ram,
           \A b \in Board :
              \/ b \in globalNeedsRewriting'
              \/ /\ disturbed' = "no" => disturbed = "no"
                 /\ mem'[b] = mem[b] /\ flagged[b] \subseteq flagged'[b]
                 /\ disturbed = "no" =>
                      b \notin globalNeedsRewriting \/ \A a \in Addr : Shown(b, a) = mem[b][a]
    PROVE  StaleWordsAreMarked'
<1>1. \A b, a : Shown(b, a)' = Shown(b, a)
  BY ShownDependsOnRam
<1>. QED BY <1>1 DEF IInv, StaleWordsAreMarked

LEMMA LevelsAreKept ==
    ASSUME IInv, chips'.led = chips.led, chips'.pwm = chips.pwm,
           UNCHANGED <<brightness, disturbed>>
    PROVE  ChipsKeepTheBrightness'
BY DEF IInv, ChipsKeepTheBrightness

LEMMA RenderedIsShown ==
    ASSUME IInv, Rendered
    PROVE  /\ tgtBuffer \in Board
           /\ disturbed = "no" => \A a \in Addr : Shown(tgtBuffer, a) = mem[tgtBuffer][a]
<1>1. tgtBuffer \in Board /\ job # "none" /\ \A a \in Addr : a < pos
  BY AddressBounds, PositionsAreNat DEF IInv, TypeOK, Rendered
<1>. QED BY <1>1 DEF IInv, PastWordsAreShown

LEMMA ReturnSteps == ASSUME IInv, RenderReturns \/ FadeReturns PROVE IInv'
<1>1. /\ Rendered /\ job' = "none" /\ pos' = 0 /\ nChipOpen' = -1
      /\ globalNeedsRewriting' = globalNeedsRewriting \ {tgtBuffer}
      /\ UNCHANGED <<mem, flagged, saveTarget, brightnessSave, calls, disturbed, tgtBuffer>>
  BY DEF RenderReturns, FadeReturns, Returns, Unmarked
<1>2. brightnessSave \in 1 .. 16 /\ brightnessSave \in 0 .. 16 /\ brightnessSave # 0
  BY DEF IInv, TypeOK
<1>3. /\ chips' \in Chips /\ chips'.ram = chips.ram
      /\ disturbed = "no" => chips'.selected = {}
      /\ brightness' \in 1 .. 16 /\ ChipsKeepTheBrightness'
  <2>1. CASE RenderReturns
    <3>1. chips' = Closed /\ UNCHANGED <<brightness, disturbed>>
      BY <2>1 DEF RenderReturns, Returns
    <3>. QED BY <3>1, ClosedChips, LevelsAreKept DEF IInv, TypeOK
  <2>2. CASE FadeReturns
    <3>1. /\ chips' = CommandEach(Closed, "same", brightnessSave)
          /\ brightness' = brightnessSave /\ disturbed' = disturbed
      BY <2>2 DEF FadeReturns, Returns
    <3>2. /\ chips' \in Chips /\ chips'.ram = chips.ram /\ chips'.selected = {}
          /\ \A c \in Chip : chips'.led[c] = chips.led[c] /\ chips'.pwm[c] = brightnessSave
      <4>1. Closed \in Chips /\ "same" \in {"on", "off", "same"}
        BY ClosedChips
      <4>2. /\ chips' \in Chips /\ chips'.ram = Closed.ram /\ chips'.selected = {}
            /\ \A c \in Chip : chips'.led[c] = Closed.led[c] /\ chips'.pwm[c] = brightnessSave
        BY SMTT(30), <1>2, <3>1, <4>1, Commanded
      <4>. QED BY <4>2, ClosedChips
    <3>3. ChipsKeepTheBrightness'
      BY <3>1, <3>2 DEF IInv, ChipsKeepTheBrightness
    <3>. QED BY <1>2, <3>1, <3>2, <3>3
  <2>. QED BY <2>1, <2>2
<1>4. TypeOK'
  BY <1>1, <1>3, PositionsAreNat DEF IInv, TypeOK
<1>5. SessionIsCurrent' /\ ChipsAreSelectedAlone' /\ PastWordsAreShown'
  BY <1>1, <1>3 DEF SessionIsCurrent, ChipsAreSelectedAlone, PastWordsAreShown
<1>6. StaleWordsAreMarked'
  BY <1>1, <1>3, RenderedIsShown, MarksAreKept
<1>. QED BY <1>3, <1>4, <1>5, <1>6 DEF IInv

LEMMA GoesOnStep == ASSUME IInv, RenderAllGoesOn PROVE IInv'
<1>1. /\ Rendered /\ globalNeedsRewriting' = globalNeedsRewriting \ {tgtBuffer}
      /\ UNCHANGED <<mem, flagged, brightness, saveTarget, brightnessSave, calls, disturbed>>
      /\ job = "renderAll" /\ tgtBuffer \in Board
  BY RenderedIsShown DEF RenderAllGoesOn, Unmarked
<1>2. /\ chips' \in Chips /\ chips'.ram = chips.ram
      /\ chips'.led = chips.led /\ chips'.pwm = chips.pwm
      /\ SessionIsCurrent' /\ ChipsAreSelectedAlone' /\ PastWordsAreShown'
      /\ pos' = 0 /\ nChipOpen' = -1 /\ tgtBuffer' \in Buffer \cup {NoTarget}
      /\ job' \in {"none", "renderAll"} /\ (job' # "none" => tgtBuffer' \in Board)
  <2>1. CASE tgtBuffer + 1 < Secondary
    <3>1. StartRender(Closed, tgtBuffer + 1) /\ job' = job /\ tgtBuffer + 1 \in Board
      BY <1>1, <2>1, BoardsAreBuffers DEF RenderAllGoesOn
    <3>. QED BY <1>1, <3>1, ClosedChips, StartsClean, BoardsAreBuffers
  <2>2. CASE ~(tgtBuffer + 1 < Secondary)
    <3>1. Returns(saveTarget, Closed)
      BY <2>2 DEF RenderAllGoesOn
    <3>2. chips' = Closed /\ pos' = 0 /\ nChipOpen' = -1 /\ tgtBuffer' = saveTarget /\ job' = "none"
      BY <3>1 DEF Returns
    <3>3. saveTarget \in Buffer \cup {NoTarget}
      BY DEF IInv, TypeOK
    <3>. QED BY <1>1, <3>1, <3>2, <3>3, ClosedChips, ReturnsClean
  <2>. QED BY <2>1, <2>2
<1>3. TypeOK'
  BY <1>1, <1>2, PositionsAreNat DEF IInv, TypeOK
<1>4. StaleWordsAreMarked'
  BY <1>1, <1>2, RenderedIsShown, MarksAreKept
<1>. QED BY <1>1, <1>2, <1>3, <1>4, LevelsAreKept DEF IInv

LEMMA ClearedBuffers ==
    ASSUME TypeOK, NEW b \in Buffer, Cleared(b)
    PROVE  /\ mem' \in [Buffer -> [Addr -> SUBSET Bits]] /\ flagged' \in [Buffer -> SUBSET Addr]
           /\ \A d \in Buffer : d # b => mem'[d] = mem[d] /\ flagged'[d] = flagged[d]
BY DEF TypeOK, Cleared

LEMMA BeginGoesOnStep == ASSUME IInv, BeginGoesOn PROVE IInv'
<1> DEFINE next == tgtBuffer + 1
<1>1. /\ Rendered /\ globalNeedsRewriting' = (globalNeedsRewriting \ {tgtBuffer}) \cup {next}
      /\ Cleared(next) /\ tgtBuffer \in Board /\ next \in Buffer
      /\ UNCHANGED <<brightness, saveTarget, brightnessSave, calls, disturbed>>
      /\ job = "begin"
  BY RenderedIsShown, BoardsAreBuffers DEF BeginGoesOn, Unmarked
<1>2. /\ mem' \in [Buffer -> [Addr -> SUBSET Bits]] /\ flagged' \in [Buffer -> SUBSET Addr]
      /\ \A d \in Buffer : d # next => mem'[d] = mem[d] /\ flagged'[d] = flagged[d]
  BY <1>1, ClearedBuffers DEF IInv
<1>3. /\ chips' \in Chips /\ chips'.ram = chips.ram
      /\ chips'.led = chips.led /\ chips'.pwm = chips.pwm
      /\ SessionIsCurrent' /\ ChipsAreSelectedAlone' /\ PastWordsAreShown'
      /\ pos' = 0 /\ nChipOpen' = -1 /\ tgtBuffer' \in Buffer
      /\ job' \in {"none", "begin"} /\ (job' # "none" => tgtBuffer' \in Board)
  <2>1. CASE next < Secondary
    <3>1. StartRender(Closed, next) /\ job' = job /\ next \in Board
      BY <1>1, <2>1, BoardsAreBuffers DEF BeginGoesOn
    <3>. QED BY <1>1, <3>1, ClosedChips, StartsClean, BoardsAreBuffers
  <2>2. CASE ~(next < Secondary)
    <3>1. Returns(0, Closed)
      BY <2>2 DEF BeginGoesOn
    <3>2. chips' = Closed /\ pos' = 0 /\ nChipOpen' = -1 /\ tgtBuffer' = 0 /\ job' = "none"
      BY <3>1 DEF Returns
    <3>. QED BY <1>1, <3>1, <3>2, BoardsAreBuffers, ClosedChips, ReturnsClean
  <2>. QED BY <2>1, <2>2
<1>4. TypeOK'
  BY <1>1, <1>2, <1>3, PositionsAreNat DEF IInv, TypeOK
<1>5. StaleWordsAreMarked'
  BY <1>1, <1>2, <1>3, RenderedIsShown, MarksAreKept, BoardsAreBuffers
<1>. QED BY <1>1, <1>3, <1>4, <1>5, LevelsAreKept DEF IInv

LEMMA SwappedBuffers ==
    ASSUME TypeOK, tgtBuffer \in Board, Swapped
    PROVE  /\ mem' \in [Buffer -> [Addr -> SUBSET Bits]] /\ flagged' \in [Buffer -> SUBSET Addr]
           /\ globalNeedsRewriting' = globalNeedsRewriting \cup {tgtBuffer}
           /\ \A d \in Board : d # tgtBuffer => mem'[d] = mem[d] /\ flagged'[d] = flagged[d]
BY BoardsAreBuffers DEF TypeOK, Swapped

LEMMA FadeSwapsStep == ASSUME IInv, FadeSwaps PROVE IInv'
<1>1. /\ Rendered /\ Swapped /\ StartRender(Closed, tgtBuffer) /\ job' = "fadeIn"
      /\ UNCHANGED <<brightness, saveTarget, brightnessSave, calls, disturbed>>
      /\ tgtBuffer \in Board
  BY RenderedIsShown DEF FadeSwaps
<1>2. /\ mem' \in [Buffer -> [Addr -> SUBSET Bits]] /\ flagged' \in [Buffer -> SUBSET Addr]
      /\ globalNeedsRewriting' = globalNeedsRewriting \cup {tgtBuffer}
      /\ \A d \in Board : d # tgtBuffer => mem'[d] = mem[d] /\ flagged'[d] = flagged[d]
  BY <1>1, SwappedBuffers DEF IInv
<1>3. /\ chips' \in Chips /\ chips'.ram = chips.ram
      /\ chips'.led = chips.led /\ chips'.pwm = chips.pwm
      /\ SessionIsCurrent' /\ ChipsAreSelectedAlone' /\ PastWordsAreShown'
      /\ tgtBuffer' = tgtBuffer /\ pos' = 0 /\ nChipOpen' = -1
  BY <1>1, ClosedChips, StartsClean
<1>4. TypeOK'
  BY <1>1, <1>2, <1>3, PositionsAreNat, BoardsAreBuffers DEF IInv, TypeOK
<1>5. StaleWordsAreMarked'
  <2>1. \A b \in Board : b \notin globalNeedsRewriting' =>
          b # tgtBuffer /\ b \notin globalNeedsRewriting
    BY <1>2
  <2>. QED BY <1>1, <1>2, <1>3, <2>1, MarksAreKept
<1>. QED BY <1>1, <1>3, <1>4, <1>5, LevelsAreKept DEF IInv

-----------------------------------------------------------------------------
(* Calls.                                                                  *)

LEMMA Counted == TypeOK /\ Call => calls' \in Nat
BY DEF TypeOK, Call

\* Configuring the chips marks every buffer, so that nothing is known of them.
LEMMA InitializeSteps == ASSUME IInv, Begin \/ Reinit PROVE IInv'
<1> DEFINE cmd == CommandEach(chips, "on", brightness)
<1>1. /\ StartRender(cmd, 0) /\ job' \in {"begin", "renderAll"} /\ calls' \in Nat
      /\ globalNeedsRewriting' = Buffer /\ UNCHANGED <<brightness, brightnessSave>>
      /\ saveTarget' \in Buffer \cup {NoTarget}
  BY Counted DEF Begin, Reinit, Initialize, IInv, TypeOK
<1>2. /\ cmd \in Chips /\ cmd.ram = chips.ram
      /\ \A c \in Chip : cmd.led[c] = "on" /\ cmd.pwm[c] = brightness
  <2>1. chips \in Chips /\ brightness \in 0 .. 16 /\ brightness # 0 /\ "on" \in {"on", "off", "same"}
    BY DEF IInv, TypeOK
  <2>. QED BY SMTT(30), <2>1, Commanded
<1> HIDE DEF cmd
<1>3. /\ chips' \in Chips /\ chips'.ram = chips.ram /\ chips'.led = cmd.led /\ chips'.pwm = cmd.pwm
      /\ SessionIsCurrent' /\ ChipsAreSelectedAlone' /\ PastWordsAreShown'
      /\ tgtBuffer' = 0 /\ pos' = 0 /\ nChipOpen' = -1 /\ 0 \in Board
  BY <1>1, <1>2, StartsClean, BoardsAreBuffers
<1>4. mem' \in [Buffer -> [Addr -> SUBSET Bits]] /\ flagged' \in [Buffer -> SUBSET Addr]
  <2>1. CASE Begin
    BY <2>1, ClearedBuffers, BoardsAreBuffers DEF Begin, IInv
  <2>2. CASE Reinit
    BY <2>2 DEF Reinit, IInv, TypeOK
  <2>. QED BY <2>1, <2>2
<1>5. disturbed' = "no"
  BY DEF Begin, Reinit, Initialize
<1>6. TypeOK'
  BY <1>1, <1>3, <1>4, <1>5, PositionsAreNat, BoardsAreBuffers DEF IInv, TypeOK
<1>7. StaleWordsAreMarked'
  BY <1>1, BoardsAreBuffers DEF StaleWordsAreMarked
<1>8. ChipsKeepTheBrightness'
  BY <1>1, <1>2, <1>3 DEF ChipsKeepTheBrightness
<1>. QED BY <1>3, <1>6, <1>7, <1>8 DEF IInv

LEMMA RenderCalls == ASSUME IInv, RenderAll \/ Render PROVE IInv'
<1>1. PICK b \in Board : StartRender(chips, b)
  BY BoardsAreBuffers DEF RenderAll, Render
<1>2. /\ job' \in {"renderAll", "render"} /\ calls' \in Nat /\ chips \in Chips
      /\ UNCHANGED <<mem, flagged, globalNeedsRewriting, brightness, brightnessSave, disturbed>>
      /\ saveTarget' \in Buffer \cup {NoTarget}
  BY Counted DEF RenderAll, Render, IInv, TypeOK, bufferVars
<1>3. /\ chips' \in Chips /\ chips'.ram = chips.ram
      /\ chips'.led = chips.led /\ chips'.pwm = chips.pwm
      /\ SessionIsCurrent' /\ ChipsAreSelectedAlone' /\ PastWordsAreShown'
      /\ tgtBuffer' = b /\ pos' = 0 /\ nChipOpen' = -1
  BY <1>1, <1>2, StartsClean
<1>4. TypeOK'
  BY <1>1, <1>2, <1>3, PositionsAreNat, BoardsAreBuffers DEF IInv, TypeOK
<1>5. StaleWordsAreMarked'
  BY <1>2, <1>3, MarksAreKept
<1>. QED BY <1>2, <1>3, <1>4, <1>5, LevelsAreKept DEF IInv

LEMMA FadeStep == ASSUME IInv, TransitionFade PROVE IInv'
<1> DEFINE cmd == CommandEach(chips, "same", 1)
<1>1. /\ tgtBuffer \in Board /\ tgtBuffer \in Buffer /\ StartRender(cmd, tgtBuffer)
      /\ job' = "fadeOut" /\ Cleared(tgtBuffer) /\ calls' \in Nat
      /\ globalNeedsRewriting' = globalNeedsRewriting \cup {tgtBuffer}
      /\ brightnessSave' = brightness /\ brightness' = 1 /\ UNCHANGED <<saveTarget, disturbed>>
  BY Counted, BoardsAreBuffers DEF TransitionFade, IInv
<1>2. /\ cmd \in Chips /\ cmd.ram = chips.ram
      /\ \A c \in Chip : cmd.led[c] = chips.led[c] /\ cmd.pwm[c] = 1
  <2>1. chips \in Chips /\ 1 \in 0 .. 16 /\ "same" \in {"on", "off", "same"}
    BY DEF IInv, TypeOK
  <2>. QED BY <2>1, Commanded
<1> HIDE DEF cmd
<1>3. /\ chips' \in Chips /\ chips'.ram = chips.ram /\ chips'.led = cmd.led /\ chips'.pwm = cmd.pwm
      /\ SessionIsCurrent' /\ ChipsAreSelectedAlone' /\ PastWordsAreShown'
      /\ tgtBuffer' = tgtBuffer /\ pos' = 0 /\ nChipOpen' = -1
  BY <1>1, <1>2, StartsClean
<1>4. /\ mem' \in [Buffer -> [Addr -> SUBSET Bits]] /\ flagged' \in [Buffer -> SUBSET Addr]
      /\ \A d \in Buffer : d # tgtBuffer => mem'[d] = mem[d] /\ flagged'[d] = flagged[d]
  BY <1>1, ClearedBuffers DEF IInv
<1>5. TypeOK'
  BY <1>1, <1>3, <1>4, PositionsAreNat DEF IInv, TypeOK
<1>6. StaleWordsAreMarked'
  <2>1. \A b \in Board : b \notin globalNeedsRewriting' =>
          b # tgtBuffer /\ b \notin globalNeedsRewriting /\ b \in Buffer
    BY <1>1, BoardsAreBuffers
  <2>. QED BY <1>1, <1>3, <1>4, <2>1, MarksAreKept
<1>7. ChipsKeepTheBrightness'
  BY <1>1, <1>2, <1>3 DEF IInv, ChipsKeepTheBrightness
<1>. QED BY <1>3, <1>5, <1>6, <1>7 DEF IInv

LEMMA CommandCalls ==
    ASSUME IInv, Blank \/ \E level \in Brightness : SetBrightness(level)
    PROVE  IInv'
<1>1. /\ job = "none" /\ calls' \in Nat
      /\ UNCHANGED <<mem, flagged, globalNeedsRewriting, tgtBuffer, job, saveTarget, pos, nChipOpen,
                     brightnessSave, disturbed>>
  BY Counted DEF Blank, SetBrightness, Call, IInv, bufferVars, renderVars
<1>2. /\ chips' \in Chips /\ chips'.ram = chips.ram /\ chips'.selected = {}
      /\ brightness' \in 1 .. 16 /\ ChipsKeepTheBrightness'
  <2>0. chips \in Chips /\ brightness \in 1 .. 16
    BY DEF IInv, TypeOK
  <2>1. CASE Blank
    <3>1. chips' = CommandEach(chips, "off", 0) /\ UNCHANGED <<brightness, disturbed>>
      BY <2>1 DEF Blank
    <3>2. "off" \in {"on", "off", "same"} /\ 0 \in 0 .. 16
      OBVIOUS
    <3>3. /\ chips' \in Chips /\ chips'.ram = chips.ram /\ chips'.selected = {}
          /\ \A c \in Chip : chips'.led[c] = "off" /\ chips'.pwm[c] = chips.pwm[c]
      BY <2>0, <3>1, <3>2, Commanded
    <3>4. ChipsKeepTheBrightness'
      BY <3>1, <3>3 DEF IInv, ChipsKeepTheBrightness
    <3>. QED BY <2>0, <3>1, <3>3, <3>4
  <2>2. ASSUME NEW level \in Brightness, SetBrightness(level)
        PROVE  /\ chips' \in Chips /\ chips'.ram = chips.ram /\ chips'.selected = {}
               /\ brightness' \in 1 .. 16 /\ ChipsKeepTheBrightness'
    <3>1. chips' = CommandEach(chips, "same", level) /\ brightness' = level /\ disturbed' = disturbed
      BY <2>2 DEF SetBrightness
    <3>2. "same" \in {"on", "off", "same"} /\ level \in 0 .. 16 /\ level # 0 /\ level \in 1 .. 16
      BY HT1632Assumption
    <3>3. /\ chips' \in Chips /\ chips'.ram = chips.ram /\ chips'.selected = {}
          /\ \A c \in Chip : chips'.led[c] = chips.led[c] /\ chips'.pwm[c] = level
      BY SMTT(30), <2>0, <3>1, <3>2, Commanded
    <3>4. ChipsKeepTheBrightness'
      BY <3>1, <3>3 DEF IInv, ChipsKeepTheBrightness
    <3>. QED BY <3>1, <3>2, <3>3, <3>4
  <2>. QED BY <2>1, <2>2
<1>3. TypeOK'
  BY <1>1, <1>2 DEF IInv, TypeOK
<1>4. SessionIsCurrent' /\ PastWordsAreShown'
  BY <1>1 DEF IInv, SessionIsCurrent, PastWordsAreShown
<1>5. ChipsAreSelectedAlone'
  BY <1>1, <1>2 DEF IInv, SessionIsCurrent, ChipsAreSelectedAlone
<1>6. StaleWordsAreMarked'
  BY <1>1, <1>2, MarksAreKept
<1>. QED BY <1>2, <1>3, <1>4, <1>5, <1>6 DEF IInv

\* Between renders only the marks matter to what changes the buffers.
LEMMA BufferStep ==
    ASSUME IInv, job = "none", calls' \in Nat,
           UNCHANGED <<brightness, chips, job, saveTarget, pos, nChipOpen, brightnessSave, disturbed>>,
           tgtBuffer' \in Buffer \cup {NoTarget},
           mem' \in [Buffer -> [Addr -> SUBSET Bits]], flagged' \in [Buffer -> SUBSET Addr],
           globalNeedsRewriting' \subseteq Buffer, StaleWordsAreMarked'
    PROVE  IInv'
<1>1. TypeOK'
  BY DEF IInv, TypeOK
<1>2. SessionIsCurrent' /\ PastWordsAreShown' /\ ChipsAreSelectedAlone'
  BY DEF IInv, SessionIsCurrent, PastWordsAreShown, ChipsAreSelectedAlone
<1>. QED BY <1>1, <1>2, LevelsAreKept DEF IInv

\* What all of them have in common.
LEMMA BufferCallFrame ==
    ASSUME IInv, BufferCall
    PROVE  /\ job = "none" /\ calls' \in Nat /\ tgtBuffer \in Buffer /\ tgtBuffer' = tgtBuffer
           /\ UNCHANGED <<brightness, chips, job, saveTarget, pos, nChipOpen, brightnessSave,
                          disturbed>>
BY Counted DEF BufferCall, Call, Begun, renderVars, IInv, TypeOK

LEMMA DrawTargetStep == ASSUME IInv, NEW b \in Buffer, DrawTarget(b) PROVE IInv'
<1>1. /\ job = "none" /\ calls' \in Nat /\ tgtBuffer' = b
      /\ UNCHANGED <<mem, flagged, globalNeedsRewriting, brightness, chips, job, saveTarget, pos,
                     nChipOpen, brightnessSave, disturbed>>
  BY Counted DEF DrawTarget, Call, bufferVars, renderVars, IInv
<1>2. StaleWordsAreMarked'
  BY <1>1, MarksAreKept
<1>3. mem' \in [Buffer -> [Addr -> SUBSET Bits]] /\ flagged' \in [Buffer -> SUBSET Addr]
        /\ globalNeedsRewriting' \subseteq Buffer
  BY <1>1 DEF IInv, TypeOK
<1>. QED BY <1>1, <1>2, <1>3, BufferStep

\* A word is drawn, and flagged.
LEMMA WordDrawn ==
    ASSUME IInv, BufferCall, NEW a \in Addr, NEW word \in SUBSET Bits,
           mem' = [mem EXCEPT ![tgtBuffer][a] = word],
           flagged' = [flagged EXCEPT ![tgtBuffer] = @ \cup {a}],
           UNCHANGED globalNeedsRewriting
    PROVE  IInv'
<1>1. /\ job = "none" /\ calls' \in Nat /\ tgtBuffer \in Buffer /\ tgtBuffer' = tgtBuffer
      /\ UNCHANGED <<brightness, chips, job, saveTarget, pos, nChipOpen, brightnessSave, disturbed>>
  BY BufferCallFrame
<1>2. /\ mem \in [Buffer -> [Addr -> SUBSET Bits]] /\ flagged \in [Buffer -> SUBSET Addr]
      /\ globalNeedsRewriting \subseteq Buffer
  BY DEF IInv, TypeOK
<1>3. mem' \in [Buffer -> [Addr -> SUBSET Bits]] /\ flagged' \in [Buffer -> SUBSET Addr]
  BY <1>1, <1>2
<1>4. \A b \in Buffer, e \in Addr :
        \/ e \in flagged'[b]
        \/ mem'[b][e] = mem[b][e] /\ flagged[b] \subseteq flagged'[b]
  BY <1>1, <1>2
<1>5. StaleWordsAreMarked'
  <2>1. \A b, e : Shown(b, e)' = Shown(b, e)
    BY <1>1, ShownDependsOnRam
  <2>. QED BY <1>1, <1>4, <2>1, BoardsAreBuffers DEF IInv, StaleWordsAreMarked
<1>. QED BY <1>1, <1>2, <1>3, <1>5, BufferStep

LEMMA DrawSteps ==
    ASSUME IInv,
           \/ \E a \in Addr, bit \in Bits, datum \in BOOLEAN : SetPixel(a, bit, datum)
           \/ \E a \in Addr, word \in SUBSET Bits : DrawWord(a, word)
    PROVE  IInv'
<1>1. ASSUME NEW a \in Addr, NEW word \in SUBSET Bits, DrawWord(a, word) PROVE IInv'
  BY <1>1, WordDrawn DEF DrawWord
<1>2. ASSUME NEW a \in Addr, NEW bit \in Bits, NEW datum \in BOOLEAN, SetPixel(a, bit, datum)
      PROVE  IInv'
  <2> DEFINE old == mem[tgtBuffer][a]
             word == IF datum THEN old \cup {bit} ELSE old \ {bit}
  <2>1. BufferCall /\ tgtBuffer \in Buffer
    BY <1>2, BufferCallFrame DEF SetPixel
  <2>2. old \in SUBSET Bits
    BY <2>1 DEF IInv, TypeOK
  <2>3. word \in SUBSET Bits
    BY <2>2
  <2>4. /\ mem' = [mem EXCEPT ![tgtBuffer][a] = word]
        /\ flagged' = [flagged EXCEPT ![tgtBuffer] = @ \cup {a}]
        /\ UNCHANGED globalNeedsRewriting
    BY <1>2 DEF SetPixel
  <2> HIDE DEF word
  <2>. QED BY <2>1, <2>3, <2>4, WordDrawn
<1>. QED BY <1>1, <1>2

\* A board that changes as a whole is marked; the others stay as they are.
LEMMA BoardsChanged ==
    ASSUME IInv, BufferCall,
           mem' \in [Buffer -> [Addr -> SUBSET Bits]], flagged' \in [Buffer -> SUBSET Addr],
           globalNeedsRewriting' \subseteq Buffer, globalNeedsRewriting \subseteq globalNeedsRewriting',
           \A b \in Board : b \in globalNeedsRewriting' \/ (mem'[b] = mem[b] /\ flagged'[b] = flagged[b])
    PROVE  IInv'
<1>1. /\ job = "none" /\ calls' \in Nat /\ tgtBuffer \in Buffer /\ tgtBuffer' = tgtBuffer
      /\ UNCHANGED <<brightness, chips, job, saveTarget, pos, nChipOpen, brightnessSave, disturbed>>
  BY BufferCallFrame
<1>2. StaleWordsAreMarked'
  BY <1>1, MarksAreKept
<1>. QED BY <1>1, <1>2, BufferStep

LEMMA ClearSteps == ASSUME IInv, Clear \/ ClearAll PROVE IInv'
<1>1. BufferCall /\ tgtBuffer \in Buffer /\ globalNeedsRewriting \subseteq Buffer
  BY BufferCallFrame DEF Clear, ClearAll, IInv, TypeOK
<1>2. CASE Clear
  <2>1. Cleared(tgtBuffer) /\ globalNeedsRewriting' = globalNeedsRewriting \cup {tgtBuffer}
    BY <1>2 DEF Clear
  <2>2. /\ mem' \in [Buffer -> [Addr -> SUBSET Bits]] /\ flagged' \in [Buffer -> SUBSET Addr]
        /\ \A d \in Buffer : d # tgtBuffer => mem'[d] = mem[d] /\ flagged'[d] = flagged[d]
    BY <1>1, <2>1, ClearedBuffers DEF IInv
  <2>. QED BY <1>1, <2>1, <2>2, BoardsChanged, BoardsAreBuffers
<1>3. CASE ClearAll
  <2>1. /\ mem' \in [Buffer -> [Addr -> SUBSET Bits]] /\ flagged' \in [Buffer -> SUBSET Addr]
        /\ globalNeedsRewriting' = Buffer
    BY <1>3 DEF ClearAll
  <2>. QED BY <1>1, <2>1, BoardsChanged, BoardsAreBuffers
<1>. QED BY <1>2, <1>3

LEMMA TransitionSteps ==
    ASSUME IInv,
           \/ TransitionSwap \/ TransitionSave \/ TransitionSaveXor \/ TransitionRemovePixels
           \/ TransitionRestore \/ TransitionRestoreOr
    PROVE  IInv'
<1>1. /\ BufferCall /\ tgtBuffer \in Board /\ tgtBuffer \in Buffer
      /\ Secondary \in Buffer /\ Secondary \notin Board
  BY BoardsAreBuffers DEF TransitionSwap, TransitionSave, TransitionSaveXor,
     TransitionRemovePixels, TransitionRestore, TransitionRestoreOr
<1>2. /\ mem \in [Buffer -> [Addr -> SUBSET Bits]] /\ flagged \in [Buffer -> SUBSET Addr]
      /\ globalNeedsRewriting \subseteq Buffer
  BY DEF IInv, TypeOK
<1>3. CASE TransitionSwap
  <2>1. /\ mem' \in [Buffer -> [Addr -> SUBSET Bits]] /\ flagged' \in [Buffer -> SUBSET Addr]
        /\ globalNeedsRewriting' = globalNeedsRewriting \cup {tgtBuffer}
        /\ \A d \in Board : d # tgtBuffer => mem'[d] = mem[d] /\ flagged'[d] = flagged[d]
    BY <1>1, <1>3, SwappedBuffers DEF TransitionSwap, IInv
  <2>. QED BY <1>1, <1>2, <2>1, BoardsChanged
\* The secondary buffer alone changes.
<1>4. ASSUME NEW M \in [Addr -> SUBSET Bits], NEW F \in SUBSET Addr,
             mem' = [mem EXCEPT ![Secondary] = M], flagged' = [flagged EXCEPT ![Secondary] = F],
             UNCHANGED globalNeedsRewriting
      PROVE  IInv'
  <2>1. mem' \in [Buffer -> [Addr -> SUBSET Bits]] /\ flagged' \in [Buffer -> SUBSET Addr]
    BY <1>1, <1>2, <1>4
  <2>2. \A b \in Board : mem'[b] = mem[b] /\ flagged'[b] = flagged[b]
    BY <1>1, <1>2, <1>4, BoardsAreBuffers
  <2>. QED BY <1>1, <1>2, <1>4, <2>1, <2>2, BoardsChanged
<1>5. CASE TransitionSave
  <2>1. mem[tgtBuffer] \in [Addr -> SUBSET Bits] /\ flagged[tgtBuffer] \in SUBSET Addr
    BY <1>1, <1>2
  <2>. QED BY <1>4, <1>5, <2>1 DEF TransitionSave
<1>6. CASE TransitionSaveXor
  <2> DEFINE M == [a \in Addr |-> Xor(mem[Secondary][a], mem[tgtBuffer][a])]
             F == Xor(flagged[Secondary], flagged[tgtBuffer])
  <2>1. M \in [Addr -> SUBSET Bits] /\ F \in SUBSET Addr
    BY <1>1, <1>2 DEF Xor
  <2>2. /\ mem' = [mem EXCEPT ![Secondary] = M] /\ flagged' = [flagged EXCEPT ![Secondary] = F]
        /\ UNCHANGED globalNeedsRewriting
    BY <1>6 DEF TransitionSaveXor
  <2> HIDE DEF M, F
  <2>. QED BY <1>4, <2>1, <2>2
<1>7. CASE TransitionRemovePixels
  <2> DEFINE M == [a \in Addr |-> mem[Secondary][a] \ mem[tgtBuffer][a]]
             F == flagged[Secondary] \ flagged[tgtBuffer]
  <2>1. M \in [Addr -> SUBSET Bits] /\ F \in SUBSET Addr
    BY <1>1, <1>2
  <2>2. /\ mem' = [mem EXCEPT ![Secondary] = M] /\ flagged' = [flagged EXCEPT ![Secondary] = F]
        /\ UNCHANGED globalNeedsRewriting
    BY <1>7 DEF TransitionRemovePixels
  <2> HIDE DEF M, F
  <2>. QED BY <1>4, <2>1, <2>2
\* The board changes, and is marked.
<1>8. ASSUME NEW M \in [Addr -> SUBSET Bits], NEW F \in SUBSET Addr,
             mem' = [mem EXCEPT ![tgtBuffer] = M], flagged' = [flagged EXCEPT ![tgtBuffer] = F],
             globalNeedsRewriting' = globalNeedsRewriting \cup {tgtBuffer}
      PROVE  IInv'
  <2>1. mem' \in [Buffer -> [Addr -> SUBSET Bits]] /\ flagged' \in [Buffer -> SUBSET Addr]
    BY <1>1, <1>2, <1>8
  <2>2. \A b \in Board : b # tgtBuffer => mem'[b] = mem[b] /\ flagged'[b] = flagged[b]
    BY <1>1, <1>2, <1>8, BoardsAreBuffers
  <2>. QED BY <1>1, <1>2, <1>8, <2>1, <2>2, BoardsChanged
<1>9. CASE TransitionRestore
  <2>1. mem[Secondary] \in [Addr -> SUBSET Bits] /\ flagged[Secondary] \in SUBSET Addr
    BY <1>1, <1>2
  <2>. QED BY <1>8, <1>9, <2>1 DEF TransitionRestore
<1>10. CASE TransitionRestoreOr
  <2> DEFINE M == [a \in Addr |-> mem[tgtBuffer][a] \cup mem[Secondary][a]]
             F == flagged[tgtBuffer] \cup flagged[Secondary]
  <2>1. M \in [Addr -> SUBSET Bits] /\ F \in SUBSET Addr
    BY <1>1, <1>2
  <2>2. /\ mem' = [mem EXCEPT ![tgtBuffer] = M] /\ flagged' = [flagged EXCEPT ![tgtBuffer] = F]
        /\ globalNeedsRewriting' = globalNeedsRewriting \cup {tgtBuffer}
    BY <1>10 DEF TransitionRestoreOr
  <2> HIDE DEF M, F
  <2>. QED BY <1>8, <2>1, <2>2
<1>. QED BY <1>3, <1>5, <1>6, <1>7, <1>9, <1>10

\* Noise, after which nothing is claimed until the chips are configured anew.
LEMMA GlitchStep == ASSUME IInv, NEW state \in Noise, Glitch(state) PROVE IInv'
<1>1. /\ chips' = state /\ disturbed' = "yes" /\ calls' \in Nat
      /\ UNCHANGED <<mem, flagged, globalNeedsRewriting, tgtBuffer, brightness, job, saveTarget,
                     pos, nChipOpen, brightnessSave>>
  BY DEF Glitch, IInv, TypeOK, bufferVars, renderVars
<1>2. TypeOK'
  BY <1>1, HT1632Assumption DEF IInv, TypeOK
<1>. QED BY <1>1, <1>2 DEF IInv, SessionIsCurrent, ChipsAreSelectedAlone, StaleWordsAreMarked,
              PastWordsAreShown, ChipsKeepTheBrightness

-----------------------------------------------------------------------------
(* The theorems.                                                           *)

\* No sequence of calls and of words rendered, with noise at any moment,
\* leaves the invariant.
THEOREM Invariance == Spec => []IInv
<1>1. IInv /\ [Next]_vars => IInv'
  <2>1. SUFFICES ASSUME IInv, Next \/ UNCHANGED vars PROVE IInv'
    OBVIOUS
  <2>2. CASE Rendering
    BY <2>1, <2>2, RenderWordStep, SkipWordStep, ReturnSteps, GoesOnStep, BeginGoesOnStep,
       FadeSwapsStep DEF Rendering
  <2>3. CASE Transition
    BY <2>1, <2>3, TransitionSteps, FadeStep DEF Transition
  <2>4. CASE Begin \/ Reinit \/ RenderAll \/ Render
    BY <2>1, <2>4, InitializeSteps, RenderCalls
  <2>5. CASE Blank \/ (\E level \in Brightness : SetBrightness(level)) \/ Clear \/ ClearAll
    BY <2>1, <2>5, CommandCalls, ClearSteps
  <2>6. CASE \/ \E a \in Addr, bit \in Bits, datum \in BOOLEAN : SetPixel(a, bit, datum)
             \/ \E a \in Addr, word \in SUBSET Bits : DrawWord(a, word)
    BY <2>1, <2>6, DrawSteps
  <2>7. CASE (\E b \in Buffer : DrawTarget(b)) \/ \E state \in Noise : Glitch(state)
    BY <2>1, <2>7, DrawTargetStep, GlitchStep
  <2>8. CASE UNCHANGED vars
    BY <2>1, <2>8 DEF vars, IInv, TypeOK, SessionIsCurrent, ChipsAreSelectedAlone,
       StaleWordsAreMarked, PastWordsAreShown, ChipsKeepTheBrightness, Shown
  <2>. QED BY <2>1, <2>2, <2>3, <2>4, <2>5, <2>6, <2>7, <2>8 DEF Next
<1>. QED BY <1>1, InitIsGood, PTL DEF Spec

\* The driver and the chips keep their types, and the secondary buffer is
\* never rendered.
THEOREM TypeCorrect == Spec => []TypeOK
<1>1. IInv => TypeOK
  BY DEF IInv
<1>. QED BY <1>1, Invariance, PTL

\* No drawing, clearing, transition or render lets a word that is shown
\* wrongly lose its flag and its mark.
THEOREM MarksHold == Spec => []StaleWordsAreMarked
<1>1. IInv => StaleWordsAreMarked
  BY DEF IInv
<1>. QED BY <1>1, Invariance, PTL

\* render() leaves the chips showing the board, whichever words it skips and
\* wherever its sessions begin and end.
THEOREM RenderHolds == Spec => []RenderShowsTheBuffer
<1>1. IInv => RenderShowsTheBuffer
  BY RenderedIsShown DEF RenderShowsTheBuffer
<1>. QED BY <1>1, Invariance, PTL

\* One chip listens at a time, and expects the word that comes next.
THEOREM SelectionHolds == Spec => []ChipsAreSelectedAlone
<1>1. IInv => ChipsAreSelectedAlone
  BY DEF IInv
<1>. QED BY <1>1, Invariance, PTL

\* Blanking, fades, levels and refreshes keep the chips and the driver at one
\* brightness.
THEOREM BrightnessHolds == Spec => []ChipsKeepTheBrightness
<1>1. IInv => ChipsKeepTheBrightness
  BY DEF IInv
<1>. QED BY <1>1, Invariance, PTL

\* No sequence of calls leaves an old pixel behind, for any number of chips, words
\* and colors.
THEOREM NoOldPixels == Spec => []NoOldPixelStays
<1>1. StaleWordsAreMarked /\ RenderShowsTheBuffer => NoOldPixelStays
  BY DEF NoOldPixelStays
<1>. QED BY <1>1, MarksHold, RenderHolds, PTL

-----------------------------------------------------------------------------
(* The functions of Pixels, for every screen, font, text and image.  What  *)
(* is defined by recursion is proved by a least counterexample.            *)

\* A set of naturals that is not empty has a least element: what the proofs
\* by a least counterexample below rest on.
LEMMA LeastNatural ==
    ASSUME NEW T \in SUBSET Nat, T # {}
    PROVE  \E n \in T : \A m \in T : n <= m
<1> DEFINE R == {ss \in Nat \X Nat : ss[1] < ss[2]}
<1>1. IsWellFoundedOn(R, Nat)
  BY NatLessThanWellFounded DEF OpToRel
<1>2. \E n \in T : \A m \in T : ~(<<m, n>> \in R)
  <2> HIDE DEF R
  <2>. QED BY <1>1, WFMin
<1>3. PICK n \in T : \A m \in T : ~(<<m, n>> \in R)
  BY <1>2
<1>4. \A m \in T : n <= m
  <2> SUFFICES ASSUME NEW m \in T, m < n PROVE FALSE
    OBVIOUS
  <2>1. <<m, n>> \in R
    OBVIOUS
  <2>. QED BY <2>1, <1>3
<1>. QED BY <1>4

\* Induction up to n, for a set: one with 0 and with the successors, up to n,
\* of its members is all of 0 .. n.
LEMMA InductionUpTo ==
    ASSUME NEW n \in Nat, NEW G, 0 \in G, \A k \in 1 .. n : k - 1 \in G => k \in G
    PROVE  \A k \in 0 .. n : k \in G
<1> DEFINE T == {k \in 0 .. n : k \notin G}
<1>1. ASSUME T # {} PROVE FALSE
  <2>1. T \in SUBSET Nat
    OBVIOUS
  <2>2. PICK m \in T : \A k \in T : m <= k
    BY <1>1, <2>1, LeastNatural
  <2>3. m \in 1 .. n /\ m - 1 \in 0 .. n /\ m \notin G
    BY <2>2
  <2>4. m - 1 \notin T
    <3> HIDE DEF T
    <3>. QED BY <2>2, <2>3
  <2>. QED BY <2>3, <2>4
<1>. QED BY <1>1

\* Sequences as functions, for sets the provers need not look into.
LEMMA ElementsOfSeq == ASSUME NEW S, NEW s \in Seq(S) PROVE \A k \in 1 .. Len(s) : s[k] \in S
OBVIOUS

LEMMA FunctionsAreSeqs == ASSUME NEW S, NEW n \in Nat, NEW s \in [1 .. n -> S] PROVE s \in Seq(S)
OBVIOUS

\* A function that is defined by its value at 0 and by a step from k - 1 to k
\* exists, if the step stays in a set: all the recursive functions below are
\* what they are declared to be.
LEMMA RecursionExists ==
    ASSUME NEW S, NEW init \in S, NEW n \in Nat, NEW step \in [1 .. n -> [S -> S]]
    PROVE  \E f \in [0 .. n -> S] :
               f[0] = init /\ \A k \in 1 .. n : f[k] = step[k][f[k - 1]]
<1> DEFINE Is(f, m) == /\ f \in [0 .. m -> S]
                       /\ f[0] = init /\ \A k \in 1 .. m : f[k] = step[k][f[k - 1]]
           T == {m \in 0 .. n : ~ \E f : Is(f, m)}
<1>1. T \in SUBSET Nat
  OBVIOUS
<1>2. ASSUME T # {} PROVE FALSE
  <2>1. PICK m \in T : \A l \in T : m <= l
    BY <1>1, <1>2, LeastNatural
  <2>2. m # 0
    <3>1. Is([k \in 0 .. 0 |-> init], 0)
      OBVIOUS
    <3>. QED BY <3>1, <2>1
  <2>3. m \in Nat /\ m \in 1 .. n /\ m - 1 \in 0 .. n /\ m - 1 \notin T
    <3>1. m \in Nat /\ m \in 1 .. n /\ m - 1 \in 0 .. n
      BY <2>2
    <3>2. m - 1 \notin T
      <4> HIDE DEF T
      <4>. QED BY <2>1, <3>1
    <3>. QED BY <3>1, <3>2
  <2>4. PICK f : Is(f, m - 1)
    BY <2>3
  <2> DEFINE g == [k \in 0 .. m |-> IF k = m THEN step[m][f[m - 1]] ELSE f[k]]
  <2>5. f[m - 1] \in S /\ step[m][f[m - 1]] \in S
    <3>1. f[m - 1] \in S
      BY <2>3, <2>4
    <3>2. step[m] \in [S -> S]
      BY <2>3
    <3>. QED BY <3>1, <3>2
  <2>6. g \in [0 .. m -> S]
    <3> SUFFICES ASSUME NEW k \in 0 .. m PROVE g[k] \in S
      OBVIOUS
    <3>1. CASE k = m
      BY <2>5, <3>1
    <3>2. CASE k # m
      BY <2>3, <2>4, <3>2
    <3>. QED BY <3>1, <3>2
  <2>7. \A k \in 1 .. m : g[k] = step[k][g[k - 1]]
    <3> SUFFICES ASSUME NEW k \in 1 .. m PROVE g[k] = step[k][g[k - 1]]
      OBVIOUS
    <3>0. k \in 0 .. m /\ k - 1 \in 0 .. m /\ k - 1 # m
      BY <2>3
    <3>1. g[k - 1] = f[k - 1]
      BY <3>0
    <3>2. CASE k = m
      BY <3>0, <3>1, <3>2
    <3>3. CASE k # m
      <4>1. k \in 1 .. m - 1 /\ g[k] = f[k]
        BY <2>3, <3>0, <3>3
      <4>. QED BY <2>4, <3>1, <4>1
    <3>. QED BY <3>2, <3>3
  <2>8. g[0] = init
    BY <2>2, <2>3, <2>4
  <2>9. Is(g, m)
    BY <2>6, <2>7, <2>8
  <2>. QED BY <2>1, <2>9
<1>3. n \notin T
  <2> HIDE DEF T
  <2>. QED BY <1>2
<1>4. n \in 0 .. n
  OBVIOUS
<1>5. \E f : Is(f, n)
  BY <1>3, <1>4
<1>. QED BY <1>5

-----------------------------------------------------------------------------
(* The macros of the addresses.                                            *)

\* A column is a unit of 32, a chip of 16 of them, and one of the 16.
LEMMA ColumnParts ==
    ASSUME NEW x \in Nat, NEW q \in Nat, NEW h \in 0 .. 1, NEW l \in 0 .. 15,
           x = 32 * q + 16 * h + l
    PROVE  x \div 32 = q /\ x \div 16 = 2 * q + h /\ x % 16 = l
OBVIOUS

\* The address of a pixel, from the parts of its column and its row.
LEMMA AddressOfPixel ==
    ASSUME NEW q \in Nat, NEW h \in 0 .. 1, NEW l \in 0 .. 15,
           NEW t \in 0 .. 1, NEW u \in 0 .. 1, NEW b \in 0 .. 3, NEW x \in Nat, NEW y \in Nat,
           x = 32 * q + 16 * h + l, y = 8 * t + 4 * u + b
    PROVE  /\ GetAddrFromXY(x, y) = 128 * q + 64 * t + 32 * h + 2 * l + u
           /\ y % 4 = b
<1>1. x \div 32 = q /\ x \div 16 = 2 * q + h /\ x % 16 = l
  BY ColumnParts
<1>2. y % 4 = b /\ (y % 8) \div 4 = u /\ (y > 7 <=> t = 1)
  OBVIOUS
<1>. QED BY <1>1, <1>2 DEF GetAddrFromXY, GetChipFromXY

\* The macros of the addresses put every pixel of a screen of any number of
\* units to a bit of its own, and use all bits.
THEOREM PixelsAreApart == PixelsHaveTheirOwnBit
<1> DEFINE Bit == {<<GetAddrFromXY(x, y), y % 4>> : x \in Column, y \in Row}
<1>0. PICK units \in Nat : OutSize = 32 * units
  <2>1. OutSize \in Nat /\ OutSize % 32 = 0 /\ OutSize \div 32 \in Nat
    BY PixelsAssumption
  <2>. QED BY <2>1
<1>1. AddrSpaceSize = 128 * units /\ Column = 0 .. 32 * units - 1 /\ Row = 0 .. 15
  BY <1>0, PixelsAssumption DEF AddrSpaceSize, Column, Row
<1>2. Bit \subseteq (0 .. AddrSpaceSize - 1) \X (0 .. 3)
  <2> SUFFICES ASSUME NEW x \in Column, NEW y \in Row
               PROVE  GetAddrFromXY(x, y) \in 0 .. AddrSpaceSize - 1 /\ y % 4 \in 0 .. 3
    OBVIOUS
  <2>1. PICK q \in Nat, h \in 0 .. 1, l \in 0 .. 15 : x = 32 * q + 16 * h + l
    <3>1. x \in Nat /\ x \div 32 \in Nat /\ (x % 32) \div 16 \in 0 .. 1 /\ x % 16 \in 0 .. 15
          /\ x = 32 * (x \div 32) + 16 * ((x % 32) \div 16) + (x % 16)
      BY <1>1
    <3>. QED BY <3>1
  <2>2. PICK t \in 0 .. 1, u \in 0 .. 1, b \in 0 .. 3 : y = 8 * t + 4 * u + b
    <3>1. y \in Nat /\ y \div 8 \in 0 .. 1 /\ (y % 8) \div 4 \in 0 .. 1 /\ y % 4 \in 0 .. 3
          /\ y = 8 * (y \div 8) + 4 * ((y % 8) \div 4) + (y % 4)
      BY <1>1
    <3>. QED BY <3>1
  <2>3. q \in 0 .. units - 1 /\ x \in Nat /\ y \in Nat
    BY <1>1, <2>1
  <2>4. /\ GetAddrFromXY(x, y) = 128 * q + 64 * t + 32 * h + 2 * l + u
        /\ y % 4 = b
    BY <2>1, <2>2, <2>3, AddressOfPixel
  <2>. QED BY <1>1, <2>3, <2>4
<1>3. (0 .. AddrSpaceSize - 1) \X (0 .. 3) \subseteq Bit
  <2> SUFFICES ASSUME NEW a \in 0 .. AddrSpaceSize - 1, NEW b \in 0 .. 3
               PROVE  <<a, b>> \in Bit
    OBVIOUS
  <2>1. PICK q \in Nat, t \in 0 .. 1, h \in 0 .. 1, l \in 0 .. 15, u \in 0 .. 1 :
            a = 128 * q + 64 * t + 32 * h + 2 * l + u
    <3>1. /\ a \in Nat /\ a \div 128 \in Nat /\ (a % 128) \div 64 \in 0 .. 1
          /\ (a % 64) \div 32 \in 0 .. 1 /\ (a % 32) \div 2 \in 0 .. 15 /\ a % 2 \in 0 .. 1
          /\ a = 128 * (a \div 128) + 64 * ((a % 128) \div 64) + 32 * ((a % 64) \div 32)
                 + 2 * ((a % 32) \div 2) + (a % 2)
      BY <1>1
    <3>. QED BY <3>1
  <2> DEFINE x == 32 * q + 16 * h + l
             y == 8 * t + 4 * u + b
  <2>2. x \in Nat /\ y \in Nat /\ x \in Column /\ y \in Row
    BY <1>1, <2>1
  <2>3. GetAddrFromXY(x, y) = a /\ y % 4 = b
    <3> HIDE DEF x, y
    <3>1. x = 32 * q + 16 * h + l /\ y = 8 * t + 4 * u + b
      BY DEF x, y
    <3>. QED BY <2>1, <2>2, <3>1, AddressOfPixel
  <2>4. <<a, b>> = <<GetAddrFromXY(x, y), y % 4>>
    BY <2>3
  <2>. QED BY <2>2, <2>4
<1>. QED BY <1>2, <1>3 DEF PixelsHaveTheirOwnBit

-----------------------------------------------------------------------------
(* The width of a text and the columns it takes.                           *)

\* The codes of the characters.
Code == 1 .. 255

LEMMA AdvanceIsNatural ==
    ASSUME NEW code \in Code, NEW gutter \in Nat
    PROVE  /\ Advance(code, gutter) \in Nat
           /\ CurrChar(code) = NoGlyph => Advance(code, gutter) = 0
<1>1. CASE CurrChar(code) = NoGlyph
  BY <1>1 DEF Advance
<1>2. CASE CurrChar(code) # NoGlyph
  <2>1. CurrChar(code) \in 0 .. 63
    BY <1>2 DEF CurrChar, NoGlyph, Code
  <2>2. FontWidth(CurrChar(code)) \in Nat
    BY <2>1, PixelsAssumption
  <2>. QED BY <1>2, <2>2 DEF Advance
<1>. QED BY <1>1, <1>2

\* getTextWidth: the sums of the advances, of which the last is the width.
LEMMA WidthIsASum ==
    ASSUME NEW text \in Seq(Code), NEW gutter \in Nat
    PROVE  \E wd \in [0 .. Len(text) -> Nat] :
               /\ wd[0] = 0
               /\ \A k \in 1 .. Len(text) : wd[k] = wd[k - 1] + Advance(text[k], gutter)
               /\ GetTextWidth(text, gutter) = wd[Len(text)] - gutter
<1> DEFINE n == Len(text)
           step == [k \in 1 .. n |-> [w \in Nat |-> w + Advance(text[k], gutter)]]
           wd[i \in 0 .. n] == IF i = 0 THEN 0 ELSE wd[i - 1] + Advance(text[i], gutter)
<1>1. \A k \in 1 .. n : Advance(text[k], gutter) \in Nat
  <2>1. \A k \in 1 .. n : text[k] \in Code
    BY ElementsOfSeq
  <2>. QED BY <2>1, AdvanceIsNatural
<1>2. step \in [1 .. n -> [Nat -> Nat]]
  BY <1>1
<1>3. n \in Nat
  OBVIOUS
<1>4. PICK f \in [0 .. n -> Nat] : f[0] = 0 /\ \A k \in 1 .. n : f[k] = step[k][f[k - 1]]
  <2> HIDE DEF step, wd, n
  <2> DEFINE S == Nat
             init == 0
  <2>1. init \in S /\ step \in [1 .. n -> [S -> S]]
    BY <1>2
  <2>2. \E f \in [0 .. n -> S] : f[0] = init /\ \A k \in 1 .. n : f[k] = step[k][f[k - 1]]
    <3> HIDE DEF S, init
    <3>. QED BY <1>3, <2>1, RecursionExists
  <2>. QED BY <2>2
<1>5. \A k \in 1 .. n : f[k] = f[k - 1] + Advance(text[k], gutter)
  <2> SUFFICES ASSUME NEW k \in 1 .. n PROVE f[k] = f[k - 1] + Advance(text[k], gutter)
    OBVIOUS
  <2>1. k - 1 \in 0 .. n
    BY <1>3
  <2>2. f[k - 1] \in Nat
    BY <1>4, <2>1
  <2>. QED BY <1>4, <2>2
<1>6. f = [i \in 0 .. n |-> IF i = 0 THEN 0 ELSE f[i - 1] + Advance(text[i], gutter)]
  <2> HIDE DEF n, step, wd
  <2>1. \A i \in 0 .. n : f[i] = IF i = 0 THEN 0 ELSE f[i - 1] + Advance(text[i], gutter)
    BY <1>3, <1>4, <1>5
  <2>. QED BY <1>4, <2>1
<1>7. wd = [i \in 0 .. n |-> IF i = 0 THEN 0 ELSE wd[i - 1] + Advance(text[i], gutter)]
  <2> HIDE DEF n, step
  <2>. QED BY <1>6
<1>8. GetTextWidth(text, gutter) = wd[n] - gutter
  BY DEF GetTextWidth
<1> HIDE DEF wd, step
<1>9. \A k \in 1 .. n : wd[k] = wd[k - 1] + Advance(text[k], gutter)
  BY <1>3, <1>7
<1>10. wd[0] = 0
  BY <1>3, <1>7
<1>11. \A k \in 0 .. n : wd[k] \in Nat
  <2> DEFINE G == {k \in 0 .. n : wd[k] \in Nat}
  <2>1. 0 \in G
    BY <1>3, <1>10
  <2>2. ASSUME NEW k \in 1 .. n, k - 1 \in G PROVE k \in G
    BY <1>1, <1>3, <1>9, <2>2
  <2>3. \A k \in 0 .. n : k \in G
    <3> HIDE DEF G, n
    <3>. QED BY <1>3, <2>1, <2>2, InductionUpTo
  <2>. QED BY <2>3
<1>12. wd \in [0 .. n -> Nat]
  <2> HIDE DEF n
  <2>. QED BY <1>7, <1>11
<1>. QED BY <1>8, <1>9, <1>10, <1>12

\* One character: its columns follow those of the text before it.
LEMMA CharIsDrawn ==
    ASSUME NEW s, NEW code, NEW gutter, CurrChar(code) # NoGlyph, ~(s.x >= OutSize),
           s.x \in Int, Advance(code, gutter) \in Nat
    PROVE  /\ DrawChar(s, code, gutter).x = s.x + Advance(code, gutter)
           /\ DrawChar(s, code, gutter).columns
                  = s.columns \cup ((s.x .. s.x + Advance(code, gutter) - 1) \cap Column)
<1> DEFINE next == s.x + Advance(code, gutter)
           columns == IF next >= 0 THEN (s.x .. next - 1) \cap Column ELSE {}
<1>1. DrawChar(s, code, gutter) = [x |-> next, columns |-> s.columns \cup columns]
  BY DEF DrawChar
<1>2. columns = (s.x .. next - 1) \cap Column
  BY DEF Column
<1> HIDE DEF columns
<1>. QED BY <1>1, <1>2

\* drawText: the columns from x to the end of the width, as far as they are on
\* the screen, for every text and wherever it is put.
LEMMA TextTakesItsWidth ==
    ASSUME NEW text \in Seq(Code), NEW gutter \in Nat, NEW x \in Int,
           NEW y \in Int, NEW height \in Int
    PROVE  ~(y + height < 0 \/ y >= ComSize) =>
               DrawText(text, x, y, height, gutter)
                   = (x .. x + GetTextWidth(text, gutter) + gutter - 1) \cap Column
<1> DEFINE n == Len(text)
           S == [x : Int, columns : SUBSET Column]
           init == [x |-> x, columns |-> {}]
           Turn(s, i) == DrawChar(s, text[i], gutter)
           step == [i \in 1 .. n |-> [s \in S |-> Turn(s, i)]]
           drawn[i \in 0 .. n] == IF i = 0 THEN init ELSE Turn(drawn[i - 1], i)
<1>1. ~(y + height < 0 \/ y >= ComSize) =>
          DrawText(text, x, y, height, gutter) = drawn[n].columns
  BY DEF DrawText
<1> HIDE DEF drawn
<1>2. n \in Nat /\ \A k \in 1 .. n : Advance(text[k], gutter) \in Nat
  <2>1. \A k \in 1 .. n : text[k] \in Code
    BY ElementsOfSeq
  <2>2. \A k \in 1 .. n : Advance(text[k], gutter) \in Nat
    <3> HIDE DEF n
    <3>. QED BY <2>1, AdvanceIsNatural
  <2>. QED BY <2>2
<1>3. \A s \in S, i \in 1 .. n : Turn(s, i) \in S
  <2> HIDE DEF n
  <2>. QED BY <1>2 DEF DrawChar
<1>4. init \in S /\ step \in [1 .. n -> [S -> S]]
  <2>1. init \in S
    OBVIOUS
  <2> HIDE DEF S, Turn, init
  <2>. QED BY <1>3, <2>1
<1>5. PICK f \in [0 .. n -> S] : f[0] = init /\ \A k \in 1 .. n : f[k] = step[k][f[k - 1]]
  <2> HIDE DEF S, step, init, n, Turn
  <2>1. n \in Nat /\ init \in S /\ step \in [1 .. n -> [S -> S]]
    BY <1>2, <1>4
  <2>. QED BY <2>1, RecursionExists
<1> HIDE DEF n, S, init, Turn
<1>6. \A k \in 1 .. n : f[k] = Turn(f[k - 1], k)
  <2> SUFFICES ASSUME NEW k \in 1 .. n PROVE f[k] = Turn(f[k - 1], k)
    OBVIOUS
  <2>1. f[k - 1] \in S
    BY <1>2, <1>5
  <2>. QED BY <1>5, <2>1
<1> HIDE DEF step
<1>7. f = [i \in 0 .. n |-> IF i = 0 THEN init ELSE Turn(f[i - 1], i)]
  <2>1. \A i \in 0 .. n : f[i] = IF i = 0 THEN init ELSE Turn(f[i - 1], i)
    BY <1>2, <1>5, <1>6
  <2>. QED BY <1>5, <2>1
<1>8. drawn = [i \in 0 .. n |-> IF i = 0 THEN init ELSE Turn(drawn[i - 1], i)]
  BY <1>7 DEF drawn
<1>9. PICK wd \in [0 .. n -> Nat] :
          /\ wd[0] = 0
          /\ \A k \in 1 .. n : wd[k] = wd[k - 1] + Advance(text[k], gutter)
          /\ GetTextWidth(text, gutter) = wd[n] - gutter
  BY WidthIsASum DEF n
<1> DEFINE Good(k) ==
               /\ drawn[k].x \in Int /\ x <= drawn[k].x /\ drawn[k].x <= x + wd[k]
               /\ drawn[k].x = x + wd[k] \/ drawn[k].x >= OutSize
               /\ drawn[k].columns = (x .. drawn[k].x - 1) \cap Column
           G == {k \in 0 .. n : Good(k)}
<1>10. 0 \in G
  <2>1. drawn[0] = init /\ 0 \in 0 .. n
    BY <1>2, <1>8
  <2>2. (x .. x - 1) \cap Column = {}
    OBVIOUS
  <2>. QED BY <1>9, <2>1, <2>2 DEF init
<1>11. ASSUME NEW k \in 1 .. n, k - 1 \in G PROVE k \in G
  <2> DEFINE a == drawn[k - 1].x
             w == Advance(text[k], gutter)
             upTo == x + wd[k - 1]
  <2>1. k \in 0 .. n /\ k - 1 \in 0 .. n /\ k # 0
    BY <1>2
  <2>2. drawn[k] = Turn(drawn[k - 1], k)
    <3> HIDE DEF Good
    <3>. QED BY <1>8, <2>1
  <2>3. OutSize \in Nat /\ w \in Nat /\ upTo \in Int /\ x + wd[k] = upTo + w
    <3> HIDE DEF Good
    <3>1. wd[k] = wd[k - 1] + w /\ wd[k - 1] \in Nat
      BY <1>9, <2>1
    <3>2. w \in Nat
      BY <1>2
    <3>3. x + wd[k] = upTo + w
      <4> HIDE DEF w
      <4>. QED BY <3>1, <3>2
    <3>4. OutSize \in Nat
      BY PixelsAssumption
    <3>5. upTo \in Int
      BY <3>1
    <3> HIDE DEF w, upTo
    <3>. QED BY <3>2, <3>3, <3>4, <3>5
  <2>4. /\ a \in Int /\ x <= a /\ a <= upTo /\ (a = upTo \/ a >= OutSize)
        /\ drawn[k - 1].columns = (x .. a - 1) \cap Column
    BY <1>11
  <2>5. CASE a >= OutSize \/ CurrChar(text[k]) = NoGlyph
    <3>1. drawn[k] = drawn[k - 1]
      BY <2>2, <2>5 DEF Turn, DrawChar
    <3>2. CurrChar(text[k]) = NoGlyph => w = 0
      BY DEF Advance
    <3>3. drawn[k].x = a /\ drawn[k].columns = (x .. a - 1) \cap Column
      BY <2>4, <3>1
    <3>4. a <= upTo + w /\ (a = upTo + w \/ a >= OutSize)
      <4> HIDE DEF a, w, upTo
      <4>. QED BY <2>3, <2>4, <2>5, <3>2
    <3>5. Good(k)
      <4> HIDE DEF a, w, upTo
      <4>. QED BY <2>3, <2>4, <3>3, <3>4
    <3>. QED BY <2>1, <3>5
  <2>6. CASE CurrChar(text[k]) # NoGlyph /\ ~(a >= OutSize)
    <3> DEFINE e == a + w
    <3>1. /\ drawn[k].x = e
          /\ drawn[k].columns = drawn[k - 1].columns \cup ((a .. e - 1) \cap Column)
      <4> HIDE DEF Good
      <4> DEFINE s == drawn[k - 1]
      <4>1. drawn[k] = DrawChar(s, text[k], gutter)
        BY <2>2 DEF Turn
      <4>2. CurrChar(text[k]) # NoGlyph /\ ~(s.x >= OutSize) /\ s.x \in Int /\ w \in Nat
        BY <2>3, <2>4, <2>6
      <4>3. /\ DrawChar(s, text[k], gutter).x = s.x + w
            /\ DrawChar(s, text[k], gutter).columns = s.columns \cup ((s.x .. s.x + w - 1) \cap Column)
        <5> HIDE DEF s
        <5>. QED BY <4>2, CharIsDrawn
      <4>4. /\ drawn[k].x = s.x + w
            /\ drawn[k].columns = s.columns \cup ((s.x .. s.x + w - 1) \cap Column)
        <5> HIDE DEF s, w
        <5>. QED BY <4>1, <4>3
      <4> HIDE DEF w
      <4>. QED BY <4>2, <4>4
    <3>2. ((x .. a - 1) \cap Column) \cup ((a .. e - 1) \cap Column) = (x .. e - 1) \cap Column
      <4> HIDE DEF a, w, Good
      <4>. QED BY <2>3, <2>4
    <3>3. drawn[k].columns = (x .. e - 1) \cap Column
      <4> HIDE DEF a, e, w, Good
      <4>. QED BY <2>4, <3>1, <3>2
    <3>4. e = upTo + w /\ e \in Int /\ x <= e
      <4> HIDE DEF a, w, upTo
      <4>. QED BY <2>3, <2>4, <2>6
    <3>5. Good(k)
      <4> HIDE DEF a, w, upTo, e
      <4>. QED BY <2>3, <3>1, <3>3, <3>4
    <3>. QED BY <2>1, <3>5
  <2>. QED BY <2>5, <2>6
<1>12. n \in G
  <2> HIDE DEF G
  <2>1. \A k \in 0 .. n : k \in G
    BY <1>2, <1>10, <1>11, InductionUpTo
  <2>. QED BY <1>2, <2>1
<1>13. OutSize \in Nat /\ wd[n] \in Nat
  BY <1>2, <1>9, PixelsAssumption
<1>14. (x .. drawn[n].x - 1) \cap Column = (x .. x + wd[n] - 1) \cap Column
  BY <1>12, <1>13 DEF Column
<1>15. drawn[n].columns = (x .. drawn[n].x - 1) \cap Column
  BY <1>12
<1>16. x + GetTextWidth(text, gutter) + gutter - 1 = x + wd[n] - 1
  <2> HIDE DEF Good
  <2>1. GetTextWidth(text, gutter) = wd[n] - gutter
    BY <1>9
  <2>. QED BY SMTT(30), <1>13, <2>1
<1>. QED BY <1>1, <1>14, <1>15, <1>16

\* What drawText draws ends where getTextWidth says, for every font and text.
THEOREM TextsAreAsWide == TextIsAsWideAsComputed
<1> SUFFICES ASSUME NEW text \in UNION {[1 .. n -> Char] : n \in 0 .. MaxLen}, NEW gutter \in 0 .. MaxGutter,
                    NEW x \in {-(GetTextWidth(text, gutter) + gutter) - 1,
                               -(GetTextWidth(text, gutter) + gutter), -1, 0,
                               OutSize - (GetTextWidth(text, gutter) + gutter), OutSize - 1, OutSize}
             PROVE  DrawText(text, x, 0, MinHeight, gutter)
                        = (x .. x + (GetTextWidth(text, gutter) + gutter) - 1) \cap Column
  BY DEF TextIsAsWideAsComputed
<1>1. text \in Seq(Code) /\ gutter \in Nat /\ OutSize \in Nat
  <2>1. PICK n \in 0 .. MaxLen : text \in [1 .. n -> Char]
    OBVIOUS
  <2>2. n \in Nat /\ Char \subseteq Code
    BY PixelsAssumption DEF Code
  <2>4. text \in [1 .. n -> Code]
    BY <2>1, <2>2
  <2>3. text \in Seq(Code)
    BY <2>2, <2>4, FunctionsAreSeqs
  <2>. QED BY <2>3, PixelsAssumption
<1>2. GetTextWidth(text, gutter) \in Int
  <2>1. PICK wd \in [0 .. Len(text) -> Nat] : GetTextWidth(text, gutter) = wd[Len(text)] - gutter
    BY <1>1, WidthIsASum
  <2>2. Len(text) \in Nat
    BY <1>1
  <2>. QED BY <1>1, <2>1, <2>2
<1>3. x \in Int
  BY <1>1, <1>2
<1>4. MinHeight \in Int /\ ~(0 + MinHeight < 0 \/ 0 >= ComSize)
  BY PixelsAssumption
<1>5. DrawText(text, x, 0, MinHeight, gutter) = (x .. x + GetTextWidth(text, gutter) + gutter - 1) \cap Column
  BY <1>1, <1>3, <1>4, TextTakesItsWidth
<1>. QED BY <1>1, <1>2, <1>3, <1>5

-----------------------------------------------------------------------------
(* The bits on the wire.                                                   *)

LEMMA Powers == 2^0 = 1 /\ 2^1 = 2 /\ 2^2 = 4 /\ 2^3 = 8 /\ 2^4 = 16 /\ 2^5 = 32 /\ 2^6 = 64 /\ 2^7 = 128
OBVIOUS

LEMMA SmallPowers == ASSUME NEW e \in 0 .. 7 PROVE 2 ^ e \in {1, 2, 4, 8, 16, 32, 64, 128}
<1>1. e \in {0, 1, 2, 3, 4, 5, 6, 7}
  OBVIOUS
<1>2. CASE e = 0
  BY <1>2, Powers, Zenon
<1>3. CASE e = 1
  BY <1>3, Powers, Zenon
<1>4. CASE e = 2
  BY <1>4, Powers, Zenon
<1>5. CASE e = 3
  BY <1>5, Powers, Zenon
<1>6. CASE e = 4
  BY <1>6, Powers, Zenon
<1>7. CASE e = 5
  BY <1>7, Powers, Zenon
<1>8. CASE e = 6
  BY <1>8, Powers, Zenon
<1>9. CASE e = 7
  BY <1>9, Powers, Zenon
<1>. QED BY <1>1, <1>2, <1>3, <1>4, <1>5, <1>6, <1>7, <1>8, <1>9

\* What a chip makes of the bits it reads, one after the other.
LEMMA NumberIsRead ==
    ASSUME NEW bits, NEW len \in Nat, Len(bits) = len, \A k \in 1 .. len : bits[k] \in Nat
    PROVE  \E n \in [0 .. len -> Nat] :
               /\ n[0] = 0
               /\ \A k \in 1 .. len : n[k] = 2 * n[k - 1] + bits[k]
               /\ ChipNumber(bits) = n[len]
<1> DEFINE S == Nat
           init == 0
           Turn(s, k) == 2 * s + bits[k]
           step == [k \in 1 .. len |-> [s \in S |-> Turn(s, k)]]
           n[k \in 0 .. len] == IF k = 0 THEN init ELSE Turn(n[k - 1], k)
<1>1. ChipNumber(bits) = n[len]
  BY DEF ChipNumber
<1> HIDE DEF n
<1>2. len \in Nat /\ \A k \in 1 .. len : bits[k] \in Nat
  OBVIOUS
<1>3. init \in S /\ step \in [1 .. len -> [S -> S]] /\ \A s \in S, k \in 1 .. len : Turn(s, k) \in S
  BY <1>2
<1>4. PICK f \in [0 .. len -> S] : f[0] = init /\ \A k \in 1 .. len : f[k] = step[k][f[k - 1]]
  <2> HIDE DEF S, step, init, Turn
  <2>1. len \in Nat /\ init \in S /\ step \in [1 .. len -> [S -> S]]
    BY <1>2, <1>3
  <2>. QED BY SMTT(30), <2>1, RecursionExists
<1> HIDE DEF S, init, Turn
<1>5. \A k \in 1 .. len : f[k] = Turn(f[k - 1], k)
  <2> SUFFICES ASSUME NEW k \in 1 .. len PROVE f[k] = Turn(f[k - 1], k)
    OBVIOUS
  <2>1. f[k - 1] \in S
    BY <1>2, <1>4
  <2>. QED BY <1>4, <2>1
<1> HIDE DEF step
<1>6. f = [k \in 0 .. len |-> IF k = 0 THEN init ELSE Turn(f[k - 1], k)]
  <2>1. \A k \in 0 .. len : f[k] = IF k = 0 THEN init ELSE Turn(f[k - 1], k)
    BY <1>2, <1>4, <1>5
  <2>. QED BY <1>4, <2>1
<1>7. n = [k \in 0 .. len |-> IF k = 0 THEN init ELSE Turn(n[k - 1], k)]
  BY <1>6 DEF n
<1>8. n[0] = init /\ \A k \in 1 .. len : n[k] = Turn(n[k - 1], k)
  BY <1>2, <1>7
<1> DEFINE G == {k \in 0 .. len : n[k] \in S}
<1>9. 0 \in G
  BY <1>2, <1>3, <1>8
<1>10. \A k \in 1 .. len : k - 1 \in G => k \in G
  BY <1>2, <1>3, <1>8
<1>11. \A k \in 0 .. len : k \in G
  <2> HIDE DEF G
  <2>. QED BY <1>2, <1>9, <1>10, InductionUpTo
<1>12. n \in [0 .. len -> S]
  BY <1>7, <1>11
<1>. QED BY <1>1, <1>8, <1>12 DEF S, init, Turn

LEMMA SevenSteps ==
    ASSUME NEW n, NEW bits, n[0] = 0,
           n[1] = 2 * n[0] + bits[1] /\ n[0] \in Nat /\ bits[1] \in Nat,
           n[2] = 2 * n[1] + bits[2] /\ n[1] \in Nat /\ bits[2] \in Nat,
           n[3] = 2 * n[2] + bits[3] /\ n[2] \in Nat /\ bits[3] \in Nat,
           n[4] = 2 * n[3] + bits[4] /\ n[3] \in Nat /\ bits[4] \in Nat,
           n[5] = 2 * n[4] + bits[5] /\ n[4] \in Nat /\ bits[5] \in Nat,
           n[6] = 2 * n[5] + bits[6] /\ n[5] \in Nat /\ bits[6] \in Nat,
           n[7] = 2 * n[6] + bits[7] /\ n[6] \in Nat /\ bits[7] \in Nat
    PROVE  n[7] = 64 * bits[1] + 32 * bits[2] + 16 * bits[3] + 8 * bits[4] + 4 * bits[5]
                  + 2 * bits[6] + bits[7]
<1>1. n[1] = bits[1]
  OBVIOUS
<1>2. n[2] = 2 * bits[1] + bits[2]
  BY <1>1
<1>3. n[3] = 4 * bits[1] + 2 * bits[2] + bits[3]
  BY <1>2
<1>4. n[4] = 8 * bits[1] + 4 * bits[2] + 2 * bits[3] + bits[4]
  BY <1>3
<1>5. n[5] = 16 * bits[1] + 8 * bits[2] + 4 * bits[3] + 2 * bits[4] + bits[5]
  BY <1>4
<1>6. n[6] = 32 * bits[1] + 16 * bits[2] + 8 * bits[3] + 4 * bits[4] + 2 * bits[5] + bits[6]
  BY <1>5
<1>. QED BY <1>6

\* Seven bits of an address, and of a command the first seven, from the highest.
LEMMA SevenBits ==
    ASSUME NEW len \in Nat, len >= 7, NEW bits \in [1 .. len -> Nat],
           NEW n \in [0 .. len -> Nat], n[0] = 0,
           \A k \in 1 .. len : n[k] = 2 * n[k - 1] + bits[k]
    PROVE  n[7] = 64 * bits[1] + 32 * bits[2] + 16 * bits[3] + 8 * bits[4] + 4 * bits[5]
                  + 2 * bits[6] + bits[7]
<1>1. n[1] = 2 * n[0] + bits[1] /\ n[0] \in Nat /\ bits[1] \in Nat
  <2>1. 1 \in 1 .. len /\ 0 \in 0 .. len /\ 1 - 1 = 0
    OBVIOUS
  <2>. QED BY <2>1, Zenon
<1>2. n[2] = 2 * n[1] + bits[2] /\ n[1] \in Nat /\ bits[2] \in Nat
  <2>1. 2 \in 1 .. len /\ 1 \in 0 .. len /\ 2 - 1 = 1
    OBVIOUS
  <2>. QED BY <2>1, Zenon
<1>3. n[3] = 2 * n[2] + bits[3] /\ n[2] \in Nat /\ bits[3] \in Nat
  <2>1. 3 \in 1 .. len /\ 2 \in 0 .. len /\ 3 - 1 = 2
    OBVIOUS
  <2>. QED BY <2>1, Zenon
<1>4. n[4] = 2 * n[3] + bits[4] /\ n[3] \in Nat /\ bits[4] \in Nat
  <2>1. 4 \in 1 .. len /\ 3 \in 0 .. len /\ 4 - 1 = 3
    OBVIOUS
  <2>. QED BY <2>1, Zenon
<1>5. n[5] = 2 * n[4] + bits[5] /\ n[4] \in Nat /\ bits[5] \in Nat
  <2>1. 5 \in 1 .. len /\ 4 \in 0 .. len /\ 5 - 1 = 4
    OBVIOUS
  <2>. QED BY <2>1, Zenon
<1>6. n[6] = 2 * n[5] + bits[6] /\ n[5] \in Nat /\ bits[6] \in Nat
  <2>1. 6 \in 1 .. len /\ 5 \in 0 .. len /\ 6 - 1 = 5
    OBVIOUS
  <2>. QED BY <2>1, Zenon
<1>7. n[7] = 2 * n[6] + bits[7] /\ n[6] \in Nat /\ bits[7] \in Nat
  <2>1. 7 \in 1 .. len /\ 6 \in 0 .. len /\ 7 - 1 = 6
    OBVIOUS
  <2>. QED BY <2>1, Zenon
<1>. QED BY <1>1, <1>2, <1>3, <1>4, <1>5, <1>6, <1>7, SevenSteps, Zenon

\* writeData of as many bits as an address or a command has, as the chip reads it.
LEMMA DataIsSent ==
    ASSUME NEW data \in Nat, NEW len \in 7 .. 8
    PROVE  \E n \in [0 .. len -> Nat] :
               /\ ChipNumber(WriteData(data, len)) = n[len]
               /\ n[0] = 0 /\ \A k \in 1 .. len : n[k] = 2 * n[k - 1] + WriteData(data, len)[k]
<1> DEFINE bits == WriteData(data, len)
<1>1. \A k \in 1 .. len : (data \div 2 ^ (len - k)) % 2 \in Nat
  <2> SUFFICES ASSUME NEW k \in 1 .. len PROVE (data \div 2 ^ (len - k)) % 2 \in Nat
    OBVIOUS
  <2>1. 2 ^ (len - k) \in {1, 2, 4, 8, 16, 32, 64, 128}
    <3>1. len - k \in 0 .. 7
      OBVIOUS
    <3>. QED BY <3>1, SmallPowers
  <2>. QED BY <2>1
<1>2. bits \in [1 .. len -> Nat] /\ len \in Nat
  BY <1>1 DEF WriteData
<1> HIDE DEF bits
<1>3. Len(bits) = len /\ \A k \in 1 .. len : bits[k] \in Nat
  BY <1>2
<1>. QED BY <1>2, <1>3, NumberIsRead, Zenon DEF bits

LEMMA AddressIsRead == ASSUME NEW a \in 0 .. 127 PROVE ChipNumber(WriteData(a, 7)) = a
<1> DEFINE bits == WriteData(a, 7)
<1>1. PICK n \in [0 .. 7 -> Nat] :
          /\ ChipNumber(bits) = n[7]
          /\ n[0] = 0 /\ \A k \in 1 .. 7 : n[k] = 2 * n[k - 1] + bits[k]
  <2>1. a \in Nat /\ 7 \in 7 .. 8
    OBVIOUS
  <2>. QED BY <2>1, DataIsSent, Zenon
<1>2. /\ bits[1] = (a \div 64) % 2 /\ bits[2] = (a \div 32) % 2 /\ bits[3] = (a \div 16) % 2
      /\ bits[4] = (a \div 8) % 2 /\ bits[5] = (a \div 4) % 2 /\ bits[6] = (a \div 2) % 2
      /\ bits[7] = a % 2
  BY Powers DEF WriteData
<1>3. bits \in [1 .. 7 -> Nat]
  BY <1>2 DEF WriteData
<1>4. n[7] = 64 * bits[1] + 32 * bits[2] + 16 * bits[3] + 8 * bits[4] + 4 * bits[5]
             + 2 * bits[6] + bits[7]
  <2> HIDE DEF bits
  <2>1. 7 \in Nat /\ 8 \in Nat /\ 7 >= 7 /\ 8 >= 7
    OBVIOUS
  <2>. QED BY <1>1, <1>3, <2>1, SevenBits, Zenon
<1>5. a = 64 * ((a \div 64) % 2) + 32 * ((a \div 32) % 2) + 16 * ((a \div 16) % 2)
          + 8 * ((a \div 8) % 2) + 4 * ((a \div 4) % 2) + 2 * ((a \div 2) % 2) + (a % 2)
  OBVIOUS
<1> HIDE DEF bits
<1>6. ChipNumber(bits) = a
  BY <1>1, <1>2, <1>4, <1>5
<1>. QED BY <1>6 DEF bits

LEMMA CommandIsRead == ASSUME NEW c \in 0 .. 255 PROVE ChipNumber(WriteData(c, 8)) = c
<1> DEFINE bits == WriteData(c, 8)
<1>1. PICK n \in [0 .. 8 -> Nat] :
          /\ ChipNumber(bits) = n[8]
          /\ n[0] = 0 /\ \A k \in 1 .. 8 : n[k] = 2 * n[k - 1] + bits[k]
  <2>1. c \in Nat /\ 8 \in 7 .. 8
    OBVIOUS
  <2>. QED BY <2>1, DataIsSent, Zenon
<1>2. /\ bits[1] = (c \div 128) % 2 /\ bits[2] = (c \div 64) % 2 /\ bits[3] = (c \div 32) % 2
      /\ bits[4] = (c \div 16) % 2 /\ bits[5] = (c \div 8) % 2 /\ bits[6] = (c \div 4) % 2
      /\ bits[7] = (c \div 2) % 2 /\ bits[8] = c % 2
  BY Powers DEF WriteData
<1>3. bits \in [1 .. 8 -> Nat]
  BY <1>2 DEF WriteData
<1>4. n[7] = 64 * bits[1] + 32 * bits[2] + 16 * bits[3] + 8 * bits[4] + 4 * bits[5]
             + 2 * bits[6] + bits[7]
  <2> HIDE DEF bits
  <2>1. 7 \in Nat /\ 8 \in Nat /\ 7 >= 7 /\ 8 >= 7
    OBVIOUS
  <2>. QED BY <1>1, <1>3, <2>1, SevenBits, Zenon
<1>5. n[8] = 2 * n[7] + bits[8] /\ n[7] \in Nat
  BY <1>1
<1>6. c = 128 * ((c \div 128) % 2) + 64 * ((c \div 64) % 2) + 32 * ((c \div 32) % 2)
          + 16 * ((c \div 16) % 2) + 8 * ((c \div 8) % 2) + 4 * ((c \div 4) % 2)
          + 2 * ((c \div 2) % 2) + (c % 2)
  OBVIOUS
<1> HIDE DEF bits
<1>7. ChipNumber(bits) = c
  BY <1>1, <1>2, <1>4, <1>5, <1>6
<1>. QED BY <1>7 DEF bits

\* Rows, addresses and levels reach the chips as they are in memory.
THEOREM ChipsReceiveIt == ChipsReceiveWhatIsMeant
<1>1. ASSUME NEW word \in 0 .. 15, NEW flag \in {0, 16}
      PROVE  ChipRows(WriteDataRev(word + flag, 4)) = {b \in 0 .. 3 : (word \div 2 ^ b) % 2 = 1}
  <2>1. ASSUME NEW b \in 0 .. 3
        PROVE  WriteDataRev(word + flag, 4)[b + 1] = (word \div 2 ^ b) % 2
    <3>1. WriteDataRev(word + flag, 4)[b + 1] = ((word + flag) \div 2 ^ b) % 2
      BY DEF WriteDataRev
    <3>2. 2 ^ b \in {1, 2, 4, 8}
      <4>1. b \in {0, 1, 2, 3}
        OBVIOUS
      <4>. QED BY <4>1, Powers, Zenon
    <3>3. ((word + flag) \div 2 ^ b) % 2 = (word \div 2 ^ b) % 2
      BY <3>2
    <3>. QED BY <3>1, <3>3
  <2>. QED BY <2>1 DEF ChipRows
<1>2. ASSUME NEW level \in 1 .. 16
      PROVE  LET received == ChipNumber(WriteData(CmdPWM(level), 8))
             IN  received \div 16 = 10 /\ received % 16 = level - 1
  <2>1. CmdPWM(level) \in 0 .. 255 /\ CmdPWM(level) = 160 + (level - 1)
    BY DEF CmdPWM
  <2>2. ChipNumber(WriteData(CmdPWM(level), 8)) = 160 + (level - 1)
    BY <2>1, CommandIsRead
  <2>. QED BY <2>2
<1>3. \A a \in 0 .. 63 : ChipNumber(WriteData(a, 7)) = a
  BY AddressIsRead
<1>. QED BY <1>1, <1>2, <1>3 DEF ChipsReceiveWhatIsMeant

-----------------------------------------------------------------------------
(* The copying of an image.                                                *)

Padded(height) == ((height + 3) \div 4) * 4

\* What row r of the column shows when k words of the image have been copied:
\* the rows of the image above the end of word k - 1, less the carry.
RowIsCopied(v, r, height, y, k) ==
    /\ r - y \in 0 .. height - 1 /\ r - y < 4 * k - (y % 4) => v = r - y
    /\ r - y \in height .. Padded(height) - 1 => v \in {Old, Pad}
    /\ r - y \in height .. Padded(height) - 1 /\ y >= 0 /\ y % 4 = 0 => v = Old
    /\ r - y \notin 0 .. Padded(height) - 1 => v = Old
    /\ r - y >= 4 * k - (y % 4) => v = Old

\* The carry is there as soon as a word of the image has been on the screen, or
\* just above it, and is that of the last word.
CarryIsKept(s, height, y, k) ==
    /\ s.valid => y % 4 # 0 /\ k >= 1 /\ 4 * k + y > 0
    /\ s.valid /\ 4 * (k - 1) < height /\ 4 * (k - 1) + y < 16 => s.carryover = k - 1
    /\ y % 4 # 0 /\ k >= 1 /\ 4 * (k - 1) < height /\ 4 * k + y > 0 /\ 4 * (k - 1) + y < 16 => s.valid

Copied == [column : [Row -> Int], valid : BOOLEAN, carryover : Int]

LEMMA RowsAreSixteen == Row = 0 .. 15 /\ ComSize = 16
BY PixelsAssumption DEF Row

LEMMA WordParts ==
    ASSUME NEW y \in Int, NEW k \in Nat
    PROVE  \E m \in Int, c \in 0 .. 3 :
               /\ y = 4 * m + c /\ y % 4 = c
               /\ (4 * k + y) \div 4 = k + m /\ (4 * k + y) % 4 = c /\ (4 * k) \div 4 = k
<1>1. y \div 4 \in Int /\ y % 4 \in 0 .. 3 /\ y = 4 * (y \div 4) + (y % 4)
  OBVIOUS
<1>2. /\ (4 * k + y) \div 4 = k + (y \div 4) /\ (4 * k + y) % 4 = y % 4
      /\ (4 * k) \div 4 = k
  OBVIOUS
<1>. QED BY <1>1, <1>2

LEMMA PaddedParts ==
    ASSUME NEW height \in Nat
    PROVE  \E q \in Nat : Padded(height) = 4 * q /\ 4 * q >= height /\ 4 * q < height + 4
<1>1. (height + 3) \div 4 \in Nat /\ Padded(height) = 4 * ((height + 3) \div 4)
      /\ 4 * ((height + 3) \div 4) >= height /\ 4 * ((height + 3) \div 4) < height + 4
  BY DEF Padded
<1>. QED BY <1>1

LEMMA RowParts == ASSUME NEW r \in Row PROVE \E p \in 0 .. 3, b \in 0 .. 3 :
                      r = 4 * p + b /\ r \div 4 = p /\ r % 4 = b
<1>1. r \in 0 .. 15
  BY RowsAreSixteen
<1>2. r \div 4 \in 0 .. 3 /\ r % 4 \in 0 .. 3 /\ r = 4 * (r \div 4) + (r % 4)
  BY <1>1
<1>. QED BY <1>2

\* The words that are skipped: below the image or off the screen.
LEMMA SkippedWord ==
    ASSUME NEW height \in Nat, NEW y \in Int, NEW k \in Nat, NEW s,
           NEW r \in Row, NEW v \in Int, RowIsCopied(v, r, height, y, k), CarryIsKept(s, height, y, k),
           \/ 4 * k >= (IF s.valid THEN height + 4 ELSE height)
           \/ 4 * k + y <= -4 \/ 4 * k + y >= 16
    PROVE  RowIsCopied(v, r, height, y, k + 1)
<1>1. PICK m \in Int, c \in 0 .. 3 : y = 4 * m + c /\ y % 4 = c
  BY WordParts
<1>2. PICK p \in 0 .. 3, b \in 0 .. 3 : r = 4 * p + b
  BY RowParts
<1>3. PICK q \in Nat : Padded(height) = 4 * q
  BY PaddedParts
<1>. QED BY <1>1, <1>2, <1>3 DEF RowIsCopied, CarryIsKept

LEMMA CarrySkipped ==
    ASSUME NEW height \in Nat, NEW y \in Int, NEW k \in Nat, NEW s, CarryIsKept(s, height, y, k),
           \/ 4 * k >= (IF s.valid THEN height + 4 ELSE height)
           \/ 4 * k + y <= -4 \/ 4 * k + y >= 16
    PROVE  CarryIsKept(s, height, y, k + 1)
<1>1. PICK m \in Int, c \in 0 .. 3 : y = 4 * m + c /\ y % 4 = c
  BY WordParts
<1>. QED BY <1>1 DEF CarryIsKept

\* The state of the loop over the words, when a part of it changes.
LEMMA ColumnSet ==
    ASSUME NEW s \in Copied, NEW column \in [Row -> Int]
    PROVE  LET t == [s EXCEPT !.column = column]
           IN  t \in Copied /\ t.column = column /\ t.valid = s.valid /\ t.carryover = s.carryover
BY DEF Copied

LEMMA CarrySet ==
    ASSUME NEW s \in Copied, NEW w \in Int
    PROVE  LET t == [s EXCEPT !.carryover = w]
           IN  t \in Copied /\ t.column = s.column /\ t.valid = s.valid /\ t.carryover = w
BY DEF Copied

LEMMA CarryStarted ==
    ASSUME NEW s \in Copied, NEW w \in Int
    PROVE  LET t == [s EXCEPT !.valid = TRUE, !.carryover = w]
           IN  t \in Copied /\ t.column = s.column /\ t.valid = TRUE /\ t.carryover = w
BY DEF Copied

\* A row of another word stays as it is.
LEMMA OtherWord ==
    ASSUME NEW height \in Nat, NEW y \in Int, NEW k \in Nat, NEW r \in Row, NEW v \in Int,
           RowIsCopied(v, r, height, y, k), r \div 4 # (4 * k + y) \div 4
    PROVE  RowIsCopied(v, r, height, y, k + 1)
<1>1. PICK m \in Int, c \in 0 .. 3 : y = 4 * m + c /\ y % 4 = c /\ (4 * k + y) \div 4 = k + m
  BY WordParts
<1>2. PICK p \in 0 .. 3, b \in 0 .. 3 : r = 4 * p + b /\ r \div 4 = p
  BY RowParts
<1>3. PICK q \in Nat : Padded(height) = 4 * q
  BY PaddedParts
<1>. QED BY <1>1, <1>2, <1>3 DEF RowIsCopied

\* A row of word k is written, or is not one of the image.
LEMMA ThisWord ==
    ASSUME NEW height \in Nat, NEW y \in Int, NEW k \in Nat, NEW r \in Row, NEW v \in Int, NEW w \in Int,
           RowIsCopied(v, r, height, y, k), r \div 4 = (4 * k + y) \div 4,
           \/ w = v /\ r - y \notin 4 * k - (y % 4) .. height - 1
           \/ w = v /\ r < y
           \/ /\ w = IF r - y < height THEN r - y ELSE Pad
              /\ r - y >= 0 /\ r - y < Padded(height)
              /\ y >= 0 /\ y % 4 = 0 => r - y < height
    PROVE  RowIsCopied(w, r, height, y, k + 1)
<1>1. PICK m \in Int, c \in 0 .. 3 : y = 4 * m + c /\ y % 4 = c /\ (4 * k + y) \div 4 = k + m
  BY WordParts
<1>2. PICK p \in 0 .. 3, b \in 0 .. 3 : r = 4 * p + b /\ r \div 4 = p
  BY RowParts
<1>3. PICK q \in Nat : Padded(height) = 4 * q /\ 4 * q >= height
  BY PaddedParts
<1>. QED BY <1>1, <1>2, <1>3 DEF RowIsCopied

\* CopyAligned, row by row.
LEMMA AlignedWord ==
    ASSUME NEW height \in Nat, NEW y \in Int, NEW k \in Nat, NEW s \in Copied, NEW r \in Row,
           (4 * k + y) % 4 = 0, 4 * k < height, 4 * k + y > -4,
           RowIsCopied(s.column[r], r, height, y, k)
    PROVE  LET t == CopyAligned(s, height, y, 4 * k)
           IN  /\ t \in Copied /\ t.valid = s.valid /\ t.carryover = s.carryover
               /\ RowIsCopied(t.column[r], r, height, y, k + 1)
<1> DEFINE t == CopyAligned(s, height, y, 4 * k)
<1>1. PICK m \in Int, c \in 0 .. 3 : /\ y = 4 * m + c /\ y % 4 = c /\ (4 * k + y) % 4 = c
                                     /\ (4 * k + y) \div 4 = k + m /\ (4 * k) \div 4 = k
  BY WordParts
<1>2. PICK p \in 0 .. 3, b \in 0 .. 3 : r = 4 * p + b /\ r \div 4 = p /\ r % 4 = b
  BY RowParts
<1>3. PICK q \in Nat : Padded(height) = 4 * q /\ 4 * q >= height
  BY PaddedParts
<1>4. \A a \in 0 .. 3 : ImageBit(height, k, a) = (IF 4 * k + a < height THEN 4 * k + a ELSE Pad)
                         /\ ImageBit(height, k, a) \in Int
  BY DEF ImageBit, Off, Pad
<1>5. /\ t \in Copied /\ t.valid = s.valid /\ t.carryover = s.carryover
      /\ t.column = [x \in Row |->
             IF x \div 4 = k + m /\ x % 4 \in MaskBottom(height, 4 * k + y, height - 4 * k)
             THEN ImageBit(height, k, x % 4) ELSE s.column[x]]
  BY <1>1, <1>4 DEF CopyAligned, Word, Copied, MaskBottom
<1>6. t.column[r] = IF p = k + m /\ (height - (4 * k + y) >= 4 \/ b < height - 4 * k)
                    THEN ImageBit(height, k, b) ELSE s.column[r]
  BY <1>2, <1>5 DEF MaskBottom
<1>7. s.column[r] \in Int /\ t.column[r] \in Int
  BY <1>5 DEF Copied
<1> HIDE DEF t
<1>8. ASSUME p # k + m PROVE RowIsCopied(t.column[r], r, height, y, k + 1)
  <2>1. t.column[r] = s.column[r]
    BY <1>6, <1>8
  <2>2. r \div 4 # (4 * k + y) \div 4
    BY <1>1, <1>2, <1>8
  <2>3. RowIsCopied(s.column[r], r, height, y, k + 1)
    BY <1>7, <2>2, OtherWord
  <2>. QED BY <2>1, <2>3
<1>9. ASSUME p = k + m PROVE RowIsCopied(t.column[r], r, height, y, k + 1)
  <2>1. c = 0
    BY <1>1
  <2>2. r - y = 4 * k + b
    BY <1>1, <1>2, <1>9, <2>1
  <2>3. r \div 4 = (4 * k + y) \div 4 /\ y % 4 = 0
    BY <1>1, <1>2, <1>9, <2>1
  <2>4. ImageBit(height, k, b) = (IF 4 * k + b < height THEN 4 * k + b ELSE Pad)
    BY <1>4
  <2>5. 4 * k + b >= 0 /\ 4 * k + b < Padded(height)
    BY <1>3
  <2> DEFINE v == s.column[r]
             w == t.column[r]
  <2>6. \/ w = v /\ r - y \notin 4 * k - (y % 4) .. height - 1
        \/ /\ w = IF r - y < height THEN r - y ELSE Pad
           /\ r - y >= 0 /\ r - y < Padded(height)
           /\ y >= 0 /\ y % 4 = 0 => r - y < height
    <3>1. CASE height - (4 * k + y) >= 4 \/ b < height - 4 * k
      <4>1. w = IF r - y < height THEN r - y ELSE Pad
        BY <1>6, <1>9, <2>2, <2>4, <3>1
      <4>2. y >= 0 => r - y < height
        BY <2>2, <3>1
      <4>. QED BY <2>2, <2>5, <4>1, <4>2
    <3>2. CASE ~(height - (4 * k + y) >= 4 \/ b < height - 4 * k)
      <4>1. w = v
        BY <1>6, <1>9, <3>2
      <4>. QED BY <2>2, <3>2, <4>1
    <3>. QED BY <3>1, <3>2
  <2>7. RowIsCopied(w, r, height, y, k + 1)
    BY <1>7, <2>3, <2>6, ThisWord
  <2>. QED BY <2>7
<1>10. RowIsCopied(t.column[r], r, height, y, k + 1)
  BY <1>8, <1>9
<1>. QED BY <1>5, <1>10 DEF t

\* CopyStart: the first word of an image that is not aligned, or the first
\* that reaches into the screen.
LEMMA StartWord ==
    ASSUME NEW height \in Nat, NEW y \in Int, NEW k \in Nat, NEW s \in Copied, NEW r \in Row,
           height >= 4, (4 * k + y) % 4 # 0, 4 * k < height, 4 * k + y > -4, 4 * k + y < 16,
           ~s.valid, CarryIsKept(s, height, y, k), RowIsCopied(s.column[r], r, height, y, k)
    PROVE  LET t == CopyStart(s, height, y, 4 * k)
           IN  /\ t \in Copied /\ CarryIsKept(t, height, y, k + 1)
               /\ RowIsCopied(t.column[r], r, height, y, k + 1)
<1> DEFINE t == CopyStart(s, height, y, 4 * k)
           mask == {b \in MaskBottom(height, 4 * k + y, height - 4 * k) : b >= y % 4}
<1>1. PICK m \in Int, c \in 0 .. 3 : /\ y = 4 * m + c /\ y % 4 = c /\ (4 * k + y) % 4 = c
                                     /\ (4 * k + y) \div 4 = k + m /\ (4 * k) \div 4 = k
  BY WordParts
<1>2. PICK p \in 0 .. 3, b \in 0 .. 3 : r = 4 * p + b /\ r \div 4 = p /\ r % 4 = b
  BY RowParts
<1>3. PICK q \in Nat : Padded(height) = 4 * q /\ 4 * q >= height
  BY PaddedParts
<1>4. \A a \in Int : ImageBit(height, k, a) \in Int
  BY DEF ImageBit, Off, Pad
<1>5. /\ t \in Copied /\ t.valid = TRUE /\ t.carryover = k
      /\ t.column = [x \in Row |->
             IF 4 * k + y > 0 /\ x \div 4 = k + m /\ x % 4 \in mask
             THEN ImageBit(height, k, (x % 4) - c) ELSE s.column[x]]
  <2> DEFINE column == [x \in Row |-> IF x \div 4 = (4 * k + y) \div 4 /\ x % 4 \in mask
                                      THEN ImageBit(height, (4 * k) \div 4, (x % 4) - (y % 4))
                                      ELSE s.column[x]]
             u == [s EXCEPT !.column = column]
             z == IF 4 * k + y > 0 THEN u ELSE s
  <2>1. t = [z EXCEPT !.valid = TRUE, !.carryover = (4 * k) \div 4]
    BY DEF CopyStart, Word
  <2>2. column \in [Row -> Int]
    BY <1>1, <1>4, RowsAreSixteen DEF Copied
  <2>3. u \in Copied /\ u.column = column
    <3> HIDE DEF column
    <3>. QED BY <2>2, ColumnSet
  <2>4. z \in Copied /\ z.column = IF 4 * k + y > 0 THEN column ELSE s.column
    <3> HIDE DEF column, u
    <3>. QED BY <2>3
  <2>5. t \in Copied /\ t.column = z.column /\ t.valid = TRUE /\ t.carryover = k
    <3> HIDE DEF t, z
    <3>1. (4 * k) \div 4 \in Int
      BY <1>1
    <3>. QED BY <1>1, <2>1, <2>4, <3>1, CarryStarted
  <2>6. z.column = [x \in Row |->
             IF 4 * k + y > 0 /\ x \div 4 = k + m /\ x % 4 \in mask
             THEN ImageBit(height, k, (x % 4) - c) ELSE s.column[x]]
    <3> HIDE DEF z, mask
    <3>1. CASE 4 * k + y > 0
      BY <1>1, <2>4, <3>1
    <3>2. CASE ~(4 * k + y > 0)
      BY <2>4, <3>2 DEF Copied
    <3>. QED BY <3>1, <3>2
  <2> HIDE DEF t, z, mask
  <2>. QED BY <2>5, <2>6
<1>6. t.column[r] = IF 4 * k + y > 0 /\ p = k + m /\ b >= c
                         /\ (height - (4 * k + y) >= 4 \/ b < height - 4 * k)
                    THEN ImageBit(height, k, b - c) ELSE s.column[r]
  BY <1>1, <1>2, <1>5 DEF MaskBottom
<1>7. s.column[r] \in Int /\ t.column[r] \in Int
  BY <1>5 DEF Copied
<1>0. t.valid = TRUE /\ t.carryover = k /\ t \in Copied
  BY <1>5
<1> HIDE DEF t
<1>8. ASSUME p # k + m PROVE RowIsCopied(t.column[r], r, height, y, k + 1)
  <2>1. t.column[r] = s.column[r]
    BY <1>6, <1>8
  <2>2. r \div 4 # (4 * k + y) \div 4
    BY <1>1, <1>2, <1>8
  <2>3. RowIsCopied(s.column[r], r, height, y, k + 1)
    BY <1>7, <2>2, OtherWord
  <2>. QED BY <2>1, <2>3
<1>9. ASSUME p = k + m PROVE RowIsCopied(t.column[r], r, height, y, k + 1)
  <2>1. c # 0 /\ r - y = 4 * k + b - c /\ 4 * k + y = 4 * p + c
    BY <1>1, <1>2, <1>9
  <2>2. k = 0
    BY <1>1, <2>1 DEF CarryIsKept
  <2>3. r \div 4 = (4 * k + y) \div 4
    BY <1>1, <1>2, <1>9
  <2> DEFINE v == s.column[r]
             w == t.column[r]
  <2>4. CASE b < c
    <3>1. w = v
      BY <1>6, <2>4
    <3>2. r < y
      BY <2>1, <2>2, <2>4, <1>1, <1>2
    <3>. QED BY <1>7, <2>3, <3>1, <3>2, ThisWord
  <2>5. CASE b >= c
    <3>1. 4 * k + y > 0 /\ b < height - 4 * k
      BY <2>1, <2>2, <2>5
    <3>2. w = ImageBit(height, k, b - c)
      BY <1>6, <1>9, <2>5, <3>1
    <3>3. ImageBit(height, k, b - c) = IF 4 * k + (b - c) < height THEN 4 * k + (b - c) ELSE Pad
      BY <2>5 DEF ImageBit
    <3>4. r - y >= 0 /\ r - y < Padded(height) /\ r - y < height
      BY <1>3, <2>1, <2>2, <2>5
    <3>5. w = IF r - y < height THEN r - y ELSE Pad
      BY <2>1, <3>2, <3>3
    <3>. QED BY <1>7, <2>3, <3>4, <3>5, ThisWord
  <2>. QED BY <2>4, <2>5
<1>10. RowIsCopied(t.column[r], r, height, y, k + 1)
  BY <1>8, <1>9
<1>11. CarryIsKept(t, height, y, k + 1)
  BY <1>0, <1>1 DEF CarryIsKept
<1>. QED BY <1>0, <1>10, <1>11 DEF t

\* CopyMiddle: what the word before has left, and the rest of this one.
LEMMA MiddleWord ==
    ASSUME NEW height \in Nat, NEW y \in Int, NEW k \in Nat, NEW s \in Copied, NEW r \in Row,
           (4 * k + y) % 4 # 0, 4 * k < height, 4 * k + y < 16,
           s.valid, CarryIsKept(s, height, y, k), RowIsCopied(s.column[r], r, height, y, k)
    PROVE  LET t == CopyMiddle(s, height, y, 4 * k)
           IN  /\ t \in Copied /\ CarryIsKept(t, height, y, k + 1)
               /\ RowIsCopied(t.column[r], r, height, y, k + 1)
<1> DEFINE t == CopyMiddle(s, height, y, 4 * k)
           Both(a) == Or(ImageBit(height, k, a), ImageBit(height, k - 1, a + 4))
<1>1. PICK m \in Int, c \in 0 .. 3 : /\ y = 4 * m + c /\ y % 4 = c /\ (4 * k + y) % 4 = c
                                     /\ (4 * k + y) \div 4 = k + m /\ (4 * k) \div 4 = k
  BY WordParts
<1>2. PICK p \in 0 .. 3, b \in 0 .. 3 : r = 4 * p + b /\ r \div 4 = p /\ r % 4 = b
  BY RowParts
<1>3. PICK q \in Nat : Padded(height) = 4 * q /\ 4 * q >= height
  BY PaddedParts
<1>4. s.carryover = k - 1 /\ k >= 1 /\ c # 0
  BY <1>1 DEF CarryIsKept
<1>12. \A a \in -3 .. 3 : Both(a) = (IF 4 * k + a < height THEN 4 * k + a ELSE Pad) /\ Both(a) \in Int
  BY <1>4 DEF ImageBit, Or, Off, Pad, Mixed
<1> HIDE DEF Both
<1>5. /\ t \in Copied /\ t.valid = s.valid /\ t.carryover = k
      /\ t.column = [x \in Row |->
             IF x \div 4 = k + m /\ x % 4 \in MaskBottom(height, 4 * k + y, height + c - 4 * k)
             THEN Both((x % 4) - c) ELSE s.column[x]]
  <2>1. \A x \in Row : (x % 4) - c \in -3 .. 3 /\ (x % 4) + 4 - c = ((x % 4) - c) + 4
    BY RowsAreSixteen
  <2>2. \A x \in Row : Both((x % 4) - c) \in Int
    BY <1>12, <2>1
  <2> DEFINE column == [x \in Row |->
                 IF x \div 4 = k + m /\ x % 4 \in MaskBottom(height, 4 * k + y, height + c - 4 * k)
                 THEN Both((x % 4) - c) ELSE s.column[x]]
             u == [s EXCEPT !.column = column]
  <2>3. t = [u EXCEPT !.carryover = (4 * k) \div 4]
    <3>1. column = [x \in Row |->
              IF x \div 4 = (4 * k + y) \div 4
                 /\ x % 4 \in MaskBottom(height, 4 * k + y, height + (y % 4) - 4 * k)
              THEN Or(ImageBit(height, (4 * k) \div 4, (x % 4) - (y % 4)),
                      ImageBit(height, s.carryover, (x % 4) + 4 - (y % 4)))
              ELSE s.column[x]]
      BY <1>1, <1>4, <2>1 DEF Both
    <3> HIDE DEF column
    <3>. QED BY <3>1 DEF CopyMiddle, Word
  <2>4. column \in [Row -> Int]
    BY <2>2 DEF Copied
  <2>5. u \in Copied /\ u.column = column /\ u.valid = s.valid
    <3> HIDE DEF column
    <3>. QED BY <2>4, ColumnSet
  <2>6. t \in Copied /\ t.column = u.column /\ t.valid = u.valid /\ t.carryover = k
    <3> HIDE DEF t, u
    <3>1. (4 * k) \div 4 \in Int
      BY <1>1
    <3>. QED BY <1>1, <2>3, <2>5, <3>1, CarrySet
  <2> HIDE DEF t, u
  <2>. QED BY <2>5, <2>6
<1>6. t.column[r] = IF p = k + m /\ (height - (4 * k + y) >= 4 \/ b < height + c - 4 * k)
                    THEN Both(b - c) ELSE s.column[r]
  BY <1>1, <1>2, <1>5 DEF MaskBottom
<1>7. s.column[r] \in Int /\ t.column[r] \in Int
  BY <1>5 DEF Copied
<1>0. t.valid = s.valid /\ t.carryover = k /\ t \in Copied
  BY <1>5
<1> HIDE DEF t
<1>8. ASSUME p # k + m PROVE RowIsCopied(t.column[r], r, height, y, k + 1)
  <2>1. t.column[r] = s.column[r]
    BY <1>6, <1>8
  <2>2. r \div 4 # (4 * k + y) \div 4
    BY <1>1, <1>2, <1>8
  <2>3. RowIsCopied(s.column[r], r, height, y, k + 1)
    BY <1>7, <2>2, OtherWord
  <2>. QED BY <2>1, <2>3
<1>9. ASSUME p = k + m PROVE RowIsCopied(t.column[r], r, height, y, k + 1)
  <2>1. r - y = 4 * k + (b - c) /\ b - c \in -3 .. 3
    BY <1>1, <1>2, <1>9
  <2>2. r \div 4 = (4 * k + y) \div 4 /\ y % 4 = c
    BY <1>1, <1>2, <1>9
  <2> DEFINE v == s.column[r]
             w == t.column[r]
  <2>3. CASE height - (4 * k + y) >= 4 \/ b < height + c - 4 * k
    <3>1. w = Both(b - c)
      BY <1>6, <1>9, <2>3
    <3>2. w = IF r - y < height THEN r - y ELSE Pad
      BY <1>12, <2>1, <3>1
    <3>3. r - y >= 0 /\ r - y < Padded(height)
      BY <1>3, <1>4, <2>1
    <3>. QED BY <1>4, <1>7, <2>2, <3>2, <3>3, ThisWord
  <2>4. CASE ~(height - (4 * k + y) >= 4 \/ b < height + c - 4 * k)
    <3>1. w = v
      BY <1>6, <1>9, <2>4
    <3>2. r - y \notin 4 * k - (y % 4) .. height - 1
      BY <2>1, <2>2, <2>4
    <3>. QED BY <1>7, <2>2, <3>1, <3>2, ThisWord
  <2>. QED BY <2>3, <2>4
<1>10. RowIsCopied(t.column[r], r, height, y, k + 1)
  BY <1>8, <1>9
<1>11. CarryIsKept(t, height, y, k + 1)
  BY <1>0, <1>1 DEF CarryIsKept
<1>. QED BY <1>0, <1>10, <1>11 DEF t

\* CopyEnd: what the last word has left.
LEMMA EndWord ==
    ASSUME NEW height \in Nat, NEW y \in Int, NEW k \in Nat, NEW s \in Copied, NEW r \in Row,
           (4 * k + y) % 4 # 0, 4 * k >= height, 4 * k < height + 4, 4 * k + y < 16,
           s.valid, CarryIsKept(s, height, y, k), RowIsCopied(s.column[r], r, height, y, k)
    PROVE  LET t == CopyEnd(s, height, y, 4 * k)
           IN  /\ t \in Copied /\ CarryIsKept(t, height, y, k + 1)
               /\ RowIsCopied(t.column[r], r, height, y, k + 1)
<1> DEFINE t == CopyEnd(s, height, y, 4 * k)
<1>1. PICK m \in Int, c \in 0 .. 3 : /\ y = 4 * m + c /\ y % 4 = c /\ (4 * k + y) % 4 = c
                                     /\ (4 * k + y) \div 4 = k + m /\ (4 * k) \div 4 = k
  BY WordParts
<1>2. PICK p \in 0 .. 3, b \in 0 .. 3 : r = 4 * p + b /\ r \div 4 = p /\ r % 4 = b
  BY RowParts
<1>3. PICK q \in Nat : Padded(height) = 4 * q /\ 4 * q >= height
  BY PaddedParts
<1>4. s.carryover = k - 1 /\ k >= 1 /\ c # 0
  BY <1>1 DEF CarryIsKept
<1>12. \A a \in 0 .. 3 : ImageBit(height, k - 1, a + 4 - c) \in Int
  BY <1>4 DEF ImageBit, Off, Pad
<1>5. /\ t \in Copied /\ t.valid = s.valid /\ t.carryover = s.carryover
      /\ t.column = [x \in Row |->
             IF x \div 4 = k + m /\ x % 4 \in {a \in 0 .. 3 : a < c}
             THEN ImageBit(height, k - 1, (x % 4) + 4 - c) ELSE s.column[x]]
  <2>1. \A x \in Row : x % 4 \in 0 .. 3
    BY RowsAreSixteen
  <2>. QED BY <1>1, <1>4, <1>12, <2>1 DEF CopyEnd, Word, Copied
<1>6. t.column[r] = IF p = k + m /\ b < c THEN ImageBit(height, k - 1, b + 4 - c) ELSE s.column[r]
  BY <1>1, <1>2, <1>5
<1>7. s.column[r] \in Int /\ t.column[r] \in Int
  BY <1>5 DEF Copied
<1>0. t.valid = s.valid /\ t.carryover = s.carryover /\ t \in Copied
  BY <1>5
<1> HIDE DEF t
<1>8. ASSUME p # k + m PROVE RowIsCopied(t.column[r], r, height, y, k + 1)
  <2>1. t.column[r] = s.column[r]
    BY <1>6, <1>8
  <2>2. r \div 4 # (4 * k + y) \div 4
    BY <1>1, <1>2, <1>8
  <2>3. RowIsCopied(s.column[r], r, height, y, k + 1)
    BY <1>7, <2>2, OtherWord
  <2>. QED BY <2>1, <2>3
<1>9. ASSUME p = k + m PROVE RowIsCopied(t.column[r], r, height, y, k + 1)
  <2>1. r - y = 4 * k + (b - c)
    BY <1>1, <1>2, <1>9
  <2>2. r \div 4 = (4 * k + y) \div 4 /\ y % 4 = c
    BY <1>1, <1>2, <1>9
  <2> DEFINE v == s.column[r]
             w == t.column[r]
  <2>3. CASE b < c
    <3>1. w = ImageBit(height, k - 1, b + 4 - c)
      BY <1>6, <1>9, <2>3
    <3>2. ImageBit(height, k - 1, b + 4 - c) = IF 4 * k + (b - c) < height THEN 4 * k + (b - c) ELSE Pad
      BY <1>4, <2>3 DEF ImageBit
    <3>3. w = IF r - y < height THEN r - y ELSE Pad
      BY <2>1, <3>1, <3>2
    <3>4. r - y >= 0 /\ r - y < Padded(height)
      BY <1>3, <1>4, <2>1, <2>3
    <3>. QED BY <1>4, <1>7, <2>2, <3>3, <3>4, ThisWord
  <2>4. CASE ~(b < c)
    <3>1. w = v
      BY <1>6, <2>4
    <3>2. r - y \notin 4 * k - (y % 4) .. height - 1
      BY <2>1, <2>2, <2>4
    <3>. QED BY <1>7, <2>2, <3>1, <3>2, ThisWord
  <2>. QED BY <2>3, <2>4
<1>10. RowIsCopied(t.column[r], r, height, y, k + 1)
  BY <1>8, <1>9
<1>11. CarryIsKept(t, height, y, k + 1)
  BY <1>0, <1>1, <1>4 DEF CarryIsKept
<1>. QED BY <1>0, <1>10, <1>11 DEF t

\* One turn of the loop copies one word.
LEMMA WordIsCopied ==
    ASSUME NEW height \in Nat, NEW y \in Int, NEW k \in Nat, NEW s \in Copied,
           height >= 4, CarryIsKept(s, height, y, k),
           \A r \in Row : RowIsCopied(s.column[r], r, height, y, k)
    PROVE  LET t == CopyWord(s, height, y, 4 * k)
           IN  /\ t \in Copied /\ CarryIsKept(t, height, y, k + 1)
               /\ \A r \in Row : RowIsCopied(t.column[r], r, height, y, k + 1)
<1> DEFINE j == 4 * k
           t == CopyWord(s, height, y, j)
<1>0. 0 \in Row /\ s.valid \in BOOLEAN /\ \A r \in Row : s.column[r] \in Int
  BY RowsAreSixteen DEF Copied
<1>1. CASE j >= (IF s.valid THEN height + 4 ELSE height) \/ j + y <= -4 \/ j + y >= 16
  <2>1. t = s
    BY <1>1, RowsAreSixteen DEF CopyWord
  <2>2. CarryIsKept(s, height, y, k + 1)
    BY <1>1, CarrySkipped
  <2>3. \A r \in Row : RowIsCopied(s.column[r], r, height, y, k + 1)
    BY <1>0, <1>1, SkippedWord
  <2>. QED BY <2>1, <2>2, <2>3
<1>2. CASE ~(j >= (IF s.valid THEN height + 4 ELSE height) \/ j + y <= -4 \/ j + y >= 16)
  <2>1. j + y > -4 /\ j + y < 16 /\ j < height + 4 /\ (j >= height => s.valid)
    BY <1>0, <1>2
  <2>2. CASE (j + y) % 4 = 0
    <3>1. t = CopyAligned(s, height, y, j)
      BY <1>2, <2>2, RowsAreSixteen DEF CopyWord
    <3>2. ~s.valid
      <4>1. y % 4 = 0
        BY <2>2, WordParts
      <4>. QED BY <4>1 DEF CarryIsKept
    <3>3. j < height
      BY <2>1, <3>2
    <3> HIDE DEF t
    <3>4. \A r \in Row : /\ t \in Copied /\ t.valid = s.valid /\ t.carryover = s.carryover
                         /\ RowIsCopied(t.column[r], r, height, y, k + 1)
      BY <2>1, <2>2, <3>1, <3>3, AlignedWord
    <3>5. CarryIsKept(t, height, y, k + 1)
      <4>1. y % 4 = 0
        BY <2>2, WordParts
      <4>2. t.valid = s.valid
        BY <1>0, <3>4
      <4>. QED BY <3>2, <4>1, <4>2 DEF CarryIsKept
    <3>. QED BY <1>0, <3>4, <3>5 DEF t
  <2>3. CASE (j + y) % 4 # 0 /\ ~s.valid
    <3>1. t = CopyStart(s, height, y, j)
      BY <1>2, <2>3, RowsAreSixteen DEF CopyWord
    <3>2. j < height
      BY <2>1, <2>3
    <3> HIDE DEF t
    <3>3. \A r \in Row : /\ t \in Copied /\ CarryIsKept(t, height, y, k + 1)
                         /\ RowIsCopied(t.column[r], r, height, y, k + 1)
      BY <2>1, <2>3, <3>1, <3>2, StartWord
    <3>. QED BY <1>0, <3>3 DEF t
  <2>4. CASE (j + y) % 4 # 0 /\ s.valid /\ j < height
    <3>1. t = CopyMiddle(s, height, y, j)
      BY <1>2, <2>4, RowsAreSixteen DEF CopyWord
    <3> HIDE DEF t
    <3>2. \A r \in Row : /\ t \in Copied /\ CarryIsKept(t, height, y, k + 1)
                         /\ RowIsCopied(t.column[r], r, height, y, k + 1)
      BY <2>1, <2>4, <3>1, MiddleWord
    <3>. QED BY <1>0, <3>2 DEF t
  <2>5. CASE (j + y) % 4 # 0 /\ s.valid /\ j >= height
    <3>1. t = CopyEnd(s, height, y, j)
      BY <1>2, <2>5, RowsAreSixteen DEF CopyWord
    <3> HIDE DEF t
    <3>2. \A r \in Row : /\ t \in Copied /\ CarryIsKept(t, height, y, k + 1)
                         /\ RowIsCopied(t.column[r], r, height, y, k + 1)
      BY <2>1, <2>5, <3>1, EndWord
    <3>. QED BY <1>0, <3>2 DEF t
  <2>. QED BY <1>0, <2>2, <2>3, <2>4, <2>5
<1>. QED BY <1>1, <1>2

\* Whatever has been copied so far, the loop's state keeps its type.
LEMMA CopyWordTyped ==
    ASSUME NEW height \in Nat, NEW y \in Int, NEW j \in Nat, NEW s \in Copied
    PROVE  CopyWord(s, height, y, j) \in Copied
<1> DEFINE c == y % 4
           i == j \div 4
<1>1. /\ c \in 0 .. 3 /\ i \in Int /\ s.carryover \in Int /\ s.column \in [Row -> Int]
      /\ \A x \in Row : x % 4 \in 0 .. 3
  BY RowsAreSixteen DEF Copied
<1>2. \A l \in Int, a \in Int : ImageBit(height, l, a) \in Int
  BY DEF ImageBit, Off, Pad
<1>3. \A a \in Int, b \in Int : Or(a, b) \in Int
  BY DEF Or, Mixed
<1> HIDE DEF c, i
<1>4. ASSUME NEW mask PROVE
      /\ [x \in Row |-> IF x \div 4 = (j + y) \div 4 /\ x % 4 \in mask
                        THEN ImageBit(height, i, x % 4) ELSE s.column[x]] \in [Row -> Int]
      /\ [x \in Row |-> IF x \div 4 = (j + y) \div 4 /\ x % 4 \in mask
                        THEN ImageBit(height, i, (x % 4) - c) ELSE s.column[x]] \in [Row -> Int]
      /\ [x \in Row |-> IF x \div 4 = (j + y) \div 4 /\ x % 4 \in mask
                        THEN ImageBit(height, s.carryover, (x % 4) + 4 - c) ELSE s.column[x]] \in [Row -> Int]
      /\ [x \in Row |-> IF x \div 4 = (j + y) \div 4 /\ x % 4 \in mask
                        THEN Or(ImageBit(height, i, (x % 4) - c),
                                ImageBit(height, s.carryover, (x % 4) + 4 - c))
                        ELSE s.column[x]] \in [Row -> Int]
  <2>1. \A x \in Row : x % 4 \in Int /\ (x % 4) - c \in Int /\ (x % 4) + 4 - c \in Int
    BY <1>1
  <2>. QED BY <1>1, <1>2, <1>3, <2>1
<1>5. CopyAligned(s, height, y, j) \in Copied
  BY <1>4, ColumnSet DEF CopyAligned, Word, i
<1>6. CopyEnd(s, height, y, j) \in Copied
  BY <1>4, ColumnSet DEF CopyEnd, Word, c
<1>7. CopyMiddle(s, height, y, j) \in Copied
  BY <1>1, <1>4, ColumnSet, CarrySet DEF CopyMiddle, Word, c, i
<1>8. CopyStart(s, height, y, j) \in Copied
  BY <1>1, <1>4, ColumnSet, CarryStarted DEF CopyStart, Word, c, i
<1>. QED BY <1>5, <1>6, <1>7, <1>8 DEF CopyWord

\* drawImage: a column of an image of any height of at least four rows, put at
\* any row, on the screen or partly off it.
LEMMA ColumnIsCopied ==
    ASSUME NEW height \in Nat, height >= 4, NEW y \in Int, NEW x \in Column
    PROVE  \A r \in Row : LET v == DrawImageColumn(height, x, y)[r] IN
               /\ r - y \in 0 .. height - 1 => v = r - y
               /\ r - y \in height .. Padded(height) - 1 => v \in {Old, Pad}
               /\ r - y \in height .. Padded(height) - 1 /\ y >= 0 /\ y % 4 = 0 => v = Old
               /\ r - y \notin 0 .. Padded(height) - 1 => v = Old
<1> DEFINE n == (height + 7) \div 4
           init == [column |-> [r \in Row |-> Old], valid |-> FALSE, carryover |-> -1]
           Turn(s, k) == CopyWord(s, height, y, 4 * (k - 1))
           step == [k \in 1 .. n |-> [s \in Copied |-> Turn(s, k)]]
           copied[k \in 0 .. n] == IF k = 0 THEN init ELSE Turn(copied[k - 1], k)
           off == y + height < 0 \/ y > ComSize
<1>1. DrawImageColumn(height, x, y) = IF off THEN copied[0].column ELSE copied[n].column
  <2>1. ~(x < 0 \/ x >= OutSize)
    BY PixelsAssumption DEF Column
  <2>. QED BY <2>1 DEF DrawImageColumn
<1> HIDE DEF copied
<1>2. n \in Nat /\ 4 * n >= height + 4
  OBVIOUS
<1> HIDE DEF n
<1>3. init \in Copied
  BY DEF Copied, Old
<1>4. \A s \in Copied, k \in 1 .. n : Turn(s, k) \in Copied
  <2>1. \A k \in 1 .. n : 4 * (k - 1) \in Nat
    BY <1>2
  <2>. QED BY <2>1, CopyWordTyped
<1>5. PICK f \in [0 .. n -> Copied] : f[0] = init /\ \A k \in 1 .. n : f[k] = step[k][f[k - 1]]
  <2> HIDE DEF init, Turn
  <2>1. step \in [1 .. n -> [Copied -> Copied]]
    BY <1>4
  <2> HIDE DEF step
  <2>2. n \in Nat
    BY <1>2
  <2>. QED BY <1>3, <2>1, <2>2, RecursionExists
<1> HIDE DEF init, Turn, off
<1>6. \A k \in 1 .. n : f[k] = Turn(f[k - 1], k)
  <2> SUFFICES ASSUME NEW k \in 1 .. n PROVE f[k] = Turn(f[k - 1], k)
    OBVIOUS
  <2>1. f[k - 1] \in Copied
    BY <1>2, <1>5
  <2>. QED BY <1>5, <2>1
<1> HIDE DEF step
<1>7. f = [k \in 0 .. n |-> IF k = 0 THEN init ELSE Turn(f[k - 1], k)]
  <2>1. \A k \in 0 .. n : f[k] = IF k = 0 THEN init ELSE Turn(f[k - 1], k)
    BY <1>2, <1>5, <1>6
  <2>. QED BY <1>5, <2>1
<1>8. copied = [k \in 0 .. n |-> IF k = 0 THEN init ELSE Turn(copied[k - 1], k)]
  BY <1>7 DEF copied
<1>9. copied[0] = init
  BY <1>2, <1>8
<1> DEFINE Good(k) ==
               /\ copied[k] \in Copied /\ CarryIsKept(copied[k], height, y, k)
               /\ \A r \in Row : RowIsCopied(copied[k].column[r], r, height, y, k)
           G == {k \in 0 .. n : Good(k)}
<1>10. Good(0)
  <2>1. CarryIsKept(init, height, y, 0)
    BY DEF CarryIsKept, init
  <2>2. \A r \in Row : RowIsCopied(init.column[r], r, height, y, 0)
    <3> SUFFICES ASSUME NEW r \in Row PROVE RowIsCopied(Old, r, height, y, 0)
      BY DEF init
    <3>1. y % 4 \in 0 .. 3 /\ r \in Nat
      BY RowsAreSixteen
    <3>. QED BY <3>1 DEF RowIsCopied
  <2>. QED BY <1>3, <1>9, <2>1, <2>2
<1>11. ASSUME NEW k \in 1 .. n, Good(k - 1) PROVE Good(k)
  <2>1. k \in 0 .. n /\ k # 0 /\ k - 1 \in Nat /\ (k - 1) + 1 = k
    BY <1>2
  <2>2. copied[k] = CopyWord(copied[k - 1], height, y, 4 * (k - 1))
    <3> HIDE DEF Good
    <3>. QED BY <1>8, <2>1 DEF Turn
  <2> DEFINE l == k - 1
             s == copied[l]
             t == copied[k]
  <2>3. s \in Copied /\ CarryIsKept(s, height, y, l) /\ l \in Nat /\ t = CopyWord(s, height, y, 4 * l)
        /\ \A r \in Row : RowIsCopied(s.column[r], r, height, y, l)
    BY <1>11, <2>1, <2>2
  <2>4. /\ t \in Copied /\ CarryIsKept(t, height, y, l + 1)
        /\ \A r \in Row : RowIsCopied(t.column[r], r, height, y, l + 1)
    <3> HIDE DEF s, t, l, Good
    <3>. QED BY <2>3, WordIsCopied
  <2>5. l + 1 = k
    BY <2>1
  <2> HIDE DEF l
  <2>. QED BY <2>4, <2>5
<1>12. Good(n)
  <2>1. 0 \in G /\ \A k \in 1 .. n : k - 1 \in G => k \in G
    <3> HIDE DEF Good
    <3>. QED BY <1>2, <1>10, <1>11
  <2>2. n \in G
    <3> HIDE DEF G
    <3>1. \A k \in 0 .. n : k \in G
      BY <1>2, <2>1, InductionUpTo
    <3>. QED BY <1>2, <3>1
  <2>. QED BY <2>2
<1> SUFFICES ASSUME NEW r \in Row
             PROVE  LET v == DrawImageColumn(height, x, y)[r] IN
               /\ r - y \in 0 .. height - 1 => v = r - y
               /\ r - y \in height .. Padded(height) - 1 => v \in {Old, Pad}
               /\ r - y \in height .. Padded(height) - 1 /\ y >= 0 /\ y % 4 = 0 => v = Old
               /\ r - y \notin 0 .. Padded(height) - 1 => v = Old
  OBVIOUS
<1> DEFINE v == DrawImageColumn(height, x, y)[r]
<1>13. r \in 0 .. 15 /\ y % 4 \in 0 .. 3
  BY RowsAreSixteen
<1>14. CASE off
  <2>1. v = Old
    BY <1>1, <1>9, <1>14 DEF init
  <2>2. r - y \notin 0 .. height - 1
    BY <1>13, <1>14, RowsAreSixteen DEF off
  <2>. QED BY <2>1, <2>2
<1>15. CASE ~off
  <2>1. v = copied[n].column[r]
    BY <1>1, <1>15
  <2>2. RowIsCopied(v, r, height, y, n)
    BY <1>12, <2>1
  <2>3. r - y \in 0 .. height - 1 => r - y < 4 * n - (y % 4)
    BY <1>2, <1>13
  <2> HIDE DEF v
  <2>4. /\ r - y \in 0 .. height - 1 => v = r - y
        /\ r - y \in height .. Padded(height) - 1 => v \in {Old, Pad}
        /\ r - y \in height .. Padded(height) - 1 /\ y >= 0 /\ y % 4 = 0 => v = Old
        /\ r - y \notin 0 .. Padded(height) - 1 => v = Old
    BY <2>2, <2>3 DEF RowIsCopied
  <2>. QED BY <2>4 DEF v
<1>. QED BY <1>14, <1>15

\* Images of every height of at least a word are copied to their place.
THEOREM ImagesAreCopied == ImageIsCopiedToItsPlace
<1> SUFFICES ASSUME NEW height \in MinHeight .. MaxHeight, NEW y \in -(MaxHeight + 4) .. ComSize + 4,
                    NEW r \in Row
             PROVE  LET v == DrawImageColumn(height, 0, y)[r] IN
                      /\ r - y \in 0 .. height - 1 => v = r - y
                      /\ r - y \in height .. Padded(height) - 1 => v \in {Old, Pad}
                      /\ r - y \in height .. Padded(height) - 1 /\ y >= 0 /\ y % 4 = 0 => v = Old
                      /\ r - y \notin 0 .. Padded(height) - 1 => v = Old
  BY DEF ImageIsCopiedToItsPlace, Padded
<1>1. height \in Nat /\ height >= 4 /\ y \in Int /\ 0 \in Column
  BY PixelsAssumption DEF Column
<1>. QED BY <1>1, ColumnIsCopied

\* From the pixel to the pins: addresses, images, texts and the bits on the wire.
THEOREM ScreenIsAsDrawn == Spec => []ScreenShowsWhatIsDrawn
<1>1. ScreenShowsWhatIsDrawn
  BY PixelsAreApart, ImagesAreCopied, TextsAreAsWide, ChipsReceiveIt DEF ScreenShowsWhatIsDrawn
<1>. QED BY <1>1, PTL
=============================================================================
