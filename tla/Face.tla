-------------------------------- MODULE Face --------------------------------
(***************************************************************************)
(* What src/src/displayInternal.cpp draws around the time of day and       *)
(* behind messages: the car that drives while there is motion in the       *)
(* garage, and the tables of images and messages in the background.  The   *)
(* functions take the state the code keeps in static variables.            *)
(***************************************************************************)
EXTENDS Integers, FiniteSets

CONSTANTS
    AnimationsAfterOff,  \* calls the car drives on for, 80 in the code
    BackgroundCount,     \* entries of a table of backgrounds
    Background,          \* the entries that may be posted
    Step,                \* the steps an animation may be counted in
    Ticker,              \* values of the eight-bit counters of those steps
    MaxCalls, MaxPosts   \* lengths of the histories the properties speak of

Color == {"green", "red", "yellow", "alternate"}

ASSUME FaceAssumption ==
    /\ AnimationsAfterOff \in Nat
    /\ BackgroundCount \in Nat \ {0}
    /\ \A b \in Background :
          b.enabled \in BOOLEAN /\ b.color \in Color /\ b.phase \in 0 .. 255 /\ b.value \in 0 .. 255
    /\ Ticker \subseteq 0 .. 255
    /\ MaxCalls \in Nat /\ MaxPosts \in Nat

-----------------------------------------------------------------------------
(* modeBasicClockSDoCarAnimation, every 250 ms: values are those the three *)
(* entries of the dictionary have, as far as they are there.               *)

CarAtBoot ==
    [animationCounter |-> AnimationsAfterOff, animationFrame |-> 0, blinkerEffect |-> 0,
     drawn |-> "nothing"]

\* Fault: the count goes on when a value has been found, whatever it is.
Counted_anyValue(car, values) == IF values # {} THEN 0 ELSE car.animationCounter
Counted(car, values) == IF "on" \in values THEN 0 ELSE car.animationCounter

CarAnimation(car, values) ==
    LET counter == Counted(car, values)
        blinker == car.blinkerEffect + 1
        visible == blinker % 10 < 6
    IN  IF values = {} THEN [car EXCEPT !.drawn = "nothing"]
        ELSE IF counter >= AnimationsAfterOff
             THEN [car EXCEPT !.animationCounter = counter, !.drawn = "nothing"]
             ELSE [animationCounter |-> counter + 1,
                   animationFrame |-> IF visible THEN 1 - car.animationFrame ELSE car.animationFrame,
                   blinkerEffect |-> blinker,
                   drawn |-> IF visible THEN "car" ELSE "blank"]

-----------------------------------------------------------------------------
(* The backgrounds, a table of BackgroundCount entries.                    *)

Entry == 0 .. BackgroundCount - 1

NoBackground == [enabled |-> FALSE, color |-> "yellow", step |-> "none", phase |-> 0, value |-> 0]
NoBackgrounds == [e \in Entry |-> NoBackground]

\* A post clears the table first, if it asks for that, and then sets one entry;
\* an index that is not in the table is taken for the first.
PlaceOf(post) == IF post.index \in Entry THEN post.index ELSE 0
PostBackground(table, post) ==
    [(IF post.clearAll THEN NoBackgrounds ELSE table) EXCEPT ![PlaceOf(post)] = post.background]

\* tickers[s] counts the ticks of step s; there is none for "none".
WillAnimate(background, tickers) ==
    \/ background.phase = 0 \/ background.step \notin DOMAIN tickers
    \/ tickers[background.step] % background.phase = background.value

\* The boards, 1 green and 2 red; only yellow goes round for the second one.
BoardsOf(color) ==
    CASE color = "green" -> {1}
      [] color = "red" -> {2}
      [] color = "yellow" -> {1, 2}
      [] OTHER -> {1}

DrawBackgrounds(table, tickers) ==
    UNION {{<<e, board>> : board \in BoardsOf(table[e].color)} :
               e \in {e \in Entry : table[e].enabled /\ WillAnimate(table[e], tickers)}}

-----------------------------------------------------------------------------
(* Properties of the functions.                                            *)

\* The car after the n-th of the calls.
CarAfter(calls) ==
    LET car[n \in 0 .. MaxCalls] == IF n = 0 THEN CarAtBoot ELSE CarAnimation(car[n - 1], calls[n])
    IN  car

\* The car drives when a sensor of the garage says `on', and for as many calls
\* after that as it is meant to, no matter how the three entries come and go in
\* between; calls that find no entry draw nothing and are not counted.  It does
\* not drive at boot.
CarFollowsMotion ==
    \A calls \in [1 .. MaxCalls -> SUBSET {"off", "on"}] : \A n \in 1 .. MaxCalls :
        (CarAfter(calls)[n].drawn # "nothing") <=>
            /\ calls[n] # {}
            /\ \E m \in 1 .. n :
                  /\ "on" \in calls[m]
                  /\ Cardinality({l \in m .. n : calls[l] # {}}) <= AnimationsAfterOff

\* The posts that may come, also with an index before or behind the table, and
\* the table after the n-th of them.
ImgPost == [index : -1 .. BackgroundCount, clearAll : BOOLEAN, background : Background]
TableAfter(posts) ==
    LET table[n \in 0 .. MaxPosts] ==
            IF n = 0 THEN NoBackgrounds ELSE PostBackground(table[n - 1], posts[n])
    IN  table

\* The n-th post has not been cleared or replaced up to the k-th.
Lives(posts, n, k) ==
    \A m \in n + 1 .. k : ~posts[m].clearAll /\ PlaceOf(posts[m]) # PlaceOf(posts[n])

\* What is drawn in the background are the last entries posted, each on the
\* boards of its color and when its turn in the animation has come, also across
\* a post that clears all others and one with an index out of range.
BackgroundsAreAsPosted ==
    \A posts \in [1 .. MaxPosts -> ImgPost], tickers \in [Step -> Ticker] :
        LET itsTurn(b) ==
                \/ b.phase = 0 \/ b.step \notin Step
                \/ b.value < b.phase /\ \E q \in 0 .. 255 : tickers[b.step] = q * b.phase + b.value
        IN  DrawBackgrounds(TableAfter(posts)[MaxPosts], tickers) =
                {at \in Entry \X {1, 2} : \E n \in 1 .. MaxPosts :
                    /\ PlaceOf(posts[n]) = at[1] /\ Lives(posts, n, MaxPosts)
                    /\ LET b == posts[n].background
                       IN  /\ b.enabled /\ itsTurn(b)
                           /\ IF at[2] = 1 THEN b.color # "red" ELSE b.color \in {"red", "yellow"}}
=============================================================================
