------------------------------- MODULE Forms -------------------------------
(***************************************************************************)
(* What a form of the web pages sends and what becomes of it: the fields a *)
(* page offers and the bodies that parsePost() takes apart                 *)
(* (src/src/webHandlerInternal.cpp), and the parameters the post handlers  *)
(* of the display, the strip and the dictionary look for.  Bodies are      *)
(* sequences of character codes; the name of a field is the sequence of    *)
(* the words it is made of, since names are compared by prefix.            *)
(***************************************************************************)
EXTENDS Integers, Sequences, SequencesExt

Byte == 0 .. 255

CONSTANTS
    Bodies,       \* bodies of posts, whatever a client may send
    SentForms     \* forms: sequences of fields, which are pairs of a name and a value
ASSUME FormsAssumption ==
    /\ Bodies \subseteq Seq(Byte)
    /\ SentForms \subseteq Seq(Seq(Byte \ {0}) \X Seq(Byte \ {0})) \ {<<>>}

Equals == 61
Ampersand == 38
Percent == 37
Plus == 43
Space == 32
MaxPostBodyLen == 4096

Digits == 48 .. 57
HexDigit == Digits \cup (65 .. 70) \cup (97 .. 102)
HexValue(c) ==
    CASE c \in Digits -> c - 48
      [] c \in 65 .. 70 -> c - 55
      [] c \in 97 .. 102 -> c - 87

\* A C string ends at its first zero.
CString(s) ==
    LET zeros == {n \in DOMAIN s : s[n] = 0}
    IN  IF zeros = {} THEN s ELSE SubSeq(s, 1, (CHOOSE n \in zeros : \A m \in zeros : n <= m) - 1)

-----------------------------------------------------------------------------
(* parsePost().                                                            *)

BufferSize(body) == Len(body) + 1

\* key and part are what tmpBuffer holds of the key and of what is being
\* collected; offset is tmpBufferOffset, top the largest index written to.
Unparsed == [gettingValuePortion |-> FALSE, key |-> <<>>, part |-> <<>>, offset |-> 0, top |-> 0,
             skip |-> 0, stopped |-> FALSE, postValues |-> <<>>, code |-> "ok"]

\* A value without a key or without a `=' is dropped; a later one replaces an
\* earlier one.
HasValue(st) == st.gettingValuePortion /\ CString(st.key) # <<>>
Put(values, key, value) ==
    [name \in DOMAIN values \cup {key} |-> IF name = key THEN value ELSE values[name]]
AddValue(st) ==
    IF HasValue(st) THEN Put(st.postValues, CString(st.key), CString(st.part)) ELSE st.postValues

Larger(a, b) == IF a > b THEN a ELSE b
Collect(st, c) ==
    [st EXCEPT !.part = Append(@, c), !.offset = @ + 1, !.top = Larger(@, st.offset)]

\* A second `=' starts the value again; the key ends at the first.
NameDelimiter(st) ==
    [st EXCEPT !.key = IF st.gettingValuePortion THEN @ ELSE st.part,
               !.part = <<>>, !.offset = @ + 1, !.top = Larger(@, st.offset + 1),
               !.gettingValuePortion = TRUE]
ValueDelimiter(st) ==
    [st EXCEPT !.postValues = AddValue(st), !.key = <<>>, !.part = <<>>,
               !.top = IF HasValue(st) THEN Larger(@, st.offset) ELSE @,
               !.offset = 0, !.gettingValuePortion = FALSE]

\* An escape that the end of the body cuts off ends the parsing; one that is
\* not hexadecimal refuses the post.  An escaped delimiter delimits nothing.
Escape(st, body, at) ==
    IF at >= Len(body) - 1 THEN [st EXCEPT !.stopped = TRUE]
    ELSE IF ~({body[at + 1], body[at + 2]} \subseteq HexDigit)
         THEN [st EXCEPT !.stopped = TRUE, !.code = "internal error"]
         ELSE [Collect(st, 16 * HexValue(body[at + 1]) + HexValue(body[at + 2])) EXCEPT !.skip = 2]

ParseChar(st, body, at) ==
    CASE st.stopped -> st
      [] ~st.stopped /\ st.skip > 0 -> [st EXCEPT !.skip = @ - 1]
      [] OTHER -> CASE body[at] = Equals -> NameDelimiter(st)
                    [] body[at] = Ampersand -> ValueDelimiter(st)
                    [] body[at] = Percent -> Escape(st, body, at)
                    [] body[at] = Plus -> Collect(st, Space)
                    [] OTHER -> Collect(st, body[at])

\* After the first n characters of the body.
Parsed(body) ==
    LET st[n \in 0 .. Len(body)] == IF n = 0 THEN Unparsed ELSE ParseChar(st[n - 1], body, n)
    IN  st

\* The last value, or the escape that was cut off, is terminated.
ParsePost(body) ==
    IF Len(body) \notin 1 .. MaxPostBodyLen - 1
    THEN [Unparsed EXCEPT !.code = "internal error"]
    ELSE LET st == Parsed(body)[Len(body)]
         IN  IF st.code # "ok" THEN st
             ELSE [st EXCEPT !.postValues = AddValue(st),
                             !.top = IF st.stopped \/ HasValue(st) THEN Larger(@, st.offset) ELSE @]

-----------------------------------------------------------------------------
(* The fields of the pages, each with the least and the greatest number it *)
(* offers, or Text for what is typed in and Yes for a box to check.        *)

Text == {"text"}
Yes == {"yes"}
ImgArtLast == 45
BackgroundCount == 100

FormFont == {<< <<"font">>, 0 .. 4 >>}
FormColor(includeAlternate) == {<< <<"color">>, IF includeAlternate THEN 0 .. 3 ELSE 0 .. 2 >>}
XYCoordinatesInput == {<< <<"x">>, {0, 127} >>, << <<"y">>, {0, 15} >>}
AnimationStepInput ==
    {<< <<"animation", "Step">>, {0, 1, 3, 4, 5, 6} >>, << <<"animation", "Phase">>, {0, 255} >>,
     << <<"animation", "Phase", "Value">>, {0, 254} >>}

ImgBackgroundForm ==
    {<< <<"index">>, {0, BackgroundCount - 1} >>, << <<"img", "Art">>, -1 .. ImgArtLast - 1 >>,
     << <<"enabled">>, Yes >>, << <<"clear", "All">>, Yes >>}
        \cup FormColor(FALSE) \cup XYCoordinatesInput \cup AnimationStepInput
MsgBackgroundForm ==
    {<< <<"index">>, {0, BackgroundCount - 1} >>, << <<"msg">>, Text >>,
     << <<"enabled">>, Yes >>, << <<"clear", "All">>, Yes >>}
        \cup FormFont \cup FormColor(FALSE) \cup XYCoordinatesInput \cup AnimationStepInput
MsgModeForm ==
    {<< <<"msg">>, Text >>, << <<"alternate", "Font">>, Yes >>, << <<"confetti">>, {15} >>,
     << <<"bounce">>, Yes >>, << <<"no", "Scroll">>, Yes >>, << <<"blink">>, Yes >>,
     << <<"repeats">>, {0, 5, 10, 100} >>, << <<"timeout">>, {3, 10, 60, 300} >>}
        \cup FormFont \cup FormColor(TRUE) \cup XYCoordinatesInput
LedStripForm ==
    {<< <<"raw", "Format">>, Text >>, << <<"extra", "Param">>, Text >>, << <<"clear", "Pixels">>, Yes >>,
     << <<"led", "Strip", "Mode">>, 0 .. 5 >>, << <<"red">>, {0, 127} >>, << <<"green">>, {0, 127} >>,
     << <<"blue">>, {0, 127} >>, << <<"timeout">>, {3, 10, 60, 300, -1} >>}
DictionaryForm ==
    {<< <<"dictionary", "Operation">>, {"set", "add", "del"} >>, << <<"dictionary", "Key">>, Text >>,
     << <<"dictionary", "Data">>, Text >>,
     << <<"dictionary", "Timeout">>, {3000, 10000, 60000, 300000, -1} >>}

Page == {"/imgBackground", "/msgBackground", "/msgMode", "/ledStrip", "/dictionary"}
Form(page) ==
    CASE page = "/imgBackground" -> ImgBackgroundForm
      [] page = "/msgBackground" -> MsgBackgroundForm
      [] page = "/msgMode" -> MsgModeForm
      [] page = "/ledStrip" -> LedStripForm
      [] page = "/dictionary" -> DictionaryForm

-----------------------------------------------------------------------------
(* The parameters, in the order in which a key is compared with them.      *)

AnimationParameters == << <<"animation", "Step">>, <<"animation", "Phase">>,
                          <<"animation", "Phase", "Value">> >>
\* Fault: the longer name is compared first.
ImgBackgroundParameters_longerFirst ==
    << <<"index">>, <<"enabled">>, <<"clear", "All">>, <<"img", "Art">>, <<"x">>, <<"y">>,
       <<"color">>, <<"animation", "Step">>, <<"animation", "Phase", "Value">>,
       <<"animation", "Phase">> >>
ImgBackgroundParameters ==
    << <<"index">>, <<"enabled">>, <<"clear", "All">>, <<"img", "Art">>, <<"x">>, <<"y">>,
       <<"color">> >> \o AnimationParameters
MsgBackgroundParameters ==
    << <<"index">>, <<"msg">>, <<"enabled">>, <<"clear", "All">>, <<"font">>, <<"x">>, <<"y">>,
       <<"color">> >> \o AnimationParameters
MsgModeParameters ==
    << <<"msg">>, <<"x">>, <<"y">>, <<"font">>, <<"alternate", "Font">>, <<"confetti">>,
       <<"bounce">>, <<"no", "Scroll">>, <<"blink">>, <<"color">>, <<"repeats">>, <<"timeout">> >>
LedStripParameters ==
    << <<"led", "Strip", "Mode">>, <<"clear", "Pixels">>, <<"timeout">>, <<"extra", "Param">>,
       <<"red">>, <<"green">>, <<"blue">>, <<"from">>, <<"to">> >>
DictionaryParameters ==
    << <<"dictionary", "Timeout">>, <<"dictionary", "Operation">>, <<"dictionary", "Key">>,
       <<"dictionary", "Data">> >>

Parameters(page) ==
    CASE page = "/imgBackground" -> ImgBackgroundParameters
      [] page = "/msgBackground" -> MsgBackgroundParameters
      [] page = "/msgMode" -> MsgModeParameters
      [] page = "/ledStrip" -> LedStripParameters
      [] page = "/dictionary" -> DictionaryParameters

\* The display takes the first parameter whose name begins with the key, the
\* others the one whose name is the key.  A key that is no parameter is ignored:
\* so is rawFormat, which the manual mode of the strip does not parse yet.
Names(page, key, parameter) ==
    IF page \in {"/ledStrip", "/dictionary"} THEN key = parameter ELSE IsPrefix(key, parameter)
Ignored == <<>>
Reached(page, key) ==
    LET named == {n \in DOMAIN Parameters(page) : Names(page, key, Parameters(page)[n])}
    IN  IF named = {} THEN Ignored
        ELSE Parameters(page)[CHOOSE n \in named : \A m \in named : n <= m]

\* What is kept of a number: an index out of range is 0, a phase has eight bits.
Kept(parameter, v) ==
    CASE parameter = <<"index">> -> IF v \in 0 .. BackgroundCount - 1 THEN v ELSE 0
      [] parameter = <<"img", "Art">> -> IF v \in 0 .. ImgArtLast - 1 THEN v ELSE 0
      [] parameter \in {<<"animation", "Phase">>, <<"animation", "Phase", "Value">>} -> v % 256
      [] OTHER -> v

-----------------------------------------------------------------------------
(* The body a browser makes of a form.                                     *)

Unreserved == Digits \cup (65 .. 90) \cup (97 .. 122) \cup {42, 45, 46, 95}
HexChar(n) == IF n < 10 THEN 48 + n ELSE 55 + n
EncodeChar(c) ==
    CASE c \in Unreserved -> <<c>>
      [] c = Space -> <<Plus>>
      [] OTHER -> <<Percent, HexChar(c \div 16), HexChar(c % 16)>>
Encode(s) == FlattenSeq([n \in DOMAIN s |-> EncodeChar(s[n])])
EncodeField(field) == Encode(field[1]) \o <<Equals>> \o Encode(field[2])
FormBody(fields) ==
    FlattenSeq([n \in DOMAIN fields |->
        IF n < Len(fields) THEN EncodeField(fields[n]) \o <<Ampersand>> ELSE EncodeField(fields[n])])

\* The values are those of the first n fields that have a name: of each name
\* the last.
AreOf(values, fields, n) ==
    /\ DOMAIN values = {fields[m][1] : m \in 1 .. n} \ {<<>>}
    /\ \A m \in 1 .. n :
          fields[m][1] # <<>> /\ (\A l \in m + 1 .. n : fields[l][1] # fields[m][1]) =>
              values[fields[m][1]] = fields[m][2]

\* Whatever characters the fields of a form hold, the delimiters and the escape
\* character among them, parsePost() makes of its body the fields that were
\* sent: those with a name, the last if a name comes twice.
PostIsParsedAsSent ==
    \A fields \in SentForms :
        LET body == FormBody(fields)
            post == ParsePost(body)
        IN  IF Len(body) < MaxPostBodyLen
            THEN post.code = "ok" /\ AreOf(post.postValues, fields, Len(fields))
            ELSE post.code = "internal error"

\* No body, also one with escapes that are cut off or wrong and with more
\* delimiters than there are fields, makes parsePost() write behind its buffer.
PostFitsItsBuffer ==
    \A body \in Bodies : ParsePost(body).top < BufferSize(body)

\* Every field of every page is taken by the post handler of that page as the
\* parameter of that name, with the value that was chosen: no other name of which
\* it is the beginning gets it, and no number a page offers is cut off.  Only the
\* pixels of the strip are ignored, and the default image is the first.  A text is
\* one value here: that a background message is cut at 119 bytes is not covered.
FormsAreUnderstood ==
    \A page \in Page : \A offer \in Form(page) :
        LET field == offer[1]
        IN  /\ Reached(page, field) = IF field = <<"raw", "Format">> THEN Ignored ELSE field
            /\ \A v \in offer[2] :
                  Kept(field, v) = IF field = <<"img", "Art">> /\ v = -1 THEN 0 ELSE v
=============================================================================
