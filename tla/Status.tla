------------------------------- MODULE Status -------------------------------
(***************************************************************************)
(* The status pages (src/src/statusReport.cpp): what is read from the      *)
(* files of the kernel, and the JSON document made of it.  Strings are     *)
(* sequences of character codes, lines of /proc/meminfo pairs of a name    *)
(* and what follows the colon, and the document is a sequence of tokens.   *)
(***************************************************************************)
EXTENDS Integers, Sequences, SequencesExt

CONSTANTS
    UintMax,       \* the greatest unsigned integer
    LoadTokens,    \* texts that may stand in /proc/loadavg
    LoadLines,     \* what its texts are parsed to
    MemFiles,      \* what /proc/meminfo may hold
    Texts,         \* names and values of the dictionary
    MaxMembers     \* the most entries and handlers that are listed

Dot == 46
Quote == 34
Backslash == 92
Digit == 48 .. 57

\* What stands for a text that is refused.
Refused == -1

ASSUME StatusAssumption ==
    /\ UintMax \in Nat /\ UintMax >= 1099
    /\ LoadTokens \subseteq Seq(0 .. 255)
    /\ LoadLines \subseteq Seq(Nat \cup {Refused})
    /\ MemFiles \subseteq Seq(STRING \X (Nat \cup {Refused}))
    /\ Texts \subseteq Seq(0 .. 255)
    /\ MaxMembers \in Nat

-----------------------------------------------------------------------------
(* parseHundredths.                                                        *)

MaxWhole == (UintMax - 99) \div 100

LeadingDigits(token) ==
    LET lengths == {n \in 0 .. Len(token) : \A m \in 1 .. n : token[m] \in Digit}
    IN  CHOOSE n \in lengths : \A m \in lengths : m <= n

AddDigit(whole, c) ==
    IF whole = Refused \/ whole > (MaxWhole - (c - 48)) \div 10 THEN Refused
    ELSE (whole * 10 + (c - 48)) % (UintMax + 1)

\* After the first n digits.
Whole(token) ==
    LET whole[n \in 0 .. Len(token)] == IF n = 0 THEN 0 ELSE AddDigit(whole[n - 1], token[n])
    IN  whole

\* The digits behind the dot: one or two of them, and nothing else.
Fraction(digits) ==
    IF Len(digits) \notin 1 .. 2 \/ LeadingDigits(digits) < Len(digits) THEN Refused
    ELSE 10 * (digits[1] - 48) + IF Len(digits) = 2 THEN digits[2] - 48 ELSE 0

ParseHundredths(token) ==
    LET n == LeadingDigits(token)
        whole == Whole(SubSeq(token, 1, n))[n]
        fraction == IF n = Len(token) THEN 0
                    ELSE IF token[n + 1] = Dot THEN Fraction(SubSeq(token, n + 2, Len(token)))
                    ELSE Refused
    IN  IF n = 0 \/ Refused \in {whole, fraction} THEN Refused
        ELSE (whole * 100 + fraction) % (UintMax + 1)

-----------------------------------------------------------------------------
(* readSystemStatus.                                                       *)

NoSystem == [loadValid |-> FALSE, memValid |-> FALSE, loads |-> <<0, 0, 0>>,
             MemTotal |-> 0, MemFree |-> 0, MemAvailable |-> 0]

\* readLoadAverages: parsed are the numbers of the line, as far as there are
\* any; they are stored one after the other until one is refused.
ReadLoadAverages(status, parsed) ==
    LET good == {n \in 1 .. 3 : Len(parsed) >= 3 /\ \A m \in 1 .. n : parsed[m] # Refused}
    IN  [status EXCEPT !.loads = [n \in 1 .. 3 |-> IF n \in good THEN parsed[n] ELSE 0],
                       !.loadValid = good = 1 .. 3]

\* readMemInfo: of each name the first line that has a number counts.
FirstOf(name, lines) ==
    LET found == {n \in DOMAIN lines : lines[n][1] = name /\ lines[n][2] # Refused}
    IN  IF found = {} THEN Refused
        ELSE lines[CHOOSE n \in found : \A m \in found : n <= m][2]
ReadMemInfo(status, lines) ==
    LET value(name) == IF FirstOf(name, lines) = Refused THEN 0 ELSE FirstOf(name, lines)
    IN  [status EXCEPT !.MemTotal = value("MemTotal"), !.MemFree = value("MemFree"),
                       !.MemAvailable = value("MemAvailable"),
                       !.memValid = Refused \notin {FirstOf("MemTotal", lines), FirstOf("MemFree", lines)}]

\* Fault: what was read before the error is kept.
Discard_nothing(status) == status
Discard(status) ==
    LET withLoads == IF status.loadValid THEN status ELSE [status EXCEPT !.loads = <<0, 0, 0>>]
    IN  IF status.memValid THEN withLoads
        ELSE [withLoads EXCEPT !.MemTotal = 0, !.MemFree = 0, !.MemAvailable = 0]

ReadSystemStatus(parsed, lines) ==
    Discard(ReadMemInfo(ReadLoadAverages(NoSystem, parsed), lines))

-----------------------------------------------------------------------------
(* The document.                                                           *)

ShortEscape(c) ==
    CASE c = Quote -> Quote [] c = Backslash -> Backslash
      [] c = 8 -> 98 [] c = 12 -> 102 [] c = 10 -> 110 [] c = 13 -> 114 [] c = 9 -> 116
HasShortEscape == {Quote, Backslash, 8, 12, 10, 13, 9}
HexCode(n) == IF n < 10 THEN 48 + n ELSE 87 + n
EscapeChar(c) ==
    CASE c \in HasShortEscape -> <<Backslash, ShortEscape(c)>>
      [] c < 32 /\ c \notin HasShortEscape ->
            <<Backslash, 117, 48, 48, HexCode(c \div 16), HexCode(c % 16)>>
      [] OTHER -> <<c>>
JsonEscape(value) == FlattenSeq([n \in DOMAIN value |-> EscapeChar(value[n])])

\* Tokens: the braces ("open" and "close"), commas, names with their colon, and
\* what a value is.
Member(value) == <<"name", value>>
Separated(members) ==
    FlattenSeq([n \in DOMAIN members |->
        IF n < Len(members) THEN members[n] \o <<"comma">> ELSE members[n]])
Members(n, value) == Separated([m \in 1 .. n |-> Member(value)])
JsonObject(members) == <<"open">> \o members \o <<"close">>
Named(tokens) == <<"name">> \o tokens

RenderJsonSystem(status) ==
    Named(JsonObject(
        Named(IF status.loadValid THEN JsonObject(Members(3, "number")) ELSE <<"null">>)
        \o <<"comma">> \o Members(3, IF status.memValid THEN "number" ELSE "null"))) \o <<"comma">>

RenderJsonMqtt ==
    Named(JsonObject(Separated(<<Member("bool"), Member("string"), Member("number"), Member("number"),
                             Member("number"), Member("string")>>)
                 \o FlattenSeq([n \in 1 .. 9 |-> <<"comma">> \o Member("number")]))) \o <<"comma">>

RenderJsonPairs(n) == Members(n, "string")

\* The hits are left out when there is no table of handlers.
RenderHits(available, n) ==
    Named(JsonObject(Named(JsonObject(IF ~available \/ n = 0 THEN <<>> ELSE Members(n, "number")))))

RenderStatusJson(status, entries, available, hits) ==
    JsonObject(
        Member("number") \o <<"comma">>
        \o RenderJsonSystem(status)
        \o Named(JsonObject(Separated(<<Member("bool"), Member("number"), Member("number"),
                                    Member("number")>>))) \o <<"comma">>
        \o Member("number") \o <<"comma">>
        \o Named(JsonObject(Separated(<<Member("string"), Member("bool")>>))) \o <<"comma">>
        \o Named(JsonObject(Member("string"))) \o <<"comma">>
        \o RenderJsonMqtt
        \o Named(JsonObject(Members(5, "number") \o <<"comma">>
                        \o Named(JsonObject(RenderJsonPairs(entries))))) \o <<"comma">>
        \o RenderHits(available, hits))

-----------------------------------------------------------------------------
\* The number that n digits stand for.
Decimal(digits) ==
    LET number[n \in 0 .. Len(digits)] ==
            IF n = 0 THEN 0 ELSE 10 * number[n - 1] + (digits[n] - 48)
    IN  number[Len(digits)]

\* A load average is read as the number it stands for, or refused: every text
\* that is no decimal with at most two places is, and every number whose
\* hundredths may not fit the integer, none of which is read wrapped around.
LoadIsReadOrRefused ==
    \A token \in LoadTokens :
        LET dots == {n \in DOMAIN token : token[n] = Dot}
            dot == IF dots = {} THEN Len(token) + 1 ELSE CHOOSE n \in dots : \A m \in dots : n <= m
            whole == SubSeq(token, 1, dot - 1)
            places == SubSeq(token, dot + 1, Len(token))
            isDecimal == /\ whole # <<>>
                         /\ \A n \in DOMAIN token : n # dot => token[n] \in Digit
                         /\ dots # {} => Len(places) \in 1 .. 2
        IN  ParseHundredths(token) =
                IF ~isDecimal \/ Decimal(whole) > MaxWhole THEN Refused
                ELSE 100 * Decimal(whole) + IF Len(places) = 1 THEN 10 * Decimal(places)
                                            ELSE Decimal(places)

\* Whatever is missing, malformed or there twice in the two files, a caller that
\* does not look at the flags gets all the numbers of a file or only zeros; only
\* MemAvailable, which old kernels do not have, may be 0 beside the others.
SystemStatusIsWholeOrNothing ==
    \A parsed \in LoadLines, lines \in MemFiles :
        LET status == ReadSystemStatus(parsed, lines)
            has(name, v) == \E n \in DOMAIN lines : lines[n] = <<name, v>>
            known(name) == \E n \in DOMAIN lines : lines[n][1] = name /\ lines[n][2] # Refused
        IN  /\ status.loads = IF Len(parsed) >= 3 /\ \A n \in 1 .. 3 : parsed[n] # Refused
                              THEN SubSeq(parsed, 1, 3) ELSE <<0, 0, 0>>
            /\ IF known("MemTotal") /\ known("MemFree")
               THEN /\ has("MemTotal", status.MemTotal) /\ has("MemFree", status.MemFree)
                    /\ IF known("MemAvailable") THEN has("MemAvailable", status.MemAvailable)
                       ELSE status.MemAvailable = 0
               ELSE {status.MemTotal, status.MemFree, status.MemAvailable} = {0}

\* A reader of JSON strings: plain is what it has read, pending what there is so
\* far of an escape.
HexCodeValue(c) == CHOOSE n \in 0 .. 15 : HexCode(n) = c
CodePoint(p, c) ==
    4096 * HexCodeValue(p[3]) + 256 * HexCodeValue(p[4]) + 16 * HexCodeValue(p[5]) + HexCodeValue(c)
EscapedBy(c) == CHOOSE e \in HasShortEscape : ShortEscape(e) = c
ReadJsonChar(r, c) ==
    CASE r.pending = <<>> /\ c # Backslash -> [plain |-> Append(r.plain, c), pending |-> <<>>]
      [] r.pending = <<Backslash>> /\ c # 117 ->
            [plain |-> Append(r.plain, EscapedBy(c)), pending |-> <<>>]
      [] Len(r.pending) = 5 -> [plain |-> Append(r.plain, CodePoint(r.pending, c)), pending |-> <<>>]
      [] OTHER -> [plain |-> r.plain, pending |-> Append(r.pending, c)]
JsonString(s) ==
    LET r[n \in 0 .. Len(s)] ==
            IF n = 0 THEN [plain |-> <<>>, pending |-> <<>>] ELSE ReadJsonChar(r[n - 1], s[n])
    IN  r

\* A reader of JSON gets back every string of the dictionary, and no string ends
\* the document early: neither with a quote of its own nor with a zero.
JsonEscapeIsReversible ==
    \A s \in Texts :
        LET escaped == JsonEscape(s)
        IN  /\ \A n \in DOMAIN escaped : escaped[n] >= 32
            /\ \A n \in DOMAIN escaped : escaped[n] = Quote => n > 1 /\ escaped[n - 1] = Backslash
            /\ JsonString(escaped)[Len(escaped)] = [plain |-> s, pending |-> <<>>]

\* What may follow what in an object, and how many objects are open.
Value == {"string", "number", "bool", "null"}
Follows ==
    ({"open"} \X {"name", "close"}) \cup ({"comma"} \X {"name"}) \cup ({"name"} \X (Value \cup {"open"}))
        \cup ((Value \cup {"close"}) \X {"comma", "close"})
Opened(token) == CASE token = "open" -> 1 [] token = "close" -> -1 [] OTHER -> 0
Depth(tokens) ==
    LET depth[n \in 0 .. Len(tokens)] == IF n = 0 THEN 0 ELSE depth[n - 1] + Opened(tokens[n])
    IN  depth
IsJson(tokens) ==
    LET last == Len(tokens)
    IN  /\ last > 0 /\ tokens[1] = "open"
        /\ \A n \in 2 .. last : <<tokens[n - 1], tokens[n]>> \in Follows
        /\ \A n \in 1 .. last - 1 : Depth(tokens)[n] > 0
        /\ Depth(tokens)[last] = 0

\* The status document is JSON, whichever of the system's files could be read,
\* with any number of entries and handlers, none among them.
StatusJsonIsWellFormed ==
    \A loadValid, memValid, available \in BOOLEAN : \A entries, handlers \in 0 .. MaxMembers :
        IsJson(RenderStatusJson([NoSystem EXCEPT !.loadValid = loadValid, !.memValid = memValid],
                                entries, available, handlers))
=============================================================================
