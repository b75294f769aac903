------------------------------- MODULE Colours -------------------------------
(* ColorConverter: the three numbers of a colour however it is written, the   *)
(* colour that is seen behind a cell, and the colours of a Fader. A name is   *)
(* resolved by the browser itself, on an element made for that, or on a frame *)
(* (IFrameHandler) in Internet Explorer; what is found is kept. Numbers are   *)
(* hundredths, as percents make them fractions.                               *)
EXTENDS Integers, Sequences, SequencesExt

CONSTANTS
    ColourNames,      \* names the page uses, "white" among them
    Engines,          \* how the browser answers, see below
    ColoursAvoided    \* what the page does not do: "before_body", "bare_cells"

VARIABLE colours      \* [engine, body, frame, map, own, told]

White == <<25500, 25500, 25500>>
Black == <<0, 0, 0>>
NoColour == <<>>
Transparent == "transparent"

(* A written colour: hexadecimal digits, one of which may be no digit, three  *)
(* numbers, or a name. Names are light or white.                              *)
Bad == 16
Hex(digits) == [kind |-> "hex", digits |-> digits]
Whole(n) == [n |-> n, percent |-> FALSE]
Rgb(a, b, c) == [kind |-> "rgb", parts |-> <<a, b, c>>]
Name(name) == [kind |-> "name", name |-> name]
Seen(name) == IF name = "white" THEN <<255, 255, 255>> ELSE <<238, 17, 0>>
SeenRgb(name) == LET s == Seen(name) IN Rgb(Whole(s[1]), Whole(s[2]), Whole(s[3]))
SeenHex(name) == IF name = "white" THEN Hex(<<15, 15, 15, 15, 15, 15>>) ELSE Hex(<<14, 14, 1, 1, 0, 0>>)

(* --- numbers ---------------------------------------------------------------*)
makeNum(digit) == IF digit = Bad THEN {} ELSE {digit}
hexToDec(first, second) == {16 * a + b : a \in makeNum(first), b \in makeNum(second)}
Triple(r, g, b) == IF {} \in {r, g, b} THEN NoColour
                   ELSE <<CHOOSE n \in r : TRUE, CHOOSE n \in g : TRUE, CHOOSE n \in b : TRUE>>
InHundredths(values) == {100 * v : v \in values}

hexColorToRGBArray(d) ==
    LET long == IF Len(d) = 3 THEN <<d[1], d[1], d[2], d[2], d[3], d[3]>> ELSE d
        at(i) == InHundredths(hexToDec(long[i], long[i + 1]))
    IN IF Len(long) # 6 THEN NoColour ELSE Triple(at(1), at(3), at(5))

ifPercToNum(p) == IF ~p.percent THEN {100 * p.n} ELSE IF p.n \notin 0..100 THEN {} ELSE {255 * p.n}
RGBStringToRGBArray(parts) == Triple(ifPercToNum(parts[1]), ifPercToNum(parts[2]), ifPercToNum(parts[3]))

(* --- the browser -----------------------------------------------------------*)
(* How it computes a style: "modern" not for an element out of the page, and  *)
(* a transparent one as black that is not seen; "older" for every element,    *)
(* by the word; "explorer" gives what is written, "explorer9" computes.       *)
Explorers == {"explorer", "explorer9"}
Computes(t, hung) == t.engine = "older" \/ (hung /\ t.engine \in {"modern", "explorer9"})
TransparentStyle(t) == IF t.engine = "modern" THEN Rgb(Whole(0), Whole(0), Whole(0)) ELSE Name(Transparent)
ComputedStyle(t, name) ==
    IF name = Transparent THEN TransparentStyle(t) ELSE IF t.engine = "explorer" THEN Name(name) ELSE SeenRgb(name)

(* --- IFrameHandler ---------------------------------------------------------*)
createFrame(t) == IF ~t.body THEN t ELSE [t EXCEPT !.frame = TRUE]
getFrameWindow(t) == IF t.frame THEN t ELSE createFrame(t)
removeFrames(t) == [t EXCEPT !.frame = FALSE]

(* --- names -----------------------------------------------------------------*)
isOkColor(found, notExpected) == found # Name(notExpected)
OfRgb(style) == RGBStringToRGBArray(style.parts)
(* getStyle of an element made for the name: its own style is the name, which *)
(* is not what is looked for.                                                 *)
StyleOfNew(t, name, hung) ==
    LET style == IF Computes(t, hung) THEN SeenRgb(name) ELSE Name(name)
    IN IF isOkColor(style, name) THEN OfRgb(style) ELSE White
Keep(t, name, rgb) == [t EXCEPT !.map = [n \in DOMAIN @ \cup {name} |-> IF n = name THEN rgb ELSE @[n]]]
translateColorNameByDIV(t, name) ==
    LET first == StyleOfNew(t, name, FALSE)
    IN Keep(t, name, IF first = White /\ name # "white" /\ t.body THEN StyleOfNew(t, name, TRUE) ELSE first)
(* bgColor of a document gives digits for a name.                             *)
nameToRGBArray(t, name) ==
    LET framed == getFrameWindow(t)
    IN IF name \in DOMAIN t.map THEN t
       ELSE IF t.engine \notin Explorers THEN translateColorNameByDIV(t, name)
       ELSE IF framed.frame \/ framed.body THEN Keep(framed, name, hexColorToRGBArray(SeenHex(name).digits))
       ELSE translateColorNameByDIV(framed, name)

WithName(t, w) == IF w.kind = "name" THEN nameToRGBArray(t, w.name) ELSE t
translateToRGBArray(t, w) ==
    IF w.kind = "rgb" THEN RGBStringToRGBArray(w.parts)
    ELSE IF w.kind = "hex" THEN hexColorToRGBArray(w.digits)
    ELSE WithName(t, w).map[w.name]

(* The style of an element of the page, or that of the one it lies in while   *)
(* it is transparent; the document lies in nothing.                           *)
StyleFrom(t) ==
    LET own(i) == ComputedStyle(t, t.own[i])
        top == Len(t.own) + 1
        in[i \in 1..top] == IF i = top THEN top ELSE IF own(i) = Name(Transparent) THEN in[i + 1] ELSE i
    IN IF in[1] = top THEN [state |-> t, rgb |-> White]
       ELSE [state |-> WithName(t, own(in[1])), rgb |-> translateToRGBArray(t, own(in[1]))]

(* --- actions ---------------------------------------------------------------*)
ColoursInit ==
    \E e \in Engines, cell, around \in ColourNames \cup {Transparent} :
        /\ "bare_cells" \in ColoursAvoided /\ e = "modern" => cell # Transparent
        /\ colours = [engine |-> e, body |-> FALSE, frame |-> FALSE, map |-> <<>>, own |-> <<cell, around>>,
                      told |-> [what |-> "none"]]
BodyIsThere == ~colours.body /\ colours' = [colours EXCEPT !.body = TRUE]
Unload == colours.frame /\ colours' = removeFrames(colours)

Digits == {11, Bad}
Pairs == {<<1, 15>>, <<Bad, 2>>}
Written ==
    {Hex(<<a, b, c>>) : a, b, c \in Digits} \cup {Hex(p \o q \o r) : p, q, r \in Pairs} \cup {Hex(<<1, 2, 3, 4>>)}
    \cup {Rgb([n |-> m, percent |-> p], Whole(200), [n |-> n, percent |-> p]) : m, n \in {40, 120}, p \in BOOLEAN}
    \cup {Name(n) : n \in ColourNames}
ToldColour(t, told) == colours' = [t EXCEPT !.told = told]
NamesCanBeAsked == "before_body" \in ColoursAvoided => colours.body
Translate(w) ==
    /\ w.kind = "name" => NamesCanBeAsked
    /\ ToldColour(WithName(colours, w), [what |-> "colour", of |-> w, is |-> translateToRGBArray(colours, w)])

(* A fader ends with the colour it is given, and starts from what is seen.    *)
FaderInit(endBack) ==
    /\ NamesCanBeAsked
    /\ LET bare == endBack = Name(Transparent)
           t == IF bare THEN colours ELSE WithName(colours, endBack)
       IN ToldColour(t, [what |-> "end", of |-> endBack,
                   is |-> IF bare THEN Transparent ELSE translateToRGBArray(t, endBack)])
StartOfFade ==
    /\ NamesCanBeAsked
    /\ ToldColour(StyleFrom(colours).state, [what |-> "start", is |-> StyleFrom(colours).rgb])

ColoursNext ==
    \/ BodyIsThere \/ Unload
    \/ \E w \in Written : Translate(w)
    \/ \E n \in ColourNames \cup {Transparent} : FaderInit(Name(n))
    \/ StartOfFade
-----------------------------------------------------------------------------
(* What a written colour means.                                               *)
Meaning(w) ==
    LET d == w.digits
        double == [i \in 1..6 |-> d[(i + 1) \div 2]]
        long == IF Len(d) = 3 THEN double ELSE d
        percent == \E i \in 1..3 : w.parts[i].percent /\ w.parts[i].n > 100
    IN IF w.kind = "name" THEN [i \in 1..3 |-> 100 * Seen(w.name)[i]]
       ELSE IF w.kind = "rgb" THEN
          IF percent THEN NoColour
          ELSE [i \in 1..3 |-> IF w.parts[i].percent THEN (25500 * w.parts[i].n) \div 100 ELSE 100 * w.parts[i].n]
       ELSE IF Len(d) \notin {3, 6} \/ Bad \in ToSet(d) THEN NoColour
       ELSE [i \in 1..3 |-> 100 * (16 * long[2 * i - 1] + long[2 * i])]
SeenBehind(t) ==
    LET painted == {i \in DOMAIN t.own : t.own[i] # Transparent}
    IN IF painted = {} THEN White ELSE Meaning(Name(t.own[CHOOSE i \in painted : \A j \in painted : i <= j]))

(* A colour is translated to what it means, in every way to write it and      *)
(* whatever was asked before; a fade starts from the colour that is seen.     *)
ColoursAsWritten ==
    LET told == colours.told
    IN /\ told.what = "colour" => told.is = Meaning(told.of)
       /\ told.what = "start" => told.is = SeenBehind(colours)
       /\ told.what = "end" => told.is = IF told.of = Name(Transparent) THEN Transparent ELSE Meaning(told.of)
=============================================================================
