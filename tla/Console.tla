------------------------------- MODULE Console -------------------------------
(***************************************************************************)
(* What becomes of text: kprintf's escape sequences and colours (kprintf.c *)
(* and its copies in the user library), the glyphs on the panel (cli.c),   *)
(* and the buffered printf of user programs, whose buffer SYS_WRITE passes *)
(* to kprintf as a format.                                                 *)
(*                                                                         *)
(* Characters are strings.  There are two digits, two colours, and one     *)
(* conversion, x, which takes an argument; the code of red is 1 for the    *)
(* text and 10 for the background.                                         *)
(***************************************************************************)
EXTENDS Integers, Sequences, FiniteSets, SequencesExt, FiniteSetsExt

CONSTANTS
    ParamSize,   \* 16: sizeof(state.params)
    MaxParams,   \* 5: numbers that a sequence may set
    Columns,     \* 80: glyphs of a line (800 / 10)
    Lines,       \* 24
    TabColumns,  \* 4
    BufSize,     \* 2048: the buffer of the user's printf
    Texts,       \* sets of strings; a kernel message consists of strings of one set
    UserAlphabet,\* the characters that programs print
    MaxTyped,    \* bound: characters of kernel messages
    MaxPrinted   \* bound: characters that a program prints

ASSUME ConsoleAssumption ==
    /\ ParamSize > 1 /\ MaxParams > 0 /\ Columns > 0 /\ Lines > 1 /\ TabColumns > 0
    /\ BufSize > 1

Digits == {"0", "1"}
Value(d) == IF d = "0" THEN 0 ELSE 1
Default == <<"white", "black">>

VARIABLES
    con,     \* the decoder of kprintf, the colours, the panel
    typed,   \* history: the characters that reached the decoder
    prn,     \* the user's printf: its decoder and its buffer
    printed  \* history: the characters that the program printed

consoleVars == <<con, typed, prn, printed>>
-----------------------------------------------------------------------------
(* cli.c.  newline, and scroll at the last line. *)
Blank == [c \in 0..Columns - 1 |-> " "]

Newline(k) ==
    IF k.line + 1 = Lines
    THEN [k EXCEPT !.cursor = 0,
                   !.cells = [l \in 0..Lines - 1 |-> IF l = Lines - 1 THEN Blank ELSE @[l + 1]]]
    ELSE [k EXCEPT !.cursor = 0, !.line = @ + 1]

(* _print_glyph: the glyph's place is line * width + cursor; past the end  *)
(* of the line that is a place of the next one, or outside of the frame.   *)
Place(k) == k.line * Columns + k.cursor

Glyph(k, c) ==
    LET at == Place(k)
        k1 == IF at \div Columns \in 0..Lines - 1
              THEN [k EXCEPT !.cells[at \div Columns][at % Columns] = c]
              ELSE [k EXCEPT !.outside = TRUE]
        k2 == [k1 EXCEPT !.cursor = @ + 1]
    IN  IF k2.cursor = Columns THEN Newline(k2) ELSE k2

(* print_glyph.  A tab moves the cursor without asking for the line's end.  *)
(* cursor is unsigned: -1 stands for 2^64 - 10, which wraps to 0 next time. *)
PrintGlyph(k, c) ==
    CASE c \in {"nl", "cr"} -> Newline(k)
      [] c = "tab" -> [k EXCEPT !.cursor = @ + TabColumns,
                                !.past = @ \/ k.cursor + TabColumns >= Columns]
      [] c = "del" -> IF k.cursor = 0 THEN k
                      ELSE LET k1 == Glyph([k EXCEPT !.cursor = @ - 1], " ")
                           IN  [k1 EXCEPT !.cursor = @ - 1]
      [] OTHER -> Glyph(k, c)

(* uart_putc: the character goes to the UART and to the panel. *)
UartPutc(k, c) ==
    PrintGlyph([k EXCEPT !.out = Append(@, <<c, k.colour>>)], c)
-----------------------------------------------------------------------------
(* The decoder.  The numbers of a sequence are applied when the character  *)
(* after it comes.  atoi_until_semicolon: the numbers between semicolons,  *)
(* none after a semicolon that is last.                                    *)
Number(ds) == FoldLeft(LAMBDA n, d : n * 10 + Value(d), 0, ds)

Numbers(params) ==
    LET ends   == {i \in 1..Len(params) : params[i] = ";"} \cup
                  {i \in {Len(params) + 1} : params # <<>> /\ Last(params) # ";"}
        sorted == SetToSortSeq(ends, <)
        from(j) == IF j = 1 THEN 1 ELSE sorted[j - 1] + 1
    IN  [j \in 1..Min({Len(sorted), MaxParams}) |-> Number(SubSeq(params, from(j), sorted[j] - 1))]

(* ansi_end_escape: 0 resets both colours; 1 stands for 30..37, 10 for     *)
(* 40..47.                                                                 *)
Coloured(colour, n) ==
    CASE n = 0  -> Default
      [] n = 1  -> <<"red", colour[2]>>
      [] n = 10 -> <<colour[1], "red">>
      [] OTHER  -> colour

EndEscape(colour, params) == FoldLeft(Coloured, colour, Numbers(params))

AnsiEscape(d, c) ==
    IF c = "[" THEN [state |-> "PARSING", params |-> <<>>] ELSE [d EXCEPT !.state = "NORMAL"]

\* Mutant: a sequence that is too long goes on being parsed.
AnsiParsingTruncates(d, c) ==
    CASE c = "m" -> [d EXCEPT !.state = "END_PARSING"]
      [] c \in Digits \cup {";"} -> IF Len(d.params) < ParamSize - 1 THEN [d EXCEPT !.params = Append(@, c)] ELSE d
      [] OTHER -> [state |-> "NORMAL", params |-> <<>>]

AnsiParsing(d, c) ==
    CASE c = "m" -> [d EXCEPT !.state = "END_PARSING"]
      [] c \in Digits \cup {";"} /\ Len(d.params) < ParamSize - 1 -> [d EXCEPT !.params = Append(@, c)]
      [] OTHER -> [state |-> "NORMAL", params |-> <<>>]

(* ansi_decoder: the decoder d after character c; Emits tells whether c is *)
(* passed on.                                                              *)
Decoded(d, c) ==
    CASE d.state = "ESCAPE"  -> AnsiEscape(d, c)
      [] d.state = "PARSING" -> AnsiParsing(d, c)
      [] OTHER -> [d EXCEPT !.state = IF c = "ESC" THEN "ESCAPE" ELSE "NORMAL"]

Emits(d, c) == d.state \in {"NORMAL", "END_PARSING"} /\ c # "ESC"

AnsiDecoder(k, c) ==
    LET k1 == [k EXCEPT !.dec = Decoded(@, c),
                        !.colour = IF k.dec.state = "END_PARSING" THEN EndEscape(@, k.dec.params) ELSE @]
    IN  IF Emits(k.dec, c) THEN UartPutc(k1, c) ELSE k1

(* kprintf of a string without arguments: what expand makes of it.  An     *)
(* unknown conversion is dropped, "%%" is a percent sign, and one of the   *)
(* others takes an argument that was not passed ("junk").                  *)
KprintfChars(s) ==
    LET from[i \in 1..Len(s) + 2] ==
            CASE i > Len(s) -> <<>>
              [] s[i] # "%" -> <<s[i]>> \o from[i + 1]
              [] i = Len(s) -> <<"junk">>
              [] OTHER -> (CASE s[i + 1] = "%" -> <<"%">>
                             [] s[i + 1] = "x" -> <<"junk">>
                             [] OTHER -> <<>>) \o from[i + 2]
    IN  from[1]
-----------------------------------------------------------------------------
NoSequence == [state |-> "NORMAL", params |-> <<>>]

ConsoleInit ==
    /\ con = [dec |-> NoSequence, colour |-> Default, line |-> 0, cursor |-> 0,
              cells |-> [l \in 0..Lines - 1 |-> Blank], past |-> FALSE, outside |-> FALSE,
              out |-> <<>>]
    /\ typed = <<>> /\ printed = <<>>
    /\ prn = [dec |-> NoSequence, buf |-> <<>>]

(* emit_string of a piece of a kernel message. *)
Log(s) ==
    /\ Len(typed) + Len(s) <= MaxTyped
    /\ \E text \in Texts : s \in text /\ ToSet(typed) \subseteq UNION {ToSet(t) : t \in text}
    /\ con' = FoldLeft(AnsiDecoder, con, s) /\ typed' = typed \o s
    /\ UNCHANGED <<prn, printed>>

(* buf_putc: a full buffer is written before the character is stored, a    *)
(* buffer that ends in a newline after it.                                 *)
BufPutc(buf, c) ==
    LET full == Len(buf) = BufSize - 1
        b == IF full THEN <<c>> ELSE Append(buf, c)
    IN  [flushed |-> (IF full THEN buf ELSE <<>>) \o (IF c = "nl" THEN b ELSE <<>>),
         buf |-> IF c = "nl" THEN <<>> ELSE b]

(* A character that a program's printf has expanded: its own decoder drops *)
(* escape sequences; the rest is buffered, written and formatted again.    *)
UserPutc(c) ==
    /\ Len(printed) < MaxPrinted
    /\ printed' = Append(printed, c)
    /\ LET r == IF Emits(prn.dec, c) THEN BufPutc(prn.buf, c)
                ELSE [flushed |-> <<>>, buf |-> prn.buf]
           shown == KprintfChars(r.flushed)
       IN  /\ prn' = [dec |-> Decoded(prn.dec, c), buf |-> r.buf]
           /\ con' = FoldLeft(AnsiDecoder, con, shown)
           /\ typed' = typed \o shown

LogNext == \E s \in UNION Texts : Log(s)
PrintfNext == \E c \in UserAlphabet : UserPutc(c)
-----------------------------------------------------------------------------
(* What a text with escape sequences means, read as a whole from its       *)
(* start: the characters outside of sequences, each in the colours that    *)
(* the complete sequences before it set.  A sequence that is malformed or  *)
(* longer than the parameter buffer is dropped with the character that     *)
(* ends it, and what follows is text.                                      *)
ParamRun(s, i) ==
    LET stop == {j \in i..Len(s) + 1 : j = i + ParamSize - 1 \/ j > Len(s)
                                       \/ (j <= Len(s) /\ s[j] \notin Digits \cup {";"})}
    IN  SubSeq(s, i, Min(stop) - 1)

Meaning(s) ==
    LET from[i \in 1..Len(s) + 2, colour \in {"white", "red"} \X {"black", "red"}] ==
            CASE i > Len(s) -> <<>>
              [] i <= Len(s) /\ s[i] # "ESC" -> <<<<s[i], colour>>>> \o from[i + 1, colour]
              [] i = Len(s) -> <<>>
              [] i < Len(s) /\ s[i] = "ESC" /\ s[i + 1] # "[" -> from[i + 2, colour]
              [] OTHER -> LET params == ParamRun(s, i + 2)
                              j == i + 2 + Len(params) IN
                          IF j > Len(s) THEN <<>>
                          ELSE from[j + 1, IF s[j] = "m" THEN EndEscape(colour, params) ELSE colour]
    IN  from[1, Default]

(* Whatever pieces a text comes in, every character is shown once and in   *)
(* the colours of the sequences before it.                                 *)
ColoursAsWritten == con.out = Meaning(typed)

(* Unless a tab went past the end of a line, the cursor is on the panel    *)
(* and nothing was ever printed at it or behind it since the last scroll,  *)
(* so no glyph overwrites another, and none is drawn outside of the frame. *)
CursorAtEndOfText ==
    ~con.past =>
        /\ ~con.outside /\ con.line \in 0..Lines - 1 /\ con.cursor \in 0..Columns - 1
        /\ \A l \in con.line..Lines - 1, c \in 0..Columns - 1 :
               (l > con.line \/ c >= con.cursor) => con.cells[l][c] = " "

(* "Output is flushed on newline and when the 2 KiB internal buffer fills" *)
(* (userlib.h:31): what a program printed is shown or still in the buffer, *)
(* complete and in order, as long as it holds no percent sign, and the     *)
(* buffer keeps room for the terminator.                                   *)
PrintedIsShown ==
    /\ Len(prn.buf) < BufSize
    /\ (printed # <<>> /\ "%" \notin ToSet(printed)) =>
           [i \in 1..Len(con.out) |-> con.out[i][1]] \o prn.buf
               = [i \in 1..Len(Meaning(printed)) |-> Meaning(printed)[i][1]]

(* The panel shows what the kernel and the programs print: every character *)
(* once, in its colours, at a place of its own.                            *)
ConsoleShows == ColoursAsWritten /\ CursorAtEndOfText /\ PrintedIsShown
=============================================================================
