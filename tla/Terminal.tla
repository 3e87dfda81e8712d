------------------------------ MODULE Terminal ------------------------------
(***************************************************************************)
(* The text screen of FIFOS-1 and FIFOS-2, display.h: a window of VGA_HEIGHT *)
(* rows at the start of the video memory, and the place of the next         *)
(* character.  Every text of the two systems goes through                   *)
(* terminal_writestring, which ends a string with a new row and, unlike      *)
(* terminal_putchar, does not look whether there is one.                     *)
(***************************************************************************)
EXTENDS Integers, Sequences, Sums

CONSTANTS
    VGA_WIDTH, VGA_HEIGHT,
    Rows,           \* rows of the video memory
    Texts,          \* the strings the system prints: sequences of char
    MaxTexts        \* bound: strings printed

ASSUME TerminalAssumption ==
    /\ VGA_WIDTH \in Nat \ {0} /\ VGA_HEIGHT \in Nat \ {0}
    /\ Rows \in Nat /\ Rows >= VGA_HEIGHT
    /\ MaxTexts \in Nat
    /\ \A text \in Texts : text \in Seq(1 .. 127) /\ text # <<>>

VARIABLES
    terminal_row, terminal_column, terminal_color,
    terminal_buffer,    \* of each cell of the memory: character and colour
    data,               \* what is left of the string being written
    writing,            \* terminal_writestring is at work
    texts               \* history: the strings written so far

terminal == <<terminal_row, terminal_column, terminal_color, terminal_buffer,
              data, writing, texts>>

Cells == 0 .. VGA_WIDTH * Rows - 1
Window == 0 .. VGA_WIDTH * VGA_HEIGHT - 1

COLOR_BLACK == 0
COLOR_LIGHT_GREY == 7
Space == 32

make_color(fg, bg) == fg + bg * 16

\* The texts of the systems are ASCII, so that the character leaves the byte of the
\* colour alone.
make_vgaentry(c, color) == c + color * 256

\* The largest value of a cell.
UINT16_MAX == 65535

Grey == make_color(COLOR_LIGHT_GREY, COLOR_BLACK)

\* The cells below the window are what the boot loader left, here 0.
terminal_initialize ==
    /\ terminal_row = 0 /\ terminal_column = 0
    /\ terminal_color = Grey
    /\ terminal_buffer = [i \in Cells |-> IF i \in Window THEN make_vgaentry(Space, Grey) ELSE 0]
    /\ data = <<>> /\ writing = FALSE /\ texts = <<>>

\* The call.
WriteString(text) ==
    /\ ~writing /\ Len(texts) < MaxTexts
    /\ writing' = TRUE /\ data' = text
    /\ texts' = Append(texts, text)
    /\ UNCHANGED <<terminal_row, terminal_column, terminal_color, terminal_buffer>>

\* Mutant: a row has one column more.
Wraps_late == terminal_column + 1 > VGA_WIDTH
Wraps == terminal_column + 1 = VGA_WIDTH

PutChar ==
    /\ writing /\ data # <<>>
    /\ data' = Tail(data)
    /\ terminal_buffer' = [terminal_buffer EXCEPT
           ![terminal_row * VGA_WIDTH + terminal_column] = make_vgaentry(Head(data), terminal_color)]
    /\ IF Wraps
       THEN /\ terminal_column' = 0
            /\ terminal_row' = IF terminal_row + 1 = VGA_HEIGHT THEN 0 ELSE terminal_row + 1
       ELSE /\ terminal_column' = terminal_column + 1
            /\ UNCHANGED terminal_row
    /\ UNCHANGED <<terminal_color, writing, texts>>

\* Mutant: the next string starts below the end of this one.
NewRow_column_kept ==
    /\ writing /\ data = <<>>
    /\ terminal_row' = terminal_row + 1 /\ UNCHANGED terminal_column
    /\ writing' = FALSE
    /\ UNCHANGED <<terminal_color, terminal_buffer, data, texts>>

NewRow ==
    /\ writing /\ data = <<>>
    /\ terminal_row' = terminal_row + 1 /\ terminal_column' = 0
    /\ writing' = FALSE
    /\ UNCHANGED <<terminal_color, terminal_buffer, data, texts>>

TerminalNext == (\E text \in Texts : WriteString(text)) \/ PutChar \/ NewRow

-----------------------------------------------------------------------------

TerminalTypeOK ==
    /\ terminal_row \in 0 .. Rows /\ terminal_column \in 0 .. VGA_WIDTH - 1
    /\ terminal_color \in 0 .. 255 /\ terminal_buffer \in [Cells -> 0 .. UINT16_MAX]
    /\ data \in Seq(1 .. 127) /\ writing \in BOOLEAN
    /\ texts \in Seq(Texts)

\* The row on which the k-th text starts, each on a row of its own.
StartRow(k) == SumOf([j \in 1 .. k - 1 |-> (Len(texts[j]) \div VGA_WIDTH) + 1])

\* The screen that shows the texts one below the other.
Picture ==
    LET Shows(i, k) == i - StartRow(k) * VGA_WIDTH \in 0 .. Len(texts[k]) - 1
    IN  [i \in Cells |->
            IF \E k \in DOMAIN texts : Shows(i, k)
            THEN LET k == CHOOSE k \in DOMAIN texts : Shows(i, k)
                 IN  make_vgaentry(texts[k][i - StartRow(k) * VGA_WIDTH + 1], Grey)
            ELSE IF i \in Window THEN make_vgaentry(Space, Grey) ELSE 0]

\* As long as the texts fit into the window, the screen shows them all, one below the
\* other, and not a cell outside the window is written (display.h:78-98).
PictureRight ==
    ~writing /\ StartRow(Len(texts) + 1) <= VGA_HEIGHT =>
        /\ terminal_buffer = Picture
        /\ terminal_row = StartRow(Len(texts) + 1)
=============================================================================
