------------------------------- MODULE Video -------------------------------
(***************************************************************************)
(* The text console of the kernel (hal.x86/video.c): a screen of Rows rows *)
(* of Cols characters (25 rows of 80) at the start of a larger video       *)
(* memory, a cursor (x, y), and the printing of characters, strings and    *)
(* numbers.  The colour of a character, which is always the same, is left  *)
(* out.  What the handlers and the boot print is printed with interrupts   *)
(* off.  The one exception is left out: an assertion that fails in the     *)
(* kmalloc of kernel_process itself (kassert, debug.c) prints with         *)
(* interrupts on, and its characters may mix with those of others.         *)
(*                                                                         *)
(* kprintf is modelled by what it calls, kputch, kputs and kputn in any    *)
(* order; the parsing of its format, which keeps no state, is not.         *)
(*                                                                         *)
(* The history variable tape records what was printed where, as if the     *)
(* screen had no end; top is the number of rows that have scrolled away.   *)
(***************************************************************************)
EXTENDS Integers, SequencesExt

CONSTANTS
  Cols, Rows,  \* size of the screen
  Chars,       \* the characters that are printed
  Strings,     \* the strings that are printed, as sequences of characters
  Numbers,     \* the numbers that are printed
  MaxTop,      \* bound on the number of rows that scroll away
  Margin       \* bound on the characters deleted before the screen

(* A character is a number: the 36 digits, others above. *)
BLANK     == -1
NEWLINE   == -2
BACKSPACE == -3
Cells == Nat \cup {BLANK}

(* The strings of the kernel hold no backspace. *)
ASSUME VideoAssumption ==
  /\ Cols \in Nat \ {0} /\ Rows \in Nat \ {0}
  /\ Chars \subseteq Nat \cup {NEWLINE, BACKSPACE}
  /\ Strings \subseteq Seq(Nat \cup {NEWLINE})
  /\ Numbers \subseteq Nat
  /\ MaxTop \in Nat /\ Margin \in Nat

VARIABLES
  screen,  \* buffer, x and y, and the history tape and top
  shown    \* history: the number just printed and where it starts

videoVars == <<screen, shown>>

BufferCells == -Margin .. (Rows + 3) * Cols - 1

(* The index of the cursor in the buffer and on the tape. *)
At(s)    == s.y * Cols + s.x
Place(s) == s.top * Cols + At(s)

-----------------------------------------------------------------------------

(* The cursor goes to column x of row y. *)
MoveTo(s, x, y) ==
  [buffer |-> s.buffer, x |-> x, y |-> y, top |-> s.top, tape |-> s.tape]

(* The screen after n rows have been copied over the ones before them. *)
Scrolled(s, n) ==
  [buffer |-> [i \in BufferCells |->
                 IF i \in 0 .. n * Cols - 1 THEN s.buffer[i + Cols] ELSE s.buffer[i]],
   x |-> s.x, y |-> s.y - 1, top |-> s.top + 1, tape |-> s.tape]

(* Mutated form: one row less is moved. *)
ScrollShort(s) == IF s.y <= Rows - 1 THEN s ELSE Scrolled(s, Rows - 1)

(* scroll: rows are moved up from two rows behind the end of the screen.   *)
(* The loop that clears the last row never runs, its index is already      *)
(* behind its bound.                                                       *)
scroll(s) == IF s.y <= Rows - 1 THEN s ELSE Scrolled(s, Rows + 2)

OnTape(s, k) == IF k \in DOMAIN s.tape THEN s.tape[k] ELSE BLANK

(* Writing c into the cell at index i of the buffer. *)
Store(s, i, c) ==
  [buffer |-> [s.buffer EXCEPT ![i] = c], x |-> s.x, y |-> s.y, top |-> s.top,
   tape   |-> [k \in DOMAIN s.tape \cup {s.top * Cols + i} |->
                 IF k = s.top * Cols + i THEN c ELSE s.tape[k]]]

Newline(s) == scroll(MoveTo(s, 0, s.y + 1))

(* Mutated form: the cursor goes back, the character stays. *)
BackspaceKeeping(s) == MoveTo(s, s.x - 1, s.y)

(* x is not compared with 0: at the start of a row the cursor goes to the  *)
(* end of the row before it, at the start of the screen before the screen. *)
Backspace(s) == MoveTo(Store(s, At(s) - 1, BLANK), s.x - 1, s.y)

(* Mutated form: the row is one character longer. *)
PrintableLate(s, c) ==
  LET next == Store(s, At(s), c)
  IN  scroll(IF s.x + 1 > Cols THEN MoveTo(next, 0, s.y + 1) ELSE MoveTo(next, s.x + 1, s.y))

Printable(s, c) ==
  LET next == Store(s, At(s), c)
  IN  scroll(IF s.x + 1 >= Cols THEN MoveTo(next, 0, s.y + 1) ELSE MoveTo(next, s.x + 1, s.y))

kputch(s, c) ==
  IF c = NEWLINE THEN Newline(s)
  ELSE IF c = BACKSPACE THEN Backspace(s)
  ELSE Printable(s, c)

kputs(s, str) ==
  LET put[k \in 0 .. Len(str)] == IF k = 0 THEN s ELSE kputch(put[k - 1], str[k])
  IN  put[Len(str)]

(* The digits kputn collects from the end of its buffer.  (Mutated form:   *)
(* the loop tests the number before the first digit.)                      *)
DigitsOfPositive(number, base) ==
  LET digits[n \in 0 .. number] ==
        IF n = 0 THEN <<>> ELSE Append(digits[n \div base], n % base)
  IN  digits[number]

Digits(number, base) ==
  LET digits[n \in 0 .. number] ==
        IF n < base THEN <<n>> ELSE Append(digits[n \div base], n % base)
  IN  digits[number]

-----------------------------------------------------------------------------

(* cls, the first thing init() does.  The video memory behind the screen   *)
(* is blank since the BIOS has set the text mode.                          *)
VideoInit ==
  /\ screen = [buffer |-> [i \in BufferCells |-> BLANK],
               x |-> 0, y |-> 0, top |-> 0,
               tape |-> <<>>]
  /\ shown = <<>>

Bounded == screen.top < MaxTop /\ At(screen) > -Margin

(* Syscall 1 (putch), or a character of kprintf. *)
Putch(c) ==
  /\ Bounded
  /\ screen' = kputch(screen, c)
  /\ shown' = <<>>

Println(str) ==
  /\ Bounded
  /\ screen' = kputch(kputs(screen, str), NEWLINE)
  /\ shown' = <<>>

(* kputn, for %d, %u and %ld (base 10), %x and %p (base 16) of kprintf. *)
kputn(n, base) ==
  /\ Bounded
  /\ screen' = kputs(screen, Digits(n, base))
  /\ shown' = <<n, base, Place(screen)>>

VideoNext ==
  \/ \E c \in Chars : Putch(c)
  \/ \E str \in Strings : Println(str)
  \/ \E n \in Numbers, base \in {10, 16} : kputn(n, base)

VideoSpec == VideoInit /\ [][VideoNext]_videoVars

-----------------------------------------------------------------------------

(* Type invariant: whatever is printed and deleted, the cursor is never    *)
(* behind a row or behind the screen.                                      *)
VideoTypeOK ==
  /\ screen.buffer \in [BufferCells -> Cells]
  /\ screen.x < Cols
  /\ screen.y \in 0 .. Rows - 1
  /\ At(screen) >= -Margin

(* The screen shows the last rows of what was printed, through any number  *)
(* of wraps, deletions and scrolls.                                        *)
ScreenShowsTape ==
  \A i \in 0 .. Rows * Cols - 1 :
    screen.buffer[i] = OnTape(screen, screen.top * Cols + i)

(* Everything from the cursor on is blank, the video memory behind the     *)
(* screen that scroll moves into it included, so that the loop of scroll   *)
(* that never runs is not missed.                                          *)
NothingAhead ==
  \A i \in BufferCells : i >= At(screen) => screen.buffer[i] = BLANK

(* The number that stands in a base between a place and the cursor. *)
ReadBack(s, base, from) ==
  LET value[k \in from .. Place(s)] ==
        IF k = from THEN 0 ELSE value[k - 1] * base + OnTape(s, k - 1)
  IN  value[Place(s)]

(* A number just printed reads back from the screen: its digits stand      *)
(* between its start and the cursor, without a leading zero.               *)
NumberReadsBack ==
  shown # <<>> =>
    LET n == shown[1]
        base == shown[2]
        from == shown[3]
    IN  /\ from < Place(screen)
        /\ ReadBack(screen, base, from) = n
        /\ OnTape(screen, from) = 0 => Place(screen) = from + 1

=============================================================================
