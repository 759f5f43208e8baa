---------------------------- MODULE VideoProofs ----------------------------
(***************************************************************************)
(* The console shows what was printed, for every size of the screen and    *)
(* whatever is printed and deleted.                                        *)
(***************************************************************************)
EXTENDS Video, TLAPS, WellFoundedInduction, SequenceTheorems

Size == Rows * Cols

(* The cells of the screen and of the video memory behind it hold what is  *)
(* on the tape, and nothing lies ahead of the cursor, neither in memory    *)
(* nor on the tape.                                                        *)
Recorded(s) ==
  /\ \A i \in BufferCells : i >= 0 => s.buffer[i] = OnTape(s, s.top * Cols + i)
  /\ \A i \in BufferCells : i >= At(s) => s.buffer[i] = BLANK
  /\ \A k \in Int : k >= Place(s) => OnTape(s, k) = BLANK

Fields(s) ==
  /\ s.buffer \in [BufferCells -> Cells]
  /\ s.x \in Int /\ s.y \in Int /\ s.top \in Nat
  /\ s.x < Cols
  /\ At(s) >= -Margin

(* Before scroll the cursor may be at the start of the row behind the      *)
(* screen.                                                                 *)
Loose(s) ==
  /\ Fields(s) /\ Recorded(s)
  /\ s.y \in 0 .. Rows /\ (s.y = Rows => s.x = 0)

Sound(s) ==
  /\ Fields(s) /\ Recorded(s)
  /\ s.y \in 0 .. Rows - 1

-----------------------------------------------------------------------------
(* Arithmetic of rows and columns.                                         *)

LEMMA Constants ==
  /\ Cols \in Nat /\ Cols > 0 /\ Rows \in Nat /\ Rows > 0 /\ Margin \in Nat
  /\ Size \in Nat /\ Size >= Cols
  /\ BufferCells = -Margin .. (Size + 3 * Cols) - 1
  /\ (Rows + 2) * Cols = Size + 2 * Cols
<1>1. Cols \in Nat /\ Cols > 0 /\ Rows \in Nat /\ Rows > 0 /\ Margin \in Nat
  BY VideoAssumption
<1>2. Size \in Nat /\ Size >= Cols
  BY <1>1 DEF Size
<1>3. (Rows + 3) * Cols = Size + 3 * Cols /\ (Rows + 2) * Cols = Size + 2 * Cols
  BY <1>1 DEF Size
<1> QED BY <1>1, <1>2, <1>3 DEF BufferCells

LEMMA RowFacts ==
  ASSUME NEW y \in 0 .. Rows
  PROVE  /\ y * Cols \in Nat /\ y * Cols <= Size
         /\ (y + 1) * Cols = y * Cols + Cols /\ (y - 1) * Cols = y * Cols - Cols
         /\ y <= Rows - 1 => y * Cols + Cols <= Size
         /\ y = Rows => y * Cols = Size
<1>1. Cols \in Nat /\ Cols > 0 /\ Rows \in Nat /\ y \in Nat /\ y <= Rows
  BY VideoAssumption
<1>2. (y + 1) * Cols = y * Cols + Cols /\ (y - 1) * Cols = y * Cols - Cols /\ y * Cols \in Nat
  BY <1>1
<1>3. ASSUME NEW z \in Nat, z <= Rows PROVE z * Cols <= Size
  BY <1>1, <1>3 DEF Size
<1>4. ASSUME y <= Rows - 1 PROVE y * Cols + Cols <= Size
  <2>1. y + 1 \in Nat /\ y + 1 <= Rows
    BY <1>1, <1>4
  <2>2. (y + 1) * Cols <= Size
    BY <2>1, <1>3
  <2> QED BY <2>2, <1>2
<1> QED BY <1>1, <1>2, <1>3, <1>4 DEF Size

(* Where the cursor is. *)
LEMMA CursorFacts ==
  ASSUME NEW s, s.x \in Int, s.y \in 0 .. Rows, s.top \in Nat, s.x < Cols
  PROVE  /\ At(s) \in Int /\ s.top * Cols \in Nat /\ Place(s) = s.top * Cols + At(s)
         /\ Place(s) \in Int
         /\ s.y <= Rows - 1 => At(s) < Size
         /\ s.y = Rows /\ s.x = 0 => At(s) = Size
<1> DEFINE r == s.y * Cols
           t == s.top * Cols
<1>1. /\ r \in Nat /\ r <= Size /\ (s.y <= Rows - 1 => r + Cols <= Size)
      /\ (s.y = Rows => r = Size)
  BY RowFacts
<1>2. t \in Nat /\ Cols \in Nat /\ Size \in Nat
  BY Constants
<1>3. At(s) = r + s.x /\ Place(s) = t + At(s)
  BY DEF At, Place
<1> HIDE DEF r
<1>4. At(s) \in Int /\ (s.y <= Rows - 1 => At(s) < Size) /\ (s.y = Rows /\ s.x = 0 => At(s) = Size)
  BY <1>1, <1>2, <1>3
<1> QED BY <1>2, <1>3, <1>4

-----------------------------------------------------------------------------
(* scroll.                                                                 *)

LEMMA ScrollOK ==
  ASSUME NEW s, Loose(s)
  PROVE  /\ Sound(scroll(s))
         /\ Place(scroll(s)) = Place(s)
         /\ \A k : OnTape(scroll(s), k) = OnTape(s, k)
<1>1. CASE s.y <= Rows - 1
  <2>1. scroll(s) = s
    BY <1>1 DEF scroll
  <2>2. s.y \in 0 .. Rows - 1
    BY <1>1 DEF Loose
  <2> QED BY <2>1, <2>2 DEF Loose, Sound
<1>2. CASE ~(s.y <= Rows - 1)
  <2> DEFINE r == Scrolled(s, Rows + 2)
             t == s.top * Cols
  <2>0. scroll(s) = r
    BY <1>2 DEF scroll
  <2>1. /\ s.buffer \in [BufferCells -> Cells] /\ s.x \in Int /\ s.top \in Nat
        /\ s.y = Rows /\ s.y \in 0 .. Rows /\ s.x = 0 /\ s.x < Cols /\ Recorded(s)
    BY <1>2, Constants DEF Loose, Fields
  <2>2. /\ r.x = 0 /\ r.y = Rows - 1 /\ r.top = s.top + 1 /\ r.tape = s.tape
        /\ r.buffer = [i \in BufferCells |->
             IF i \in 0 .. (Size + 2 * Cols) - 1 THEN s.buffer[i + Cols] ELSE s.buffer[i]]
    <3>1. (Rows + 2) * Cols - 1 = (Size + 2 * Cols) - 1
      BY Constants
    <3>2. r = [buffer |-> [i \in BufferCells |->
                 IF i \in 0 .. (Size + 2 * Cols) - 1 THEN s.buffer[i + Cols] ELSE s.buffer[i]],
               x |-> s.x, y |-> s.y - 1, top |-> s.top + 1, tape |-> s.tape]
      BY <3>1, Zenon DEF Scrolled
    <3> HIDE DEF r
    <3> QED BY <3>2, <2>1
  <2> HIDE DEF r
  <2>3. At(s) = Size /\ t \in Nat /\ Place(s) = t + Size
    BY <2>1, CursorFacts, Constants
  <2>4. (s.top + 1) * Cols = t + Cols
    BY <2>1, Constants
  <2>5. At(r) = Size - Cols /\ Place(r) = Place(s)
    <3>1. At(r) = Size - Cols
      <4>1. (Rows - 1) * Cols = Size - Cols
        BY Constants DEF Size
      <4> QED BY <4>1, <2>2, Constants DEF At
    <3>2. Place(r) = (t + Cols) + At(r)
      BY <2>2, <2>4 DEF Place
    <3> HIDE DEF t
    <3> QED BY <3>1, <3>2, <2>3, Constants
  <2>6. \A k : OnTape(r, k) = OnTape(s, k)
    BY <2>2 DEF OnTape
  <2> HIDE DEF t
  <2>7. \A i \in BufferCells :
          /\ i \in Int
          /\ r.buffer[i] = IF i >= 0 /\ i < Size + 2 * Cols THEN s.buffer[i + Cols] ELSE s.buffer[i]
          /\ i >= 0 /\ i < Size + 2 * Cols => i + Cols \in BufferCells
    BY <2>2, Constants
  <2>8. r.buffer \in [BufferCells -> Cells]
    BY <2>1, <2>2, <2>7
  <2>9. ASSUME NEW i \in BufferCells, i >= 0 PROVE r.buffer[i] = OnTape(r, r.top * Cols + i)
    <3>1. r.top * Cols + i = t + (i + Cols) /\ i \in Int
      BY <2>2, <2>3, <2>4, <2>7, Constants
    <3>2. CASE i < Size + 2 * Cols
      <4>1. i + Cols \in BufferCells /\ i + Cols >= 0 /\ r.buffer[i] = s.buffer[i + Cols]
        BY <3>2, <2>7, <2>9, Constants
      <4>2. s.buffer[i + Cols] = OnTape(s, t + (i + Cols))
        BY <4>1, <2>1 DEF Recorded, t
      <4> QED BY <4>1, <4>2, <3>1, <2>6
    <3>3. CASE ~(i < Size + 2 * Cols)
      <4>1. r.buffer[i] = s.buffer[i] /\ i >= Size
        BY <3>3, <2>7, Constants
      <4>2. r.buffer[i] = BLANK
        BY <4>1, <2>1, <2>3 DEF Recorded
      <4>3. t + (i + Cols) \in Int /\ t + (i + Cols) >= Place(s)
        BY <4>1, <3>1, <2>3, Constants
      <4>4. OnTape(s, t + (i + Cols)) = BLANK
        BY <4>3, <2>1 DEF Recorded
      <4> QED BY <4>2, <4>4, <3>1, <2>6
    <3> QED BY <3>2, <3>3
  <2>10. ASSUME NEW i \in BufferCells, i >= At(r) PROVE r.buffer[i] = BLANK
    <3>1. i \in Int /\ i >= Size - Cols /\ i >= 0
      BY <2>5, <2>7, <2>10, Constants
    <3>2. \E j \in BufferCells : j >= Size /\ r.buffer[i] = s.buffer[j]
      <4>1. CASE i < Size + 2 * Cols
        <5>1. i + Cols \in BufferCells /\ i + Cols >= Size /\ r.buffer[i] = s.buffer[i + Cols]
          BY <4>1, <3>1, <2>7, Constants
        <5> QED BY <5>1
      <4>2. CASE ~(i < Size + 2 * Cols)
        <5>1. i >= Size /\ r.buffer[i] = s.buffer[i]
          BY <4>2, <3>1, <2>7, Constants
        <5> QED BY <5>1
      <4> QED BY <4>1, <4>2
    <3> QED BY <3>2, <2>1, <2>3 DEF Recorded
  <2>11. Recorded(r)
    <3>1. \A k \in Int : k >= Place(r) => OnTape(r, k) = BLANK
      BY <2>1, <2>5, <2>6 DEF Recorded
    <3> QED BY <3>1, <2>9, <2>10 DEF Recorded
  <2>12. Fields(r) /\ r.y \in 0 .. Rows - 1
    BY <2>1, <2>2, <2>5, <2>8, Constants DEF Fields
  <2> QED BY <2>0, <2>5, <2>6, <2>11, <2>12 DEF Sound
<1> QED BY <1>1, <1>2

-----------------------------------------------------------------------------
(* kputch.                                                                 *)

(* n is s with c written at the cell i, and the cursor moved to cell to. *)
Written(s, n, i, c, to) ==
  /\ n.buffer = [s.buffer EXCEPT ![i] = c]
  /\ n.top = s.top
  /\ n.tape = [k \in DOMAIN s.tape \cup {s.top * Cols + i} |->
                 IF k = s.top * Cols + i THEN c ELSE s.tape[k]]
  /\ At(n) = to

LEMMA WrittenTape ==
  ASSUME NEW s, NEW n, NEW i, NEW c, NEW to, Written(s, n, i, c, to)
  PROVE  \A k : OnTape(n, k) = IF k = s.top * Cols + i THEN c ELSE OnTape(s, k)
<1> DEFINE p == s.top * Cols + i
<1>1. n.tape = [k \in DOMAIN s.tape \cup {p} |-> IF k = p THEN c ELSE s.tape[k]]
  BY DEF Written
<1> HIDE DEF p
<1>2. \A k : OnTape(n, k) = IF k = p THEN c ELSE OnTape(s, k)
  BY <1>1 DEF OnTape
<1> QED BY <1>2 DEF p

(* Writing keeps the screen and the tape alike as long as nothing is       *)
(* written ahead of the new place of the cursor.                           *)
LEMMA WrittenOK ==
  ASSUME NEW s, Sound(s), NEW n, NEW i \in BufferCells, NEW c \in Cells, NEW to \in Int,
         Written(s, n, i, c, to), to >= -Margin,
         \/ i = At(s) /\ to = At(s) + 1
         \/ i = At(s) - 1 /\ to = At(s) - 1 /\ c = BLANK,
         n.x \in Int, n.x < Cols, n.y \in 0 .. Rows, n.y = Rows => n.x = 0
  PROVE  /\ Loose(n) /\ Place(n) = s.top * Cols + to
         /\ \A k : OnTape(n, k) = IF k = s.top * Cols + i THEN c ELSE OnTape(s, k)
<1> DEFINE t == s.top * Cols
           a == At(s)
<1>1. /\ s.buffer \in [BufferCells -> Cells] /\ s.x \in Int /\ s.top \in Nat /\ s.x < Cols
      /\ s.y \in 0 .. Rows - 1 /\ s.y \in 0 .. Rows /\ Recorded(s)
  BY Constants DEF Sound, Fields
<1>2. a \in Int /\ t \in Nat /\ Place(s) = t + a
  BY <1>1, CursorFacts
<1>3. n.buffer = [s.buffer EXCEPT ![i] = c] /\ n.top = s.top /\ At(n) = to
  BY DEF Written
<1>4. Place(n) = t + to
  BY <1>3 DEF Place
<1>5. \A k : OnTape(n, k) = IF k = t + i THEN c ELSE OnTape(s, k)
  BY WrittenTape
<1>6. /\ n.buffer \in [BufferCells -> Cells]
      /\ \A j \in BufferCells : n.buffer[j] = IF j = i THEN c ELSE s.buffer[j]
  BY <1>1, <1>3
<1>7. \A j \in BufferCells : j \in Int
  BY DEF BufferCells
<1>8. \/ i = a /\ to = a + 1
      \/ i = a - 1 /\ to = a - 1 /\ c = BLANK
  OBVIOUS
<1>9. /\ \A j \in BufferCells : j >= 0 => s.buffer[j] = OnTape(s, t + j)
      /\ \A j \in BufferCells : j >= a => s.buffer[j] = BLANK
      /\ \A k \in Int : k >= t + a => OnTape(s, k) = BLANK
  BY <1>1, <1>2 DEF Recorded
<1> HIDE DEF t, a
<1>10. ASSUME NEW j \in BufferCells, j >= 0 PROVE n.buffer[j] = OnTape(n, t + j)
  <2>1. CASE j = i
    BY <2>1, <1>5, <1>6
  <2>2. CASE j # i
    <3>1. t + j # t + i
      BY <2>2, <1>2, <1>7
    <3> QED BY <3>1, <2>2, <1>5, <1>6, <1>9, <1>10
  <2> QED BY <2>1, <2>2
<1>11. ASSUME NEW j \in BufferCells, j >= to PROVE n.buffer[j] = BLANK
  <2>1. CASE i = a /\ to = a + 1
    <3>1. j # i /\ j >= a
      BY <2>1, <1>2, <1>7, <1>11
    <3> QED BY <3>1, <1>6, <1>9
  <2>2. CASE i = a - 1 /\ to = a - 1 /\ c = BLANK
    <3>1. j = i \/ j >= a
      BY <2>2, <1>2, <1>7, <1>11
    <3> QED BY <3>1, <2>2, <1>6, <1>9
  <2> QED BY <2>1, <2>2, <1>8
<1>12. ASSUME NEW k \in Int, k >= t + to PROVE OnTape(n, k) = BLANK
  <2>1. CASE i = a /\ to = a + 1
    <3>1. k # t + i /\ k >= t + a
      BY <2>1, <1>2, <1>7, <1>12
    <3> QED BY <3>1, <1>5, <1>9
  <2>2. CASE i = a - 1 /\ to = a - 1 /\ c = BLANK
    <3>1. k = t + i \/ k >= t + a
      BY <2>2, <1>2, <1>7, <1>12
    <3> QED BY <3>1, <2>2, <1>5, <1>9
  <2> QED BY <2>1, <2>2, <1>8
<1>13. Recorded(n)
  BY <1>3, <1>4, <1>10, <1>11, <1>12 DEF Recorded, t
<1>14. Fields(n)
  BY <1>1, <1>3, <1>6 DEF Fields
<1> QED BY <1>4, <1>5, <1>13, <1>14 DEF Loose, t

LEMMA PrintableOK ==
  ASSUME NEW s, Sound(s), NEW c \in Nat
  PROVE  /\ Sound(Printable(s, c)) /\ Place(Printable(s, c)) = Place(s) + 1
         /\ \A k : OnTape(Printable(s, c), k) = IF k = Place(s) THEN c ELSE OnTape(s, k)
<1> DEFINE a == At(s)
           next == Store(s, a, c)
           n == IF s.x + 1 >= Cols THEN MoveTo(next, 0, s.y + 1) ELSE MoveTo(next, s.x + 1, s.y)
           y2 == IF s.x + 1 >= Cols THEN s.y + 1 ELSE s.y
           x2 == IF s.x + 1 >= Cols THEN 0 ELSE s.x + 1
<1>0. Printable(s, c) = scroll(n)
  BY Zenon DEF Printable
<1>1. /\ s.x \in Int /\ s.top \in Nat /\ s.x < Cols /\ a >= -Margin
      /\ s.y \in 0 .. Rows - 1 /\ s.y \in 0 .. Rows
  BY Constants DEF Sound, Fields
<1>2. a \in Int /\ s.top * Cols \in Nat /\ Place(s) = s.top * Cols + a /\ a < Size
  BY <1>1, CursorFacts, Constants
<1>3. a \in BufferCells
  BY <1>1, <1>2, Constants
<1>4. /\ next.buffer = [s.buffer EXCEPT ![a] = c] /\ next.top = s.top
      /\ next.tape = [k \in DOMAIN s.tape \cup {s.top * Cols + a} |->
                        IF k = s.top * Cols + a THEN c ELSE s.tape[k]]
  BY DEF Store
<1> HIDE DEF next
<1>5. n.buffer = next.buffer /\ n.top = next.top /\ n.tape = next.tape /\ n.x = x2 /\ n.y = y2
  <2>1. CASE s.x + 1 >= Cols
    BY <2>1 DEF MoveTo
  <2>2. CASE ~(s.x + 1 >= Cols)
    BY <2>2 DEF MoveTo
  <2> QED BY <2>1, <2>2
<1>6. x2 \in Int /\ x2 < Cols /\ y2 \in 0 .. Rows /\ (y2 = Rows => x2 = 0)
  BY <1>1, Constants
<1>7. y2 * Cols + x2 = a + 1
  <2> DEFINE r == s.y * Cols
  <2>1. r \in Nat /\ (s.y + 1) * Cols = r + Cols /\ a = r + s.x
    BY <1>1, RowFacts DEF At
  <2>2. CASE s.x + 1 >= Cols
    <3>1. s.x = Cols - 1 /\ y2 = s.y + 1 /\ x2 = 0
      BY <2>2, <1>1, Constants
    <3> HIDE DEF r, a
    <3>2. y2 * Cols = r + Cols
      BY <3>1, <2>1
    <3> QED BY <3>1, <3>2, <2>1, <1>1, Constants
  <2>3. CASE ~(s.x + 1 >= Cols)
    <3> DEFINE z == y2 * Cols
    <3>1. z = r /\ x2 = s.x + 1
      BY <2>3
    <3> HIDE DEF r, a, z, x2
    <3>2. z + x2 = a + 1
      BY <3>1, <2>1, <1>1
    <3> QED BY <3>2 DEF z
  <2> QED BY <2>2, <2>3
<1> HIDE DEF n, x2, y2, a
<1>8. Written(s, n, a, c, a + 1)
  <2>1. At(n) = a + 1
    BY <1>5, <1>7 DEF At
  <2> QED BY <2>1, <1>4, <1>5 DEF Written
<1>9. a + 1 \in Int /\ a + 1 >= -Margin /\ c \in Cells /\ a = At(s)
  BY <1>1, <1>2, Constants DEF Cells, a
<1>10. /\ Loose(n) /\ Place(n) = s.top * Cols + (a + 1)
       /\ \A k : OnTape(n, k) = IF k = s.top * Cols + a THEN c ELSE OnTape(s, k)
  BY <1>3, <1>5, <1>6, <1>8, <1>9, WrittenOK
<1>11. /\ Sound(scroll(n)) /\ Place(scroll(n)) = Place(n)
       /\ \A k : OnTape(scroll(n), k) = OnTape(n, k)
  BY <1>10, ScrollOK
<1>12. Place(n) = Place(s) + 1
  BY <1>2, <1>10
<1> QED BY <1>0, <1>2, <1>10, <1>11, <1>12

LEMMA NewlineOK ==
  ASSUME NEW s, Sound(s)
  PROVE  Sound(Newline(s))
<1> DEFINE n == MoveTo(s, 0, s.y + 1)
           r == s.y * Cols
           t == s.top * Cols
<1>1. /\ s.buffer \in [BufferCells -> Cells] /\ s.x \in Int /\ s.top \in Nat /\ s.x < Cols
      /\ At(s) >= -Margin /\ s.y \in 0 .. Rows - 1 /\ s.y \in 0 .. Rows /\ Recorded(s)
  BY Constants DEF Sound, Fields
<1>2. n.buffer = s.buffer /\ n.x = 0 /\ n.y = s.y + 1 /\ n.top = s.top /\ n.tape = s.tape
  BY DEF MoveTo
<1> HIDE DEF n
<1>3. r \in Nat /\ (s.y + 1) * Cols = r + Cols /\ At(s) = r + s.x /\ At(n) = (s.y + 1) * Cols + 0
  BY <1>1, <1>2, RowFacts DEF At
<1>4. At(s) \in Int /\ t \in Nat /\ Place(s) = t + At(s) /\ Place(n) = t + At(n)
  BY <1>1, <1>2, CursorFacts DEF Place
<1> HIDE DEF r, t
<1>5. At(n) \in Int /\ At(n) >= At(s) /\ At(n) >= -Margin
  <2>1. At(n) = r + Cols
    BY <1>3, Constants
  <2>2. r \in Nat /\ At(s) = r + s.x /\ s.x \in Int /\ s.x < Cols
    BY <1>1, <1>3
  <2>3. Cols \in Nat /\ Margin \in Nat
    BY Constants
  <2> QED BY <2>1, <2>2, <2>3
<1>6. Place(n) \in Int /\ Place(n) >= Place(s) /\ Place(s) \in Int
  BY <1>4, <1>5
<1>7. \A k : OnTape(n, k) = OnTape(s, k)
  BY <1>2 DEF OnTape
<1>8. Recorded(n)
  <2>1. \A i \in BufferCells : i >= At(n) => i >= At(s)
    BY <1>4, <1>5, Constants
  <2>2. \A k \in Int : k >= Place(n) => k >= Place(s)
    BY <1>6
  <2> QED BY <2>1, <2>2, <1>1, <1>2, <1>7 DEF Recorded
<1>9. Loose(n)
  BY <1>1, <1>2, <1>5, <1>8, Constants DEF Loose, Fields
<1>10. Newline(s) = scroll(n)
  BY DEF Newline, n
<1> QED BY <1>9, <1>10, ScrollOK

LEMMA BackspaceOK ==
  ASSUME NEW s, Sound(s), At(s) > -Margin
  PROVE  Sound(Backspace(s))
<1> DEFINE a == At(s)
           next == Store(s, a - 1, BLANK)
           n == MoveTo(next, s.x - 1, s.y)
           r == s.y * Cols
<1>1. /\ s.x \in Int /\ s.top \in Nat /\ s.x < Cols
      /\ s.y \in 0 .. Rows - 1 /\ s.y \in 0 .. Rows
  BY Constants DEF Sound, Fields
<1>2. a \in Int /\ a < Size /\ a > -Margin
  BY <1>1, CursorFacts, Constants
<1>3. a - 1 \in BufferCells
  BY <1>2, Constants
<1>4. /\ next.buffer = [s.buffer EXCEPT ![a - 1] = BLANK] /\ next.top = s.top
      /\ next.tape = [k \in DOMAIN s.tape \cup {s.top * Cols + (a - 1)} |->
                        IF k = s.top * Cols + (a - 1) THEN BLANK ELSE s.tape[k]]
  BY DEF Store
<1> HIDE DEF next
<1>5. n.buffer = next.buffer /\ n.top = next.top /\ n.tape = next.tape /\ n.x = s.x - 1 /\ n.y = s.y
  BY DEF MoveTo
<1>6. Backspace(s) = n
  BY DEF Backspace, next
<1> HIDE DEF n
<1>7. a = r + s.x /\ At(n) = r + (s.x - 1) /\ r \in Nat
  BY <1>1, <1>5, RowFacts DEF At
<1> HIDE DEF a, r
<1>8. At(n) = a - 1
  BY <1>1, <1>7
<1>9. Written(s, n, a - 1, BLANK, a - 1)
  BY <1>4, <1>5, <1>8 DEF Written
<1>10. /\ a - 1 \in Int /\ a - 1 >= -Margin /\ BLANK \in Cells /\ a = At(s)
       /\ n.x \in Int /\ n.x < Cols /\ n.y \in 0 .. Rows /\ n.y # Rows
  BY <1>1, <1>2, <1>5, Constants DEF Cells, a
<1>11. Loose(n)
  BY <1>3, <1>9, <1>10, WrittenOK
<1>12. Sound(n)
  BY <1>1, <1>5, <1>11 DEF Loose, Sound
<1> QED BY <1>6, <1>12

-----------------------------------------------------------------------------
(* kputs.                                                                  *)

LEMMA LeastElement ==
  ASSUME NEW S \in SUBSET Nat, S # {}
  PROVE  \E x \in S : \A y \in S : x <= y
<1>1. PICK x \in S : \A y \in S : ~(<<y, x>> \in OpToRel(<, Nat))
  BY NatLessThanWellFounded, WFMin, Zenon
<1>2. \A y \in S : x <= y
  <2>1. SUFFICES ASSUME NEW y \in S, ~(x <= y) PROVE FALSE
    OBVIOUS
  <2>2. y \in Nat /\ x \in Nat /\ y < x
    BY <2>1
  <2>3. <<y, x>> \in OpToRel(<, Nat)
    BY <2>2 DEF OpToRel
  <2> QED BY <2>3, <1>1
<1> QED BY <1>2

(* The loop of kputs, character by character. *)
PutRounds(g, s, str) ==
  /\ kputs(s, str) = g[Len(str)]
  /\ g[0] = s
  /\ \A k \in 1 .. Len(str) : g[k] = kputch(g[k - 1], str[k])

LEMMA KputsRounds ==
  ASSUME NEW s, NEW str, Len(str) \in Nat
  PROVE  \E g : PutRounds(g, s, str)
<1> DEFINE n == Len(str)
           Rec(f, x) == f = [k \in 0 .. x |-> IF k = 0 THEN s ELSE kputch(f[k - 1], str[k])]
           Missing == {x \in 0 .. n : ~ \E f : Rec(f, x)}
<1>0. n \in Nat
  OBVIOUS
<1> HIDE DEF n
<1>1. Missing = {}
  <2>1. SUFFICES ASSUME Missing # {} PROVE FALSE
    OBVIOUS
  <2>2. Missing \in SUBSET Nat
    BY <1>0
  <2>3. PICK x \in Missing : \A y \in Missing : x <= y
    <3> HIDE DEF Missing
    <3> QED BY <2>1, <2>2, LeastElement
  <2>4. x # 0
    <3>1. SUFFICES ASSUME x = 0 PROVE \E f : Rec(f, x)
      OBVIOUS
    <3>2. Rec([k \in 0 .. 0 |-> s], 0)
      OBVIOUS
    <3> QED BY <3>1, <3>2
  <2>5. x - 1 \in 0 .. n /\ x - 1 \notin Missing /\ x \in Nat
    <3>1. x \in 0 .. n
      OBVIOUS
    <3> HIDE DEF Missing
    <3> QED BY <3>1, <2>3, <2>4, <1>0
  <2>6. PICK f : Rec(f, x - 1)
    BY <2>5
  <2>7. \A k \in 0 .. x - 1 : f[k] = IF k = 0 THEN s ELSE kputch(f[k - 1], str[k])
    BY <2>6
  <2> DEFINE h == [k \in 0 .. x |-> IF k = x THEN kputch(f[x - 1], str[x]) ELSE f[k]]
  <2>8. ASSUME NEW k \in 0 .. x
        PROVE  h[k] = IF k = 0 THEN s ELSE kputch(h[k - 1], str[k])
    <3>1. CASE k = x
      <4>1. h[k] = kputch(f[x - 1], str[x]) /\ h[x - 1] = f[x - 1]
        BY <3>1, <2>4, <2>5
      <4> QED BY <4>1, <3>1, <2>4
    <3>2. CASE k # x
      <4>1. k \in 0 .. x - 1 /\ h[k] = f[k]
        BY <3>2, <2>5
      <4>2. k # 0 => h[k - 1] = f[k - 1]
        BY <4>1, <2>5
      <4> QED BY <4>1, <4>2, <2>7
    <3> QED BY <3>1, <3>2
  <2>9. Rec(h, x)
    <3>1. h = [k \in 0 .. x |-> h[k]]
      OBVIOUS
    <3> HIDE DEF h
    <3> QED BY <3>1, <2>8
  <2>10. \E ff : Rec(ff, x)
    <3> HIDE DEF h
    <3> QED BY <2>9
  <2> QED BY <2>3, <2>10
<1>2. \E f : Rec(f, n)
  BY <1>0, <1>1
<1> DEFINE g == CHOOSE f : Rec(f, n)
<1>3. Rec(g, n)
  BY <1>2, Zenon
<1>4. kputs(s, str) = g[n]
  BY Zenon DEF kputs, n
<1> HIDE DEF g
<1>5. \A k \in 0 .. n : g[k] = IF k = 0 THEN s ELSE kputch(g[k - 1], str[k])
  BY <1>3
<1>6. g[0] = s /\ \A k \in 1 .. n : g[k] = kputch(g[k - 1], str[k])
  BY <1>0, <1>5
<1> QED BY <1>4, <1>6 DEF PutRounds, n

LEMMA KputsOK ==
  ASSUME NEW s, Sound(s), NEW str \in Seq(Nat \cup {NEWLINE})
  PROVE  Sound(kputs(s, str))
<1> DEFINE n == Len(str)
           S == Nat \cup {NEWLINE}
<1>0. n \in Nat /\ \A k \in 1 .. n : str[k] \in S
  <2> HIDE DEF S
  <2> QED BY DEF S
<1>1. PICK g : PutRounds(g, s, str)
  BY <1>0, KputsRounds, Zenon
<1>2. /\ kputs(s, str) = g[n] /\ g[0] = s
      /\ \A k \in 1 .. n : g[k] = kputch(g[k - 1], str[k])
  BY <1>1 DEF PutRounds
<1> HIDE DEF n
<1> DEFINE Bad == {k \in 0 .. n : ~Sound(g[k])}
<1>3. Bad = {}
  <2>1. SUFFICES ASSUME Bad # {} PROVE FALSE
    OBVIOUS
  <2>2. Bad \in SUBSET Nat
    BY <1>0
  <2>3. PICK k \in Bad : \A y \in Bad : k <= y
    <3> HIDE DEF Bad
    <3> QED BY <2>1, <2>2, LeastElement
  <2>4. k # 0
    BY <1>2
  <2>5. k \in 1 .. n /\ k - 1 \in 0 .. n /\ k - 1 \notin Bad
    <3>1. k \in 0 .. n
      OBVIOUS
    <3> HIDE DEF Bad
    <3> QED BY <3>1, <2>3, <2>4, <1>0
  <2> DEFINE a == g[k - 1]
             c == str[k]
  <2>6. Sound(a) /\ g[k] = kputch(a, c) /\ c \in S
    BY <2>5, <1>0, <1>2
  <2> HIDE DEF a, c
  <2>7. Sound(g[k])
    <3>1. CASE c = NEWLINE
      BY <3>1, <2>6, NewlineOK DEF kputch
    <3>2. CASE c # NEWLINE
      <4>1. c \in Nat /\ c # BACKSPACE
        BY <3>2, <2>6 DEF NEWLINE, BACKSPACE
      <4> QED BY <3>2, <4>1, <2>6, PrintableOK DEF kputch
    <3> QED BY <3>1, <3>2
  <2> QED BY <2>3, <2>7
<1> QED BY <1>0, <1>2, <1>3

(* A string without newlines stands on the tape where it was printed,      *)
(* whatever rows it is wrapped into.                                       *)
LEMMA KputsOnTape ==
  ASSUME NEW s, Sound(s), NEW str \in Seq(Nat)
  PROVE  /\ Sound(kputs(s, str)) /\ Place(s) \in Int
         /\ Place(kputs(s, str)) = Place(s) + Len(str)
         /\ \A j \in 1 .. Len(str) : OnTape(kputs(s, str), Place(s) + j - 1) = str[j]
<1> DEFINE n == Len(str)
           p == Place(s)
<1>0. n \in Nat /\ \A k \in 1 .. n : str[k] \in Nat
  OBVIOUS
<1>p. p \in Int
  <2>1. s.x \in Int /\ s.y \in 0 .. Rows /\ s.top \in Nat /\ s.x < Cols
    BY Constants DEF Sound, Fields
  <2> QED BY <2>1, CursorFacts
<1>1. PICK g : PutRounds(g, s, str)
  BY <1>0, KputsRounds, Zenon
<1>2. /\ kputs(s, str) = g[n] /\ g[0] = s
      /\ \A k \in 1 .. n : g[k] = kputch(g[k - 1], str[k])
  BY <1>1 DEF PutRounds
<1>3. Place(g[0]) = p
  BY <1>2
<1> HIDE DEF n, p
<1> DEFINE Good(k) == /\ Sound(g[k]) /\ Place(g[k]) = p + k
                      /\ \A j \in 1 .. k : OnTape(g[k], p + j - 1) = str[j]
           Bad == {k \in 0 .. n : ~Good(k)}
<1>4. Bad = {}
  <2>1. SUFFICES ASSUME Bad # {} PROVE FALSE
    OBVIOUS
  <2>2. Bad \in SUBSET Nat
    BY <1>0
  <2>3. PICK k \in Bad : \A y \in Bad : k <= y
    <3> HIDE DEF Bad
    <3> QED BY <2>1, <2>2, LeastElement
  <2>4. k # 0
    <3>1. Good(0)
      BY <1>2, <1>3, <1>p
    <3> QED BY <3>1, <2>3
  <2>5. k \in 1 .. n /\ k - 1 \in 0 .. n /\ k - 1 \notin Bad
    <3>1. k \in 0 .. n
      OBVIOUS
    <3> HIDE DEF Bad
    <3> QED BY <3>1, <2>3, <2>4, <1>0
  <2> DEFINE a == g[k - 1]
             c == str[k]
  <2>6. /\ Sound(a) /\ Place(a) = p + (k - 1)
        /\ \A j \in 1 .. k - 1 : OnTape(a, p + j - 1) = str[j]
    BY <2>5
  <2>7. g[k] = kputch(a, c) /\ c \in Nat
    BY <2>5, <1>0, <1>2
  <2> HIDE DEF a, c
  <2>8. g[k] = Printable(a, c)
    BY <2>7 DEF kputch, NEWLINE, BACKSPACE
  <2>9. /\ Sound(g[k]) /\ Place(g[k]) = Place(a) + 1
        /\ \A i : OnTape(g[k], i) = IF i = Place(a) THEN c ELSE OnTape(a, i)
    <3>1. /\ Sound(Printable(a, c)) /\ Place(Printable(a, c)) = Place(a) + 1
          /\ \A i : OnTape(Printable(a, c), i) = IF i = Place(a) THEN c ELSE OnTape(a, i)
      BY <2>6, <2>7, PrintableOK, Zenon
    <3> QED BY <3>1, <2>8, Zenon
  <2>10. Place(g[k]) = p + k
    BY <2>5, <2>6, <2>9, <1>p
  <2>11. ASSUME NEW j \in 1 .. k PROVE OnTape(g[k], p + j - 1) = str[j]
    <3>1. CASE j = k
      <4>1. p + j - 1 = Place(a)
        BY <3>1, <2>5, <2>6, <1>p
      <4> QED BY <4>1, <3>1, <2>9 DEF c
    <3>2. CASE j # k
      <4>1. j \in 1 .. k - 1 /\ p + j - 1 # Place(a)
        BY <3>2, <2>5, <2>6, <1>p
      <4> QED BY <4>1, <2>6, <2>9
    <3> QED BY <3>1, <3>2
  <2>12. Good(k)
    BY <2>9, <2>10, <2>11
  <2> QED BY <2>3, <2>12
<1>5. Good(n)
  BY <1>0, <1>4
<1> QED BY <1>2, <1>5, <1>p DEF n, p

-----------------------------------------------------------------------------
(* kputn.                                                                  *)

LEMMA DivisionFacts ==
  ASSUME NEW b \in {10, 16}, NEW n \in Nat, n >= b
  PROVE  /\ n \div b \in Nat /\ n \div b < n /\ n \div b # 0
         /\ n % b \in Nat /\ n = (n \div b) * b + (n % b)
<1>1. CASE b = 10
  BY <1>1
<1>2. CASE b = 16
  BY <1>2
<1> QED BY <1>1, <1>2

(* The loop of kputn: the digits of every number up to the one printed. *)
DigitRounds(f, number, b) ==
  /\ Digits(number, b) = f[number]
  /\ \A n \in 0 .. number :
       f[n] = IF n < b THEN <<n>> ELSE Append(f[n \div b], n % b)

LEMMA KputnRounds ==
  ASSUME NEW number \in Nat, NEW b \in {10, 16}
  PROVE  \E f : DigitRounds(f, number, b)
<1> DEFINE Rec(f, x) == f = [n \in 0 .. x |-> IF n < b THEN <<n>> ELSE Append(f[n \div b], n % b)]
           Missing == {x \in 0 .. number : ~ \E f : Rec(f, x)}
<1>0. b \in Nat /\ b > 1
  OBVIOUS
<1>1. Missing = {}
  <2>1. SUFFICES ASSUME Missing # {} PROVE FALSE
    OBVIOUS
  <2>2. Missing \in SUBSET Nat
    OBVIOUS
  <2>3. PICK x \in Missing : \A y \in Missing : x <= y
    <3> HIDE DEF Missing
    <3> QED BY <2>1, <2>2, LeastElement
  <2>4. x # 0
    <3>1. SUFFICES ASSUME x = 0 PROVE \E f : Rec(f, x)
      OBVIOUS
    <3>2. Rec([k \in 0 .. 0 |-> <<k>>], 0)
      BY <1>0
    <3> QED BY <3>1, <3>2
  <2>5. x - 1 \in 0 .. number /\ x - 1 \notin Missing /\ x \in Nat
    <3>1. x \in 0 .. number
      OBVIOUS
    <3> HIDE DEF Missing
    <3> QED BY <3>1, <2>3, <2>4
  <2>6. PICK f : Rec(f, x - 1)
    BY <2>5
  <2>7. \A k \in 0 .. x - 1 : f[k] = IF k < b THEN <<k>> ELSE Append(f[k \div b], k % b)
    BY <2>6
  <2> DEFINE last == IF x < b THEN <<x>> ELSE Append(f[x \div b], x % b)
             h == [k \in 0 .. x |-> IF k = x THEN last ELSE f[k]]
  <2>h. h[x] = last /\ \A k \in 0 .. x - 1 : h[k] = f[k]
    <3> HIDE DEF last
    <3> QED BY <2>5
  <2>8. ASSUME NEW k \in 0 .. x
        PROVE  h[k] = IF k < b THEN <<k>> ELSE Append(h[k \div b], k % b)
    <3>1. ASSUME k >= b PROVE k \div b \in 0 .. x - 1
      <4>1. k \in Nat /\ k <= x
        BY <2>5
      <4>2. k \div b \in Nat /\ k \div b < k
        BY <4>1, <3>1, DivisionFacts, Zenon
      <4> DEFINE q == k \div b
      <4> HIDE DEF q
      <4>3. q \in Nat /\ q < k
        BY <4>2 DEF q
      <4>4. q \in 0 .. x - 1
        BY <4>1, <4>3, <2>5
      <4> QED BY <4>4 DEF q
    <3>2. k >= b => h[k \div b] = f[k \div b]
      <4> HIDE DEF h
      <4> QED BY <3>1, <2>h
    <3>3. k >= b \/ k < b
      BY <1>0, <2>5
    <3>4. ~(k >= b /\ k < b)
      BY <1>0, <2>5
    <3>5. CASE k = x
      <4>1. h[k] = IF k < b THEN <<k>> ELSE Append(f[k \div b], k % b)
        <5> HIDE DEF h
        <5> QED BY <2>h, <3>5, Zenon
      <4> HIDE DEF h
      <4> QED BY <4>1, <3>2, <3>3, <3>4, Zenon
    <3>6. CASE k # x
      <4>0. k \in 0 .. x - 1
        BY <3>6, <2>5
      <4>1. h[k] = IF k < b THEN <<k>> ELSE Append(f[k \div b], k % b)
        <5> HIDE DEF h
        <5> QED BY <4>0, <2>h, <2>7, Zenon
      <4> HIDE DEF h
      <4> QED BY <4>1, <3>2, <3>3, <3>4, Zenon
    <3> QED BY <3>5, <3>6
  <2>9. Rec(h, x)
    <3>1. h = [k \in 0 .. x |-> h[k]]
      OBVIOUS
    <3> HIDE DEF h
    <3> QED BY <3>1, <2>8
  <2>10. \E ff : Rec(ff, x)
    <3> HIDE DEF h
    <3> QED BY <2>9
  <2> QED BY <2>3, <2>10
<1>2. \E f : Rec(f, number)
  <2>1. number \in 0 .. number
    OBVIOUS
  <2> QED BY <2>1, <1>1, Zenon
<1> DEFINE g == CHOOSE f : Rec(f, number)
<1>3. Rec(g, number)
  BY <1>2, Zenon
<1>4. Digits(number, b) = g[number]
  BY Zenon DEF Digits
<1> HIDE DEF g
<1>5. \A n \in 0 .. number : g[n] = IF n < b THEN <<n>> ELSE Append(g[n \div b], n % b)
  BY <1>3
<1> QED BY <1>4, <1>5 DEF DigitRounds

(* Reading the digits of d from the left gives m. *)
Reads(h, d, b, m) ==
  /\ h[0] = 0 /\ h[Len(d)] = m
  /\ \A j \in 1 .. Len(d) : h[j] = h[j - 1] * b + d[j]

LEMMA ReadsAppend ==
  ASSUME NEW h, NEW d \in Seq(Nat), NEW b, NEW m, Reads(h, d, b, m), NEW c \in Nat
  PROVE  \E g : Reads(g, Append(d, c), b, m * b + c)
<1> DEFINE l == Len(d)
           v == m * b + c
           e == Append(d, c)
           g == [j \in 0 .. l + 1 |-> IF j = l + 1 THEN v ELSE h[j]]
<1>1. l \in Nat /\ Len(e) = l + 1 /\ e[l + 1] = c /\ \A j \in 1 .. l : e[j] = d[j]
  OBVIOUS
<1>2. h[0] = 0 /\ h[l] = m /\ \A j \in 1 .. l : h[j] = h[j - 1] * b + d[j]
  BY DEF Reads
<1>v. v = m * b + c
  OBVIOUS
<1> HIDE DEF l, e, v
<1>3. g[l + 1] = v /\ \A j \in 0 .. l : g[j] = h[j]
  BY <1>1
<1> HIDE DEF g
<1>4. g[0] = 0 /\ g[l] = m
  BY <1>1, <1>2, <1>3
<1>5. ASSUME NEW j \in 1 .. l + 1 PROVE g[j] = g[j - 1] * b + e[j]
  <2>1. CASE j = l + 1
    <3>1. j - 1 = l
      BY <2>1, <1>1
    <3> QED BY <3>1, <2>1, <1>1, <1>3, <1>4, <1>v, Zenon
  <2>2. CASE j # l + 1
    <3>1. j \in 1 .. l /\ j \in 0 .. l /\ j - 1 \in 0 .. l
      BY <2>2, <1>1
    <3> QED BY <3>1, <1>1, <1>2, <1>3, Zenon
  <2> QED BY <2>1, <2>2
<1>6. Reads(g, e, b, v)
  BY <1>1, <1>3, <1>4, <1>5, Zenon DEF Reads
<1> QED BY <1>6, Zenon DEF e, v

(* A number: its digits read back and do not begin with a needless zero. *)
Numeral(d, b, m) ==
  /\ d \in Seq(Nat) /\ Len(d) >= 1
  /\ d[1] = 0 => m = 0 /\ Len(d) = 1
  /\ \E h : Reads(h, d, b, m)

LEMMA DigitsOK ==
  ASSUME NEW number \in Nat, NEW b \in {10, 16}
  PROVE  Numeral(Digits(number, b), b, number)
<1>1. PICK f : DigitRounds(f, number, b)
  BY KputnRounds, Zenon
<1>2. /\ Digits(number, b) = f[number]
      /\ \A n \in 0 .. number :
           f[n] = IF n < b THEN <<n>> ELSE Append(f[n \div b], n % b)
  BY <1>1 DEF DigitRounds
<1>3. b \in Nat
  OBVIOUS
<1> DEFINE Bad == {n \in 0 .. number : ~Numeral(f[n], b, n)}
<1>4. Bad = {}
  <2>1. SUFFICES ASSUME Bad # {} PROVE FALSE
    OBVIOUS
  <2>2. Bad \in SUBSET Nat
    OBVIOUS
  <2>3. PICK n \in Bad : \A y \in Bad : n <= y
    <3> HIDE DEF Bad
    <3> QED BY <2>1, <2>2, LeastElement
  <2>4. n \in 0 .. number /\ n \in Nat
    OBVIOUS
  <2>5. CASE n < b
    <3>1. f[n] = <<n>>
      BY <2>4, <2>5, <1>2, Zenon
    <3> DEFINE d == <<n>>
               h == [j \in 0 .. 1 |-> IF j = 0 THEN 0 ELSE n]
    <3>2. d \in Seq(Nat) /\ Len(d) = 1 /\ d[1] = n
      BY <2>4
    <3>3. h[0] = 0 /\ h[1] = n
      BY <2>4
    <3> HIDE DEF d, h
    <3>4. n = 0 * b + n
      BY <2>4, <1>3
    <3>5. ASSUME NEW j \in 1 .. 1 PROVE h[j] = h[j - 1] * b + d[j]
      <4>1. j = 1 /\ j - 1 = 0
        OBVIOUS
      <4> QED BY <4>1, <3>2, <3>3, <3>4, Zenon
    <3>6. Reads(h, d, b, n)
      BY <3>2, <3>3, <3>5, Zenon DEF Reads
    <3>7. Len(d) >= 1
      BY <3>2
    <3>8. Numeral(d, b, n)
      BY <3>2, <3>6, <3>7, Zenon DEF Numeral
    <3> QED BY <3>1, <3>8, Zenon DEF d
  <2>6. CASE ~(n < b)
    <3> DEFINE q == n \div b
               c == n % b
               e == f[q]
    <3>1. f[n] = Append(e, c)
      BY <2>4, <2>6, <1>2, Zenon
    <3>2. q \in Nat /\ q < n /\ q # 0 /\ c \in Nat /\ n = q * b + c
      <4>1. n >= b
        BY <2>4, <2>6, <1>3
      <4> QED BY <4>1, <2>4, DivisionFacts, Zenon
    <3> HIDE DEF q, c
    <3>3. q \in 0 .. number /\ q \notin Bad
      <4> HIDE DEF Bad
      <4> QED BY <3>2, <2>3, <2>4
    <3>4. Numeral(e, b, q)
      BY <3>3
    <3> HIDE DEF e
    <3>5. e \in Seq(Nat) /\ Len(e) >= 1 /\ e[1] # 0
      BY <3>2, <3>4 DEF Numeral
    <3>6. PICK h : Reads(h, e, b, q)
      BY <3>4 DEF Numeral
    <3>7. \E g : Reads(g, Append(e, c), b, q * b + c)
      BY <3>2, <3>5, <3>6, ReadsAppend, Zenon
    <3>8. Append(e, c) \in Seq(Nat) /\ Len(Append(e, c)) >= 1 /\ Append(e, c)[1] # 0
      BY <3>2, <3>5
    <3>9. Numeral(Append(e, c), b, n)
      BY <3>2, <3>7, <3>8, Zenon DEF Numeral
    <3> QED BY <3>1, <3>9, Zenon
  <2> QED BY <2>5, <2>6
<1>5. number \in 0 .. number
  OBVIOUS
<1> QED BY <1>2, <1>4, <1>5, Zenon

(* A numeral on the tape is read back. *)
LEMMA ReadBackOK ==
  ASSUME NEW s, NEW b, NEW from \in Int, NEW d \in Seq(Nat), NEW m, NEW h,
         Reads(h, d, b, m), Place(s) = from + Len(d),
         \A j \in 1 .. Len(d) : OnTape(s, from + j - 1) = d[j]
  PROVE  ReadBack(s, b, from) = m
<1> DEFINE l == Len(d)
           Rec(v) == v = [k \in from .. from + l |->
                            IF k = from THEN 0 ELSE v[k - 1] * b + OnTape(s, k - 1)]
           u == [k \in from .. from + l |-> h[k - from]]
<1>1. l \in Nat /\ h[0] = 0 /\ h[l] = m
  BY DEF Reads
<1>2. \A j \in 1 .. l : h[j] = h[j - 1] * b + OnTape(s, from + j - 1)
  BY DEF Reads
<1>p. Place(s) = from + l
  OBVIOUS
<1> HIDE DEF l
<1>3. \A k \in from .. from + l : u[k] = h[k - from]
  OBVIOUS
<1>4. u = [k \in from .. from + l |-> u[k]]
  OBVIOUS
<1> HIDE DEF u
<1>5. ASSUME NEW k \in from .. from + l
      PROVE  u[k] = IF k = from THEN 0 ELSE u[k - 1] * b + OnTape(s, k - 1)
  <2>1. CASE k = from
    <3>1. k - from = 0
      BY <2>1
    <3> QED BY <3>1, <2>1, <1>1, <1>3
  <2>2. CASE k # from
    <3> DEFINE j == k - from
    <3>1. /\ j \in 1 .. l /\ k - 1 \in from .. from + l /\ (k - 1) - from = j - 1
          /\ from + j - 1 = k - 1
      BY <2>2, <1>1
    <3>2. u[k] = h[j] /\ u[k - 1] = h[j - 1]
      BY <3>1, <1>3
    <3> HIDE DEF j
    <3>3. h[j] = h[j - 1] * b + OnTape(s, k - 1)
      BY <3>1, <1>2, Zenon
    <3> QED BY <3>2, <3>3, <2>2, Zenon
  <2> QED BY <2>1, <2>2
<1>6. Rec(u)
  BY <1>4, <1>5
<1> DEFINE v == CHOOSE w : Rec(w)
<1>7. Rec(v)
  BY <1>6, Zenon
<1>8. ReadBack(s, b, from) = v[from + l]
  BY <1>p, Zenon DEF ReadBack
<1> HIDE DEF v
<1>9. \A k \in from .. from + l :
        v[k] = IF k = from THEN 0 ELSE v[k - 1] * b + OnTape(s, k - 1)
  BY <1>7
<1> DEFINE Bad == {j \in 0 .. l : v[from + j] # h[j]}
<1>10. Bad = {}
  <2>1. SUFFICES ASSUME Bad # {} PROVE FALSE
    OBVIOUS
  <2>2. Bad \in SUBSET Nat
    BY <1>1
  <2>3. PICK j \in Bad : \A y \in Bad : j <= y
    <3> HIDE DEF Bad
    <3> QED BY <2>1, <2>2, LeastElement
  <2>4. j \in 0 .. l /\ v[from + j] # h[j]
    OBVIOUS
  <2>5. j # 0
    <3>1. SUFFICES ASSUME j = 0 PROVE FALSE
      OBVIOUS
    <3>2. from + j = from /\ from \in from .. from + l
      BY <3>1, <1>1
    <3> QED BY <3>1, <3>2, <2>4, <1>1, <1>9
  <2>6. j - 1 \in 0 .. l /\ j - 1 \notin Bad /\ j \in 1 .. l
    <3> HIDE DEF Bad
    <3> QED BY <2>3, <2>4, <2>5, <1>1
  <2>7. v[from + (j - 1)] = h[j - 1]
    BY <2>6
  <2>8. /\ from + j \in from .. from + l /\ from + j # from
        /\ (from + j) - 1 = from + (j - 1) /\ from + j - 1 = (from + j) - 1
    BY <2>6, <1>1
  <2>9. v[from + j] = v[(from + j) - 1] * b + OnTape(s, (from + j) - 1)
    BY <2>8, <1>9, Zenon
  <2>10. v[from + j] = h[j - 1] * b + OnTape(s, from + j - 1)
    BY <2>7, <2>8, <2>9, Zenon
  <2>11. h[j] = h[j - 1] * b + OnTape(s, from + j - 1)
    BY <2>6, <1>2, Zenon
  <2> QED BY <2>4, <2>10, <2>11, Zenon
<1>11. l \in 0 .. l
  BY <1>1
<1> QED BY <1>1, <1>8, <1>10, <1>11, Zenon

-----------------------------------------------------------------------------
(* The steps.                                                              *)

(* Printing a number at a sound screen: it reads back. *)
LEMMA KputnOK ==
  ASSUME NEW s, Sound(s), NEW n \in Nat, NEW b \in {10, 16}
  PROVE  /\ Sound(kputs(s, Digits(n, b)))
         /\ Place(s) < Place(kputs(s, Digits(n, b)))
         /\ ReadBack(kputs(s, Digits(n, b)), b, Place(s)) = n
         /\ OnTape(kputs(s, Digits(n, b)), Place(s)) = 0
              => Place(kputs(s, Digits(n, b))) = Place(s) + 1
<1> DEFINE d == Digits(n, b)
           r == kputs(s, d)
           p == Place(s)
<1>1. Numeral(d, b, n)
  BY DigitsOK
<1> HIDE DEF d
<1>2. d \in Seq(Nat) /\ Len(d) >= 1 /\ (d[1] = 0 => Len(d) = 1)
  BY <1>1 DEF Numeral
<1>3. PICK h : Reads(h, d, b, n)
  BY <1>1 DEF Numeral
<1>4. /\ Sound(r) /\ p \in Int /\ Place(r) = p + Len(d)
      /\ \A j \in 1 .. Len(d) : OnTape(r, p + j - 1) = d[j]
  BY <1>2, KputsOnTape, Zenon
<1> HIDE DEF r, p
<1>5. ReadBack(r, b, p) = n
  BY <1>2, <1>3, <1>4, ReadBackOK, Zenon
<1>6. Len(d) \in Nat
  BY <1>2
<1>7. p < Place(r) /\ 1 \in 1 .. Len(d) /\ p + 1 - 1 = p
  BY <1>2, <1>4, <1>6
<1>8. OnTape(r, p) = d[1]
  BY <1>4, <1>7
<1>9. OnTape(r, p) = 0 => Place(r) = p + 1
  BY <1>2, <1>4, <1>8
<1>10. /\ Sound(r) /\ p < Place(r) /\ ReadBack(r, b, p) = n
       /\ OnTape(r, p) = 0 => Place(r) = p + 1
  BY <1>4, <1>5, <1>7, <1>9
<1> QED BY <1>10, Zenon DEF d, r, p

(* The inductive invariant. *)
VideoInv == Sound(screen) /\ NumberReadsBack

LEMMA InitOK == VideoInit => VideoInv
<1> SUFFICES ASSUME VideoInit PROVE VideoInv
  OBVIOUS
<1> DEFINE s == screen
<1>1. /\ s.buffer = [i \in BufferCells |-> BLANK] /\ s.x = 0 /\ s.y = 0 /\ s.top = 0
      /\ s.tape = <<>> /\ shown = <<>>
  BY DEF VideoInit
<1> HIDE DEF s
<1>2. DOMAIN s.tape = {}
  BY <1>1
<1>3. \A k : OnTape(s, k) = BLANK
  BY <1>2 DEF OnTape
<1>4. s.buffer \in [BufferCells -> Cells] /\ \A i \in BufferCells : s.buffer[i] = BLANK
  BY <1>1 DEF Cells
<1>5. At(s) = 0
  BY <1>1, Constants DEF At
<1>6. Recorded(s)
  BY <1>3, <1>4 DEF Recorded
<1>7. Fields(s) /\ s.y \in 0 .. Rows - 1
  BY <1>1, <1>4, <1>5, Constants DEF Fields
<1>8. Sound(s)
  BY <1>6, <1>7 DEF Sound
<1> QED BY <1>1, <1>8 DEF VideoInv, NumberReadsBack, s

LEMMA PutchOK ==
  ASSUME NEW s, Sound(s), At(s) > -Margin, NEW c \in Nat \cup {NEWLINE, BACKSPACE}
  PROVE  Sound(kputch(s, c))
<1>1. CASE c = NEWLINE
  BY <1>1, NewlineOK DEF kputch
<1>2. CASE c = BACKSPACE
  <2>1. c # NEWLINE
    BY <1>2 DEF NEWLINE, BACKSPACE
  <2> QED BY <1>2, <2>1, BackspaceOK DEF kputch
<1>3. CASE c \in Nat
  <2>1. c # NEWLINE /\ c # BACKSPACE
    BY <1>3 DEF NEWLINE, BACKSPACE
  <2> QED BY <1>3, <2>1, PrintableOK DEF kputch
<1> QED BY <1>1, <1>2, <1>3

LEMMA NextOK == VideoInv /\ [VideoNext]_videoVars => VideoInv'
<1> SUFFICES ASSUME VideoInv, [VideoNext]_videoVars PROVE VideoInv'
  OBVIOUS
<1>0. Sound(screen)
  BY DEF VideoInv
<1>1. ASSUME NEW c \in Chars, Putch(c) PROVE VideoInv'
  <2>1. c \in Nat \cup {NEWLINE, BACKSPACE}
    BY VideoAssumption
  <2>2. screen' = kputch(screen, c) /\ shown' = <<>> /\ At(screen) > -Margin
    BY <1>1 DEF Putch, Bounded
  <2>3. Sound(screen')
    BY <1>0, <2>1, <2>2, PutchOK, Zenon
  <2> QED BY <2>2, <2>3 DEF VideoInv, NumberReadsBack
<1>2. ASSUME NEW str \in Strings, Println(str) PROVE VideoInv'
  <2> DEFINE r == kputs(screen, str)
  <2>1. str \in Seq(Nat \cup {NEWLINE})
    BY VideoAssumption
  <2>2. screen' = kputch(r, NEWLINE) /\ shown' = <<>>
    BY <1>2 DEF Println
  <2>3. Sound(r)
    BY <1>0, <2>1, KputsOK, Zenon
  <2> HIDE DEF r
  <2>4. screen' = Newline(r)
    BY <2>2 DEF kputch
  <2>5. Sound(screen')
    BY <2>3, <2>4, NewlineOK
  <2> QED BY <2>2, <2>5 DEF VideoInv, NumberReadsBack
<1>3. ASSUME NEW n \in Numbers, NEW b \in {10, 16}, kputn(n, b) PROVE VideoInv'
  <2> DEFINE r == kputs(screen, Digits(n, b))
             p == Place(screen)
  <2>1. n \in Nat
    BY VideoAssumption
  <2>2. screen' = r /\ shown' = <<n, b, p>>
    BY <1>3 DEF kputn
  <2>3. /\ Sound(r) /\ p < Place(r) /\ ReadBack(r, b, p) = n
        /\ OnTape(r, p) = 0 => Place(r) = p + 1
    BY <1>0, <2>1, KputnOK, Zenon
  <2> HIDE DEF r, p
  <2>4. shown'[1] = n /\ shown'[2] = b /\ shown'[3] = p
    BY <2>2
  <2>5. NumberReadsBack'
    BY <2>2, <2>3, <2>4, Zenon DEF NumberReadsBack
  <2> QED BY <2>2, <2>3, <2>5 DEF VideoInv
<1>4. CASE UNCHANGED videoVars
  BY <1>4 DEF VideoInv, videoVars, Sound, Fields, Recorded, NumberReadsBack,
              ReadBack, OnTape, Place, At
<1> QED BY <1>1, <1>2, <1>3, <1>4 DEF VideoNext

(* Whatever is printed and deleted, the screen and the video memory behind *)
(* it hold what was printed, nothing lies ahead of the cursor, and a       *)
(* number just printed reads back.                                         *)
THEOREM ConsoleInvariant == VideoSpec => []VideoInv
<1> QED BY InitOK, NextOK, PTL DEF VideoSpec

(* The cursor of kputch never leaves its row or the screen to the right or *)
(* below, and every cell of the buffer holds a character.                  *)
THEOREM ConsoleTypes == VideoSpec => []VideoTypeOK
<1>1. VideoInv => VideoTypeOK
  BY DEF VideoInv, Sound, Fields, VideoTypeOK
<1> QED BY <1>1, ConsoleInvariant, PTL

(* The screen shows the last rows of what was printed, for every size of   *)
(* the screen, although the loop of scroll that clears the last row never  *)
(* runs.                                                                   *)
THEOREM ScreenShows == VideoSpec => []ScreenShowsTape
<1>1. VideoInv => ScreenShowsTape
  <2>1. ASSUME NEW i \in 0 .. Size - 1 PROVE i \in BufferCells /\ i >= 0
    BY Constants
  <2> QED BY <2>1 DEF VideoInv, Sound, Recorded, ScreenShowsTape, Size
<1> QED BY <1>1, ConsoleInvariant, PTL

(* Everything from the cursor to the end of the buffer is blank. *)
THEOREM AheadStaysBlank == VideoSpec => []NothingAhead
<1>1. VideoInv => NothingAhead
  BY DEF VideoInv, Sound, Recorded, NothingAhead
<1> QED BY <1>1, ConsoleInvariant, PTL

(* The digits of kputn, in whatever rows kputch wraps them, read back as   *)
(* the number that was printed, for every number and both bases.           *)
THEOREM NumbersReadBack == VideoSpec => []NumberReadsBack
<1>1. VideoInv => NumberReadsBack
  BY DEF VideoInv
<1> QED BY <1>1, ConsoleInvariant, PTL
=============================================================================
